----------------------------- MODULE BlockCache -----------------------------
(***************************************************************************)
(* The write-back buffer cache of drivers/block/blkdev.c over a disk with  *)
(* a volatile write cache.  cache_lock is held over a whole read, write or *)
(* sync_disk, so each is one step; the device's flush is another.  I/O may *)
(* fail, a failed write may or may not have reached the device, and power  *)
(* may fail at any time.                                                   *)
(***************************************************************************)
EXTENDS Integers, Sequences, FiniteSets

CONSTANTS Blocks, Halves,   \* blocks of the disk; parts of a block
          Vals,             \* contents of a part
          Zero,             \* the content of a new disk, a member of Vals
          max_bufs,         \* size of the cache
          Syncers,          \* threads that call fsync
          FLUSH_INTERVAL,   \* age at which the flusher writes a block back
          POLL              \* distance of the flusher's rounds

ASSUME CacheAssumption ==
    /\ max_bufs \in Nat \ {0} /\ Zero \in Vals
    /\ FLUSH_INTERVAL \in Nat \ {0} /\ POLL \in Nat \ {0}

Contents == [Halves -> Vals]

VARIABLES
    buf,      \* the cached blocks: data, valid, dirty, age since dirtied_at, and
              \* the time held since the block was clean or its write-back failed
    lru,      \* cached blocks, most recently used first
    dev,      \* what the device would return, its write cache included
    platter,  \* what survives a power failure
    phase,    \* time to the flusher's next round
    spc, err,  \* where each fsync is, and the error of its sync_disk
    mem,      \* what the last successful writes left in each block
    hist,     \* contents each block had since the last successful fsync
    since,    \* contents each block had since the sync_disk of a running fsync
    usage     \* fixed: "sync", whole blocks are written, fsync is called and power
              \* fails, or "parts", parts of blocks are written

cache_vars == <<buf, lru, dev, platter, phase, spc, err, mem, hist, since, usage>>

MaxAge == FLUSH_INTERVAL + POLL + 1   \* bound: ages beyond are alike

CacheInit ==
    /\ buf = [b \in {} |-> <<>>] /\ lru = <<>>
    /\ dev = [b \in Blocks |-> [h \in Halves |-> Zero]] /\ platter = dev /\ mem = dev
    /\ phase = POLL
    /\ spc = [t \in Syncers |-> "out"] /\ err = [t \in Syncers |-> FALSE]
    /\ hist = [b \in Blocks |-> {mem[b]}] /\ since = [t \in Syncers |-> hist]
    /\ usage \in {"sync", "parts"}

\* The cache, the device and the success of an operation in its course.
Cache(b, l, d, r) == [buf |-> b, lru |-> l, dev |-> d, ok |-> r]

\* disk_io: a failed write may have reached the device.
DevWrites(b) ==
    LET written == [dev EXCEPT ![b] = buf[b].data]
    IN  {[dev |-> written, ok |-> TRUE], [dev |-> written, ok |-> FALSE], [dev |-> dev, ok |-> FALSE]}

\* writeback: the block is clean once the device has taken it.
Clean(e) == [e EXCEPT !.dirty = FALSE]

\* writeback: the possible outcomes.
writeback(b) ==
    IF buf[b].dirty
      THEN {Cache(IF w.ok THEN [buf EXCEPT ![b] = Clean(@)] ELSE buf, lru, w.dev, w.ok) :
              w \in DevWrites(b)}
      ELSE {Cache(buf, lru, dev, TRUE)}

\* getblk: a buffer taken for another block; d is what its page holds.
NewBuf(d) == [data |-> d, valid |-> FALSE, dirty |-> FALSE, age |-> 0, held |-> 0]

\* list_del, list_add: the k-th entry, now for block b, becomes the first.
ToFront(l, k, b) ==
    [j \in 1 .. Len(l) |-> IF j = 1 THEN b ELSE IF j <= k THEN l[j - 1] ELSE l[j]]

\* getblk: make room by recycling the least recently used buffer.
Recycled(b) ==
    LET v == lru[Len(lru)]
        Take(w) == Cache([x \in (DOMAIN buf \ {v}) \cup {b} |->
                            IF x = b THEN NewBuf(w.buf[v].data) ELSE w.buf[x]],
                         ToFront(lru, Len(lru), b), w.dev, TRUE)
    IN  {IF w.ok THEN Take(w) ELSE w : w \in writeback(v)}

\* getblk: find or make the buffer of b; a new one needs memory.
Found(b) ==
    IF b \in DOMAIN buf
      THEN {Cache(buf, ToFront(lru, k, b), dev, TRUE) : k \in {k \in 1 .. Len(lru) : lru[k] = b}}
    ELSE IF Cardinality(DOMAIN buf) >= max_bufs
      THEN Recycled(b)
    ELSE {Cache([x \in DOMAIN buf \cup {b} |->
                   IF x = b THEN NewBuf([h \in Halves |-> Zero]) ELSE buf[x]],
                <<b>> \o lru, dev, TRUE),
          Cache(buf, lru, dev, FALSE)}

\* getblk: the buffer once the device has delivered d.
ReadIn(e, d) == [e EXCEPT !.data = d, !.valid = TRUE]

\* getblk: read the block unless it is valid or about to be overwritten.
Filled(c, b, read) ==
    IF c.ok /\ read /\ ~c.buf[b].valid
      THEN {Cache([c.buf EXCEPT ![b] = ReadIn(@, c.dev[b])], c.lru, c.dev, TRUE),
            Cache(c.buf, c.lru, c.dev, FALSE)}
      ELSE {c}

getblk(b, read) == UNION {Filled(c, b, read) : c \in Found(b)}

Become(c) == buf' = c.buf /\ lru' = c.lru /\ dev' = c.dev

\* cached_rw, one block of a read.
bdev_read(b) ==
    /\ \E c \in getblk(b, TRUE) : Become(c)
    /\ UNCHANGED <<platter, phase, spc, err, mem, hist, since>>

\* Mutant: every write restarts the age of the block.
DirtiedAgain(e, d) == [e EXCEPT !.data = d, !.valid = TRUE, !.dirty = TRUE, !.age = 0,
                                !.held = IF e.dirty THEN @ ELSE 0]
\* cached_rw: a block keeps the age of its first unwritten change.
Dirtied(e, d) == [e EXCEPT !.data = d, !.valid = TRUE, !.dirty = TRUE,
                           !.age = IF e.dirty THEN @ ELSE 0, !.held = IF e.dirty THEN @ ELSE 0]

\* Mutant: a partial write does not read the block first.
NeedsOldNever(H) == FALSE
\* cached_rw: "a full-block overwrite does not need the old contents".
NeedsOld(H) == H # Halves

\* cached_rw: memcpy of v into the parts H of d.
Put(d, H, v) == [h \in Halves |-> IF h \in H THEN v ELSE d[h]]

\* cached_rw, one block of a write that covers the parts H.
bdev_write(b, H, v) ==
    /\ \E c \in getblk(b, NeedsOld(H)) :
         IF c.ok
           THEN /\ Become(Cache([c.buf EXCEPT ![b] = Dirtied(@, Put(@.data, H, v))],
                                c.lru, c.dev, TRUE))
                /\ mem' = [mem EXCEPT ![b] = Put(@, H, v)]
                /\ hist' = IF usage = "parts" THEN hist
                           ELSE [hist EXCEPT ![b] = @ \cup {mem'[b]}]
                /\ since' = [t \in Syncers |-> IF spc[t] = "flush"
                               THEN [since[t] EXCEPT ![b] = @ \cup {mem'[b]}] ELSE since[t]]
           ELSE Become(c) /\ UNCHANGED <<mem, hist, since>>
    /\ UNCHANGED <<platter, phase, spc, err>>

\* A failed write-back: the block stays dirty.
Retried(e) == [e EXCEPT !.held = 0]

\* sync_disk on the dirty blocks D: those in F fail, T of which reached the disk.
sync_disk(D, F, T) ==
    /\ dev' = [b \in Blocks |-> IF b \in (D \ F) \cup T THEN buf[b].data ELSE dev[b]]
    /\ buf' = [b \in DOMAIN buf |-> IF b \in D \ F THEN Clean(buf[b])
                                   ELSE IF b \in F THEN Retried(buf[b]) ELSE buf[b]]
    /\ UNCHANGED lru

Dirty == {b \in DOMAIN buf : buf[b].dirty}

\* bdev_sync: write everything back ...
sync_begin(t) ==
    /\ spc[t] = "out" /\ usage = "sync"
    /\ \E F \in SUBSET Dirty : \E T \in SUBSET F :
         sync_disk(Dirty, F, T) /\ err' = [err EXCEPT ![t] = F # {}]
    /\ since' = [since EXCEPT ![t] = [b \in Blocks |-> {mem[b]}]]
    /\ spc' = [spc EXCEPT ![t] = "flush"]
    /\ UNCHANGED <<platter, phase, mem, hist>>

\* The device's flush.
Flushed == dev

\* Mutant: the error of the write-back is not reported.
SyncResultFlush(t) == TRUE
\* bdev_sync: success only if no step failed.
SyncResult(t) == ~err[t]

\* ... then flush the device's cache, and return.
sync_flush(t) ==
    /\ spc[t] = "flush"
    /\ platter' = Flushed
    /\ hist' = IF SyncResult(t) THEN since[t] ELSE hist
    /\ spc' = [spc EXCEPT ![t] = "out"]
    /\ err' = [err EXCEPT ![t] = FALSE]
    /\ since' = [since EXCEPT ![t] = [b \in Blocks |-> {}]]
    /\ UNCHANGED <<buf, lru, dev, phase, mem>>

sync_flush_fails(t) ==
    /\ spc[t] = "flush"
    /\ spc' = [spc EXCEPT ![t] = "out"]
    /\ err' = [err EXCEPT ![t] = FALSE]
    /\ since' = [since EXCEPT ![t] = [b \in Blocks |-> {}]]
    /\ UNCHANGED <<buf, lru, dev, platter, phase, mem, hist>>

\* The flusher's round, once a second: write back what is old enough.
flusher ==
    /\ phase = 0
    /\ LET Old == {b \in Dirty : buf[b].age >= FLUSH_INTERVAL}
       IN  \E F \in SUBSET Old : \E T \in SUBSET F : sync_disk(Old, F, T)
    /\ phase' = POLL
    /\ UNCHANGED <<platter, spc, err, mem, hist, since>>

\* A dirty buffer grows older.
Older(n) == IF n < MaxAge THEN n + 1 ELSE n
Aged(e) == IF e.dirty THEN [e EXCEPT !.age = Older(@), !.held = Older(@)] ELSE e

\* Time passes; the flusher is never late.
Tick ==
    /\ phase > 0
    /\ phase' = phase - 1
    /\ buf' = [b \in DOMAIN buf |-> Aged(buf[b])]
    /\ UNCHANGED <<lru, dev, platter, spc, err, mem, hist, since>>

\* The device moves a block from its write cache to the platter.
destage(b) ==
    /\ platter[b] # dev[b]
    /\ platter' = [platter EXCEPT ![b] = dev[b]]
    /\ UNCHANGED <<buf, lru, dev, phase, spc, err, mem, hist, since>>

\* Power failure and restart.
crash ==
    /\ buf' = [b \in {} |-> <<>>] /\ lru' = <<>>
    /\ dev' = platter /\ mem' = platter
    /\ phase' = POLL
    /\ spc' = [t \in Syncers |-> "out"] /\ err' = [t \in Syncers |-> FALSE]
    /\ hist' = [b \in Blocks |-> {platter[b]}]
    /\ since' = [t \in Syncers |-> [b \in Blocks |-> {}]]
    /\ UNCHANGED platter

CacheNext ==
    /\ UNCHANGED usage
    /\ \/ \E b \in Blocks : bdev_read(b)
       \/ \E b \in Blocks, H \in (SUBSET Halves) \ {{}}, v \in Vals :
            (usage = "sync" => H = Halves) /\ bdev_write(b, H, v)
       \/ \E t \in Syncers : sync_begin(t) \/ sync_flush(t) \/ sync_flush_fails(t)
       \/ flusher \/ Tick
       \/ usage = "sync" /\ (crash \/ \E b \in Blocks : destage(b))

-----------------------------------------------------------------------------
\* A read returns what was last written, whatever was evicted, written back,
\* read again or failed in between: a valid buffer holds it, and where there is
\* no valid buffer, or a clean one, so does the device.  The cache keeps to its
\* size.
Coherent ==
    /\ Cardinality(DOMAIN buf) <= max_bufs /\ {lru[i] : i \in DOMAIN lru} = DOMAIN buf
    /\ \A b \in Blocks :
        IF b \in DOMAIN buf /\ buf[b].valid
          THEN buf[b].data = mem[b] /\ (~buf[b].dirty => dev[b] = mem[b])
          ELSE dev[b] = mem[b]

\* "fsync also flushes the device's volatile write cache" (blkdev.c): after a
\* power failure every block has the contents of the last successful fsync or
\* of a later write.
Durable == usage = "sync" => \A b \in Blocks : platter[b] \in hist[b]

\* No block stays dirty for longer than the interval and one round of the flusher
\* without the flusher trying to write it back, however often it is rewritten.
AgedOut == \A b \in Dirty : buf[b].held <= FLUSH_INTERVAL + POLL
=============================================================================
