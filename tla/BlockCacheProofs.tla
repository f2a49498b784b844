-------------------------- MODULE BlockCacheProofs --------------------------
(***************************************************************************)
(* Proofs about the buffer cache: reads are coherent, fsync is durable and *)
(* no dirty block is forgotten, for every number of blocks, buffers and    *)
(* fsync callers, every block layout and every flusher period.             *)
(*                                                                         *)
(* The invariant has four parts.  Linked: the LRU list links exactly the   *)
(* cached blocks, once each.  Truthful: what a read returns is what was    *)
(* last written.  Watched: a dirty block's time and the time to the next   *)
(* round of the flusher stay within the bound.  Remembered: the device and *)
(* the platter hold nothing older than the last successful fsync, and      *)
(* nothing older than the start of a running fsync that had no error.      *)
(***************************************************************************)
EXTENDS Storage, ListTheorems, FiniteSetTheorems

\* Leaves that name no prover go to Zenon; those that need arithmetic, records
\* or function updates name SMT.  They name Z3 too: tlapm allows itself 5 seconds
\* to encode a leaf, overruns them now and then, and then tries the next name.
USE ZenonT(40)

Buffers == [data : Contents, valid : BOOLEAN, dirty : BOOLEAN, age : Nat, held : Nat]

\* The buffers B are in use for the list l.
Linked(B, l) ==
    /\ DOMAIN B \subseteq Blocks /\ IsFiniteSet(DOMAIN B) /\ Cardinality(DOMAIN B) <= max_bufs
    /\ l \in Seq(Blocks) /\ Elems(l) = DOMAIN B /\ Distinct(l)

\* The buffers B over a device d hold the contents m.
TruthAt(B, d, m, b) ==
    IF b \in DOMAIN B /\ B[b].valid
      THEN B[b].data = m[b] /\ (~B[b].dirty => d[b] = m[b])
      ELSE d[b] = m[b]
Truthful(B, d, m) == \A b \in Blocks : TruthAt(B, d, m, b)

\* The buffers are well-formed, and a dirty one is seen by the flusher in time.
Timely(e, p) ==
    /\ e \in Buffers
    /\ e.dirty => e.valid /\ e.held <= e.age /\ e.held + p <= FLUSH_INTERVAL + POLL
Watched(B, p) == \A b \in DOMAIN B : Timely(B[b], p)

Remembered ==
    usage = "sync" => \A b \in Blocks :
        /\ mem[b] \in hist[b] /\ dev[b] \in hist[b] /\ platter[b] \in hist[b]
        /\ \A t \in Syncers : spc[t] = "flush" /\ ~err[t] =>
               mem[b] \in since[t][b] /\ dev[b] \in since[t][b]

CacheTypeOK ==
    /\ dev \in [Blocks -> Contents] /\ platter \in [Blocks -> Contents]
    /\ mem \in [Blocks -> Contents]
    /\ phase \in 0 .. POLL
    /\ spc \in [Syncers -> {"out", "flush"}] /\ err \in [Syncers -> BOOLEAN]
    /\ hist \in [Blocks -> SUBSET Contents]
    /\ since \in [Syncers -> [Blocks -> SUBSET Contents]]
    /\ usage \in {"sync", "parts"} /\ \A t \in Syncers : usage = "parts" => spc[t] = "out"

CacheInv ==
    CacheTypeOK /\ Linked(buf, lru) /\ Truthful(buf, dev, mem) /\ Watched(buf, phase) /\ Remembered

-----------------------------------------------------------------------------
\* What the updates of a buffer do to it.
LEMMA CleanUpdate ==
  ASSUME NEW e \in Buffers
  PROVE  /\ Clean(e) \in Buffers /\ Clean(e).dirty = FALSE
         /\ Clean(e).data = e.data /\ Clean(e).valid = e.valid
<1>1. Clean(e) \in Buffers
  BY DEF Clean, Buffers
<1>2. Clean(e).dirty = FALSE
  BY DEF Clean, Buffers
<1>3. Clean(e).data = e.data
  BY DEF Clean, Buffers
<1>4. Clean(e).valid = e.valid
  BY DEF Clean, Buffers
<1>5. QED
  BY <1>1, <1>2, <1>3, <1>4

LEMMA ReadUpdate ==
  ASSUME NEW e \in Buffers, NEW d \in Contents
  PROVE  /\ ReadIn(e, d) \in Buffers /\ ReadIn(e, d).data = d /\ ReadIn(e, d).valid = TRUE
         /\ ReadIn(e, d).dirty = e.dirty
         /\ ReadIn(e, d).age = e.age /\ ReadIn(e, d).held = e.held
<1>1. ReadIn(e, d) \in Buffers
  BY DEF ReadIn, Buffers
<1>2. ReadIn(e, d).data = d
  BY DEF ReadIn, Buffers
<1>3. ReadIn(e, d).valid = TRUE
  BY DEF ReadIn, Buffers
<1>4. ReadIn(e, d).dirty = e.dirty
  BY DEF ReadIn, Buffers
<1>5. ReadIn(e, d).age = e.age /\ ReadIn(e, d).held = e.held
  BY DEF ReadIn, Buffers
<1>6. QED
  BY <1>1, <1>2, <1>3, <1>4, <1>5

LEMMA NewUpdate ==
  ASSUME NEW d \in Contents
  PROVE  NewBuf(d) \in Buffers /\ NewBuf(d).valid = FALSE /\ NewBuf(d).dirty = FALSE
  BY SMTT(60), Z3T(60) DEF NewBuf, Buffers

LEMMA DirtyUpdate ==
  ASSUME NEW e \in Buffers, NEW d \in Contents
  PROVE  /\ Dirtied(e, d) \in Buffers /\ Dirtied(e, d).data = d
         /\ Dirtied(e, d).valid = TRUE /\ Dirtied(e, d).dirty = TRUE
         /\ e.dirty => Dirtied(e, d).age = e.age /\ Dirtied(e, d).held = e.held
         /\ ~e.dirty => Dirtied(e, d).age = 0 /\ Dirtied(e, d).held = 0
<1>1. PICK a, h : /\ a = (IF e.dirty THEN e.age ELSE 0)
                  /\ h = (IF e.dirty THEN e.held ELSE 0)
  OBVIOUS
<1>2. 0 \in Nat
  BY SMTT(60), Z3T(60)
<1>3. e.age \in Nat /\ e.held \in Nat
  BY DEF Buffers
<1>4. a \in Nat /\ h \in Nat
  BY <1>1, <1>2, <1>3
<1>5. Dirtied(e, d) = [e EXCEPT !.data = d, !.valid = TRUE, !.dirty = TRUE, !.age = a, !.held = h]
  BY <1>1 DEF Dirtied
<1>6. Dirtied(e, d) \in Buffers
  BY <1>4, <1>5 DEF Buffers
<1>7. Dirtied(e, d).data = d
  BY <1>5 DEF Buffers
<1>8. Dirtied(e, d).valid = TRUE
  BY <1>5 DEF Buffers
<1>9. Dirtied(e, d).dirty = TRUE
  BY <1>5 DEF Buffers
<1>10. Dirtied(e, d).age = a /\ Dirtied(e, d).held = h
  BY <1>5 DEF Buffers
<1>11. QED
  BY <1>1, <1>6, <1>7, <1>8, <1>9, <1>10

LEMMA RetryUpdate ==
  ASSUME NEW e \in Buffers
  PROVE  /\ Retried(e) \in Buffers /\ Retried(e).data = e.data /\ Retried(e).held = 0
         /\ Retried(e).valid = e.valid /\ Retried(e).dirty = e.dirty /\ Retried(e).age = e.age
<1>1. Retried(e) \in Buffers
  BY SMTT(60), Z3T(60) DEF Retried, Buffers
<1>2. Retried(e).data = e.data /\ Retried(e).held = 0 /\ Retried(e).age = e.age
  BY DEF Retried, Buffers
<1>3. Retried(e).valid = e.valid
  BY DEF Retried, Buffers
<1>4. Retried(e).dirty = e.dirty
  BY DEF Retried, Buffers
<1>5. QED
  BY <1>1, <1>2, <1>3, <1>4

LEMMA AgeUpdate ==
  ASSUME NEW e \in Buffers
  PROVE  /\ Aged(e) \in Buffers /\ Aged(e).data = e.data
         /\ Aged(e).valid = e.valid /\ Aged(e).dirty = e.dirty
         /\ e.dirty => Aged(e).age = Older(e.age) /\ Aged(e).held = Older(e.held)
<1>1. \A n \in Nat : Older(n) \in Nat
  BY CacheAssumption, SMTT(60), Z3T(60) DEF Older, MaxAge
<1>2. e.age \in Nat /\ e.held \in Nat
  BY DEF Buffers
<1>3. PICK a \in Nat, h \in Nat : a = Older(e.age) /\ h = Older(e.held)
  BY <1>1, <1>2
<1>4. CASE e.dirty
  <2>1. Aged(e) = [e EXCEPT !.age = a, !.held = h]
    BY <1>3, <1>4 DEF Aged
  <2>2. Aged(e) \in Buffers
    BY <2>1 DEF Buffers
  <2>3. Aged(e).data = e.data /\ Aged(e).age = a /\ Aged(e).held = h
    BY <2>1 DEF Buffers
  <2>4. Aged(e).valid = e.valid
    BY <2>1 DEF Buffers
  <2>5. Aged(e).dirty = e.dirty
    BY <2>1 DEF Buffers
  <2>6. QED
    BY <1>3, <2>2, <2>3, <2>4, <2>5
<1>5. CASE ~e.dirty
  BY <1>5 DEF Aged
<1>6. QED
  BY <1>4, <1>5

\* list_del and list_add keep the LRU list a list without duplicates.
LEMMA ToFrontList ==
  ASSUME NEW T, NEW l \in Seq(T), NEW k \in 1 .. Len(l), NEW b \in T, Distinct(l),
         b \notin Elems(l) \ {l[k]}
  PROVE  /\ ToFront(l, k, b) \in Seq(T)
         /\ Elems(ToFront(l, k, b)) = (Elems(l) \ {l[k]}) \cup {b}
         /\ Distinct(ToFront(l, k, b))
<1> DEFINE n == Len(l)
           u == ToFront(l, k, b)
           f(j) == IF j <= k THEN j - 1 ELSE j   \* where the j-th entry was
<1>1. n \in Nat /\ DOMAIN l = 1 .. n /\ k \in 1 .. n /\ \A i \in 1 .. n : l[i] \in T
  BY SMTT(60), Z3T(60)
<1>2. \A j \in 1 .. n : j # 1 => f(j) \in 1 .. n /\ f(j) # k
  BY <1>1, SMTT(60), Z3T(60)
<1>3. \A i, j \in 1 .. n : i # 1 /\ j # 1 /\ f(i) = f(j) => i = j
  BY <1>1, SMTT(60), Z3T(60)
<1>4. \A i \in 1 .. n : i # k => \E j \in 1 .. n : j # 1 /\ f(j) = i
  <2> SUFFICES ASSUME NEW i \in 1 .. n, i # k PROVE \E j \in 1 .. n : j # 1 /\ f(j) = i
    OBVIOUS
  <2>1. CASE i < k
    <3>1. i + 1 \in 1 .. n /\ i + 1 # 1 /\ f(i + 1) = i
      BY <1>1, <2>1, SMTT(60), Z3T(60)
    <3>2. QED
      BY <3>1
  <2>2. CASE i > k
    <3>1. i \in 1 .. n /\ i # 1 /\ f(i) = i
      BY <1>1, <2>2, SMTT(60), Z3T(60)
    <3>2. QED
      BY <3>1
  <2>3. QED
    BY <1>1, <2>1, <2>2, SMTT(60), Z3T(60)
<1>5. \A j \in 1 .. n : u[j] = IF j = 1 THEN b ELSE l[f(j)]
  BY SMTT(60), Z3T(60) DEF ToFront
<1>6. DOMAIN u = 1 .. n
  BY SMTT(60), Z3T(60) DEF ToFront
<1>7. 1 \in 1 .. n
  BY <1>1, SMTT(60), Z3T(60)
<1>8. u = [j \in 1 .. n |-> u[j]]
  BY SMTT(60), Z3T(60) DEF ToFront
<1> HIDE DEF u, f, n
<1>9. \A j \in 1 .. n : j # 1 => l[f(j)] \in Elems(l) \ {l[k]}
  BY <1>1, <1>2 DEF Elems, Distinct
<1>10. u \in Seq(T)
  <2>1. \A j \in 1 .. n : u[j] \in T
    BY <1>1, <1>2, <1>5
  <2>2. u \in [1 .. n -> T]
    BY <1>8, <2>1
  <2>3. QED
    BY <1>1, <2>2, SMTT(60), Z3T(60)
<1>11. Elems(u) = (Elems(l) \ {l[k]}) \cup {b}
  <2>1. ASSUME NEW x \in Elems(u) PROVE x \in (Elems(l) \ {l[k]}) \cup {b}
    <3>1. PICK j \in 1 .. n : x = u[j]
      BY <1>6 DEF Elems
    <3>2. QED
      BY <1>5, <1>9, <3>1
  <2>2. b \in Elems(u)
    BY <1>5, <1>6, <1>7 DEF Elems
  <2>3. ASSUME NEW x \in Elems(l), x # l[k] PROVE x \in Elems(u)
    <3>1. PICK i \in 1 .. n : x = l[i]
      BY <1>1 DEF Elems
    <3>2. PICK j \in 1 .. n : j # 1 /\ f(j) = i
      BY <1>4, <2>3, <3>1
    <3>3. u[j] = x
      BY <1>5, <3>1, <3>2
    <3>4. QED
      BY <1>6, <3>3 DEF Elems
  <2>4. QED
    BY <2>1, <2>2, <2>3
<1>12. Distinct(u)
  <2> SUFFICES ASSUME NEW i \in 1 .. n, NEW j \in 1 .. n, u[i] = u[j] PROVE i = j
    BY <1>6 DEF Distinct
  <2>1. CASE i = 1 \/ j = 1
    <3>1. ASSUME NEW m \in 1 .. n, u[m] = u[1] PROVE m = 1
      <4>1. u[1] = b
        BY <1>5, <1>7
      <4>2. m # 1 => u[m] \in Elems(l) \ {l[k]}
        BY <1>5, <1>9
      <4>3. QED
        BY <3>1, <4>1, <4>2
    <3>2. QED
      BY <2>1, <3>1
  <2>2. CASE i # 1 /\ j # 1
    <3>1. f(i) \in DOMAIN l /\ f(j) \in DOMAIN l
      BY <1>1, <1>2, <2>2
    <3>2. l[f(i)] = l[f(j)]
      BY <1>5, <2>2
    <3>3. f(i) = f(j)
      BY <3>1, <3>2 DEF Distinct
    <3>4. QED
      BY <1>3, <2>2, <3>3
  <2>3. QED
    BY <2>1, <2>2
<1>13. QED
  BY <1>10, <1>11, <1>12 DEF u

-----------------------------------------------------------------------------
\* What an operation may leave behind besides the new contents of a block: the
\* device's copy of a block changes only to what was last written to it.
Outcome(c) ==
    /\ Linked(c.buf, c.lru) /\ Truthful(c.buf, c.dev, mem) /\ Watched(c.buf, phase)
    /\ c.dev \in [Blocks -> Contents]
    /\ \A x \in Blocks : c.dev[x] = dev[x] \/ c.dev[x] = mem[x]

\* A change of one block leaves what is true of the others.
LEMMA OneBlock ==
  ASSUME NEW A, NEW B, NEW d, NEW e, NEW m, NEW n, NEW b, Truthful(A, d, m),
         \A x \in Blocks : x # b => /\ x \in DOMAIN B <=> x \in DOMAIN A
                                    /\ x \in DOMAIN A => B[x] = A[x]
                                    /\ e[x] = d[x] /\ n[x] = m[x],
         TruthAt(B, e, n, b)
  PROVE  Truthful(B, e, n)
<1> SUFFICES ASSUME NEW x \in Blocks, x # b PROVE TruthAt(B, e, n, x)
  BY DEF Truthful
<1>1. TruthAt(A, d, m, x)
  BY DEF Truthful
<1>2. QED
  BY <1>1 DEF TruthAt

\* A buffer that is in use: the facts the operations need of it.
LEMMA InUse ==
  ASSUME CacheInv, NEW v \in DOMAIN buf
  PROVE  /\ v \in Blocks /\ buf[v] \in Buffers /\ buf[v].data \in Contents
         /\ Timely(buf[v], phase) /\ TruthAt(buf, dev, mem, v)
         /\ buf[v].dirty => buf[v].valid /\ buf[v].data = mem[v]
<1>1. v \in Blocks /\ Timely(buf[v], phase)
  BY DEF CacheInv, Linked, Watched
<1>2. TruthAt(buf, dev, mem, v)
  BY <1>1 DEF CacheInv, Truthful
<1>3. buf[v] \in Buffers /\ (buf[v].dirty => buf[v].valid)
  BY <1>1 DEF Timely
<1>4. buf[v].data \in Contents
  BY <1>3 DEF Buffers
<1>5. QED
  BY <1>1, <1>2, <1>3, <1>4 DEF TruthAt

LEMMA NothingDone ==
  ASSUME CacheInv, NEW c, c.buf = buf, c.lru = lru, c.dev = dev
  PROVE  Outcome(c)
  BY DEF Outcome, CacheInv, CacheTypeOK

\* writeback: the buffer is clean on success and untouched on failure.
LEMMA WritebackOutcome ==
  ASSUME CacheInv, NEW v \in DOMAIN buf, NEW w \in writeback(v)
  PROVE  /\ Outcome(w) /\ w.lru = lru /\ DOMAIN w.buf = DOMAIN buf
         /\ \A x \in DOMAIN buf : x # v => w.buf[x] = buf[x]
         /\ w.buf[v] \in Buffers /\ w.buf[v].data = buf[v].data
         /\ w.ok => ~w.buf[v].dirty
<1>1. CASE ~buf[v].dirty
  <2>1. w = Cache(buf, lru, dev, TRUE)
    BY <1>1 DEF writeback
  <2>2. w.buf = buf /\ w.lru = lru /\ w.dev = dev
    BY <2>1 DEF Cache
  <2>3. QED
    BY <1>1, <2>2, NothingDone, InUse
<1>2. CASE buf[v].dirty
  <2> DEFINE written == [dev EXCEPT ![v] = buf[v].data]
  <2>1. PICK o \in DevWrites(v) :
          w = Cache(IF o.ok THEN [buf EXCEPT ![v] = Clean(@)] ELSE buf, lru, o.dev, o.ok)
    BY <1>2 DEF writeback
  <2>2. o.dev \in {dev, written} /\ (o.ok => o.dev = written)
    <3>1. o \in {[dev |-> written, ok |-> TRUE], [dev |-> written, ok |-> FALSE],
                 [dev |-> dev, ok |-> FALSE]}
      BY DEF DevWrites
    <3> HIDE DEF written
    <3>2. QED
      BY <3>1, SMTT(60), Z3T(60)
  <2>3. dev \in [Blocks -> Contents] /\ v \in Blocks /\ buf[v].data \in Contents /\ buf[v].data = mem[v]
    BY <1>2, InUse DEF CacheInv, CacheTypeOK
  <2>4. written \in [Blocks -> Contents] /\ written[v] = mem[v] /\ \A x \in Blocks : x # v => written[x] = dev[x]
    BY <2>3
  <2> HIDE DEF written
  <2>5. /\ o.dev \in [Blocks -> Contents] /\ (o.ok => o.dev[v] = mem[v])
        /\ \A x \in Blocks : /\ o.dev[x] = dev[x] \/ o.dev[x] = mem[x]
                             /\ x # v => o.dev[x] = dev[x]
    BY <2>2, <2>3, <2>4
  <2> DEFINE B == [buf EXCEPT ![v] = Clean(@)]
             C == IF o.ok THEN B ELSE buf
  <2>6. DOMAIN B = DOMAIN buf /\ B[v] = Clean(buf[v]) /\ \A x \in DOMAIN buf : x # v => B[x] = buf[x]
    OBVIOUS
  <2> HIDE DEF B
  <2>7. /\ DOMAIN C = DOMAIN buf /\ \A x \in DOMAIN buf : x # v => C[x] = buf[x]
        /\ o.ok => C[v] = Clean(buf[v])
        /\ ~o.ok => C[v] = buf[v]
    BY <2>6
  <2>8. w.buf = C /\ w.lru = lru /\ w.dev = o.dev /\ w.ok = o.ok
    BY <2>1 DEF B, Cache
  <2> HIDE DEF C
  <2>9. /\ Clean(buf[v]) \in Buffers /\ Clean(buf[v]).dirty = FALSE
        /\ Clean(buf[v]).data = buf[v].data /\ Clean(buf[v]).valid = buf[v].valid
    BY InUse, CleanUpdate
  <2>10. C[v] \in Buffers /\ C[v].data = buf[v].data /\ (o.ok => ~C[v].dirty) /\ C[v].valid
    BY <1>2, <2>7, <2>9, InUse
  <2>11. Linked(C, lru)
    BY <2>7 DEF CacheInv, Linked
  <2>12. TruthAt(C, o.dev, mem, v)
    <3>1. C[v].data = mem[v] /\ (~C[v].dirty => o.ok)
      BY <1>2, <2>3, <2>7, <2>10
    <3>2. QED
      BY <2>5, <2>7, <2>10, <3>1 DEF TruthAt
  <2>13. Truthful(C, o.dev, mem)
    <3>1. Truthful(buf, dev, mem)
      BY DEF CacheInv
    <3>2. \A x \in Blocks : x # v => /\ x \in DOMAIN C <=> x \in DOMAIN buf
                                     /\ x \in DOMAIN buf => C[x] = buf[x]
                                     /\ o.dev[x] = dev[x] /\ mem[x] = mem[x]
      BY <2>5, <2>7
    <3>3. QED
      BY <2>12, <3>1, <3>2, OneBlock, SMTT(60), Z3T(60)
  <2>14. Timely(C[v], phase)
    BY <1>2, <2>7, <2>10, InUse DEF Timely
  <2>15. Watched(C, phase)
    BY <2>7, <2>14 DEF CacheInv, Watched
  <2>16. Outcome(w)
    BY <2>5, <2>8, <2>11, <2>13, <2>15 DEF Outcome
  <2>17. QED
    BY <2>7, <2>8, <2>10, <2>16
<1>3. QED
  BY <1>1, <1>2

\* The number of buffers.
LEMMA CountOneMore ==
  ASSUME NEW S, IsFiniteSet(S), NEW x, x \notin S, ~(Cardinality(S) >= max_bufs)
  PROVE  IsFiniteSet(S \cup {x}) /\ Cardinality(S \cup {x}) <= max_bufs
<1>1. IsFiniteSet(S \cup {x}) /\ Cardinality(S \cup {x}) = Cardinality(S) + 1
  BY FS_AddElement
<1>2. Cardinality(S) \in Nat
  BY FS_CardinalityType
<1>3. QED
  BY <1>1, <1>2, CacheAssumption, SMTT(60), Z3T(60)

LEMMA CountSwapped ==
  ASSUME NEW S, IsFiniteSet(S), NEW v \in S, NEW x, x \notin S, Cardinality(S) <= max_bufs
  PROVE  IsFiniteSet((S \ {v}) \cup {x}) /\ Cardinality((S \ {v}) \cup {x}) <= max_bufs
<1> DEFINE T == S \ {v}
<1>1. IsFiniteSet(T) /\ Cardinality(T) = Cardinality(S) - 1 /\ x \notin T
  BY FS_RemoveElement
<1> HIDE DEF T
<1>2. Cardinality(S) \in Nat
  BY FS_CardinalityType
<1>3. ~(Cardinality(T) >= max_bufs)
  BY <1>1, <1>2, CacheAssumption, SMTT(60), Z3T(60)
<1>4. IsFiniteSet(T \cup {x}) /\ Cardinality(T \cup {x}) <= max_bufs
  BY <1>1, <1>3, CountOneMore
<1>5. QED
  BY <1>4 DEF T

\* getblk: when the cache is full there is a last buffer on the LRU list.
LEMMA LastBuffer ==
  ASSUME CacheInv, Cardinality(DOMAIN buf) >= max_bufs
  PROVE  /\ Len(lru) \in 1 .. Len(lru) /\ lru[Len(lru)] \in DOMAIN buf
<1>1. lru \in Seq(Blocks) /\ Elems(lru) = DOMAIN buf
  BY DEF CacheInv, Linked
<1>2. Cardinality({}) = 0
  BY FS_EmptySet
<1>3. DOMAIN buf # {}
  <2> SUFFICES ASSUME DOMAIN buf = {} PROVE FALSE
    OBVIOUS
  <2>1. Cardinality(DOMAIN buf) = 0
    BY <1>2
  <2>2. QED
    BY <2>1, CacheAssumption, SMTT(60), Z3T(60)
<1>4. Len(lru) \in Nat /\ Len(lru) # 0
  BY <1>1, <1>3, EmptyList
<1>5. Len(lru) \in 1 .. Len(lru)
  BY <1>4, SMTT(60), Z3T(60)
<1>6. DOMAIN lru = 1 .. Len(lru)
  BY <1>1, SMTT(60), Z3T(60)
<1>7. lru[Len(lru)] \in Elems(lru)
  BY <1>5, <1>6 DEF Elems
<1>8. QED
  BY <1>1, <1>5, <1>7

\* getblk, the block is cached.
LEMMA HitOutcome ==
  ASSUME CacheInv, NEW b \in DOMAIN buf, NEW c \in Found(b)
  PROVE  Outcome(c) /\ b \in DOMAIN c.buf
<1>1. PICK k \in 1 .. Len(lru) : lru[k] = b /\ c = Cache(buf, ToFront(lru, k, b), dev, TRUE)
  BY DEF Found
<1>2. c.buf = buf /\ c.lru = ToFront(lru, k, b) /\ c.dev = dev
  BY <1>1 DEF Cache
<1>3. lru \in Seq(Blocks) /\ Elems(lru) = DOMAIN buf /\ Distinct(lru) /\ b \in Blocks
  BY DEF CacheInv, Linked
<1>0. b \notin Elems(lru) \ {lru[k]}
  BY <1>1
<1>4. /\ ToFront(lru, k, b) \in Seq(Blocks) /\ Distinct(ToFront(lru, k, b))
      /\ Elems(ToFront(lru, k, b)) = (Elems(lru) \ {lru[k]}) \cup {b}
  BY <1>0, <1>3, ToFrontList, SMTT(60), Z3T(60)
<1>5. Elems(ToFront(lru, k, b)) = DOMAIN buf
  BY <1>1, <1>3, <1>4
<1>6. Linked(buf, ToFront(lru, k, b))
  BY <1>4, <1>5 DEF CacheInv, Linked
<1>7. QED
  BY <1>2, <1>6 DEF Outcome, CacheInv, CacheTypeOK

\* getblk, the block is not cached and a buffer is free.
LEMMA RoomOutcome ==
  ASSUME CacheInv, NEW b \in Blocks, b \notin DOMAIN buf, ~(Cardinality(DOMAIN buf) >= max_bufs),
         NEW c \in Found(b)
  PROVE  Outcome(c) /\ (c.ok => b \in DOMAIN c.buf)
<1> DEFINE N == NewBuf([h \in Halves |-> Zero])
           B == [x \in DOMAIN buf \cup {b} |-> IF x = b THEN N ELSE buf[x]]
<1>1. c = Cache(B, <<b>> \o lru, dev, TRUE) \/ c = Cache(buf, lru, dev, FALSE)
  BY DEF Found
<1>2. CASE c = Cache(buf, lru, dev, FALSE)
  <2>1. c.buf = buf /\ c.lru = lru /\ c.dev = dev /\ ~c.ok
    BY <1>2 DEF Cache
  <2>2. QED
    BY <2>1, NothingDone
<1>3. CASE c = Cache(B, <<b>> \o lru, dev, TRUE)
  <2>1. c.buf = B /\ c.lru = <<b>> \o lru /\ c.dev = dev
    BY <1>3 DEF Cache
  <2>2. DOMAIN B = DOMAIN buf \cup {b} /\ B[b] = N /\ \A x \in DOMAIN buf : B[x] = buf[x]
    OBVIOUS
  <2>3. [h \in Halves |-> Zero] \in Contents
    BY CacheAssumption DEF Contents
  <2>4. N \in Buffers /\ N.valid = FALSE /\ N.dirty = FALSE
    BY <2>3, NewUpdate
  <2> HIDE DEF N, B
  <2>5. Timely(N, phase)
    BY <2>4 DEF Timely
  <2>6. Watched(B, phase)
    BY <2>2, <2>5 DEF CacheInv, Watched
  <2>7. TruthAt(B, dev, mem, b)
    <3>1. TruthAt(buf, dev, mem, b)
      BY DEF CacheInv, Truthful
    <3>2. QED
      BY <2>2, <2>4, <3>1 DEF TruthAt
  <2>8. Truthful(B, dev, mem)
    <3>1. Truthful(buf, dev, mem)
      BY DEF CacheInv
    <3>2. \A x \in Blocks : x # b => /\ x \in DOMAIN B <=> x \in DOMAIN buf
                                     /\ x \in DOMAIN buf => B[x] = buf[x]
                                     /\ dev[x] = dev[x] /\ mem[x] = mem[x]
      BY <2>2
    <3>3. QED
      BY <2>7, <3>1, <3>2, OneBlock, SMTT(60), Z3T(60)
  <2>9. Linked(B, <<b>> \o lru)
    <3>1. /\ lru \in Seq(Blocks) /\ Elems(lru) = DOMAIN buf /\ Distinct(lru)
          /\ IsFiniteSet(DOMAIN buf) /\ DOMAIN buf \subseteq Blocks
      BY DEF CacheInv, Linked
    <3>2. /\ <<b>> \o lru \in Seq(Blocks) /\ Distinct(<<b>> \o lru)
          /\ Elems(<<b>> \o lru) = Elems(lru) \cup {b}
      BY <3>1, ConsList
    <3>3. IsFiniteSet(DOMAIN B) /\ Cardinality(DOMAIN B) <= max_bufs
      BY <2>2, <3>1, CountOneMore
    <3>4. QED
      BY <2>2, <3>1, <3>2, <3>3 DEF Linked
  <2>10. Outcome(c)
    BY <2>1, <2>6, <2>8, <2>9 DEF Outcome, CacheInv, CacheTypeOK
  <2>11. QED
    BY <2>1, <2>2, <2>10
<1>4. QED
  BY <1>1, <1>2, <1>3

\* getblk, the least recently used buffer is recycled.
LEMMA RecycleOutcome ==
  ASSUME CacheInv, NEW b \in Blocks, b \notin DOMAIN buf, Cardinality(DOMAIN buf) >= max_bufs,
         NEW c \in Found(b)
  PROVE  Outcome(c) /\ (c.ok => b \in DOMAIN c.buf)
<1> DEFINE v == lru[Len(lru)]
           B(w) == [x \in (DOMAIN buf \ {v}) \cup {b} |->
                      IF x = b THEN NewBuf(w.buf[v].data) ELSE w.buf[x]]
           l == ToFront(lru, Len(lru), b)
<1>1. Len(lru) \in 1 .. Len(lru) /\ v \in DOMAIN buf
  BY LastBuffer
<1>2. PICK w \in writeback(v) : c = IF w.ok THEN Cache(B(w), l, w.dev, TRUE) ELSE w
  BY DEF Found, Recycled
<1> HIDE DEF v
<1>3. /\ Outcome(w) /\ w.lru = lru /\ DOMAIN w.buf = DOMAIN buf
      /\ \A x \in DOMAIN buf : x # v => w.buf[x] = buf[x]
      /\ w.buf[v] \in Buffers /\ (w.ok => ~w.buf[v].dirty)
  BY <1>1, WritebackOutcome
<1>4. CASE ~w.ok
  BY <1>2, <1>3, <1>4
<1>5. CASE w.ok
  <2> DEFINE N == NewBuf(w.buf[v].data)
             C == B(w)
  <2>1. c.buf = C /\ c.lru = l /\ c.dev = w.dev
    BY <1>2, <1>5 DEF Cache
  <2>2. /\ DOMAIN C = (DOMAIN buf \ {v}) \cup {b} /\ C[b] = N
        /\ \A x \in DOMAIN buf \ {v} : C[x] = w.buf[x]
    OBVIOUS
  <2>3. w.buf[v].data \in Contents
    BY <1>3 DEF Buffers
  <2>4. N \in Buffers /\ N.valid = FALSE /\ N.dirty = FALSE
    BY <2>3, NewUpdate
  <2> HIDE DEF N, C
  <2>5. Timely(N, phase)
    BY <2>4 DEF Timely
  <2>6. Watched(C, phase)
    BY <1>3, <2>2, <2>5 DEF Outcome, Watched
  <2>7. Truthful(C, w.dev, mem)
    <3> SUFFICES ASSUME NEW x \in Blocks PROVE TruthAt(C, w.dev, mem, x)
      BY DEF Truthful
    <3>1. TruthAt(w.buf, w.dev, mem, x)
      BY <1>3 DEF Outcome, Truthful
    <3>2. CASE x = b
      BY <1>3, <2>2, <2>4, <3>1, <3>2 DEF TruthAt
    <3>3. CASE x # b /\ x = v
      BY <1>1, <1>3, <1>5, <2>2, <3>1, <3>3 DEF TruthAt
    <3>4. CASE x # b /\ x # v
      BY <1>3, <2>2, <3>1, <3>4 DEF TruthAt
    <3>5. QED
      BY <3>2, <3>3, <3>4
  <2>8. Linked(C, l)
    <3>1. /\ lru \in Seq(Blocks) /\ Elems(lru) = DOMAIN buf /\ Distinct(lru)
          /\ IsFiniteSet(DOMAIN buf) /\ Cardinality(DOMAIN buf) <= max_bufs
          /\ DOMAIN buf \subseteq Blocks
      BY DEF CacheInv, Linked
    <3>2. b \notin Elems(lru) \ {lru[Len(lru)]}
      BY <3>1
    <3>3. /\ l \in Seq(Blocks) /\ Distinct(l)
          /\ Elems(l) = (Elems(lru) \ {lru[Len(lru)]}) \cup {b}
      BY <1>1, <3>1, <3>2, ToFrontList, SMTT(60), Z3T(60)
    <3>4. Elems(l) = (DOMAIN buf \ {v}) \cup {b}
      BY <3>1, <3>3 DEF v
    <3>5. IsFiniteSet(DOMAIN C) /\ Cardinality(DOMAIN C) <= max_bufs
      BY <1>1, <2>2, <3>1, CountSwapped, SMTT(60), Z3T(60)
    <3> HIDE DEF l
    <3>6. QED
      BY <2>2, <3>1, <3>3, <3>4, <3>5 DEF Linked
  <2>9. Outcome(c)
    BY <1>3, <2>1, <2>6, <2>7, <2>8 DEF Outcome
  <2>10. QED
    BY <2>1, <2>2, <2>9
<1>6. QED
  BY <1>4, <1>5

\* getblk: a buffer is returned for the block, valid if it was asked to read.
LEMMA GetblkOutcome ==
  ASSUME CacheInv, NEW b \in Blocks, NEW read \in BOOLEAN, NEW g \in getblk(b, read)
  PROVE  Outcome(g) /\ (g.ok => b \in DOMAIN g.buf /\ (read => g.buf[b].valid))
<1>1. PICK c \in Found(b) : g \in Filled(c, b, read)
  BY DEF getblk
<1>2. Outcome(c) /\ (c.ok => b \in DOMAIN c.buf)
  BY <1>1, HitOutcome, RoomOutcome, RecycleOutcome
<1>3. CASE ~(c.ok /\ read /\ ~c.buf[b].valid)
  <2>1. g = c
    BY <1>1, <1>3 DEF Filled
  <2>2. QED
    BY <1>2, <1>3, <2>1
<1>4. CASE c.ok /\ read /\ ~c.buf[b].valid
  <2> DEFINE C == [c.buf EXCEPT ![b] = ReadIn(@, c.dev[b])]
  <2>1. g = Cache(C, c.lru, c.dev, TRUE) \/ g = Cache(c.buf, c.lru, c.dev, FALSE)
    BY <1>1, <1>4 DEF Filled
  <2>2. CASE g = Cache(c.buf, c.lru, c.dev, FALSE)
    <3>1. g.buf = c.buf /\ g.lru = c.lru /\ g.dev = c.dev /\ ~g.ok
      BY <2>2 DEF Cache
    <3>2. QED
      BY <1>2, <3>1 DEF Outcome
  <2>3. CASE g = Cache(C, c.lru, c.dev, TRUE)
    <3>1. g.buf = C /\ g.lru = c.lru /\ g.dev = c.dev
      BY <2>3 DEF Cache
    <3>2. /\ DOMAIN C = DOMAIN c.buf /\ C[b] = ReadIn(c.buf[b], c.dev[b])
          /\ \A x \in DOMAIN c.buf : x # b => C[x] = c.buf[x]
      BY <1>2, <1>4
    <3> HIDE DEF C
    <3>3. c.buf[b] \in Buffers /\ c.dev[b] \in Contents /\ ~c.buf[b].dirty /\ c.dev[b] = mem[b]
      <4>1. Timely(c.buf[b], phase) /\ TruthAt(c.buf, c.dev, mem, b) /\ c.dev[b] \in Contents
        BY <1>2, <1>4 DEF Outcome, Watched, Truthful
      <4>2. QED
        BY <1>4, <4>1 DEF Timely, TruthAt
    <3>4. C[b] \in Buffers /\ C[b].data = mem[b] /\ C[b].valid = TRUE /\ ~C[b].dirty
      <4> DEFINE r == ReadIn(c.buf[b], c.dev[b])
      <4>1. r \in Buffers /\ r.data = c.dev[b] /\ r.valid = TRUE /\ r.dirty = c.buf[b].dirty
        BY <3>3, ReadUpdate
      <4> HIDE DEF r
      <4>2. C[b] = r
        BY <3>2 DEF r
      <4>3. QED
        BY <3>3, <4>1, <4>2
    <3>5. Watched(C, phase)
      <4>1. Timely(C[b], phase)
        BY <3>4 DEF Timely
      <4>2. QED
        BY <1>2, <3>2, <4>1 DEF Outcome, Watched
    <3>6. Truthful(C, c.dev, mem)
      <4>1. Truthful(c.buf, c.dev, mem)
        BY <1>2 DEF Outcome
      <4>2. TruthAt(C, c.dev, mem, b)
        BY <3>3, <3>4 DEF TruthAt
      <4>3. \A x \in Blocks : x # b => /\ x \in DOMAIN C <=> x \in DOMAIN c.buf
                                       /\ x \in DOMAIN c.buf => C[x] = c.buf[x]
                                       /\ c.dev[x] = c.dev[x] /\ mem[x] = mem[x]
        BY <3>2
      <4>4. QED
        BY <4>1, <4>2, <4>3, OneBlock, SMTT(60), Z3T(60)
    <3>7. Linked(C, c.lru)
      BY <1>2, <3>2 DEF Outcome, Linked
    <3>8. Outcome(g)
      BY <1>2, <3>1, <3>5, <3>6, <3>7 DEF Outcome
    <3>9. QED
      BY <1>2, <1>4, <3>1, <3>2, <3>4, <3>8
  <2>4. QED
    BY <2>1, <2>2, <2>3
<1>5. QED
  BY <1>3, <1>4

-----------------------------------------------------------------------------
\* Steps that leave the contents as they are: the device changes at most to
\* what was last written, so what fsync promised is kept.
LEMMA QuietStep ==
  ASSUME CacheInv, UNCHANGED <<platter, phase, spc, err, mem, hist, since, usage>>,
         Linked(buf, lru)', Truthful(buf', dev', mem), Watched(buf', phase), dev' \in [Blocks -> Contents],
         \A x \in Blocks : dev'[x] = dev[x] \/ dev'[x] = mem[x]
  PROVE  CacheInv'
<1>1. /\ platter' = platter /\ phase' = phase /\ spc' = spc /\ err' = err /\ mem' = mem
      /\ hist' = hist /\ since' = since /\ usage' = usage
  OBVIOUS
<1>2. CacheTypeOK'
  BY <1>1 DEF CacheInv, CacheTypeOK
<1>3. Truthful(buf, dev, mem)'
  BY <1>1 DEF Truthful, TruthAt
<1>4. Watched(buf, phase)'
  BY <1>1 DEF Watched, Timely
<1>5. Remembered'
  <2> SUFFICES ASSUME usage = "sync", NEW b \in Blocks
               PROVE  /\ mem[b] \in hist[b] /\ dev'[b] \in hist[b] /\ platter[b] \in hist[b]
                      /\ \A t \in Syncers : spc[t] = "flush" /\ ~err[t] =>
                             mem[b] \in since[t][b] /\ dev'[b] \in since[t][b]
    BY <1>1 DEF Remembered
  <2>1. /\ mem[b] \in hist[b] /\ dev[b] \in hist[b] /\ platter[b] \in hist[b]
        /\ \A t \in Syncers : spc[t] = "flush" /\ ~err[t] =>
               mem[b] \in since[t][b] /\ dev[b] \in since[t][b]
    BY DEF CacheInv, Remembered
  <2>2. dev'[b] = dev[b] \/ dev'[b] = mem[b]
    OBVIOUS
  <2>3. QED
    BY <2>1, <2>2
<1>6. QED
  BY <1>2, <1>3, <1>4, <1>5 DEF CacheInv

LEMMA BecomeStep ==
  ASSUME CacheInv, UNCHANGED <<platter, phase, spc, err, mem, hist, since, usage>>,
         NEW c, Outcome(c), Become(c)
  PROVE  CacheInv'
<1>1. buf' = c.buf /\ lru' = c.lru /\ dev' = c.dev
  BY DEF Become
<1>2. Linked(buf, lru)'
  BY <1>1 DEF Outcome, Linked
<1>3. QED
  BY <1>1, <1>2, QuietStep DEF Outcome

LEMMA ReadStep ==
  ASSUME CacheInv, NEW b \in Blocks, bdev_read(b), UNCHANGED usage
  PROVE  CacheInv'
<1>1. PICK c \in getblk(b, TRUE) : Become(c)
  BY DEF bdev_read
<1>2. Outcome(c)
  BY GetblkOutcome
<1>3. UNCHANGED <<platter, phase, spc, err, mem, hist, since, usage>>
  BY DEF bdev_read
<1>4. QED
  BY <1>1, <1>2, <1>3, BecomeStep

\* The write of a block: the cache holds the new contents, and they count as one
\* of those the block had since the last fsync and since every running one began.
LEMMA WriteStep ==
  ASSUME CacheInv, NEW b \in Blocks, NEW H \in SUBSET Halves, NEW v \in Vals,
         bdev_write(b, H, v), UNCHANGED usage
  PROVE  CacheInv'
<1> DEFINE need == NeedsOld(H)
<1>0. need \in BOOLEAN /\ (~need <=> H = Halves)
  BY DEF NeedsOld
<1> HIDE DEF need
<1>1. PICK c \in getblk(b, need) :
         IF c.ok
           THEN /\ Become(Cache([c.buf EXCEPT ![b] = Dirtied(@, Put(@.data, H, v))],
                                c.lru, c.dev, TRUE))
                /\ mem' = [mem EXCEPT ![b] = Put(@, H, v)]
                /\ hist' = IF usage = "parts" THEN hist
                           ELSE [hist EXCEPT ![b] = @ \cup {mem'[b]}]
                /\ since' = [t \in Syncers |-> IF spc[t] = "flush"
                               THEN [since[t] EXCEPT ![b] = @ \cup {mem'[b]}] ELSE since[t]]
           ELSE Become(c) /\ UNCHANGED <<mem, hist, since>>
  BY DEF bdev_write, need
<1>2. platter' = platter /\ phase' = phase /\ spc' = spc /\ err' = err /\ usage' = usage
  BY DEF bdev_write
<1>3. Outcome(c) /\ (c.ok => b \in DOMAIN c.buf /\ (need => c.buf[b].valid))
  BY <1>0, GetblkOutcome
<1>4. CASE ~c.ok
  <2>1. Become(c) /\ UNCHANGED <<platter, phase, spc, err, mem, hist, since, usage>>
    BY <1>1, <1>2, <1>4
  <2>2. QED
    BY <1>3, <2>1, BecomeStep
<1>5. CASE c.ok
  <2> DEFINE B == [c.buf EXCEPT ![b] = Dirtied(@, Put(@.data, H, v))]
             e == c.buf[b]
             d == Put(e.data, H, v)
  <2>1. Become(Cache(B, c.lru, c.dev, TRUE)) /\ mem' = [mem EXCEPT ![b] = Put(@, H, v)]
    BY <1>1, <1>5
  <2>2. buf' = B /\ lru' = c.lru /\ dev' = c.dev
    BY <2>1 DEF Become, Cache
  <2>3. /\ DOMAIN B = DOMAIN c.buf /\ B[b] = Dirtied(e, d)
        /\ \A x \in DOMAIN c.buf : x # b => B[x] = c.buf[x]
    BY <1>3, <1>5
  <2>4. e \in Buffers /\ Timely(e, phase) /\ TruthAt(c.buf, c.dev, mem, b) /\ e.data \in Contents
    <3>1. Timely(e, phase) /\ TruthAt(c.buf, c.dev, mem, b)
      BY <1>3, <1>5 DEF Outcome, Watched, Truthful
    <3>2. e \in Buffers
      BY <3>1 DEF Timely
    <3> HIDE DEF e
    <3>3. e.data \in Contents
      BY <3>2 DEF Buffers
    <3>4. QED
      BY <3>1, <3>2, <3>3
  <2>5. /\ mem \in [Blocks -> Contents] /\ hist \in [Blocks -> SUBSET Contents]
        /\ since \in [Syncers -> [Blocks -> SUBSET Contents]] /\ usage \in {"sync", "parts"}
    BY DEF CacheInv, CacheTypeOK
  <2>6. d = Put(mem[b], H, v) /\ d \in Contents
    <3>1. CASE need
      <4>1. e.data = mem[b]
        BY <1>3, <1>5, <2>4, <3>1 DEF TruthAt
      <4> HIDE DEF e
      <4>2. \A h \in Halves : e.data[h] \in Vals
        BY <2>4 DEF Contents
      <4>3. \A h \in Halves : (IF h \in H THEN v ELSE e.data[h]) \in Vals
        BY <4>2
      <4>4. QED
        BY <4>1, <4>3 DEF Put, Contents
    <3>2. CASE ~need
      <4>1. H = Halves
        BY <1>0, <3>2
      <4> HIDE DEF e
      <4>2. d = [h \in Halves |-> v] /\ Put(mem[b], H, v) = [h \in Halves |-> v]
        BY <4>1 DEF Put
      <4>3. QED
        BY <4>2 DEF Contents
    <3>3. QED
      BY <3>1, <3>2
  <2> HIDE DEF B, e, d
  <2>7. mem' \in [Blocks -> Contents] /\ mem'[b] = d /\ \A x \in Blocks : x # b => mem'[x] = mem[x]
    BY <2>1, <2>5, <2>6
  <2>8. /\ B[b] \in Buffers /\ B[b].data = d /\ B[b].valid = TRUE /\ B[b].dirty = TRUE
        /\ e.dirty => B[b].age = e.age /\ B[b].held = e.held
        /\ ~e.dirty => B[b].age = 0 /\ B[b].held = 0
    <3> DEFINE n == Dirtied(e, d)
    <3>1. /\ n \in Buffers /\ n.data = d /\ n.valid = TRUE /\ n.dirty = TRUE
          /\ e.dirty => n.age = e.age /\ n.held = e.held
          /\ ~e.dirty => n.age = 0 /\ n.held = 0
      BY <2>4, <2>6, DirtyUpdate
    <3> HIDE DEF n
    <3>2. B[b] = n
      BY <2>3 DEF n
    <3>3. QED
      BY <3>1, <3>2
  <2>9. Linked(buf, lru)'
    BY <1>3, <2>2, <2>3 DEF Outcome, Linked
  <2>10. Truthful(buf, dev, mem)'
    <3>1. Truthful(c.buf, c.dev, mem)
      BY <1>3 DEF Outcome
    <3>2. TruthAt(B, c.dev, mem', b)
      BY <1>3, <1>5, <2>3, <2>7, <2>8 DEF TruthAt
    <3>3. \A x \in Blocks : x # b => /\ x \in DOMAIN B <=> x \in DOMAIN c.buf
                                     /\ x \in DOMAIN c.buf => B[x] = c.buf[x]
                                     /\ c.dev[x] = c.dev[x] /\ mem'[x] = mem[x]
      BY <2>3, <2>7
    <3>4. Truthful(B, c.dev, mem')
      BY <3>1, <3>2, <3>3, OneBlock, SMTT(60), Z3T(60)
    <3>5. QED
      BY <2>2, <3>4 DEF Truthful, TruthAt
  <2>11. Watched(buf, phase)'
    <3>1. 0 <= 0 /\ 0 + phase <= FLUSH_INTERVAL + POLL
      BY CacheAssumption, SMTT(60), Z3T(60) DEF CacheInv, CacheTypeOK
    <3>2. Timely(B[b], phase)
      BY <2>4, <2>8, <3>1 DEF Timely
    <3>3. QED
      BY <1>2, <1>3, <2>2, <2>3, <3>2 DEF Outcome, Watched, Timely
  <2>12. /\ hist' \in [Blocks -> SUBSET Contents]
         /\ \A x \in Blocks : hist[x] \subseteq hist'[x]
         /\ usage = "sync" => mem'[b] \in hist'[b]
    <3>1. hist' = IF usage = "parts" THEN hist ELSE [hist EXCEPT ![b] = @ \cup {mem'[b]}]
      BY <1>1, <1>5
    <3>2. CASE usage = "parts"
      BY <2>5, <3>1, <3>2, SMTT(60), Z3T(60)
    <3>3. CASE usage # "parts"
      BY <2>5, <2>6, <2>7, <3>1, <3>3
    <3>4. QED
      BY <3>2, <3>3
  <2>13. /\ since' \in [Syncers -> [Blocks -> SUBSET Contents]]
         /\ \A t \in Syncers : spc[t] = "flush" =>
              /\ \A x \in Blocks : since[t][x] \subseteq since'[t][x]
              /\ mem'[b] \in since'[t][b]
    <3> DEFINE new(t) == [since[t] EXCEPT ![b] = @ \cup {mem'[b]}]
    <3>1. since' = [t \in Syncers |-> IF spc[t] = "flush" THEN new(t) ELSE since[t]]
      BY <1>1, <1>5
    <3>2. ASSUME NEW t \in Syncers
          PROVE  /\ new(t) \in [Blocks -> SUBSET Contents] /\ mem'[b] \in new(t)[b]
                 /\ \A x \in Blocks : since[t][x] \subseteq new(t)[x]
      BY <2>5, <2>6, <2>7
    <3>3. \A t \in Syncers : since[t] \in [Blocks -> SUBSET Contents]
      BY <2>5
    <3> HIDE DEF new
    <3>4. QED
      BY <3>1, <3>2, <3>3
  <2>14. CacheTypeOK'
    BY <1>2, <1>3, <2>2, <2>7, <2>12, <2>13 DEF CacheInv, CacheTypeOK, Outcome
  <2>15. Remembered'
    <3> SUFFICES ASSUME usage = "sync", NEW x \in Blocks
                 PROVE  /\ mem'[x] \in hist'[x] /\ dev'[x] \in hist'[x] /\ platter[x] \in hist'[x]
                        /\ \A t \in Syncers : spc[t] = "flush" /\ ~err[t] =>
                               mem'[x] \in since'[t][x] /\ dev'[x] \in since'[t][x]
      BY <1>2 DEF Remembered
    <3>1. /\ mem[x] \in hist[x] /\ dev[x] \in hist[x] /\ platter[x] \in hist[x]
          /\ \A t \in Syncers : spc[t] = "flush" /\ ~err[t] =>
                 mem[x] \in since[t][x] /\ dev[x] \in since[t][x]
      BY DEF CacheInv, Remembered
    <3>2. dev'[x] = dev[x] \/ dev'[x] = mem[x]
      BY <1>3, <2>2 DEF Outcome
    <3>3. mem'[x] = mem[x] \/ x = b
      BY <2>7
    <3>4. mem'[x] \in hist'[x] /\ dev'[x] \in hist'[x] /\ platter[x] \in hist'[x]
      BY <2>12, <3>1, <3>2, <3>3
    <3>5. QED
      BY <2>13, <3>1, <3>2, <3>3, <3>4
  <2>16. QED
    BY <2>9, <2>10, <2>11, <2>14, <2>15 DEF CacheInv
<1>6. QED
  BY <1>4, <1>5

-----------------------------------------------------------------------------
\* sync_disk on a set D of dirty blocks: every block is clean, retried or as it
\* was, and the device has taken what was last written or nothing.
LEMMA SyncDiskOutcome ==
  ASSUME CacheInv, NEW D \in SUBSET Dirty, NEW F \in SUBSET D, NEW T \in SUBSET F, sync_disk(D, F, T)
  PROVE  /\ Linked(buf, lru)' /\ Truthful(buf', dev', mem) /\ dev' \in [Blocks -> Contents]
         /\ \A x \in Blocks : /\ dev'[x] = dev[x] \/ dev'[x] = mem[x]
                              /\ x \in D \ F => dev'[x] = mem[x]
                              /\ x \notin D => dev'[x] = dev[x]
         /\ DOMAIN buf' = DOMAIN buf
         /\ \A x \in DOMAIN buf : /\ x \in D \ F => buf'[x] = Clean(buf[x])
                                  /\ x \in F => buf'[x] = Retried(buf[x])
                                  /\ x \notin D => buf'[x] = buf[x]
<1>1. dev' = [b \in Blocks |-> IF b \in (D \ F) \cup T THEN buf[b].data ELSE dev[b]]
  BY DEF sync_disk
<1>2. buf' = [b \in DOMAIN buf |-> IF b \in D \ F THEN Clean(buf[b])
                                   ELSE IF b \in F THEN Retried(buf[b]) ELSE buf[b]]
  BY DEF sync_disk
<1>3. lru' = lru
  BY DEF sync_disk
<1>4. /\ dev \in [Blocks -> Contents] /\ \A x \in D : x \in DOMAIN buf /\ buf[x].dirty
  BY DEF CacheInv, CacheTypeOK, Dirty
<1>5. /\ DOMAIN buf' = DOMAIN buf
      /\ \A x \in DOMAIN buf : /\ x \in D \ F => buf'[x] = Clean(buf[x])
                               /\ x \in F => buf'[x] = Retried(buf[x])
                               /\ x \notin D => buf'[x] = buf[x]
  BY <1>2
<1>6. \A x \in D : buf[x].valid /\ buf[x].data = mem[x] /\ buf[x].data \in Contents /\ buf[x] \in Buffers
  BY <1>4, InUse
<1>7. \A x \in Blocks : IF x \in (D \ F) \cup T THEN dev'[x] = mem[x] ELSE dev'[x] = dev[x]
  BY <1>1, <1>6
<1>8. dev' \in [Blocks -> Contents]
  <2>1. \A x \in Blocks : (IF x \in (D \ F) \cup T THEN buf[x].data ELSE dev[x]) \in Contents
    BY <1>4, <1>6
  <2>2. QED
    BY <1>1, <2>1
<1>9. Linked(buf, lru)'
  BY <1>3, <1>5 DEF CacheInv, Linked
<1>10. Truthful(buf', dev', mem)
  <2> SUFFICES ASSUME NEW x \in Blocks PROVE TruthAt(buf', dev', mem, x)
    BY DEF Truthful
  <2>1. TruthAt(buf, dev, mem, x)
    BY DEF CacheInv, Truthful
  <2>2. CASE x \notin D
    <3>1. dev'[x] = dev[x]
      BY <1>7, <2>2
    <3>2. QED
      BY <1>5, <2>1, <2>2, <3>1 DEF TruthAt
  <2>3. CASE x \in D \ F
    <3>1. dev'[x] = mem[x]
      BY <1>7, <2>3
    <3>2. Clean(buf[x]).data = buf[x].data
      BY <1>6, <2>3, CleanUpdate
    <3>3. buf'[x] = Clean(buf[x]) /\ buf[x].data = mem[x]
      BY <1>4, <1>5, <1>6, <2>3
    <3>4. QED
      BY <3>1, <3>2, <3>3 DEF TruthAt
  <2>4. CASE x \in F
    <3> DEFINE e == buf'[x]
    <3>1. e = Retried(buf[x]) /\ buf[x].data = mem[x] /\ buf[x].valid /\ buf[x].dirty /\ x \in DOMAIN buf'
      BY <1>4, <1>5, <1>6, <2>4
    <3>2. /\ Retried(buf[x]).data = buf[x].data
          /\ Retried(buf[x]).valid = buf[x].valid /\ Retried(buf[x]).dirty = buf[x].dirty
      BY <1>6, <2>4, RetryUpdate
    <3> HIDE DEF e
    <3>3. e.data = mem[x] /\ e.valid /\ e.dirty
      BY <3>1, <3>2
    <3>4. QED
      BY <3>1, <3>3 DEF TruthAt, e
  <2>5. QED
    BY <2>2, <2>3, <2>4
<1>11. QED
  BY <1>5, <1>7, <1>8, <1>9, <1>10

\* The buffers after sync_disk, for the time p to the flusher's next round.
LEMMA SyncDiskWatched ==
  ASSUME CacheInv, NEW D \in SUBSET Dirty, NEW F \in SUBSET D, NEW T \in SUBSET F, sync_disk(D, F, T),
         NEW p \in 0 .. POLL,
         \A x \in DOMAIN buf : x \notin D => Timely(buf[x], p)
  PROVE  Watched(buf', p)
<1>1. /\ DOMAIN buf' = DOMAIN buf
      /\ \A x \in DOMAIN buf : /\ x \in D \ F => buf'[x] = Clean(buf[x])
                               /\ x \in F => buf'[x] = Retried(buf[x])
                               /\ x \notin D => buf'[x] = buf[x]
  BY SyncDiskOutcome
<1>2. SUFFICES ASSUME NEW x \in DOMAIN buf PROVE Timely(buf'[x], p)
  BY <1>1 DEF Watched
<1>3. buf[x] \in Buffers /\ (buf[x].dirty => buf[x].valid)
  BY InUse
<1>4. CASE x \notin D
  BY <1>1, <1>4
<1>5. CASE x \in D \ F
  <2>1. Clean(buf[x]) \in Buffers /\ Clean(buf[x]).dirty = FALSE
    BY <1>3, CleanUpdate
  <2>2. Timely(Clean(buf[x]), p)
    BY <2>1 DEF Timely
  <2>3. QED
    BY <1>1, <1>5, <2>2
<1>6. CASE x \in F
  <2> DEFINE e == Retried(buf[x])
  <2>1. e \in Buffers /\ e.held = 0 /\ e.valid = buf[x].valid /\ e.dirty = buf[x].dirty
    BY <1>3, RetryUpdate
  <2> HIDE DEF e
  <2>2. e.age \in Nat
    BY <2>1 DEF Buffers
  <2>3. e.held <= e.age /\ e.held + p <= FLUSH_INTERVAL + POLL
    BY <2>1, <2>2, CacheAssumption, SMTT(60), Z3T(60)
  <2>4. Timely(e, p)
    BY <1>3, <2>1, <2>3 DEF Timely
  <2>5. QED
    BY <1>1, <1>6, <2>4 DEF e
<1>7. QED
  BY <1>4, <1>5, <1>6

\* bdev_sync, the write-back: without an error the device holds what was last
\* written to every block.
LEMMA SyncBeginStep ==
  ASSUME CacheInv, NEW u \in Syncers, sync_begin(u), UNCHANGED usage
  PROVE  CacheInv'
<1>1. PICK F \in SUBSET Dirty : \E T \in SUBSET F : sync_disk(Dirty, F, T) /\ err' = [err EXCEPT ![u] = F # {}]
  BY DEF sync_begin
<1>2. PICK T \in SUBSET F : sync_disk(Dirty, F, T)
  BY <1>1
<1>3. /\ since' = [since EXCEPT ![u] = [b \in Blocks |-> {mem[b]}]]
      /\ spc' = [spc EXCEPT ![u] = "flush"] /\ err' = [err EXCEPT ![u] = F # {}]
      /\ platter' = platter /\ phase' = phase /\ mem' = mem /\ hist' = hist /\ usage' = usage
      /\ usage = "sync"
  BY <1>1 DEF sync_begin
<1>4. /\ Linked(buf, lru)' /\ Truthful(buf', dev', mem) /\ dev' \in [Blocks -> Contents]
      /\ \A x \in Blocks : /\ dev'[x] = dev[x] \/ dev'[x] = mem[x]
                           /\ x \in Dirty \ F => dev'[x] = mem[x]
                           /\ x \notin Dirty => dev'[x] = dev[x]
  BY <1>2, SyncDiskOutcome
<1>5. F = {} => \A x \in Blocks : dev'[x] = mem[x]
  <2> SUFFICES ASSUME F = {}, NEW x \in Blocks PROVE dev'[x] = mem[x]
    OBVIOUS
  <2>1. CASE x \in Dirty
    BY <1>4, <2>1
  <2>2. CASE x \notin Dirty
    <3>1. TruthAt(buf, dev, mem, x)
      BY DEF CacheInv, Truthful
    <3>2. dev[x] = mem[x]
      BY <2>2, <3>1 DEF TruthAt, Dirty
    <3>3. QED
      BY <1>4, <2>2, <3>2
  <2>3. QED
    BY <2>1, <2>2
<1>6. Truthful(buf, dev, mem)'
  BY <1>3, <1>4 DEF Truthful, TruthAt
<1>7. Watched(buf, phase)'
  <2>1. phase \in 0 .. POLL /\ \A x \in DOMAIN buf : Timely(buf[x], phase)
    BY DEF CacheInv, CacheTypeOK, Watched
  <2>2. Watched(buf', phase)
    BY <1>2, <2>1, SyncDiskWatched
  <2>3. QED
    BY <1>3, <2>2 DEF Watched, Timely
<1>8. /\ mem \in [Blocks -> Contents] /\ since \in [Syncers -> [Blocks -> SUBSET Contents]]
      /\ spc \in [Syncers -> {"out", "flush"}] /\ err \in [Syncers -> BOOLEAN]
  BY DEF CacheInv, CacheTypeOK
<1>9. /\ spc' \in [Syncers -> {"out", "flush"}] /\ err' \in [Syncers -> BOOLEAN] /\ (err'[u] <=> F # {})
      /\ \A t \in Syncers : t # u => spc'[t] = spc[t] /\ err'[t] = err[t]
  BY <1>3, <1>8
<1>10. /\ since' \in [Syncers -> [Blocks -> SUBSET Contents]]
       /\ \A x \in Blocks : since'[u][x] = {mem[x]}
       /\ \A t \in Syncers : t # u => since'[t] = since[t]
  <2> DEFINE now == [b \in Blocks |-> {mem[b]}]
  <2>0. \A x \in Blocks : {mem[x]} \in SUBSET Contents
    BY <1>8
  <2>1. now \in [Blocks -> SUBSET Contents] /\ \A x \in Blocks : now[x] = {mem[x]}
    BY <2>0
  <2>2. since' = [since EXCEPT ![u] = now]
    BY <1>3
  <2> HIDE DEF now
  <2>3. QED
    BY <1>8, <2>1, <2>2
<1>11. CacheTypeOK'
  <2>1. usage' \in {"sync", "parts"} /\ \A t \in Syncers : usage' = "parts" => spc'[t] = "out"
    BY <1>3, SMTT(60), Z3T(60)
  <2>2. QED
    BY <1>3, <1>4, <1>9, <1>10, <2>1 DEF CacheInv, CacheTypeOK
<1>12. Remembered'
  <2> SUFFICES ASSUME NEW x \in Blocks
               PROVE  /\ mem[x] \in hist[x] /\ dev'[x] \in hist[x] /\ platter[x] \in hist[x]
                      /\ \A t \in Syncers : spc'[t] = "flush" /\ ~err'[t] =>
                             mem[x] \in since'[t][x] /\ dev'[x] \in since'[t][x]
    BY <1>3 DEF Remembered
  <2>1. /\ mem[x] \in hist[x] /\ dev[x] \in hist[x] /\ platter[x] \in hist[x]
        /\ \A t \in Syncers : spc[t] = "flush" /\ ~err[t] =>
               mem[x] \in since[t][x] /\ dev[x] \in since[t][x]
    BY <1>3 DEF CacheInv, Remembered
  <2>2. dev'[x] = dev[x] \/ dev'[x] = mem[x]
    BY <1>4
  <2>3. ASSUME ~err'[u] PROVE mem[x] \in since'[u][x] /\ dev'[x] \in since'[u][x]
    BY <1>5, <1>9, <1>10, <2>3
  <2>4. QED
    BY <1>9, <1>10, <2>1, <2>2, <2>3
<1>13. QED
  BY <1>4, <1>6, <1>7, <1>11, <1>12 DEF CacheInv

\* The end of an fsync, whatever its result.
LEMMA SyncReturns ==
  ASSUME CacheInv, NEW u \in Syncers,
         spc' = [spc EXCEPT ![u] = "out"], err' = [err EXCEPT ![u] = FALSE],
         since' = [since EXCEPT ![u] = [b \in Blocks |-> {}]],
         UNCHANGED <<buf, lru, dev, phase, mem, usage>>
  PROVE  /\ spc' \in [Syncers -> {"out", "flush"}] /\ err' \in [Syncers -> BOOLEAN]
         /\ since' \in [Syncers -> [Blocks -> SUBSET Contents]]
         /\ spc'[u] = "out"
         /\ \A t \in Syncers : t # u => spc'[t] = spc[t] /\ err'[t] = err[t] /\ since'[t] = since[t]
         /\ (Linked(buf, lru) /\ Truthful(buf, dev, mem) /\ Watched(buf, phase))'
<1>1. /\ spc \in [Syncers -> {"out", "flush"}] /\ err \in [Syncers -> BOOLEAN]
      /\ since \in [Syncers -> [Blocks -> SUBSET Contents]]
  BY DEF CacheInv, CacheTypeOK
<1>2. /\ spc' \in [Syncers -> {"out", "flush"}] /\ err' \in [Syncers -> BOOLEAN]
      /\ spc'[u] = "out" /\ \A t \in Syncers : t # u => spc'[t] = spc[t] /\ err'[t] = err[t]
  BY <1>1
<1>3. since' \in [Syncers -> [Blocks -> SUBSET Contents]] /\ \A t \in Syncers : t # u => since'[t] = since[t]
  <2> DEFINE none == [b \in Blocks |-> {}]
  <2>1. none \in [Blocks -> SUBSET Contents] /\ since' = [since EXCEPT ![u] = none]
    OBVIOUS
  <2> HIDE DEF none
  <2>2. QED
    BY <1>1, <2>1
<1>4. buf' = buf /\ lru' = lru /\ dev' = dev /\ phase' = phase /\ mem' = mem
  OBVIOUS
<1>5. (Linked(buf, lru) /\ Truthful(buf, dev, mem) /\ Watched(buf, phase))'
  BY <1>4 DEF CacheInv, Linked, Truthful, TruthAt, Watched, Timely
<1>6. QED
  BY <1>2, <1>3, <1>5

\* bdev_sync, the device's flush succeeds: if nothing failed before, all that is
\* older than the write-back of this fsync is forgotten, on the platter too.
LEMMA SyncFlushStep ==
  ASSUME CacheInv, NEW u \in Syncers, sync_flush(u), UNCHANGED usage
  PROVE  CacheInv'
<1>1. /\ spc[u] = "flush" /\ platter' = dev
      /\ hist' = IF SyncResult(u) THEN since[u] ELSE hist
      /\ UNCHANGED <<buf, lru, dev, phase, mem, usage>>
      /\ spc' = [spc EXCEPT ![u] = "out"] /\ err' = [err EXCEPT ![u] = FALSE]
      /\ since' = [since EXCEPT ![u] = [b \in Blocks |-> {}]]
  BY DEF sync_flush, Flushed
<1>2. /\ spc' \in [Syncers -> {"out", "flush"}] /\ err' \in [Syncers -> BOOLEAN]
      /\ since' \in [Syncers -> [Blocks -> SUBSET Contents]]
      /\ spc'[u] = "out"
      /\ \A t \in Syncers : t # u => spc'[t] = spc[t] /\ err'[t] = err[t] /\ since'[t] = since[t]
      /\ (Linked(buf, lru) /\ Truthful(buf, dev, mem) /\ Watched(buf, phase))'
  BY <1>1, SyncReturns
<1>3. buf' = buf /\ lru' = lru /\ dev' = dev /\ phase' = phase /\ mem' = mem /\ usage' = usage
  BY <1>1
<1>4. CacheTypeOK'
  <2>1. /\ dev \in [Blocks -> Contents] /\ since[u] \in [Blocks -> SUBSET Contents]
        /\ hist \in [Blocks -> SUBSET Contents]
    BY DEF CacheInv, CacheTypeOK
  <2>2. platter' \in [Blocks -> Contents] /\ hist' \in [Blocks -> SUBSET Contents]
    BY <1>1, <2>1
  <2>3. \A t \in Syncers : usage = "parts" => spc'[t] = "out"
    BY <1>2 DEF CacheInv, CacheTypeOK
  <2>4. QED
    BY <1>2, <1>3, <2>2, <2>3 DEF CacheInv, CacheTypeOK
<1>5. Remembered'
  <2> SUFFICES ASSUME usage = "sync", NEW x \in Blocks
               PROVE  /\ mem[x] \in hist'[x] /\ dev[x] \in hist'[x]
                      /\ \A t \in Syncers : spc'[t] = "flush" /\ ~err'[t] =>
                             mem[x] \in since'[t][x] /\ dev[x] \in since'[t][x]
    BY <1>1, <1>3 DEF Remembered
  <2>1. /\ mem[x] \in hist[x] /\ dev[x] \in hist[x]
        /\ \A t \in Syncers : spc[t] = "flush" /\ ~err[t] =>
               mem[x] \in since[t][x] /\ dev[x] \in since[t][x]
    BY DEF CacheInv, Remembered
  <2>2. mem[x] \in hist'[x] /\ dev[x] \in hist'[x]
    BY <1>1, <2>1 DEF SyncResult
  <2>3. "out" # "flush"
    OBVIOUS
  <2>4. QED
    BY <1>2, <2>1, <2>2, <2>3
<1>6. QED
  BY <1>2, <1>4, <1>5 DEF CacheInv

LEMMA SyncFailStep ==
  ASSUME CacheInv, NEW u \in Syncers, sync_flush_fails(u), UNCHANGED usage
  PROVE  CacheInv'
<1>1. /\ UNCHANGED <<buf, lru, dev, phase, mem, usage>> /\ platter' = platter /\ hist' = hist
      /\ spc' = [spc EXCEPT ![u] = "out"] /\ err' = [err EXCEPT ![u] = FALSE]
      /\ since' = [since EXCEPT ![u] = [b \in Blocks |-> {}]]
  BY DEF sync_flush_fails
<1>2. /\ spc' \in [Syncers -> {"out", "flush"}] /\ err' \in [Syncers -> BOOLEAN]
      /\ since' \in [Syncers -> [Blocks -> SUBSET Contents]]
      /\ spc'[u] = "out"
      /\ \A t \in Syncers : t # u => spc'[t] = spc[t] /\ err'[t] = err[t] /\ since'[t] = since[t]
      /\ (Linked(buf, lru) /\ Truthful(buf, dev, mem) /\ Watched(buf, phase))'
  BY <1>1, SyncReturns
<1>3. buf' = buf /\ lru' = lru /\ dev' = dev /\ phase' = phase /\ mem' = mem /\ usage' = usage
  BY <1>1
<1>4. CacheTypeOK'
  <2>1. \A t \in Syncers : usage = "parts" => spc'[t] = "out"
    BY <1>2 DEF CacheInv, CacheTypeOK
  <2>2. QED
    BY <1>1, <1>2, <1>3, <2>1 DEF CacheInv, CacheTypeOK
<1>5. Remembered'
  <2> SUFFICES ASSUME usage = "sync", NEW x \in Blocks
               PROVE  /\ mem[x] \in hist[x] /\ dev[x] \in hist[x] /\ platter[x] \in hist[x]
                      /\ \A t \in Syncers : spc'[t] = "flush" /\ ~err'[t] =>
                             mem[x] \in since'[t][x] /\ dev[x] \in since'[t][x]
    BY <1>1, <1>3 DEF Remembered
  <2>1. /\ mem[x] \in hist[x] /\ dev[x] \in hist[x] /\ platter[x] \in hist[x]
        /\ \A t \in Syncers : spc[t] = "flush" /\ ~err[t] =>
               mem[x] \in since[t][x] /\ dev[x] \in since[t][x]
    BY DEF CacheInv, Remembered
  <2>2. "out" # "flush"
    OBVIOUS
  <2>3. QED
    BY <1>2, <2>1, <2>2
<1>6. QED
  BY <1>2, <1>4, <1>5 DEF CacheInv

-----------------------------------------------------------------------------
\* The flusher's round: what it leaves alone is younger than the interval.
LEMMA FlusherStep ==
  ASSUME CacheInv, flusher, UNCHANGED usage
  PROVE  CacheInv'
<1> DEFINE Old == {b \in Dirty : buf[b].age >= FLUSH_INTERVAL}
<1>1. PICK F \in SUBSET Old : \E T \in SUBSET F : sync_disk(Old, F, T)
  BY DEF flusher
<1>2. PICK T \in SUBSET F : sync_disk(Old, F, T)
  BY <1>1
<1>3. /\ phase' = POLL /\ platter' = platter /\ spc' = spc /\ err' = err /\ mem' = mem
      /\ hist' = hist /\ since' = since /\ usage' = usage
  BY DEF flusher
<1>4. Old \in SUBSET Dirty
  OBVIOUS
<1>5. \A x \in DOMAIN buf : x \notin Old => Timely(buf[x], POLL)
  <2> SUFFICES ASSUME NEW x \in DOMAIN buf, x \notin Old PROVE Timely(buf[x], POLL)
    OBVIOUS
  <2>1. Timely(buf[x], phase) /\ buf[x] \in Buffers
    BY InUse
  <2>2. buf[x].age \in Nat /\ buf[x].held \in Nat
    BY <2>1 DEF Buffers
  <2>3. buf[x].dirty => ~(buf[x].age >= FLUSH_INTERVAL)
    BY DEF Dirty
  <2>4. ASSUME buf[x].dirty PROVE buf[x].held + POLL <= FLUSH_INTERVAL + POLL
    <3>1. buf[x].held <= buf[x].age
      BY <2>1, <2>4 DEF Timely
    <3>2. QED
      BY <2>2, <2>3, <2>4, <3>1, CacheAssumption, SMTT(60), Z3T(60)
  <2>5. QED
    BY <2>1, <2>4 DEF Timely
<1> HIDE DEF Old
<1>6. /\ Linked(buf, lru)' /\ Truthful(buf', dev', mem) /\ dev' \in [Blocks -> Contents]
      /\ \A x \in Blocks : dev'[x] = dev[x] \/ dev'[x] = mem[x]
  BY <1>2, <1>4, SyncDiskOutcome
<1>7. POLL \in 0 .. POLL
  BY CacheAssumption, SMTT(60), Z3T(60)
<1>8. Watched(buf', POLL)
  BY <1>2, <1>4, <1>5, <1>7, SyncDiskWatched
<1>9. CacheTypeOK'
  BY <1>3, <1>6, <1>7 DEF CacheInv, CacheTypeOK
<1>10. (Truthful(buf, dev, mem) /\ Watched(buf, phase))'
  BY <1>3, <1>6, <1>8 DEF Truthful, TruthAt, Watched, Timely
<1>11. Remembered'
  <2> SUFFICES ASSUME usage = "sync", NEW x \in Blocks
               PROVE  /\ mem[x] \in hist[x] /\ dev'[x] \in hist[x] /\ platter[x] \in hist[x]
                      /\ \A t \in Syncers : spc[t] = "flush" /\ ~err[t] =>
                             mem[x] \in since[t][x] /\ dev'[x] \in since[t][x]
    BY <1>3 DEF Remembered
  <2>1. /\ mem[x] \in hist[x] /\ dev[x] \in hist[x] /\ platter[x] \in hist[x]
        /\ \A t \in Syncers : spc[t] = "flush" /\ ~err[t] =>
               mem[x] \in since[t][x] /\ dev[x] \in since[t][x]
    BY DEF CacheInv, Remembered
  <2>2. dev'[x] = dev[x] \/ dev'[x] = mem[x]
    BY <1>6
  <2>3. QED
    BY <2>1, <2>2
<1>12. QED
  BY <1>6, <1>9, <1>10, <1>11 DEF CacheInv

\* Time passes: what a dirty block gains in age the flusher's round comes nearer.
LEMMA TickStep ==
  ASSUME CacheInv, Tick, UNCHANGED usage
  PROVE  CacheInv'
<1>1. /\ phase' = phase - 1 /\ phase > 0 /\ buf' = [b \in DOMAIN buf |-> Aged(buf[b])]
      /\ lru' = lru /\ dev' = dev /\ platter' = platter /\ spc' = spc /\ err' = err /\ mem' = mem
      /\ hist' = hist /\ since' = since /\ usage' = usage
  BY DEF Tick
<1>2. phase \in 0 .. POLL
  BY DEF CacheInv, CacheTypeOK
<1>3. phase' \in 0 .. POLL
  BY <1>1, <1>2, CacheAssumption, SMTT(60), Z3T(60)
<1>4. CacheTypeOK'
  BY <1>1, <1>3 DEF CacheInv, CacheTypeOK
<1>5. DOMAIN buf' = DOMAIN buf /\ \A x \in DOMAIN buf : buf'[x] = Aged(buf[x])
  BY <1>1
<1>6. \A x \in DOMAIN buf : /\ Aged(buf[x]) \in Buffers /\ Aged(buf[x]).data = buf[x].data
                            /\ Aged(buf[x]).valid = buf[x].valid /\ Aged(buf[x]).dirty = buf[x].dirty
  BY InUse, AgeUpdate
<1>7. Linked(buf, lru)'
  BY <1>1, <1>5 DEF CacheInv, Linked
<1>8. Truthful(buf', dev, mem)
  <2> SUFFICES ASSUME NEW x \in Blocks PROVE TruthAt(buf', dev, mem, x)
    BY DEF Truthful
  <2>1. TruthAt(buf, dev, mem, x)
    BY DEF CacheInv, Truthful
  <2>2. CASE x \in DOMAIN buf
    <3>1. buf'[x].data = buf[x].data /\ buf'[x].valid = buf[x].valid /\ buf'[x].dirty = buf[x].dirty
      BY <1>5, <1>6, <2>2
    <3>2. QED
      BY <1>5, <2>1, <2>2, <3>1 DEF TruthAt
  <2>3. CASE x \notin DOMAIN buf
    BY <1>5, <2>1, <2>3 DEF TruthAt
  <2>4. QED
    BY <2>2, <2>3
<1>9. Watched(buf', phase')
  <2> SUFFICES ASSUME NEW x \in DOMAIN buf PROVE Timely(Aged(buf[x]), phase')
    BY <1>5 DEF Watched
  <2> DEFINE e == Aged(buf[x])
             a == buf[x].age
             h == buf[x].held
  <2>1. Timely(buf[x], phase) /\ buf[x] \in Buffers
    BY InUse
  <2>2. e \in Buffers /\ e.valid = buf[x].valid /\ e.dirty = buf[x].dirty
    BY <1>6
  <2>3. ASSUME buf[x].dirty
        PROVE  buf[x].valid /\ e.held <= e.age /\ e.held + phase' <= FLUSH_INTERVAL + POLL
    <3>1. a \in Nat /\ h \in Nat
      BY <2>1 DEF Buffers
    <3>2. h <= a /\ h + phase <= FLUSH_INTERVAL + POLL /\ buf[x].valid
      BY <2>1, <2>3 DEF Timely
    <3>3. e.age = Older(a) /\ e.held = Older(h)
      BY <2>1, <2>3, AgeUpdate
    <3> HIDE DEF a, h, e
    <3>4. Older(h) <= Older(a) /\ Older(h) + (phase - 1) <= FLUSH_INTERVAL + POLL
      BY <1>1, <1>2, <3>1, <3>2, CacheAssumption, SMTT(60), Z3T(60) DEF Older, MaxAge
    <3>5. QED
      BY <1>1, <3>2, <3>3, <3>4
  <2> HIDE DEF e
  <2>4. Timely(e, phase')
    BY <2>2, <2>3 DEF Timely
  <2>5. QED
    BY <2>4 DEF e
<1>10. (Truthful(buf, dev, mem) /\ Watched(buf, phase))'
  BY <1>1, <1>8, <1>9 DEF Truthful, TruthAt, Watched, Timely
<1>11. Remembered'
  BY <1>1 DEF CacheInv, Remembered
<1>12. QED
  BY <1>4, <1>7, <1>10, <1>11 DEF CacheInv

LEMMA DestageStep ==
  ASSUME CacheInv, NEW b \in Blocks, destage(b), UNCHANGED usage
  PROVE  CacheInv'
<1>1. /\ platter' = [platter EXCEPT ![b] = dev[b]] /\ buf' = buf /\ lru' = lru /\ dev' = dev
      /\ phase' = phase /\ spc' = spc /\ err' = err /\ mem' = mem /\ hist' = hist
      /\ since' = since /\ usage' = usage
  BY DEF destage
<1>2. platter \in [Blocks -> Contents] /\ dev \in [Blocks -> Contents]
  BY DEF CacheInv, CacheTypeOK
<1>3. /\ platter' \in [Blocks -> Contents]
      /\ \A x \in Blocks : platter'[x] = platter[x] \/ platter'[x] = dev[x]
  BY <1>1, <1>2
<1>4. CacheTypeOK'
  BY <1>1, <1>3 DEF CacheInv, CacheTypeOK
<1>5. (Linked(buf, lru) /\ Truthful(buf, dev, mem) /\ Watched(buf, phase))'
  BY <1>1 DEF CacheInv, Linked, Truthful, TruthAt, Watched, Timely
<1>6. Remembered'
  <2> SUFFICES ASSUME usage = "sync", NEW x \in Blocks
               PROVE  /\ mem[x] \in hist[x] /\ dev[x] \in hist[x] /\ platter'[x] \in hist[x]
                      /\ \A t \in Syncers : spc[t] = "flush" /\ ~err[t] =>
                             mem[x] \in since[t][x] /\ dev[x] \in since[t][x]
    BY <1>1 DEF Remembered
  <2>1. /\ mem[x] \in hist[x] /\ dev[x] \in hist[x] /\ platter[x] \in hist[x]
        /\ \A t \in Syncers : spc[t] = "flush" /\ ~err[t] =>
               mem[x] \in since[t][x] /\ dev[x] \in since[t][x]
    BY DEF CacheInv, Remembered
  <2>2. QED
    BY <1>3, <2>1
<1>7. QED
  BY <1>4, <1>5, <1>6 DEF CacheInv

\* An empty cache over a disk that holds what was last written.
LEMMA EmptyCache ==
  ASSUME NEW B, NEW l, NEW d, NEW p, B = [b \in {} |-> <<>>], l = <<>>
  PROVE  Linked(B, l) /\ Truthful(B, d, d) /\ Watched(B, p)
<1>1. DOMAIN B = {}
  OBVIOUS
<1>2. IsFiniteSet({}) /\ Cardinality({}) = 0
  BY FS_EmptySet
<1>3. 0 <= max_bufs
  BY CacheAssumption, SMTT(60), Z3T(60)
<1>4. l \in Seq(Blocks) /\ DOMAIN l = {}
  BY SMTT(60), Z3T(60)
<1>5. Elems(l) = {} /\ Distinct(l)
  BY <1>4 DEF Elems, Distinct
<1>6. Linked(B, l)
  BY <1>1, <1>2, <1>3, <1>4, <1>5 DEF Linked
<1>7. Truthful(B, d, d) /\ Watched(B, p)
  BY <1>1 DEF Truthful, TruthAt, Watched
<1>8. QED
  BY <1>6, <1>7

\* Power failure: what the platter holds is all there is.
LEMMA CrashStep ==
  ASSUME CacheInv, crash, UNCHANGED usage
  PROVE  CacheInv'
<1>1. /\ buf' = [b \in {} |-> <<>>] /\ lru' = <<>> /\ dev' = platter /\ mem' = platter
      /\ phase' = POLL /\ platter' = platter /\ usage' = usage
      /\ spc' = [t \in Syncers |-> "out"] /\ err' = [t \in Syncers |-> FALSE]
      /\ hist' = [b \in Blocks |-> {platter[b]}]
      /\ since' = [t \in Syncers |-> [b \in Blocks |-> {}]]
  BY DEF crash
<1>2. platter \in [Blocks -> Contents] /\ usage \in {"sync", "parts"}
  BY DEF CacheInv, CacheTypeOK
<1>3. POLL \in 0 .. POLL
  BY CacheAssumption, SMTT(60), Z3T(60)
<1>4. hist' \in [Blocks -> SUBSET Contents] /\ \A x \in Blocks : hist'[x] = {platter[x]}
  BY <1>1, <1>2
<1>5. since' \in [Syncers -> [Blocks -> SUBSET Contents]]
  <2>1. [b \in Blocks |-> {}] \in [Blocks -> SUBSET Contents]
    OBVIOUS
  <2>2. QED
    BY <1>1, <2>1
<1>6. /\ spc' \in [Syncers -> {"out", "flush"}] /\ err' \in [Syncers -> BOOLEAN]
      /\ \A t \in Syncers : spc'[t] = "out"
  BY <1>1
<1>7. CacheTypeOK'
  BY <1>1, <1>2, <1>3, <1>4, <1>5, <1>6 DEF CacheTypeOK
<1>8. Linked(buf', lru') /\ Truthful(buf', platter, platter) /\ Watched(buf', POLL)
  BY <1>1, EmptyCache
<1>9. (Linked(buf, lru) /\ Truthful(buf, dev, mem) /\ Watched(buf, phase))'
  BY <1>1, <1>8 DEF Linked, Truthful, TruthAt, Watched, Timely
<1>10. Remembered'
  <2>1. "out" # "flush"
    OBVIOUS
  <2>2. QED
    BY <1>1, <1>4, <1>6, <2>1 DEF Remembered
<1>11. QED
  BY <1>7, <1>9, <1>10 DEF CacheInv

LEMMA CacheInitInv == CacheInit => CacheInv
<1> SUFFICES ASSUME CacheInit PROVE CacheInv
  OBVIOUS
<1>1. /\ buf = [b \in {} |-> <<>>] /\ lru = <<>> /\ platter = dev /\ mem = dev /\ phase = POLL
      /\ dev = [b \in Blocks |-> [h \in Halves |-> Zero]]
      /\ spc = [t \in Syncers |-> "out"] /\ err = [t \in Syncers |-> FALSE]
      /\ hist = [b \in Blocks |-> {mem[b]}] /\ since = [t \in Syncers |-> hist]
      /\ usage \in {"sync", "parts"}
  BY DEF CacheInit
<1>2. dev \in [Blocks -> Contents]
  <2>1. [h \in Halves |-> Zero] \in Contents
    BY CacheAssumption DEF Contents
  <2>2. QED
    BY <1>1, <2>1
<1>3. POLL \in 0 .. POLL
  BY CacheAssumption, SMTT(60), Z3T(60)
<1>4. hist \in [Blocks -> SUBSET Contents] /\ \A x \in Blocks : hist[x] = {dev[x]}
  BY <1>1, <1>2
<1>5. since \in [Syncers -> [Blocks -> SUBSET Contents]]
  BY <1>1, <1>4
<1>6. /\ spc \in [Syncers -> {"out", "flush"}] /\ err \in [Syncers -> BOOLEAN]
      /\ \A t \in Syncers : spc[t] = "out"
  BY <1>1
<1>7. CacheTypeOK
  BY <1>1, <1>2, <1>3, <1>4, <1>5, <1>6 DEF CacheTypeOK
<1>8. Linked(buf, lru) /\ Truthful(buf, dev, dev) /\ Watched(buf, phase)
  BY <1>1, EmptyCache
<1>9. Remembered
  <2>1. "out" # "flush"
    OBVIOUS
  <2>2. QED
    BY <1>1, <1>4, <1>6, <2>1 DEF Remembered
<1>10. QED
  BY <1>1, <1>7, <1>8, <1>9 DEF CacheInv

LEMMA CacheNextInv == CacheInv /\ [CacheNext]_cache_vars => CacheInv'
<1> SUFFICES ASSUME CacheInv, [CacheNext]_cache_vars PROVE CacheInv'
  OBVIOUS
<1>1. CASE UNCHANGED cache_vars
  <2>1. /\ buf' = buf /\ lru' = lru /\ dev' = dev /\ platter' = platter /\ phase' = phase
        /\ spc' = spc /\ err' = err /\ mem' = mem /\ hist' = hist /\ since' = since /\ usage' = usage
    BY <1>1 DEF cache_vars
  <2>2. QED
    BY <2>1 DEF CacheInv, CacheTypeOK, Linked, Truthful, TruthAt, Watched, Timely, Remembered
<1>2. CASE CacheNext
  <2>1. UNCHANGED usage
    BY <1>2 DEF CacheNext
  <2>2. CASE \E b \in Blocks : bdev_read(b)
    BY <2>1, <2>2, ReadStep
  <2>3. CASE \E b \in Blocks, H \in (SUBSET Halves) \ {{}}, v \in Vals : bdev_write(b, H, v)
    <3>1. PICK b \in Blocks, H \in (SUBSET Halves) \ {{}}, v \in Vals : bdev_write(b, H, v)
      BY <2>3
    <3>2. H \in SUBSET Halves
      OBVIOUS
    <3>3. QED
      BY <2>1, <3>1, <3>2, WriteStep
  <2>4. CASE \E u \in Syncers : sync_begin(u) \/ sync_flush(u) \/ sync_flush_fails(u)
    BY <2>1, <2>4, SyncBeginStep, SyncFlushStep, SyncFailStep
  <2>5. CASE flusher \/ Tick
    BY <2>1, <2>5, FlusherStep, TickStep
  <2>6. CASE crash \/ \E b \in Blocks : destage(b)
    BY <2>1, <2>6, CrashStep, DestageStep
  <2>7. QED
    BY <1>2, <2>2, <2>3, <2>4, <2>5, <2>6 DEF CacheNext
<1>3. QED
  BY <1>1, <1>2

-----------------------------------------------------------------------------
\* The invariant of the buffer cache holds whatever is read, written, evicted,
\* synced or lost (blkdev.c).
THEOREM CacheInvariant == StorageSpec => []CacheInv
<1>1. StorageInit => CacheInv
  BY CacheInitInv DEF StorageInit
<1>2. CacheInv /\ [StorageNext]_storage_vars => CacheInv'
  <2>1. [StorageNext]_storage_vars => [CacheNext]_cache_vars
    BY DEF StorageNext, storage_vars
  <2>2. QED
    BY <2>1, CacheNextInv
<1>3. QED
  BY <1>1, <1>2, PTL DEF StorageSpec

\* "write-back buffer cache" (blkdev.c): a read returns what was last written to
\* the block, and the cache keeps to its size and its LRU list to the cache.
THEOREM CacheIsCoherent == StorageSpec => []Coherent
<1>1. CacheInv => Coherent
  <2> SUFFICES ASSUME CacheInv PROVE Coherent
    OBVIOUS
  <2>1. Cardinality(DOMAIN buf) <= max_bufs /\ {lru[i] : i \in DOMAIN lru} = DOMAIN buf
    BY DEF CacheInv, Linked, Elems
  <2>2. \A b \in Blocks : TruthAt(buf, dev, mem, b)
    BY DEF CacheInv, Truthful
  <2>3. QED
    BY <2>1, <2>2 DEF Coherent, TruthAt
<1>2. QED
  BY <1>1, CacheInvariant, PTL

\* "fsync also flushes the device's volatile write cache" (blkdev.c): the platter
\* holds nothing older than the last fsync that reported success.
THEOREM FsyncIsDurable == StorageSpec => []Durable
<1>1. CacheInv => Durable
  BY DEF CacheInv, Remembered, Durable
<1>2. QED
  BY <1>1, CacheInvariant, PTL

\* The flusher (blkdev.c) tries every dirty block within its interval and a round.
THEOREM DirtyBlocksAgeOut == StorageSpec => []AgedOut
<1>1. CacheInv => AgedOut
  <2> SUFFICES ASSUME CacheInv, NEW b \in Dirty PROVE buf[b].held <= FLUSH_INTERVAL + POLL
    BY DEF AgedOut
  <2>1. b \in DOMAIN buf /\ buf[b].dirty
    BY DEF Dirty
  <2>2. Timely(buf[b], phase) /\ buf[b] \in Buffers
    BY <2>1, InUse
  <2>3. buf[b].held \in Nat
    BY <2>2 DEF Buffers
  <2>4. buf[b].held + phase <= FLUSH_INTERVAL + POLL
    BY <2>1, <2>2 DEF Timely
  <2>5. phase \in 0 .. POLL
    BY DEF CacheInv, CacheTypeOK
  <2>6. QED
    BY <2>3, <2>4, <2>5, CacheAssumption, SMTT(60), Z3T(60)
<1>2. QED
  BY <1>1, CacheInvariant, PTL
=============================================================================
