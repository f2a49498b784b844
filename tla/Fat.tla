-------------------------------- MODULE Fat --------------------------------
(***************************************************************************)
(* fatfsd, the FAT filesystem server: the allocation table with its        *)
(* in-memory copy, directories, the number-to-location table, files, and   *)
(* the repair pass after an unclean shutdown.                              *)
(*                                                                         *)
(* The server handles one request at a time.  A request changes the memory *)
(* copy at once and issues device writes in a fixed order; the server may  *)
(* be killed between any two of them, is restarted by init, reads the      *)
(* table back and repairs the volume.  A long name is one slot here; "."   *)
(* and ".." are the field up of a directory's first cluster.               *)
(***************************************************************************)
EXTENDS Integers, Sequences, FiniteSets, FiniteSetsExt

CONSTANTS
    NCLUS, CS,          \* data clusters and bytes in one
    PER, ROOT_ENTS,     \* entries in a directory cluster, and in the root
    BPS,                \* clusters described by one sector of the table
    FNames, FSpans,     \* names; the <<offset, length>> of writes
    FOps,               \* FOps[load]: the requests made in this load
    FSizes,             \* the sizes of truncations
    MaxRequests, MaxKills,
    FGids,              \* identities of files, to tell their data apart
    CrashAnywhere       \* may the server also die while a directory grows?

VARIABLES
    vol,      \* the device: fat, ents, up, data, clean
    mem,      \* the server's memory: fat, dirty, next_free, free_count, nt, cc
    todo,     \* device writes of the request in progress, in order
    job,      \* that request: [op, gids, grows]; or Idle
    want,     \* want[g]: what file g should hold
    torn,     \* files whose request was cut short by a crash
    fd,       \* a file the kernel holds open: [ino, g, void]; or Closed
    fload,    \* the load; never changes
    fleft     \* requests and crashes still to come

fat_vars == <<vol, mem, todo, job, want, torn, fd, fload, fleft>>

Clus == 2..(NCLUS + 1)
EOC == 1
ROOT_INO == 1
valid(c) == c \in Clus
Free == [n |-> "", dir |-> FALSE, start |-> 0, size |-> 0, g |-> 0]
Idle == [op |-> "idle", gids |-> {}, grows |-> FALSE]
CeilDiv(a, b) == (a + b - 1) \div b
SectorOf(c) == (c - 2) \div BPS

(***************************************************************************)
(* The table                                                               *)
(***************************************************************************)
\* The clusters of the chain at c; the walk is bounded (next, chain_len).
RECURSIVE ChainN(_, _, _)
ChainN(fat, c, n) ==
    IF ~valid(c) \/ n = 0 THEN <<>> ELSE <<c>> \o ChainN(fat, fat[c], n - 1)
Chain(fat, c) == ChainN(fat, c, NCLUS)

fat_set(M, c, x) == [M EXCEPT !.fat[c] = x, !.dirty = @ \cup {SectorOf(c)}]

\* Every dirty sector is written, in order.
RECURSIVE FlushFrom(_, _)
FlushFrom(M, s) ==
    IF s > SectorOf(NCLUS + 1) THEN <<>>
    ELSE (IF s \in M.dirty
          THEN <<[k |-> "fat", v |-> [c \in {x \in Clus : SectorOf(x) = s} |-> M.fat[c]]]>>
          ELSE <<>>) \o FlushFrom(M, s + 1)
fat_flush(M) == [m |-> [M EXCEPT !.dirty = {}], w |-> FlushFrom(M, 0)]

\* The first free cluster from next_free on, wrapping: [m, c], c = 0 when full.
alloc_cluster(M, prev) ==
    LET At(i) == IF M.next_free + i > NCLUS + 1 THEN M.next_free + i - NCLUS ELSE M.next_free + i
        free == {i \in 0..(NCLUS - 1) : M.fat[At(i)] = 0}
        c == At(Min(free))
        T == fat_set(M, c, EOC)
        U == IF prev = 0 THEN T ELSE fat_set(T, prev, c)
    IN IF free = {} THEN [m |-> M, c |-> 0]
       ELSE [c |-> c, m |-> [U EXCEPT !.free_count = IF @ = 0 THEN 0 ELSE @ - 1,
                                      !.next_free = IF c = NCLUS + 1 THEN 2 ELSE c + 1]]

NoCache == [start |-> 0, n |-> 0, c |-> 0]

free_chain(M, c) ==
    LET gone == {x \in Clus : \E k \in DOMAIN Chain(M.fat, c) : Chain(M.fat, c)[k] = x}
    IN [M EXCEPT !.fat = [x \in Clus |-> IF x \in gone THEN 0 ELSE @[x]],
                 !.dirty = @ \cup {SectorOf(x) : x \in gone},
                 !.free_count = @ + Cardinality(gone), !.cc = NoCache]

\* Cluster n (from 0) of the chain at start, through the one-entry cache.
nth_cluster(M, start, n) ==
    LET hit == M.cc.start = start /\ start # 0 /\ M.cc.n <= n
        ch == IF hit THEN Chain(M.fat, M.cc.c) ELSE Chain(M.fat, start)
        k == IF hit THEN n - M.cc.n ELSE n
        c == IF k < Len(ch) THEN ch[k + 1] ELSE 0
    IN [c |-> c, m |-> IF c = 0 THEN M ELSE [M EXCEPT !.cc = [start |-> start, n |-> n, c |-> c]]]

RECURSIVE GrowFrom(_, _, _, _, _)
GrowFrom(M, start, last, have, need) ==
    LET a == alloc_cluster(M, last)
    IN IF have >= need \/ a.c = 0 THEN [m |-> M, start |-> start, have |-> have]
       ELSE GrowFrom(a.m, IF last = 0 THEN a.c ELSE start, a.c, have + 1, need)
chain_grow(M, start, need) ==
    LET ch == Chain(M.fat, start)
    IN GrowFrom(M, start, IF ch = <<>> THEN 0 ELSE ch[Len(ch)], Len(ch), need)

\* Mutant: the cluster kept last is not made the end of the chain.
chain_trim_open(M, start, keep) ==
    LET n == nth_cluster(M, start, keep - 1)
        rest == n.m.fat[n.c]
    IN IF ~valid(start) THEN [m |-> M, start |-> 0]
       ELSE IF keep = 0 THEN [m |-> free_chain(M, start), start |-> 0]
       ELSE IF n.c = 0 THEN [m |-> n.m, start |-> start]
       ELSE [m |-> [(IF valid(rest) THEN free_chain(n.m, rest) ELSE n.m) EXCEPT !.cc = NoCache], start |-> start]

chain_trim(M, start, keep) ==
    LET n == nth_cluster(M, start, keep - 1)
        rest == n.m.fat[n.c]
        T == fat_set(n.m, n.c, EOC)
    IN IF ~valid(start) THEN [m |-> M, start |-> 0]
       ELSE IF keep = 0 THEN [m |-> free_chain(M, start), start |-> 0]
       ELSE IF n.c = 0 THEN [m |-> n.m, start |-> start]
       ELSE [m |-> [(IF valid(rest) THEN free_chain(T, rest) ELSE T) EXCEPT !.cc = NoCache], start |-> start]

(***************************************************************************)
(* Directories.  Directory 0 is the fixed root region; slot i of another   *)
(* lies in the cluster of its chain that covers it.                        *)
(***************************************************************************)
NSlots(fat, d) == IF d = 0 THEN ROOT_ENTS ELSE Len(Chain(fat, d)) * PER
BlockOf(fat, d, i) == IF d = 0 THEN 0 ELSE Chain(fat, d)[(i - 1) \div PER + 1]
OffOf(d, i) == IF d = 0 THEN i ELSE ((i - 1) % PER) + 1
Slot(v, fat, d, i) == v.ents[BlockOf(fat, d, i)][OffOf(d, i)]
SlotWrite(fat, d, i, e) == [k |-> "slot", b |-> BlockOf(fat, d, i), i |-> OffOf(d, i), v |-> e]

Live(v, fat, d) == {i \in 1..NSlots(fat, d) : Slot(v, fat, d, i) # Free}
dir_find(v, fat, d, n) == {i \in Live(v, fat, d) : Slot(v, fat, d, i).n = n}

\* dir_alloc and dir_write: a free slot (gone is one the request has freed), or
\* one in a new zeroed cluster.  [m, w, i, grows], i = 0 when there is none.
dir_add(v, M, d, e, gone) ==
    LET n == NSlots(M.fat, d)
        slots == {i \in 1..n : i \notin Live(v, M.fat, d) \/ i \in gone}
        a == alloc_cluster(M, BlockOf(M.fat, d, n))
        i == n + 1
    IN IF slots # {} THEN [m |-> M, i |-> Min(slots), grows |-> FALSE,
                           w |-> <<SlotWrite(M.fat, d, Min(slots), e)>>]
       ELSE IF d = 0 THEN [m |-> M, i |-> 0, grows |-> FALSE, w |-> <<>>]
       ELSE IF a.c = 0 THEN [m |-> M, i |-> 0, grows |-> FALSE, w |-> <<>>]
       ELSE [m |-> a.m, i |-> i, grows |-> TRUE,
             w |-> <<[k |-> "block", b |-> a.c, up |-> 0], SlotWrite(a.m.fat, d, i, e)>>]

(***************************************************************************)
(* Numbers: a start cluster, or the place of an empty file's entry         *)
(***************************************************************************)
POS(d, i) == 1000 + 100 * d + i
ino_of(d, i, e) == IF valid(e.start) THEN e.start ELSE POS(d, i)
NoLoc == <<0, 0>>

nt_set(M, ino, loc) == [M EXCEPT !.nt = [x \in DOMAIN @ \cup {ino} |-> IF x = ino THEN loc ELSE @[x]]]
nt_drop(M, loc) == [M EXCEPT !.nt = [x \in {y \in DOMAIN @ : @[y] # loc} |-> @[x]]]
nt_relocate(M, old, new) == [M EXCEPT !.nt = [x \in DOMAIN @ |-> IF @[x] = old THEN new ELSE @[x]]]

\* The directories of the tree below d, and the entries that own cluster c.
RECURSIVE Below(_, _, _, _)
Below(v, fat, d, n) ==
    {d} \cup UNION {Below(v, fat, Slot(v, fat, d, i).start, n - 1) :
                      i \in {j \in Live(v, fat, d) : n > 0 /\ Slot(v, fat, d, j).dir}}
Dirs(v, fat) == Below(v, fat, 0, NCLUS)
Tree(v, fat) == UNION {{<<d, i>> : i \in Live(v, fat, d)} : d \in Dirs(v, fat)}
scan_for(v, fat, c) == {l \in Tree(v, fat) : Slot(v, fat, l[1], l[2]).start = c}

\* Where the entry of number ino is: the table, the number itself, a scan.
node_get(v, M, ino) ==
    LET loc == IF ino \in DOMAIN M.nt THEN M.nt[ino]
               ELSE IF ino >= 1000 THEN <<(ino - 1000) \div 100, (ino - 1000) % 100>>
               ELSE IF scan_for(v, M.fat, ino) = {} THEN NoLoc
               ELSE CHOOSE l \in scan_for(v, M.fat, ino) : TRUE
    IN IF loc = NoLoc \/ loc[2] \notin Live(v, M.fat, loc[1]) THEN NoLoc ELSE loc

(***************************************************************************)
(* Requests: each yields the memory after it, its device writes, whether   *)
(* a directory's chain grew, and whether it succeeded.                     *)
(***************************************************************************)
Done(M, w, grows) ==
    LET f == fat_flush(M) IN [m |-> f.m, w |-> w \o f.w, grows |-> grows, ok |-> TRUE]
Failed(M) == LET f == fat_flush(M) IN [m |-> f.m, w |-> f.w, grows |-> FALSE, ok |-> FALSE]

\* One device write for each cluster that bytes from..to-1 touch.
RECURSIVE write_range(_, _, _, _, _)
write_range(M, start, from, to, tag) ==
    LET n == nth_cluster(M, start, from \div CS)
        stop == Min({to, (from \div CS + 1) * CS})
        rest == write_range(n.m, start, stop, to, tag)
    IN IF from >= to \/ n.c = 0 THEN [m |-> M, w |-> <<>>]
       ELSE [m |-> rest.m,
             w |-> <<[k |-> "data", b |-> n.c, lo |-> from % CS, hi |-> (stop - 1) % CS, tag |-> tag]>> \o rest.w]

\* node_save with the new start and size, and the number the file has now.
Save(M, d, i, e, w) ==
    Done(IF valid(e.start) THEN nt_set(M, e.start, <<d, i>>) ELSE M,
         Append(w, SlotWrite(M.fat, d, i, e)), FALSE)

WriteAt(v, M, loc, off, len) ==
    LET e == Slot(v, M.fat, loc[1], loc[2])
        gr == chain_grow(M, e.start, CeilDiv(off + len, CS))
        end == Min({off + len, gr.have * CS})
        back == chain_trim(gr.m, gr.start, CeilDiv(e.size, CS))
        hole == write_range(gr.m, gr.start, e.size, off, 0)
        body == write_range(hole.m, gr.start, off, end, e.g)
    IN IF gr.have * CS <= off THEN Failed(back.m)
       ELSE Save(body.m, loc[1], loc[2], [e EXCEPT !.start = gr.start, !.size = Max({@, end})],
                 hole.w \o body.w)

file_resize(v, M, loc, size) ==
    LET e == Slot(v, M.fat, loc[1], loc[2])
        need == CeilDiv(size, CS)
        gr == chain_grow(M, e.start, need)
        back == chain_trim(gr.m, gr.start, CeilDiv(e.size, CS))
        zero == write_range(gr.m, gr.start, e.size, size, 0)
        cut == chain_trim(M, e.start, need)
    IN IF size <= e.size
       THEN Save(cut.m, loc[1], loc[2], [e EXCEPT !.start = cut.start, !.size = size], <<>>)
       ELSE IF gr.have < need
       THEN [Save(back.m, loc[1], loc[2], [e EXCEPT !.start = back.start], <<>>) EXCEPT !.ok = FALSE]
       ELSE Save(zero.m, loc[1], loc[2], [e EXCEPT !.start = gr.start, !.size = size], zero.w)

Create(v, M, d, n, g) ==
    LET a == dir_add(v, M, d, [Free EXCEPT !.n = n, !.g = g], {})
    IN IF a.i = 0 THEN Failed(a.m)
       ELSE Done(nt_set(a.m, POS(d, a.i), <<d, a.i>>), a.w, a.grows)

\* The child's cluster is written first, then the entry, then the table.
Mkdir(v, M, d, n, g) ==
    LET c == alloc_cluster(M, 0)
        a == dir_add(v, c.m, d, [n |-> n, dir |-> TRUE, start |-> c.c, size |-> 0, g |-> g], {})
        child == <<[k |-> "block", b |-> c.c, up |-> d]>>
        undo == Failed([fat_set(a.m, c.c, 0) EXCEPT !.free_count = @ + 1])
    IN IF c.c = 0 THEN Failed(M)
       ELSE IF a.i = 0 THEN [undo EXCEPT !.w = child \o @]
       ELSE Done(nt_set(a.m, c.c, <<d, a.i>>), child \o a.w, TRUE)

dir_empty(v, fat, d) == Live(v, fat, d) = {}

\* The chain is freed and the numbers that led to the slot are forgotten.
DropEntry(M, d, i, start) == nt_drop(IF valid(start) THEN free_chain(M, start) ELSE M, <<d, i>>)

RemoveAt(v, M, d, i) ==
    Done(DropEntry(M, d, i, Slot(v, M.fat, d, i).start), <<SlotWrite(M.fat, d, i, Free)>>, FALSE)

\* Up through "..", at most n steps (256 in the code).
RECURSIVE dir_within(_, _, _, _)
dir_within(v, inner, outer, n) ==
    n > 0 /\ inner # 0 /\ (inner = outer \/ dir_within(v, v.up[inner], outer, n - 1))

\* Mutant: the table is not told of a rename.
RelocateNone(M, old, new, e) == M

\* After a rename both the old number and the new one lead to the new place.
Relocate(M, old, new, e) ==
    nt_set(nt_set(nt_relocate(M, old, new), ino_of(old[1], old[2], e), new),
           ino_of(new[1], new[2], e), new)

\* Mutant: a directory that moves keeps its "..".
DotDotKept(s, od, nd) == <<>>

DotDot(s, od, nd) ==
    IF s.dir /\ od # nd THEN <<[k |-> "up", b |-> s.start, up |-> nd]>> ELSE <<>>

RenameTo(v, M, od, i, nd, nn) ==
    LET s == Slot(v, M.fat, od, i)
        dst == dir_find(v, M.fat, nd, nn)
        j == CHOOSE x \in dst : TRUE
        T == IF dst = {} THEN M ELSE DropEntry(M, nd, j, Slot(v, M.fat, nd, j).start)
        kill == IF dst = {} THEN <<>> ELSE <<SlotWrite(M.fat, nd, j, Free)>>
        a == dir_add(v, T, nd, [s EXCEPT !.n = nn], dst)
        U == Relocate(a.m, <<od, i>>, <<nd, a.i>>, s)
    IN IF a.i = 0 THEN [m |-> a.m, w |-> kill, grows |-> FALSE, ok |-> FALSE]
       ELSE Done(U, kill \o a.w \o <<SlotWrite(M.fat, od, i, Free)>> \o DotDot(s, od, nd), a.grows)

RenameAllowed(v, M, od, i, nd, nn) ==
    LET s == Slot(v, M.fat, od, i)
        dst == dir_find(v, M.fat, nd, nn)
    IN /\ ~(s.dir /\ od # nd /\ dir_within(v, nd, s.start, NCLUS + 1))
       /\ \A j \in dst : /\ <<od, i>> # <<nd, j>>
                         /\ Slot(v, M.fat, nd, j).dir = s.dir
                         /\ s.dir => dir_empty(v, M.fat, Slot(v, M.fat, nd, j).start)

(***************************************************************************)
(* Repair: A = [v, m, used, w]                                             *)
(***************************************************************************)
Put(A, d, i, e) ==
    LET x == SlotWrite(A.m.fat, d, i, e)
    IN [A EXCEPT !.v.ents[x.b][x.i] = e, !.w = Append(@, x)]

\* A directory's chain is claimed up to the first cluster already in use.
RECURSIVE ClaimDir(_, _, _)
ClaimDir(A, c, prev) ==
    IF ~valid(c) THEN A
    ELSE IF c \in A.used THEN (IF prev = 0 THEN A ELSE [A EXCEPT !.m = fat_set(@, prev, EOC)])
    ELSE ClaimDir([A EXCEPT !.used = @ \cup {c}], A.m.fat[c], c)

RECURSIVE ClaimFile(_, _, _, _, _)
ClaimFile(A, c, prev, cnt, need) ==
    IF ~valid(c) \/ c \in A.used \/ cnt >= need THEN [a |-> A, prev |-> prev, cnt |-> cnt]
    ELSE ClaimFile([A EXCEPT !.used = @ \cup {c}], A.m.fat[c], c, cnt + 1, need)

\* A file is cut to the clusters it could claim, and its chain is closed.
FsckFile(A, d, i) ==
    LET e == Slot(A.v, A.m.fat, d, i)
        need == CeilDiv(e.size, CS)
        f == ClaimFile(A, e.start, 0, 0, need)
        size == IF f.cnt < need THEN f.cnt * CS ELSE e.size
        empty == f.cnt = 0 /\ e.start # 0
        open == ~empty /\ f.prev # 0 /\ A.m.fat[f.prev] # EOC
        B == IF open THEN [f.a EXCEPT !.m = fat_set(@, f.prev, EOC)] ELSE f.a
    IN IF f.cnt < need \/ empty \/ open
       THEN Put(B, d, i, [e EXCEPT !.size = size, !.start = IF empty THEN 0 ELSE @])
       ELSE B

RECURSIVE fsck_dir(_, _)
RECURSIVE FsckFrom(_, _, _)
fsck_dir(A, d) == FsckFrom(IF d = 0 THEN A ELSE ClaimDir(A, d, 0), d, 1)
FsckFrom(A, d, i) ==
    LET e == Slot(A.v, A.m.fat, d, i)
    IN IF i > NSlots(A.m.fat, d) THEN A
       ELSE FsckFrom(IF e = Free THEN A
                     ELSE IF ~e.dir THEN FsckFile(A, d, i)
                     ELSE IF ~valid(e.start) \/ e.start \in A.used THEN Put(A, d, i, Free)
                     ELSE fsck_dir(A, e.start), d, i + 1)

\* The tree claims its clusters; the others are freed; the table is written.
fsck(v, M) ==
    LET A == fsck_dir([v |-> v, m |-> M, used |-> {}, w |-> <<>>], 0)
        lost == {c \in Clus : A.m.fat[c] # 0 /\ c \notin A.used}
        T == [A.m EXCEPT !.fat = [c \in Clus |-> IF c \in lost THEN 0 ELSE @[c]],
                         !.dirty = @ \cup {SectorOf(c) : c \in lost}]
    IN Done(T, A.w, FALSE)

set_clean(b) == <<[k |-> "clean", v |-> b]>>

\* The memory of a server that has just read the table.
Mounted(v) ==
    [fat |-> v.fat, dirty |-> {}, next_free |-> 2, nt |-> <<>>, cc |-> NoCache,
     free_count |-> Cardinality({c \in Clus : v.fat[c] = 0})]

(***************************************************************************)
(* Actions                                                                 *)
(***************************************************************************)
None == [is |-> "none", s |-> <<>>]
Down == [Idle EXCEPT !.op = "down"]
NoMem == [fat |-> [c \in Clus |-> 0], dirty |-> {}, next_free |-> 2, nt |-> <<>>, cc |-> NoCache,
          free_count |-> 0]

Closed == [ino |-> 0, g |-> 0, void |-> FALSE]
Stale == [k \in 0..(CS - 1) |-> 9]

FatInit ==
    /\ vol = [fat |-> [c \in Clus |-> 0], clean |-> TRUE, up |-> [c \in Clus |-> 0],
              ents |-> [b \in {0} \cup Clus |-> [i \in 1..(IF b = 0 THEN ROOT_ENTS ELSE PER) |-> Free]],
              data |-> [c \in Clus |-> Stale]]
    /\ mem = NoMem /\ todo = <<>> /\ job = Down /\ torn = {}
    /\ want = [g \in FGids |-> None] /\ fload \in DOMAIN FOps
    /\ fd = Closed
    /\ fleft = [requests |-> MaxRequests, kills |-> MaxKills]

Ready == job = Idle
Spend(k) == fleft[k] > 0 /\ fleft' = [fleft EXCEPT ![k] = @ - 1]
FDirs == Dirs(vol, mem.fat)
Entries == Tree(vol, mem.fat)
EntryAt(l) == Slot(vol, mem.fat, l[1], l[2])
Fresh == FGids \ {EntryAt(l).g : l \in Entries}

\* A request starts: its memory effects, and the writes it will issue.
Start(op, r, gids, w) ==
    /\ mem' = r.m /\ todo' = r.w
    /\ job' = IF r.w = <<>> THEN Idle ELSE [op |-> op, gids |-> gids, grows |-> r.grows]
    /\ want' = IF r.ok THEN w ELSE [g \in FGids |-> IF g \in Fresh THEN None ELSE want[g]]
    /\ UNCHANGED vol

\* A request on a file looks its number up first, which enters it in the table.
Looked(d, i) == nt_set(mem, ino_of(d, i, Slot(vol, mem.fat, d, i)), <<d, i>>)
FileAt(d, i) == i \in Live(vol, mem.fat, d) /\ ~Slot(vol, mem.fat, d, i).dir
Ino(d, i) == ino_of(d, i, Slot(vol, mem.fat, d, i))

op_write(d, i, off, len) ==
    /\ Ready /\ FileAt(d, i)
    /\ \E M \in {Looked(d, i)} : \E e \in {Slot(vol, mem.fat, d, i)} :
       \E r \in {WriteAt(vol, M, node_get(vol, M, Ino(d, i)), off, len)} :
       \E end \in {Min({off + len, CS * (Len(Chain(mem.fat, e.start)) + Cardinality({c \in Clus : mem.fat[c] = 0}))})} :
         Start("write", r, {e.g},
               [want EXCEPT ![e.g].s = [k \in 1..Max({Len(@), end}) |->
                    IF k > off /\ k <= end THEN e.g ELSE IF k <= Len(@) THEN @[k] ELSE 0]])
    /\ UNCHANGED torn

\* file_resize saves the entry, and op_setattr saves it again.
op_setattr(d, i, size) ==
    /\ Ready /\ FileAt(d, i)
    /\ \E M \in {Looked(d, i)} : \E g \in {Slot(vol, mem.fat, d, i).g} :
       \E r \in {file_resize(vol, M, node_get(vol, M, Ino(d, i)), size)} :
         Start("setattr",
               [r EXCEPT !.w = @ \o SelectSeq(@, LAMBDA x : r.ok /\ x.k = "slot")], {g},
               [want EXCEPT ![g].s = [k \in 1..size |-> IF k <= Len(@) THEN @[k] ELSE 0]])
    /\ UNCHANGED torn

op_create(d, n) ==
    /\ Ready /\ Fresh # {} /\ dir_find(vol, mem.fat, d, n) = {}
    /\ \E g \in {Min(Fresh)} :
         /\ Start("create", Create(vol, mem, d, n, g), {g}, [want EXCEPT ![g] = [is |-> "file", s |-> <<>>]])
         /\ torn' = torn \ {g}

op_mkdir(d, n) ==
    /\ Ready /\ Fresh # {} /\ dir_find(vol, mem.fat, d, n) = {}
    /\ \E g \in {Min(Fresh)} :
         /\ Start("mkdir", Mkdir(vol, mem, d, n, g), {g}, [want EXCEPT ![g] = [is |-> "dir", s |-> <<>>]])
         /\ torn' = torn \ {g}

\* op_unlink, op_rmdir
op_remove(d, i) ==
    \E e \in {Slot(vol, mem.fat, d, i)} :
      /\ Ready /\ e # Free
      /\ e.dir => dir_empty(vol, mem.fat, e.start)
      /\ Start("remove", RemoveAt(vol, mem, d, i), {e.g}, [want EXCEPT ![e.g] = None])
      /\ UNCHANGED torn

\* The kernel does not ask to move a directory below itself (vfs_rename).
AskedRename(s, nd) == s.dir => nd \notin Below(vol, mem.fat, s.start, NCLUS)

op_rename(od, i, nd, nn) ==
    /\ Ready /\ i \in Live(vol, mem.fat, od) /\ RenameAllowed(vol, mem, od, i, nd, nn)
    /\ AskedRename(Slot(vol, mem.fat, od, i), nd)
    /\ \E over \in {{Slot(vol, mem.fat, nd, j).g : j \in dir_find(vol, mem.fat, nd, nn)}} :
         Start("rename", RenameTo(vol, mem, od, i, nd, nn), {Slot(vol, mem.fat, od, i).g} \cup over,
               [g \in FGids |-> IF g \in over THEN None ELSE want[g]])
    /\ UNCHANGED torn

Freed(x, c) == c \in DOMAIN x.v /\ x.v[c] = 0 /\ vol.fat[c] # 0

\* The next device write reaches the device; the last one ends the request.
\* What a cluster holds once it is free is of no account.
dev_write ==
    /\ todo # <<>>
    /\ \E x \in {Head(todo)} :
         vol' = CASE x.k = "slot"  -> [vol EXCEPT !.ents[x.b][x.i] = x.v]
                  [] x.k = "block" -> [vol EXCEPT !.ents[x.b] = [i \in 1..PER |-> Free], !.up[x.b] = x.up]
                  [] x.k = "up"    -> [vol EXCEPT !.up[x.b] = x.up]
                  [] x.k = "data"  -> [vol EXCEPT !.data[x.b] = [k \in 0..(CS - 1) |->
                                          IF k \in x.lo..x.hi THEN x.tag ELSE @[k]]]
                  [] x.k = "fat"   -> [vol EXCEPT
                        !.fat = [c \in Clus |-> IF c \in DOMAIN x.v THEN x.v[c] ELSE @[c]],
                        !.data = [c \in Clus |-> IF Freed(x, c) THEN Stale ELSE @[c]],
                        !.up = [c \in Clus |-> IF Freed(x, c) THEN 0 ELSE @[c]]]
                  [] OTHER         -> [vol EXCEPT !.clean = x.v]
    /\ todo' = Tail(todo)
    /\ job' = IF Len(todo) > 1 THEN job ELSE IF job.op = "shutdown" THEN Down ELSE Idle
    /\ mem' = IF job'.op = "down" THEN NoMem ELSE mem
    /\ UNCHANGED <<want, torn>>

op_shutdown ==
    /\ Ready
    /\ Start("shutdown", [m |-> mem, w |-> set_clean(TRUE), grows |-> FALSE, ok |-> TRUE], {}, want)
    /\ UNCHANGED torn

\* The server is killed; what it has written so far stays on the device.
Killed ==
    /\ job.op # "down" /\ (CrashAnywhere \/ ~job.grows)
    /\ job' = Down /\ mem' = NoMem /\ todo' = <<>> /\ torn' = torn \cup job.gids
    /\ UNCHANGED <<vol, want>>

\* main: the table is read, an unclean volume is repaired, the mark is cleared.
Main ==
    /\ job.op = "down"
    /\ \E r \in {IF vol.clean THEN Done(Mounted(vol), <<>>, FALSE) ELSE fsck(vol, Mounted(vol))} :
         Start("mount", [r EXCEPT !.w = @ \o set_clean(FALSE)], {}, want)
    /\ UNCHANGED torn

\* The kernel opens a file; it will name it by this number until it closes it.
op_lookup(d, i) ==
    /\ Ready /\ FileAt(d, i) /\ fd = Closed
    /\ fd' = [ino |-> Ino(d, i), g |-> Slot(vol, mem.fat, d, i).g, void |-> FALSE]
    /\ mem' = Looked(d, i)
    /\ UNCHANGED <<vol, todo, job, want, torn>>

\* Its number is void once the file is gone, once it was cut to nothing (its
\* first cluster is free for others), and, when the file was opened empty and
\* the number is its place, once it moved or the server is another one.
Void ==
    \/ want'[fd.g] = None
    \/ want'[fd.g].s = <<>> /\ want[fd.g].s # <<>>
    \/ fd.ino >= 1000 /\ (job'.op = "down" \/ (job'.op = "rename" /\ fd.g \in job'.gids))
Voided == fd' = [fd EXCEPT !.void = @ \/ (fd # Closed /\ Void)]

Request ==
    \/ \E d \in FDirs, i \in 1..(NCLUS * PER) : i <= NSlots(mem.fat, d) /\
         \/ "write" \in FOps[fload] /\ \E p \in FSpans : op_write(d, i, p[1], p[2])
         \/ "setattr" \in FOps[fload] /\ \E z \in FSizes : op_setattr(d, i, z)
         \/ op_remove(d, i)
         \/ "rename" \in FOps[fload] /\ \E nd \in FDirs, nn \in FNames : op_rename(d, i, nd, nn)
    \/ \E d \in FDirs, n \in FNames :
         op_create(d, n) \/ ("mkdir" \in FOps[fload] /\ op_mkdir(d, n))

FatNext ==
    /\ \/ (dev_write \/ op_shutdown \/ Main) /\ UNCHANGED fleft /\ Voided
       \/ Killed /\ Spend("kills") /\ Voided
       \/ Request /\ Spend("requests") /\ Voided
       \/ "lookup" \in FOps[fload] /\ (\E l \in Entries : op_lookup(l[1], l[2])) /\ UNCHANGED fleft
    /\ UNCHANGED fload

(***************************************************************************)
(* Properties, of the volume between requests                              *)
(***************************************************************************)
ChainAt(l) == Chain(mem.fat, EntryAt(l).start)

\* Between two requests, and after the repair of a volume whose server was
\* killed at any write (fat_flush, chain_grow, chain_trim, fsck): the table on
\* the device is the one in memory, the chain of every entry ends properly and
\* is as long as the file's size needs, and every cluster in use belongs to
\* exactly one entry.
FatSound ==
    Ready =>
      /\ mem.dirty = {} /\ mem.fat = vol.fat
      /\ \A l \in Entries : \E ch \in {ChainAt(l)} :
           /\ EntryAt(l).start = 0 \/ ch # <<>>
           /\ ch # <<>> => mem.fat[ch[Len(ch)]] = EOC
           /\ IF EntryAt(l).dir THEN ch # <<>> ELSE Len(ch) = CeilDiv(EntryAt(l).size, CS)
      /\ \A c \in Clus :
           Cardinality({l \in Entries : \E k \in DOMAIN ChainAt(l) : ChainAt(l)[k] = c})
             = (IF mem.fat[c] = 0 THEN 0 ELSE 1)
      /\ mem.cc.start # 0 => mem.cc.c = Chain(mem.fat, mem.cc.start)[mem.cc.n + 1]

\* What reading the whole file returns.
op_read(e, ch) == [k \in 1..e.size |-> vol.data[ch[(k - 1) \div CS + 1]][(k - 1) % CS]]

\* A file or directory that no request was changing when the server was killed
\* is still there, once, under its parent, with the bytes last written to it
\* and zeros in its holes (op_write, file_resize, op_rename, fsck).
FilesKept ==
    Ready =>
      /\ \A g \in FGids \ torn :
           Cardinality({l \in Entries : EntryAt(l).g = g}) = (IF want[g] = None THEN 0 ELSE 1)
      /\ \A l \in Entries : \E e \in {EntryAt(l)} :
           e.g \notin torn =>
             IF e.dir THEN vol.up[e.start] = l[1]
             ELSE want[e.g].s = op_read(e, ChainAt(l))

\* A file the kernel holds open is reached through the number it was opened by,
\* while it is written and grown and, if it had data when it was opened, after
\* it was renamed and after the server was killed (node_get, nt_set,
\* nt_relocate, scan_for).  Not after it was removed or cut to nothing.
NumbersLead ==
    Ready /\ fd # Closed /\ ~fd.void /\ fd.g \notin torn =>
        \E l \in Entries : EntryAt(l).g = fd.g /\ node_get(vol, mem, fd.ino) = l

=============================================================================
