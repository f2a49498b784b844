-------------------------------- MODULE Vm --------------------------------
(***************************************************************************)
(* User address spaces (mm/vm.c, mm/syscalls.c, arch/arm64/context.c):     *)
(* VMAs, demand paging, copy-on-write, the mmap family and ASIDs, with the *)
(* translations that CPUs cache.                                           *)
(*                                                                         *)
(* "Callers hold the big kernel lock", so one operation runs at a time,    *)
(* but the other threads of the process go on in user mode with whatever   *)
(* the TLBs still hold.  An operation is therefore a list of page-table    *)
(* updates, TLB flushes and page references (todo), and user accesses fall *)
(* between them.  A page read from a file sleeps without the lock; that is *)
(* explored for processes of one thread.  Addresses count pages, and a     *)
(* page holds one datum.  Device mappings and execute rights are left out. *)
(***************************************************************************)
EXTENDS Integers, Sequences, FiniteSets, SequencesExt, FiniteSetsExt

CONSTANTS Mms,         \* address spaces
          USER_VA_END, \* user addresses are USER_MIN_ADDR .. USER_VA_END - 1
          UFrames,     \* bound: frames for user pages, by load
          asid_limit,  \* ASIDs are 1 .. asid_limit - 1
          Data,        \* what programs write
          USER_STACK_MAX,
          MmapGap,     \* USER_MMAP_GAP / 4
          MaxVmas,     \* bound: VMAs of a process that calls mremap
          MaxTlb,      \* bound: translations in all TLBs
          FileSize,    \* pages of the file that is mapped
          VmLoads      \* what goes on: see uload

ASSUME VmAssumption ==
    /\ USER_VA_END \in Nat /\ UFrames \in [VmLoads -> Nat] /\ asid_limit \in Nat
    /\ Data \subseteq Nat \ {0}
    /\ VmLoads \subseteq {"fork", "cow", "threads", "files", "maps", "heap"}

VARIABLES as,         \* the address spaces: see NewMm
          frame,      \* struct page of the frames: reference count, contents
          tlb,        \* the translations cached by all CPUs
          asid_next,
          todo,       \* the rest of the operation under way
          filling,    \* the frame and address of a fault that waits for a file
          vm_panic,   \* page_put: refcount underflow
          uload       \* fixed: what the programs do, see VmNext

vm_vars == <<as, frame, tlb, asid_next, todo, filling, vm_panic, uload>>

USER_MIN_ADDR == 1
brk_start == USER_MIN_ADDR
stack_top == USER_VA_END
mmap_base == stack_top - USER_STACK_MAX
Vas == USER_MIN_ADDR .. USER_VA_END - 1
Frs == 1 .. UFrames[uload]

NoPte == [fr |-> 0, ro |-> FALSE, cow |-> FALSE]
pte_valid(e) == e.fr # 0
pte_prot(v, f) == [fr |-> f, ro |-> v.prot # "rw", cow |-> FALSE]

\* struct mm; want is what its program has to find at each address, and stale
\* that an operation gave up between a page-table update and its flush.
NewMm == [live |-> FALSE, asid |-> 0, vmas |-> <<>>, pt |-> [a \in Vas |-> NoPte],
          rss |-> 0, brk |-> brk_start, want |-> [a \in Vas |-> 0], stale |-> FALSE]
NotFilling == [fr |-> 0, va |-> 0]

Vma(s, e, prot) ==
    [start |-> s, end |-> e, prot |-> prot, shared |-> FALSE, growsdown |-> FALSE,
     file |-> FALSE, off |-> 0, bytes |-> 0]

FileVma(s, e, off) ==
    [Vma(s, e, "rw") EXCEPT !.file = TRUE, !.off = off,
                            !.bytes = Max({0, Min({e - s, FileSize - off})})]

\* What fill_page puts into a fresh page: the file where it reaches, else zeros.
Fresh(v, a) ==
    LET delta == a - v.start
    IN  IF ~v.file \/ delta >= v.bytes THEN 0 ELSE 0 - 1 - (v.off + delta)

FirstVmas ==
    CASE uload = "fork"    -> <<Vma(1, 2, "rw"), [Vma(2, 3, "rw") EXCEPT !.shared = TRUE]>>
      [] uload = "cow"     -> <<Vma(1, 2, "rw")>>
      [] uload = "threads" -> <<Vma(1, 3, "rw")>>
      [] uload = "heap"    -> <<[Vma(stack_top - 1, stack_top, "rw") EXCEPT !.growsdown = TRUE]>>
      [] OTHER             -> <<>>

\* Processes have several threads, so that user accesses fall between the steps
\* of an operation.
Threaded == uload \in {"fork", "cow", "threads"}

VmInit ==
    /\ uload \in VmLoads
    /\ LET m == CHOOSE x \in Mms : TRUE
       IN  as = [[x \in Mms |-> NewMm] EXCEPT
                    ![m] = [NewMm EXCEPT !.live = TRUE, !.asid = 1, !.vmas = FirstVmas]]
    /\ frame = [f \in Frs |-> [ref |-> 0, data |-> 0]]
    /\ tlb = {} /\ asid_next = 2 /\ todo = <<>> /\ vm_panic = FALSE
    /\ filling = [m \in Mms |-> NotFilling]

-----------------------------------------------------------------------------
(* VMAs                                                                    *)

Intersecting(vs, s, e) == {i \in DOMAIN vs : vs[i].start < e /\ vs[i].end > s}
vma_find_intersect(vs, s, e) == vs[Min(Intersecting(vs, s, e))]
Mapped(vs, a) == Intersecting(vs, a, a + 1) # {}
vma_find(vs, a) == vma_find_intersect(vs, a, a + 1)

vma_insert(vs, v) ==
    InsertAt(vs, Cardinality({i \in DOMAIN vs : vs[i].start <= v.start}) + 1, v)

lower(v, a) == [v EXCEPT !.end = a, !.bytes = Min({@, a - v.start})]
upper(v, a) == [v EXCEPT !.start = a, !.off = IF v.file THEN @ + (a - v.start) ELSE 0,
                         !.bytes = Max({0, @ - (a - v.start)})]
vma_split(v, a) == IF v.start < a /\ a < v.end THEN <<lower(v, a), upper(v, a)>> ELSE <<v>>
SplitAt(vs, a) == FlattenSeq([i \in DOMAIN vs |-> vma_split(vs[i], a)])

\* unmap_region's effect on the list.
Without(vs, s, e) ==
    SelectSeq(SplitAt(SplitAt(vs, s), e), LAMBDA v : v.end <= s \/ v.start >= e)

\* How far an operation on [s, e) gets if there is no memory to split the VMA
\* that e cuts: that VMA stays as it is, everything below has been done.
Reached(vs, s, e) ==
    LET cut == {i \in DOMAIN vs : vs[i].start < e /\ e < vs[i].end}
    IN  IF cut = {} THEN e ELSE Max({s, vs[Max(cut)].start})

\* mm_get_unmapped_area: down from mmap_base through the holes, clear of the
\* heap; 0 when there is none.
mm_get_unmapped_area(mm, n) ==
    LET walk[top \in 0 .. USER_VA_END] ==
            IF top < n + USER_MIN_ADDR THEN 0
            ELSE IF Intersecting(mm.vmas, top - n, top) # {}
              THEN walk[vma_find_intersect(mm.vmas, top - n, top).start]
            ELSE IF top - n < mm.brk + MmapGap /\ top > brk_start THEN 0
            ELSE top - n
    IN  walk[mmap_base]

-----------------------------------------------------------------------------
(* The steps of an operation: u.op on address u.va of u.m, with entry u.e. *)

U(op, m, va, e) == [op |-> op, m |-> m, va |-> va, e |-> e]
Cow(e) == [e EXCEPT !.ro = TRUE, !.cow = TRUE]

put_page(s, f) ==
    [s EXCEPT !.frame[f].ref = @ - 1, !.panic = @ \/ s.frame[f].ref = 0]

\* mm_dup for one page: a reference for the child, then both entries.
dup_page(s, c, m, a) ==
    LET e == s.as[m].pt[a]
        pv == IF vma_find(s.as[m].vmas, a).shared THEN e ELSE Cow(e)
    IN  [s EXCEPT !.frame[e.fr].ref = @ + 1, !.as[c].rss = @ + 1,
                  !.as[m].pt[a] = pv, !.as[c].pt[a] = pv]

map_vma(s, m, v) ==
    [s EXCEPT !.as[m].vmas = vma_insert(@, v),
              !.as[m].want = [a \in Vas |-> IF v.start <= a /\ a < v.end THEN Fresh(v, a) ELSE @[a]]]

\* do_mremap for one page: what was at a is at b, and a is as if untouched.
move_page(s, m, a, b) ==
    [s EXCEPT !.as[m].pt[b] = s.as[m].pt[a], !.as[m].pt[a] = NoPte,
              !.as[m].want[b] = s.as[m].want[a],
              !.as[m].want[a] = Fresh(vma_find(s.as[m].vmas, a), a)]

flush_tlb_asid(s, m) ==
    [s EXCEPT !.tlb = {x \in @ : x.asid # s.as[m].asid}, !.as[m].stale = FALSE]

asid_free(s, m) == [flush_tlb_asid(s, m) EXCEPT !.as[m] = NewMm]

release_pte(s, m, e) == [put_page(s, e.fr) EXCEPT !.as[m].rss = @ - 1]

Apply(s, u) ==
    CASE u.op = "set"      -> [s EXCEPT !.as[u.m].pt[u.va] = u.e]
      [] u.op = "flush"    -> [s EXCEPT !.tlb =
                                 {x \in @ : x.asid # s.as[u.m].asid \/ x.va # u.va}]
      [] u.op = "flushall" -> flush_tlb_asid(s, u.m)
      [] u.op = "put"      -> put_page(s, u.e.fr)
      [] u.op = "release"  -> release_pte(s, u.m, u.e)
      [] u.op = "dup"      -> dup_page(s, u.m, u.e, u.va)
      [] u.op = "map"      -> map_vma(s, u.m, u.e)
      [] u.op = "move"     -> move_page(s, u.m, u.va, u.e)
      [] u.op = "unmap"    -> [s EXCEPT !.as[u.m].vmas = Without(@, u.va, u.e)]
      [] u.op = "born"     -> [s EXCEPT !.as[u.m].live = TRUE, !.as[u.m].want = s.as[u.e].want]
      [] u.op = "free"     -> asid_free(s, u.m)

State == [as |-> as, frame |-> frame, tlb |-> tlb, panic |-> vm_panic]
Become(s) == as' = s.as /\ frame' = s.frame /\ tlb' = s.tlb /\ vm_panic' = s.panic

\* Nobody can look between the steps of a process that has one thread.
Run(s, us) ==
    /\ Become(IF Threaded THEN s ELSE FoldLeft(Apply, s, us))
    /\ todo' = IF Threaded THEN us ELSE <<>>
    /\ UNCHANGED uload

Go ==
    /\ todo # <<>>
    /\ Become(Apply(State, Head(todo)))
    /\ todo' = Tail(todo)
    /\ UNCHANGED <<asid_next, filling, uload>>

\* An operation of m may begin: the BKL is free.
Calls(m) == todo = <<>> /\ as[m].live /\ filling[m] = NotFilling

Present(mm, s, e) == SetToSortSeq({a \in s .. e - 1 : a \in Vas /\ pte_valid(mm.pt[a])}, <)
ForEach(q, F(_)) == FlattenSeq([i \in DOMAIN q |-> F(q[i])])

\* Mutant: the page is released before the translations are gone.
zap_page_early(m, a) ==
    <<U("set", m, a, NoPte), U("release", m, a, as[m].pt[a]), U("flush", m, a, NoPte)>>
zap_page(m, a) ==
    <<U("set", m, a, NoPte), U("flush", m, a, NoPte), U("release", m, a, as[m].pt[a])>>
zap_range(m, s, e) == ForEach(Present(as[m], s, e), LAMBDA a : zap_page(m, a))

-----------------------------------------------------------------------------
(* Faults                                                                  *)

FreeFrames == {f \in Frs : frame[f].ref = 0}
alloc_page == Min(FreeFrames)
Allocated(s, f, d) == [s EXCEPT !.frame[f] = [ref |-> 1, data |-> d]]

\* handle_mm_fault: a fault below the stack extends it.
Grows(mm, a) ==
    /\ ~Mapped(mm.vmas, a)
    /\ Intersecting(mm.vmas, a, USER_VA_END) # {}
    /\ LET v == vma_find_intersect(mm.vmas, a, USER_VA_END)
       IN  v.growsdown /\ v.start - a <= USER_STACK_MAX
    /\ stack_top - a <= USER_STACK_MAX
Grown(s, m, a) ==
    LET mm == s.as[m]
        i == Min(Intersecting(mm.vmas, a, USER_VA_END))
    IN  [s EXCEPT !.as[m].vmas[i].start = a,
                  !.as[m].want = [b \in Vas |-> IF a <= b /\ b < mm.vmas[i].start THEN 0 ELSE @[b]]]

\* fault_in, no page yet: a fresh one, filled from the file.
fault_new(s, m, v, a) ==
    IF FreeFrames = {} THEN Run(s, <<>>) /\ UNCHANGED filling
    ELSE LET f == alloc_page
         IN  IF v.file /\ a - v.start < v.bytes /\ uload = "files"
               THEN /\ Run(Allocated(s, f, 0), <<>>)
                    /\ filling' = [filling EXCEPT ![m] = [fr |-> f, va |-> a]]
               ELSE /\ Run([Allocated(s, f, Fresh(v, a)) EXCEPT !.as[m].rss = @ + 1],
                           <<U("set", m, a, pte_prot(v, f))>>)
                    /\ UNCHANGED filling

SoleOwner(f) == frame[f].ref = 1

\* fault_in, a write to a read-only entry of a writable VMA: the sole owner of
\* the page may write again, anyone else gets a copy.
fault_cow(s, m, v, a, e) ==
    /\ IF SoleOwner(e.fr)
         THEN Run(s, <<U("set", m, a, [e EXCEPT !.ro = FALSE, !.cow = FALSE]), U("flush", m, a, e)>>)
         ELSE IF FreeFrames = {} THEN Run(s, <<>>)
         ELSE Run(Allocated(s, alloc_page, frame[e.fr].data),
                  <<U("set", m, a, pte_prot(v, alloc_page)), U("put", m, a, e), U("flush", m, a, e)>>)
    /\ UNCHANGED filling

\* A fault may also find that another thread has been here first.
handle_mm_fault(m, a, write) ==
    /\ Calls(m)
    /\ Mapped(as[m].vmas, a) \/ Grows(as[m], a)
    /\ LET s == IF Grows(as[m], a) THEN Grown(State, m, a) ELSE State
           v == vma_find(s.as[m].vmas, a)
           e == as[m].pt[a]
       IN  CASE v.prot = "none" \/ (write /\ v.prot # "rw") -> Run(s, <<>>) /\ UNCHANGED filling
             [] OTHER ->
                  \/ ~pte_valid(e) /\ fault_new(s, m, v, a)
                  \/ pte_valid(e) /\ write /\ e.ro /\ fault_cow(s, m, v, a, e)
                  \/ pte_valid(e) /\ ~(write /\ e.ro) /\ Run(s, <<U("flush", m, a, e)>>) /\ UNCHANGED filling
    /\ UNCHANGED asid_next

\* The file has been read, or could not be.
fill_page(m) ==
    LET a == filling[m].va
        f == filling[m].fr
        v == vma_find(as[m].vmas, a)
    IN  /\ todo = <<>> /\ filling[m] # NotFilling
        /\ \/ Run([State EXCEPT !.frame[f].data = Fresh(v, a), !.as[m].rss = @ + 1],
                  <<U("set", m, a, pte_prot(v, f))>>)
           \/ Run(put_page(State, f), <<>>)
        /\ filling' = [filling EXCEPT ![m] = NotFilling]
        /\ UNCHANGED asid_next

-----------------------------------------------------------------------------
(* fork and exit                                                           *)

AsidUsed(a) == \E m \in Mms : as[m].asid = a
asid_after(a) == IF a + 1 >= asid_limit THEN 1 ELSE a + 1
\* asid_alloc: the first free one from asid_next on.
asid_alloc(c) ==
    LET nth[n \in 0 .. asid_limit] == IF n = 0 THEN asid_next ELSE asid_after(nth[n - 1])
        hits == {n \in 0 .. asid_limit - 1 : ~AsidUsed(nth[n])}
    IN  /\ hits # {}
        /\ c.asid = nth[Min(hits)]
        /\ asid_next' = asid_after(c.asid)

\* free_tables of c, whose pages are those of m.
free_tables(c, m, pages) == ForEach(pages, LAMBDA a : <<U("release", c, a, as[m].pt[a])>>)

\* Mutant: the parent keeps its writable translations.
dup_done_unflushed(m, c) == <<U("born", c, 0, m)>>
dup_done(m, c) == <<U("flushall", m, 0, NoPte), U("born", c, 0, m)>>

\* mm_dup, which may run out of memory after any number of pages; the child is
\* then taken apart again, and the parent is not flushed.
mm_dup(m, c) ==
    /\ Calls(m) /\ as[c] = NewMm
    /\ \E id \in 1 .. asid_limit - 1, ok \in BOOLEAN :
       LET pages == Present(as[m], USER_MIN_ADDR, USER_VA_END)
           child == [NewMm EXCEPT !.asid = id, !.brk = as[m].brk, !.vmas = as[m].vmas]
           s == [State EXCEPT !.as[c] = child, !.as[m].stale = @ \/ ~ok]
           Dup(a) == <<U("dup", c, a, m)>>
       IN  /\ asid_alloc(child)
           /\ \/ ok /\ Run(s, ForEach(pages, Dup) \o dup_done(m, c))
              \/ /\ ~ok
                 /\ \E k \in 0 .. Len(pages) :
                      LET some == SubSeq(pages, 1, k)
                      IN  Run(s, ForEach(some, Dup) \o free_tables(c, m, some) \o <<U("free", c, 0, NoPte)>>)
    /\ UNCHANGED filling

\* mm_put when the last thread has left.
mm_put(m) ==
    /\ Calls(m)
    /\ Run([State EXCEPT !.as[m].live = FALSE],
           free_tables(m, m, Present(as[m], USER_MIN_ADDR, USER_VA_END)) \o <<U("free", m, 0, NoPte)>>)
    /\ UNCHANGED <<asid_next, filling>>

-----------------------------------------------------------------------------
(* The mmap family.  Inputs are legal ranges; others change nothing.       *)

\* unmap_region on [s, e), which gets as far as x, then the steps us.
unmap_region(m, s, x, us) ==
    /\ Run([State EXCEPT !.as[m].vmas = Without(@, s, x)], zap_range(m, s, x) \o us)
    /\ UNCHANGED <<asid_next, filling>>

Ends(m, s, e) == {e, Reached(as[m].vmas, s, e)}

do_munmap(m, s, e) ==
    /\ Calls(m)
    /\ \E x \in Ends(m, s, e) : unmap_region(m, s, x, <<>>)

\* do_mmap with MAP_FIXED: v takes the place of what is there.
mmap_fixed(m, v) ==
    /\ Calls(m)
    /\ \E x \in Ends(m, v.start, v.end) :
         unmap_region(m, v.start, x, IF x = v.end THEN <<U("map", m, 0, v)>> ELSE <<>>)

\* do_mmap without: at the hint if that is free, else where there is room.
do_mmap(m, hint, n, v) ==
    LET usable == /\ hint >= USER_MIN_ADDR /\ hint + n <= USER_VA_END
                  /\ Intersecting(as[m].vmas, hint, hint + n) = {}
        a == IF usable THEN hint ELSE mm_get_unmapped_area(as[m], n)
    IN  /\ Calls(m) /\ a # 0
        /\ Run(State, <<U("map", m, 0, [v EXCEPT !.start = a, !.end = a + n])>>)
        /\ UNCHANGED <<asid_next, filling>>

\* sys_madvise(MADV_DONTNEED): private anonymous pages are mapped anew.
sys_madvise(m, s, e) ==
    /\ Calls(m) /\ Mapped(as[m].vmas, s)
    /\ LET v == vma_find(as[m].vmas, s)
       IN  /\ ~v.file /\ ~v.shared
           /\ mmap_fixed(m, [v EXCEPT !.start = s, !.end = Min({e, v.end})])

\* Mutant: a page that is shared since a fork becomes writable.
protected_forgets(v, e) == [fr |-> e.fr, ro |-> v.prot # "rw", cow |-> FALSE]
protected(v, e) ==
    LET cow == e.cow \/ (~v.shared /\ frame[e.fr].ref > 1)
    IN  [fr |-> e.fr, ro |-> v.prot # "rw" \/ cow, cow |-> cow]

\* do_mprotect; one that gives up half-way does not flush.
do_mprotect(m, s, e, prot) ==
    /\ Calls(m) /\ \A a \in s .. e - 1 : Mapped(as[m].vmas, a)
    /\ \E x \in Ends(m, s, e) :
         LET split == SplitAt(SplitAt(as[m].vmas, s), x)
             vs == [i \in DOMAIN split |->
                      IF s <= split[i].start /\ split[i].end <= x
                        THEN [split[i] EXCEPT !.prot = prot] ELSE split[i]]
             Set(a) == <<U("set", m, a, protected(vma_find(vs, a), as[m].pt[a]))>>
         IN  /\ Run([State EXCEPT !.as[m].vmas = vs, !.as[m].stale = @ \/ x # e],
                    ForEach(Present(as[m], s, x), Set)
                      \o (IF x = e THEN <<U("flushall", m, 0, NoPte)>> ELSE <<>>))
             /\ UNCHANGED <<asid_next, filling>>

\* do_mremap of [s, s + old) to new pages, new > old: in place where there is
\* room, else moved with its pages, of which only k may get a page table; that
\* the old VMA could not be split afterwards goes unnoticed.
InPlace(m, s, old, new) ==
    /\ s + old = vma_find(as[m].vmas, s).end
    /\ s + new <= USER_VA_END
    /\ Intersecting(as[m].vmas, s + old, s + new) = {}

mremap_grow(m, s, old, new) ==
    LET i == Min(Intersecting(as[m].vmas, s, s + 1))
        v == [as[m].vmas[i] EXCEPT !.end = s + new]
    IN  /\ Run([State EXCEPT !.as[m].vmas[i] = v, !.as[m].want =
                  [a \in Vas |-> IF s + old <= a /\ a < s + new THEN Fresh(v, a) ELSE @[a]]], <<>>)
        /\ UNCHANGED <<asid_next, filling>>

moved(v, s, dst, new) ==
    [v EXCEPT !.start = dst, !.end = dst + new, !.off = IF v.file THEN @ + (s - v.start) ELSE 0,
              !.bytes = Max({0, @ - (s - v.start)})]

mremap_move(m, s, old, new) ==
    LET dst == mm_get_unmapped_area(as[m], new)
        pages == Present(as[m], s, s + old)
        mapped == map_vma(State, m, moved(vma_find(as[m].vmas, s), s, dst, new))
        Kept(a) == dst <= a /\ a < dst + old /\ ~pte_valid(as[m].pt[s + (a - dst)])
        start == [mapped EXCEPT !.as[m].want =
                    [a \in Vas |-> IF Kept(a) THEN as[m].want[s + (a - dst)] ELSE @[a]]]
        Move(a) == <<U("move", m, a, dst + (a - s)), U("flush", m, a, NoPte)>>
    IN  /\ dst # 0
        /\ \E k \in 0 .. Len(pages), x \in {s} \cup Ends(m, s, s + old) :
             Run(start, ForEach(SubSeq(pages, 1, k), Move)
                          \o (IF k = Len(pages) /\ x > s THEN <<U("unmap", m, s, x)>> ELSE <<>>))
        /\ UNCHANGED <<asid_next, filling>>

do_mremap(m, s, old, new) ==
    /\ Calls(m) /\ new > 0
    /\ Mapped(as[m].vmas, s) /\ s + old <= vma_find(as[m].vmas, s).end
    /\ \/ new < old /\ do_munmap(m, s + new, s + old)
       \/ new > old /\ InPlace(m, s, old, new) /\ mremap_grow(m, s, old, new)
       \/ new > old /\ ~InPlace(m, s, old, new) /\ mremap_move(m, s, old, new)

\* do_brk: a heap that grows stays a page clear of the next mapping.
brk_grow(m, nbrk) ==
    LET mm == as[m]
        below == IF mm.brk > brk_start THEN Intersecting(mm.vmas, mm.brk - 1, mm.brk) ELSE {}
        heap == {i \in below : /\ mm.vmas[i].end = mm.brk /\ mm.vmas[i].prot = "rw"
                               /\ ~(mm.vmas[i].file \/ mm.vmas[i].shared \/ mm.vmas[i].growsdown)}
        fresh == map_vma(State, m, Vma(mm.brk, nbrk, "rw"))
    IN  /\ Intersecting(mm.vmas, mm.brk, nbrk + 1) = {}
        /\ Run([fresh EXCEPT !.as[m].brk = nbrk,
                             !.as[m].vmas = IF heap = {} THEN @
                                            ELSE [mm.vmas EXCEPT ![Min(heap)].end = nbrk]], <<>>)
        /\ UNCHANGED <<asid_next, filling>>

brk_shrink(m, nbrk) ==
    \E x \in Ends(m, nbrk, as[m].brk) :
        /\ Run([State EXCEPT !.as[m].vmas = Without(@, nbrk, x), !.as[m].brk = nbrk],
               zap_range(m, nbrk, x))
        /\ UNCHANGED <<asid_next, filling>>

do_brk(m, nbrk) ==
    /\ Calls(m)
    /\ \/ nbrk > as[m].brk /\ brk_grow(m, nbrk)
       \/ nbrk < as[m].brk /\ brk_shrink(m, nbrk)

-----------------------------------------------------------------------------
(* User mode                                                               *)

Entry(m, a) == [asid |-> as[m].asid, va |-> a, fr |-> as[m].pt[a].fr, w |-> ~as[m].pt[a].ro]
Translations(m, a) ==
    IF Threaded THEN {x \in tlb : x.asid = as[m].asid /\ x.va = a}
    ELSE IF pte_valid(as[m].pt[a]) THEN {Entry(m, a)} ELSE {}

\* A CPU that runs a thread of m walks its tables.
TlbFill(m, a) ==
    /\ Threaded /\ as[m].live /\ pte_valid(as[m].pt[a])
    /\ tlb' = tlb \cup {Entry(m, a)} /\ Cardinality(tlb') <= MaxTlb
    /\ UNCHANGED <<as, frame, asid_next, todo, filling, vm_panic, uload>>

\* The datum belongs to the address where m has the page by now, and to the
\* others that share it.
UserWrite(m, a, d) ==
    /\ as[m].live /\ filling[m] = NotFilling
    /\ \E x \in Translations(m, a) :
         LET Sees(n, b) == /\ as[n].live /\ as[n].pt[b].fr = x.fr
                           /\ n = m \/ (Mapped(as[n].vmas, b) /\ vma_find(as[n].vmas, b).shared)
         IN  /\ x.w
             /\ frame' = [frame EXCEPT ![x.fr].data = d]
             /\ as' = [n \in Mms |-> [as[n] EXCEPT !.want =
                         [b \in Vas |-> IF Sees(n, b) THEN d ELSE @[b]]]]
    /\ UNCHANGED <<tlb, asid_next, todo, filling, vm_panic, uload>>

-----------------------------------------------------------------------------
Ranges == {r \in Vas \X (2 .. USER_VA_END) : r[1] < r[2]}

ForkNext ==
    \/ \E m, c \in Mms : mm_dup(m, c)
    \/ \E m \in Mms : mm_put(m)
ProtectNext ==
    \E m \in Mms : \E r \in Ranges :
        \/ sys_madvise(m, r[1], r[2])
        \/ \E prot \in {"none", "r", "rw"} : do_mprotect(m, r[1], r[2], prot)
RemapNext ==
    \E m \in Mms :
        \/ mmap_fixed(m, FileVma(1, 4, 0))
        \/ Len(as[m].vmas) <= MaxVmas /\ \E a \in Vas, old, new \in 0 .. 2 : do_mremap(m, a, old, new)
FilesNext ==
    \E m \in Mms : fill_page(m) \/ mmap_fixed(m, FileVma(1, 3, 1))
BrkNext ==
    \E m \in Mms :
        \/ \E nbrk \in Vas : do_brk(m, nbrk)
        \/ \E hint \in {0} \cup Vas, n \in 1 .. 2 : do_mmap(m, hint, n, Vma(0, 0, "rw"))

VmNext ==
    \/ Go
    \/ \E m \in Mms, a \in Vas : TlbFill(m, a)
    \/ \E m \in Mms, a \in Vas, d \in Data : UserWrite(m, a, d)
    \/ \E m \in Mms, a \in Vas, write \in BOOLEAN : handle_mm_fault(m, a, write)
    \/ uload \notin {"fork", "maps"} /\ \E m \in Mms : \E r \in Ranges : do_munmap(m, r[1], r[2])
    \/ uload \in {"fork", "cow", "files"} /\ ForkNext
    \/ uload \in {"cow", "threads"} /\ ProtectNext
    \/ uload = "maps" /\ RemapNext
    \/ uload = "files" /\ FilesNext
    \/ uload = "heap" /\ BrkNext

\* What tells states apart: not the contents of free frames, what was wanted where
\* nothing is mapped, nor the offset of a VMA that reaches nothing of its file.
VmView ==
    LET seen(mm) ==
          [mm EXCEPT !.want = [a \in Vas |-> IF Mapped(mm.vmas, a) THEN @[a] ELSE 0],
                     !.vmas = [i \in DOMAIN @ |-> [@[i] EXCEPT !.off = IF mm.vmas[i].bytes = 0 THEN 0 ELSE @]]]
    IN  <<[m \in Mms |-> seen(as[m])], [f \in Frs |-> IF frame[f].ref = 0 THEN 0 ELSE frame[f]],
          tlb, asid_next, todo, filling, vm_panic, uload>>

-----------------------------------------------------------------------------
Live == {m \in Mms : as[m].live}
MappedAt(m) == {a \in Vas : Mapped(as[m].vmas, a)}
Users(f) == {p \in Mms \X Vas : as[p[1]].pt[p[2]].fr = f}

\* Between operations the books of every address space agree, also after fork,
\* mprotect, munmap or mremap ran out of memory half-way: the VMAs are in order
\* and apart; pages are mapped only inside them; a page has one reference for
\* each entry or sleeping fault and is free without; rss counts the entries; and
\* an entry is writable only in a writable VMA, on a page that nobody shares
\* unless the VMA is a shared one.  page_put never panics.
SpacesExact ==
    /\ ~vm_panic
    /\ todo = <<>> =>
        /\ \A m \in Live :
             LET vs == as[m].vmas
                 there == {a \in Vas : pte_valid(as[m].pt[a])}
             IN  /\ \A i \in DOMAIN vs : /\ vs[i].start < vs[i].end
                                         /\ i > 1 => vs[i - 1].end <= vs[i].start
                 /\ there \subseteq MappedAt(m) /\ as[m].rss = Cardinality(there)
                 /\ \A a \in there :
                      LET v == vma_find(vs, a)
                          e == as[m].pt[a]
                      IN  /\ ~e.ro => v.prot = "rw" /\ (v.shared \/ frame[e.fr].ref = 1)
                          /\ v.shared => ~e.cow
        /\ \A f \in Frs : frame[f].ref = Cardinality(Users(f))
                             + Cardinality({m \in Mms : filling[m].fr = f})

\* A translation a running process can still use never leads to a free page,
\* even in the middle of munmap, madvise, copy-on-write or another process's
\* exit.  Between operations it leads where the page table does, lets a program
\* write only to pages of its own or of a shared VMA, and an ASID nobody has has
\* none left; unless an operation gave up before its flush, it is no wider than
\* the page table.
TranslationsSafe ==
    /\ \A m \in Live, x \in tlb : x.asid = as[m].asid => frame[x.fr].ref > 0
    /\ todo = <<>> => \A x \in tlb : \E m \in Live :
         /\ x.asid = as[m].asid
         /\ as[m].pt[x.va].fr = x.fr
         /\ x.w => vma_find(as[m].vmas, x.va).shared \/ frame[x.fr].ref = 1
         /\ x.w /\ ~as[m].stale => ~as[m].pt[x.va].ro

\* Every process finds in memory what it put there, or what the file or zeros
\* were there to begin with: through copy-on-write, a fork that succeeds or fails
\* at any page while other threads go on writing, VMAs that are split, moved,
\* grown and replaced, and pages that come back.
ContentsExact ==
    todo = <<>> => \A m \in Live : \A a \in MappedAt(m) :
        LET e == as[m].pt[a]
        IN  as[m].want[a] = IF pte_valid(e) THEN frame[e.fr].data
                            ELSE Fresh(vma_find(as[m].vmas, a), a)
=============================================================================
