------------------------------ MODULE Vmalloc ------------------------------
(***************************************************************************)
(* The kernel's virtual areas (mm/vmalloc.c): vmalloc, kernel stacks and   *)
(* ioremap on several CPUs at once.  vm_lock covers the list of areas only *)
(* and kpt_lock one page table entry, so pages are mapped and unmapped one *)
(* by one while other CPUs allocate and free areas.  An area is a guard    *)
(* page followed by its pages; addresses count pages.                      *)
(***************************************************************************)
EXTENDS Integers, Sequences, FiniteSets

CONSTANTS VCpus,         \* CPUs that call vmalloc
          VMALLOC_END,   \* the areas are in 0 .. VMALLOC_END - 1
          Frames,        \* pages of the page allocator that are left for it
          Device, Unmapped,   \* a page of a device; no page
          AreaSizes      \* numbers of pages asked for

ASSUME VmallocAssumption ==
    /\ VMALLOC_END \in Nat /\ AreaSizes \subseteq Nat \ {0}
    /\ Device \notin Frames /\ Unmapped \notin Frames \cup {Device}

VARIABLES areas,    \* the list of areas, by address
          kpt,      \* swapper_pg_dir: what each address maps
          pool,     \* frames alloc_page can return
          vcall,    \* the call each CPU is in
          mapped    \* areas the callers hold: the area and the pages it got

va_vars == <<areas, kpt, pool, vcall, mapped>>

KAddrs == 0 .. VMALLOC_END - 1
Call(op, start, off, at) == [op |-> op, start |-> start, off |-> off, at |-> at]
NoCall == Call("none", 0, 0, 0)

VmallocInit ==
    /\ areas = <<>> /\ kpt = [a \in KAddrs |-> Unmapped] /\ pool = Frames
    /\ vcall = [c \in VCpus |-> NoCall] /\ mapped = {}

\* The list with area a linked in front of the k-th; without the k-th.
Linked(k, a) ==
    [i \in 1 .. Len(areas) + 1 |-> IF i < k THEN areas[i] ELSE IF i = k THEN a ELSE areas[i - 1]]
Unlinked(k) == [i \in 1 .. Len(areas) - 1 |-> IF i < k THEN areas[i] ELSE areas[i + 1]]

\* va_lookup: the area at an address, which is on the list, and its pages.
Place(start) == CHOOSE k \in DOMAIN areas : areas[k].start = start
Area(start) == areas[Place(start)]
PagesOf(start) == Area(start).size - 1

\* va_alloc: the end of the area in front of the k-th, and whether the gap between
\* the two is large enough; behind the last area it always is.
AreaEnd(i) == IF i = 0 THEN 0 ELSE areas[i].start + areas[i].size
Gap(k, size) == k <= Len(areas) => AreaEnd(k - 1) + size <= areas[k].start

\* va_alloc of n pages and the guard page: the first gap that is large enough.
\* Without one, or without memory for the vm_area, nothing happens.
va_alloc(c, n, owns) ==
    \E k \in 1 .. Len(areas) + 1 :
        /\ vcall[c] = NoCall
        /\ Gap(k, n + 1) /\ \A j \in 1 .. k - 1 : ~Gap(j, n + 1)
        /\ AreaEnd(k - 1) + n + 1 <= VMALLOC_END
        /\ areas' = Linked(k, [start |-> AreaEnd(k - 1), size |-> n + 1, owns |-> owns])
        /\ vcall' = [vcall EXCEPT ![c] = Call("map", AreaEnd(k - 1), 0, 0)]
        /\ UNCHANGED <<kpt, pool, mapped>>

\* vmap_pages and ioremap_prot: map the next page.
map_page(c) ==
    LET v == vcall[c]
        a == v.start + 1 + v.off
    IN  /\ v.op = "map" /\ v.off < PagesOf(v.start)
        /\ IF Area(v.start).owns
             THEN \E p \in pool : kpt' = [kpt EXCEPT ![a] = p] /\ pool' = pool \ {p}
             ELSE kpt' = [kpt EXCEPT ![a] = Device] /\ UNCHANGED pool
        /\ vcall' = [vcall EXCEPT ![c] = Call(v.op, v.start, v.off + 1, v.at)]
        /\ UNCHANGED <<areas, mapped>>

map_done(c) ==
    LET v == vcall[c]
    IN  /\ v.op = "map" /\ v.off = PagesOf(v.start)
        /\ mapped' = mapped \cup {[start |-> v.start, owns |-> Area(v.start).owns,
                                   got |-> [i \in 1 .. v.off |-> kpt[v.start + i]]]}
        /\ vcall' = [vcall EXCEPT ![c] = NoCall]
        /\ UNCHANGED <<areas, kpt, pool>>

\* vmap_pages: no page left; take back those mapped so far.
map_fails(c) ==
    LET v == vcall[c]
    IN  /\ v.op = "map" /\ v.off < PagesOf(v.start)
        /\ Area(v.start).owns /\ pool = {}
        /\ vcall' = [vcall EXCEPT ![c] = Call("unwind", v.start, v.off, 0)]
        /\ UNCHANGED <<areas, kpt, pool, mapped>>

\* unmap_kernel_page, and the page goes back if the area owns it.
Unmap(a, owns) ==
    /\ kpt' = [kpt EXCEPT ![a] = Unmapped]
    /\ pool' = IF owns /\ kpt[a] # Unmapped THEN pool \cup {kpt[a]} ELSE pool

unwind_page(c) ==
    LET v == vcall[c]
    IN  /\ v.op = "unwind" /\ v.at < v.off
        /\ Unmap(v.start + 1 + v.at, TRUE)
        /\ vcall' = [vcall EXCEPT ![c] = Call(v.op, v.start, v.off, v.at + 1)]
        /\ UNCHANGED <<areas, mapped>>

va_remove(c) ==
    /\ areas' = Unlinked(Place(vcall[c].start))
    /\ vcall' = [vcall EXCEPT ![c] = NoCall]
unwind_done(c) ==
    /\ vcall[c].op = "unwind" /\ vcall[c].at = vcall[c].off
    /\ va_remove(c) /\ UNCHANGED <<kpt, pool, mapped>>

\* Mutant: the range is given back before it is unmapped.
vfree_early(c, x) ==
    /\ vcall[c] = NoCall
    /\ mapped' = mapped \ {x}
    /\ areas' = Unlinked(Place(x.start))
    /\ vcall' = [vcall EXCEPT ![c] = Call("free", x.start, 0, 0)]
    /\ UNCHANGED <<kpt, pool>>
\* vfree and iounmap: "Unmap while the range is still reserved" ...
vfree(c, x) ==
    /\ vcall[c] = NoCall
    /\ mapped' = mapped \ {x}
    /\ vcall' = [vcall EXCEPT ![c] = Call("free", x.start, 0, 0)]
    /\ UNCHANGED <<areas, kpt, pool>>
free_page(c) ==
    LET v == vcall[c]
    IN  /\ v.op = "free" /\ v.off < PagesOf(v.start)
        /\ Unmap(v.start + 1 + v.off, Area(v.start).owns)
        /\ vcall' = [vcall EXCEPT ![c] = Call(v.op, v.start, v.off + 1, v.at)]
        /\ UNCHANGED <<areas, mapped>>
\* ... then remove it.
free_done(c) ==
    /\ vcall[c].op = "free" /\ vcall[c].off = PagesOf(vcall[c].start)
    /\ va_remove(c) /\ UNCHANGED <<kpt, pool, mapped>>

VmallocNext ==
    \E c \in VCpus :
        \/ \E n \in AreaSizes, owns \in BOOLEAN : va_alloc(c, n, owns)
        \/ map_page(c) \/ map_done(c) \/ map_fails(c) \/ unwind_page(c) \/ unwind_done(c)
        \/ \E x \in mapped : vfree(c, x)
        \/ free_page(c) \/ free_done(c)

VmallocSpec == VmallocInit /\ [][VmallocNext]_va_vars

-----------------------------------------------------------------------------
\* Areas do not overlap, whatever CPUs allocate, fail and free at once; the
\* first page of each, the guard below a kernel stack, is never mapped; what a
\* caller got stays mapped until the caller frees it; and every frame is in the
\* pool or mapped once.
AreasExact ==
    /\ \A i \in DOMAIN areas : /\ areas[i].start >= AreaEnd(i - 1) /\ AreaEnd(i) <= VMALLOC_END
                               /\ kpt[areas[i].start] = Unmapped
    /\ \A a \in KAddrs : kpt[a] # Unmapped
           => \E i \in DOMAIN areas : areas[i].start < a /\ a < AreaEnd(i)
    /\ \A x \in mapped : \A i \in DOMAIN x.got : kpt[x.start + i] = x.got[i] /\ x.got[i] # Unmapped
    /\ \A p \in Frames : Cardinality({a \in KAddrs : kpt[a] = p}) = IF p \in pool THEN 0 ELSE 1
=============================================================================
