----------------------------- MODULE PageAlloc -----------------------------
(***************************************************************************)
(* Physical memory: the boot-time region lists of mm/memblock.c, the buddy *)
(* allocator of mm/page_alloc.c and kmalloc (mm/kmalloc.c) on top of it.   *)
(*                                                                         *)
(* zone_lock and kmalloc_lock are held over whole functions, so a call is  *)
(* one step on the record hp; only kfree returns an empty slab page after  *)
(* its unlock.  Addresses count units of which a page has PAGE_SIZE; the   *)
(* contents of memory are left out.                                        *)
(***************************************************************************)
EXTENDS Integers, Sequences, FiniteSets, SequencesExt, FiniteSetsExt

CONSTANTS PAGE_SIZE,   \* units of a page
          Top,         \* bound: addresses are below Top
          Banks,       \* the ranges <<base, size>> firmware may report as RAM
          Carveouts,   \* the ranges that may be reserved
          Layouts,     \* boot results the allocators are explored on
          ZoneStart,   \* zones[z].start_pfn
          MAX_ORDER,
          ClassSize,   \* sizes of the slab classes
          MaxRefs      \* bound: references to a page

ASSUME PageAllocAssumption ==
    /\ PAGE_SIZE \in Nat \ {0} /\ MAX_ORDER \in Nat \ {0}
    /\ Top % PAGE_SIZE = 0 /\ ZoneStart[1] = 0
    /\ \A r \in Banks \cup Carveouts : r[1] + r[2] <= Top

VARIABLES memory, reserved,   \* the two region lists
          ram, kept,          \* the pages that were added, that were reserved
          hp,                 \* the allocators: see Heap
          held,               \* what the callers have allocated
          dropped             \* slab pages kfree has unlinked and not yet freed

pa_vars == <<memory, reserved, ram, kept, hp, held, dropped>>

ALIGN_DOWN(a, n) == a - (a % n)
ALIGN_UP(a, n) == ALIGN_DOWN(a + n - 1, n)
Least(a, b) == IF a < b THEN a ELSE b
Greatest(a, b) == IF a < b THEN b ELSE a
NoPage == -1

-----------------------------------------------------------------------------
(* memblock                                                                *)

End(r) == r.base + r.size

\* The merged region at its place in the order.
PlacedIn(m) ==
    LET below == SelectSeq(m.rest, LAMBDA r : r.base < m.base)
    IN  below \o <<[base |-> m.base, size |-> m.end - m.base]>>
              \o SubSeq(m.rest, Len(below) + 1, Len(m.rest))

\* Mutant: only regions that overlap are merged with the new one.
insert_overlap(l, base, size) ==
    LET near(r) == End(r) > base /\ base + size > r.base
        met == {r \in ToSet(l) : near(r)}
    IN  IF size = 0 THEN l
        ELSE PlacedIn([base |-> Min({base} \cup {r.base : r \in met}),
                       end |-> Max({base + size} \cup {End(r) : r \in met}),
                       rest |-> SelectSeq(l, LAMBDA r : ~near(r))])

\* insert: one pass that swallows every region the growing one touches, then
\* the place in the order.
insert(l, base, size) ==
    LET swallow(acc, r) ==
            IF End(r) < acc.base \/ acc.end < r.base
              THEN [acc EXCEPT !.rest = Append(@, r)]
              ELSE [acc EXCEPT !.base = Least(@, r.base), !.end = Greatest(@, End(r))]
    IN  IF size = 0 THEN l
        ELSE PlacedIn(FoldLeft(swallow, [base |-> base, end |-> base + size, rest |-> <<>>], l))

PagesIn(b, e) == {p \in 0 .. Top \div PAGE_SIZE : b <= p * PAGE_SIZE /\ (p + 1) * PAGE_SIZE <= e}
Covered(l) == UNION {PagesIn(r.base, End(r)) : r \in ToSet(l)}

added(l, base, size) ==
    LET b == ALIGN_UP(base, PAGE_SIZE)
        e == ALIGN_DOWN(base + size, PAGE_SIZE)
    IN  IF e > b THEN insert(l, b, e - b) ELSE l
with_reserved(l, base, size) ==
    LET b == ALIGN_DOWN(base, PAGE_SIZE)
    IN  insert(l, b, ALIGN_UP(base + size, PAGE_SIZE) - b)

memblock_is_reserved(l, a) == \E r \in ToSet(l) : a >= r.base /\ a - r.base < r.size

\* memblock_alloc: the address, or 0.  Banks are tried from the top; in a bank
\* the candidate moves below the first reserved region it meets.
memblock_alloc(mem, res, size0, align, limit) ==
    LET size == ALIGN_UP(size0, PAGE_SIZE)
        InBank(r) ==
            LET lo == r.base
                hi == Least(End(r), limit)
                hit(c) == {j \in DOMAIN res : c < End(res[j]) /\ res[j].base < c + size}
                try[c \in 0 .. Top] ==
                    IF c < lo THEN 0
                    ELSE IF hit(c) = {} THEN c
                    ELSE LET b == res[Min(hit(c))].base
                         IN  IF b < size THEN 0 ELSE try[ALIGN_DOWN(b - size, align)]
            IN  IF hi <= lo \/ hi - lo < size THEN 0 ELSE try[ALIGN_DOWN(hi - size, align)]
        ok == {i \in DOMAIN mem : InBank(mem[i]) # 0}
    IN  IF ok = {} THEN 0 ELSE InBank(mem[Max(ok)])

-----------------------------------------------------------------------------
(* The buddy allocator                                                     *)

Zones == DOMAIN ZoneStart
Orders == 0 .. MAX_ORDER - 1
Classes == DOMAIN ClassSize
Objects(c) == PAGE_SIZE \div ClassSize[c]

ZoneEnd(z) == IF z + 1 \in Zones THEN ZoneStart[z + 1] ELSE Top
pfn_zone(pfn) == Max({z \in Zones : pfn >= ZoneStart[z]})

Page == [flags |-> {"reserved"}, order |-> 0, ref |-> 0,
         slab_class |-> 0, inuse |-> 0, freelist |-> <<>>]

\* mem_map and the free lists before any page is handed over.
Heap(base, end) ==
    [pg |-> [p \in base .. end - 1 |-> Page],
     free |-> [z \in Zones |-> [o \in Orders |-> <<>>]],
     free_pages |-> [z \in Zones |-> 0],
     partial |-> [c \in Classes |-> <<>>], pages |-> [c \in Classes |-> 0],
     bytes_in_use |-> 0, panic |-> FALSE]
NoHeap == Heap(0, 0)

pfn_valid(h, pfn) == pfn \in DOMAIN h.pg
Span(p, o) == p .. p + 2^o - 1

add_free(h, z, p, o) ==
    [h EXCEPT !.pg[p].flags = @ \cup {"buddy"}, !.pg[p].order = o,
              !.free[z][o] = <<p>> \o @]
del_free(h, z, p, o) ==
    [h EXCEPT !.free[z][o] = Remove(@, p), !.pg[p].flags = @ \ {"buddy"}]

\* pfn ^ (1 << order), for the block of pfn at that order.
Buddy(pfn, o) ==
    LET a == ALIGN_DOWN(pfn, 2^o) IN IF (a \div 2^o) % 2 = 0 THEN a + 2^o ELSE a - 2^o

\* The loop condition of __free.
Merges(h, z, pfn, o) ==
    LET b == Buddy(pfn, o)
    IN  /\ pfn_valid(h, b) /\ b >= ZoneStart[z] /\ b < ZoneEnd(z)
        /\ "buddy" \in h.pg[b].flags /\ h.pg[b].order = o

\* __free: swallow the buddy as long as it is free, then link the block.
block_free(h, pfn, order) ==
    LET z == pfn_zone(pfn)
        top == Max({o \in order .. MAX_ORDER - 1 :
                        \A i \in order .. o - 1 : Merges(h, z, pfn, i)})
        unlink(g, o) == del_free(g, z, Buddy(pfn, o), o)
        h1 == FoldLeft(unlink, [h EXCEPT !.free_pages[z] = @ + 2^order],
                       [i \in 1 .. top - order |-> order + i - 1])
    IN  add_free(h1, z, ALIGN_DOWN(pfn, 2^top), top)

\* __alloc: the first block of the smallest sufficient order; the upper halves
\* go back.
Sufficient(h, z, order) == {o \in order .. MAX_ORDER - 1 : h.free[z][o] # <<>>}
Split(h, z, p, o, order) ==
    LET split(g, i) == add_free(g, z, p + 2^i, i)
        h1 == FoldLeft(split, del_free(h, z, p, o), [i \in 1 .. o - order |-> o - i])
    IN  [h |-> [h1 EXCEPT !.free_pages[z] = @ - 2^order], p |-> p]
block_alloc(h, z, order) ==
    LET o == Min(Sufficient(h, z, order)) IN Split(h, z, Head(h.free[z][o]), o, order)

\* alloc_pages: the preferred zone, else a lower one.
Referenced(r, order) ==
    [r EXCEPT !.h.pg = [q \in DOMAIN @ |->
                  IF q \in Span(r.p, order)
                    THEN [@[q] EXCEPT !.ref = 1, !.order = IF q = r.p THEN order ELSE @]
                    ELSE @[q]],
              !.h.panic = @ \/ \E q \in Span(r.p, order) :
                                  r.h.pg[q].flags \cap {"reserved", "slab"} # {}]
alloc_pages(h, top, order) ==
    LET fit == {z \in 1 .. top : Sufficient(h, z, order) # {}}
    IN  IF order >= MAX_ORDER \/ fit = {} THEN [h |-> h, p |-> NoPage]
        ELSE Referenced(block_alloc(h, Max(fit), order), order)

free_pages(h, p, order) ==
    IF h.pg[p].flags \cap {"buddy", "reserved"} # {} THEN [h EXCEPT !.panic = TRUE]
    ELSE block_free([h EXCEPT !.pg = [q \in DOMAIN @ |->
             IF q \in Span(p, order) THEN [@[q] EXCEPT !.ref = 0] ELSE @[q]]], p, order)

page_put(h, p) ==
    LET r == h.pg[p].ref - 1
    IN  IF r < 0 THEN [h EXCEPT !.panic = TRUE]
        ELSE IF r = 0 THEN free_pages(h, p, 0)
        ELSE [h EXCEPT !.pg[p].ref = r]

-----------------------------------------------------------------------------
(* kmalloc                                                                 *)

\* new_slab: a page of the class, all objects free.
AsSlab(r, c) ==
    IF r.p = NoPage THEN r
    ELSE [r EXCEPT !.h.pg[r.p] = [@ EXCEPT !.flags = @ \cup {"slab"}, !.slab_class = c,
                                           !.inuse = 0,
                                           !.freelist = [i \in 1 .. Objects(c) |-> i]],
                   !.h.partial[c] = <<r.p>> \o @, !.h.pages[c] = @ + 1]
new_slab(h, c) == AsSlab(alloc_pages(h, Max(Zones), 0), c)

\* The locked part of kmalloc: an object of the first page that has one.
TakeObject(n, c) ==
    LET list == n.h.pg[n.p].freelist
    IN  IF n.p = NoPage THEN [h |-> n.h, p |-> NoPage, obj |-> 0]
        ELSE [p |-> n.p, obj |-> Head(list),
              h |-> [n.h EXCEPT !.pg[n.p].freelist = Tail(@), !.pg[n.p].inuse = @ + 1,
                                !.partial[c] = IF Len(list) = 1 THEN Remove(@, n.p) ELSE @,
                                !.bytes_in_use = @ + ClassSize[c]]]
slab_alloc(h, c) ==
    TakeObject(IF h.partial[c] = <<>> THEN new_slab(h, c)
               ELSE [h |-> h, p |-> Head(h.partial[c])], c)

\* Mutant: a page that was full is not put back on the partial list.
slab_free_lost(h, p, obj) ==
    LET c == h.pg[p].slab_class
    IN  [h EXCEPT !.pg[p].freelist = <<obj>> \o @, !.pg[p].inuse = @ - 1,
                  !.bytes_in_use = @ - ClassSize[c]]
\* The locked part of kfree.
slab_free(h, p, obj) ==
    LET c == h.pg[p].slab_class
    IN  [h EXCEPT !.pg[p].freelist = <<obj>> \o @, !.pg[p].inuse = @ - 1,
                  !.partial[c] = IF h.pg[p].freelist = <<>> THEN <<p>> \o @ ELSE @,
                  !.bytes_in_use = @ - ClassSize[c]]
Empties(h, p) == h.pg[p].inuse = 0 /\ h.pages[h.pg[p].slab_class] > 1
slab_unlink(h, p) ==
    LET c == h.pg[p].slab_class
    IN  [h EXCEPT !.partial[c] = Remove(@, p), !.pages[c] = @ - 1,
                  !.pg[p].flags = @ \ {"slab"}]

-----------------------------------------------------------------------------
(* Boot, and the callers                                                   *)

\* The fields of a struct page that its flags say are unused keep what they had;
\* nothing reads them, and they are not told apart.
Settled(h) ==
    [h EXCEPT !.pg = [p \in DOMAIN @ |->
        [@[p] EXCEPT !.order = IF h.pg[p].flags \cap {"buddy", "compound"} # {} THEN @ ELSE 0,
                     !.slab_class = IF "slab" \in h.pg[p].flags THEN @ ELSE 0,
                     !.freelist = IF "slab" \in h.pg[p].flags THEN @ ELSE <<>>]]]

HandOver(h, p) == block_free([h EXCEPT !.pg[p].flags = {}], p, 0)

\* page_alloc_init: mem_map from memblock, then every page of RAM that is not
\* reserved, from the lowest on.
page_alloc_init(mem, res) ==
    LET base == mem[1].base \div PAGE_SIZE
        end == End(mem[Len(mem)]) \div PAGE_SIZE
        pa == memblock_alloc(mem, res, 1, PAGE_SIZE, Top)
        res1 == with_reserved(res, pa, 1)
        usable == {p \in Covered(mem) : ~memblock_is_reserved(res1, p * PAGE_SIZE)}
    IN  IF pa = 0 THEN [h |-> [Heap(base, end) EXCEPT !.panic = TRUE], res |-> res]
        ELSE [res |-> res1,
              h |-> FoldLeft(HandOver, Heap(base, end), SetToSortSeq(usable, <))]

BootInit ==
    /\ memory = <<>> /\ reserved = <<>> /\ ram = {} /\ kept = {}
    /\ hp = NoHeap /\ held = {} /\ dropped = {}

\* A machine after page_alloc_init.
HeapInit ==
    \E l \in Layouts :
        \E mem \in {FoldLeft(LAMBDA m, r : added(m, r[1], r[2]), <<>>, l.ram)},
           res \in {FoldLeft(LAMBDA m, r : with_reserved(m, r[1], r[2]), <<>>, l.reserved)} :
        \E up \in {page_alloc_init(mem, res)} :
            /\ memory = mem /\ ram = Covered(mem)
            /\ reserved = up.res /\ kept = Covered(up.res)
            /\ hp = Settled(up.h) /\ held = {} /\ dropped = {}

Booting == hp = NoHeap
memblock_add(base, size) ==
    /\ Booting
    /\ memory' = added(memory, base, size)
    /\ ram' = ram \cup PagesIn(base, base + size)
    /\ UNCHANGED <<reserved, kept, hp, held, dropped>>
memblock_reserve(base, size) ==
    /\ Booting
    /\ reserved' = with_reserved(reserved, base, size)
    /\ kept' = kept \cup {p \in 0 .. Top \div PAGE_SIZE :
                             p * PAGE_SIZE < base + size /\ base < (p + 1) * PAGE_SIZE}
    /\ UNCHANGED <<memory, ram, hp, held, dropped>>
start_allocator ==
    /\ Booting /\ memory # <<>>
    /\ memblock_alloc(memory, reserved, 1, PAGE_SIZE, Top) # 0
    /\ \E up \in {page_alloc_init(memory, reserved)} : hp' = Settled(up.h) /\ reserved' = up.res
    /\ kept' = Covered(reserved')
    /\ UNCHANGED <<memory, ram, held, dropped>>

BootNext ==
    \/ \E r \in Banks : memblock_add(r[1], r[2])
    \/ \E r \in Carveouts : memblock_reserve(r[1], r[2])
    \/ start_allocator

boot_vars == <<memory, reserved, ram, kept>>

GetPages(top, order) ==
    \E r \in {alloc_pages(hp, top, order)} :
        /\ r.p # NoPage
        /\ hp' = Settled(r.h)
        /\ held' = held \cup {[kind |-> "pages", p |-> r.p, o |-> order, n |-> 1,
                               low |-> pfn_zone(r.p) <= top]}
        /\ UNCHANGED <<boot_vars, dropped>>
PutPages(x) ==
    /\ x.kind = "pages" /\ x.n = 1
    /\ hp' = Settled(free_pages(hp, x.p, x.o))
    /\ held' = held \ {x} /\ UNCHANGED <<boot_vars, dropped>>
page_get(x) ==
    /\ x.kind = "pages" /\ x.o = 0 /\ x.n < MaxRefs
    /\ hp' = [hp EXCEPT !.pg[x.p].ref = @ + 1]
    /\ held' = (held \ {x}) \cup {[x EXCEPT !.n = @ + 1]} /\ UNCHANGED <<boot_vars, dropped>>
PutRef(x) ==
    /\ x.kind = "pages" /\ x.o = 0
    /\ hp' = Settled(page_put(hp, x.p))
    /\ held' = (held \ {x}) \cup (IF x.n = 1 THEN {} ELSE {[x EXCEPT !.n = @ - 1]})
    /\ UNCHANGED <<boot_vars, dropped>>

kmalloc(c) ==
    \E r \in {slab_alloc(hp, c)} :
        /\ r.p # NoPage
        /\ hp' = Settled(r.h)
        /\ held' = held \cup {[kind |-> "obj", p |-> r.p, obj |-> r.obj]}
        /\ UNCHANGED <<boot_vars, dropped>>
kmalloc_large(order) ==
    \E r \in {alloc_pages(hp, Max(Zones), order)} :
        /\ r.p # NoPage
        /\ hp' = Settled([r.h EXCEPT !.pg[r.p].flags = @ \cup {"compound"},
                                     !.bytes_in_use = @ + PAGE_SIZE * 2^order])
        /\ held' = held \cup {[kind |-> "large", p |-> r.p, o |-> order]}
        /\ UNCHANGED <<boot_vars, dropped>>

\* kfree of an object; the page may have to go back ...
kfree(x) ==
    LET h == slab_free(hp, x.p, x.obj)
    IN  /\ x.kind = "obj"
        /\ held' = held \ {x}
        /\ IF Empties(h, x.p)
             THEN hp' = Settled(slab_unlink(h, x.p)) /\ dropped' = dropped \cup {x.p}
             ELSE hp' = h /\ dropped' = dropped
        /\ UNCHANGED boot_vars
\* ... which happens after kmalloc_lock is released.
kfree_page(p) ==
    /\ hp' = Settled(free_pages(hp, p, 0))
    /\ dropped' = dropped \ {p} /\ UNCHANGED <<boot_vars, held>>
kfree_large(x) ==
    LET o == hp.pg[x.p].order
    IN  /\ x.kind = "large"
        /\ hp' = Settled(free_pages([hp EXCEPT !.pg[x.p].flags = @ \ {"compound"},
                                               !.bytes_in_use = @ - PAGE_SIZE * 2^o], x.p, o))
        /\ held' = held \ {x} /\ UNCHANGED <<boot_vars, dropped>>

HeapNext ==
    \/ \E z \in Zones, o \in Orders : GetPages(z, o)
    \/ \E x \in held : PutPages(x) \/ page_get(x) \/ PutRef(x) \/ kfree(x) \/ kfree_large(x)
    \/ \E c \in Classes : kmalloc(c)
    \/ \E o \in Orders \ {0} : kmalloc_large(o)
    \/ \E p \in dropped : kfree_page(p)

-----------------------------------------------------------------------------
\* memblock keeps both lists sorted, with gaps between the regions, and they
\* cover exactly what was added and reserved; memblock_alloc returns the highest
\* aligned place below the limit that is RAM and not reserved, or 0.
MemblockExact ==
    /\ \A l \in {memory, reserved} :
           \A i \in DOMAIN l : l[i].size > 0 /\ \A j \in 1 .. i - 1 : End(l[j]) < l[i].base
    /\ Covered(memory) = ram /\ Covered(reserved) = kept
    /\ Booting /\ memory # <<>> => \A n \in {1, 2}, align \in {PAGE_SIZE, 2 * PAGE_SIZE}, limit \in {Top, Top \div 2} :
           LET Fits(a) == /\ a + n * PAGE_SIZE <= limit
                          /\ \E r \in ToSet(memory) : r.base <= a /\ a + n * PAGE_SIZE <= End(r)
                          /\ PagesIn(a, a + n * PAGE_SIZE) \subseteq ram \ kept
               places == {a \in 1 .. Top : a % align = 0 /\ Fits(a)}
           IN  memblock_alloc(memory, reserved, n * PAGE_SIZE, align, limit)
                   = IF places = {} THEN 0 ELSE Max(places)

\* Blocks on the free lists, and blocks in use.
FreeBlocks == {<<p, o>> \in (DOMAIN hp.pg) \X Orders : \E z \in Zones : Contains(hp.free[z][o], p)}
SlabPages == {p \in DOMAIN hp.pg : "slab" \in hp.pg[p].flags}
UsedBlocks ==
    {<<x.p, x.o>> : x \in {y \in held : y.kind # "obj"}} \cup ((SlabPages \cup dropped) \X {0})

\* The buddy allocator gives every page to one owner at most and loses none,
\* through splits and merges at zone edges, holes and the ends of memory; blocks
\* are merged as far as they can be; flags, counts and reference counts agree;
\* a request gets memory of its zone or a lower one; and it never panics.
PagesExact ==
    LET usable == ram \ kept
        blocks == FreeBlocks \cup UsedBlocks
        zone(b) == pfn_zone(b[1])
    IN  /\ ~hp.panic
        /\ \A p \in usable : Cardinality({b \in blocks : p \in Span(b[1], b[2])}) = 1
        /\ \A b \in blocks : /\ Span(b[1], b[2]) \subseteq usable
                             /\ b[1] % 2^b[2] = 0
                             /\ \A p \in Span(b[1], b[2]) : pfn_zone(p) = zone(b)
        /\ \A z \in Zones :
               /\ hp.free_pages[z] = Cardinality(UNION {Span(b[1], b[2]) :
                                          b \in {f \in FreeBlocks : zone(f) = z}})
               /\ \A o \in Orders : /\ IsInjective(hp.free[z][o])
                                    /\ \A p \in ToSet(hp.free[z][o]) : pfn_zone(p) = z
        /\ \A p \in DOMAIN hp.pg :
               "buddy" \in hp.pg[p].flags <=> <<p, hp.pg[p].order>> \in FreeBlocks
        /\ \A b \in FreeBlocks : /\ ~(b[2] < MAX_ORDER - 1 /\ Merges(hp, zone(b), b[1], b[2]))
                                 /\ \A p \in Span(b[1], b[2]) : hp.pg[p].ref = 0
        /\ \A x \in held : x.kind = "pages" => x.low /\ hp.pg[x.p].ref = x.n

\* The slab pages know their objects: every object is in use or free, once; a
\* page is on the partial list of its class exactly while it has a free object;
\* "completely free pages are returned to the buddy allocator" (kmalloc.c) except
\* the only one of a class; and the byte count is right.
SlabsExact ==
    LET objs(p) == {x.obj : x \in {y \in held : y.kind = "obj" /\ y.p = p}}
        of(c) == {p \in SlabPages : hp.pg[p].slab_class = c}
        large == {x \in held : x.kind = "large"}
    IN  /\ \A p \in SlabPages :
               LET g == hp.pg[p]
               IN  /\ IsInjective(g.freelist) /\ g.inuse = Cardinality(objs(p))
                   /\ ToSet(g.freelist) = (1 .. Objects(g.slab_class)) \ objs(p)
                   /\ Contains(hp.partial[g.slab_class], p) <=> g.freelist # <<>>
                   /\ g.inuse = 0 => hp.pages[g.slab_class] = 1
        /\ \A c \in Classes : /\ hp.pages[c] = Cardinality(of(c))
                              /\ IsInjective(hp.partial[c]) /\ ToSet(hp.partial[c]) \subseteq of(c)
        /\ hp.bytes_in_use =
               MapThenSumSet(LAMBDA p : hp.pg[p].inuse * ClassSize[hp.pg[p].slab_class], SlabPages)
             + MapThenSumSet(LAMBDA x : PAGE_SIZE * 2^x.o, large)
\* The page allocator and kmalloc, whose slabs are pages of the former, agree.
HeapExact == Booting \/ (PagesExact /\ SlabsExact)
=============================================================================
