------------------------------- MODULE Memory -------------------------------
(***************************************************************************)
(* Memory management, one layer at a time: the boot-time regions, the page *)
(* allocator and kmalloc, the kernel's virtual areas, and user address     *)
(* spaces.  scope is fixed and says which layer runs; each of the upper    *)
(* two asks of the page allocator only that it hands out a free page or    *)
(* none, so it brings a pool of its own.                                   *)
(***************************************************************************)
EXTENDS PageAlloc, Vmalloc, Vm

VARIABLE scope

memory_vars == <<pa_vars, va_vars, vm_vars, scope>>

MemoryInit ==
    /\ scope \in {"boot", "heap", "vmap", "user"}
    /\ IF scope = "heap" THEN HeapInit ELSE BootInit
    /\ VmallocInit
    /\ VmInit /\ (scope # "user" => uload = "heap")

MemoryNext ==
    /\ UNCHANGED scope
    /\ \/ scope = "boot" /\ BootNext /\ UNCHANGED <<va_vars, vm_vars>>
       \/ scope = "heap" /\ HeapNext /\ UNCHANGED <<va_vars, vm_vars>>
       \/ scope = "vmap" /\ VmallocNext /\ UNCHANGED <<pa_vars, vm_vars>>
       \/ scope = "user" /\ VmNext /\ UNCHANGED <<pa_vars, va_vars>>

MemorySpec == MemoryInit /\ [][MemoryNext]_memory_vars

MemoryView == <<boot_vars, hp, held, dropped, va_vars, VmView, scope>>

-----------------------------------------------------------------------------
(* The instance.  RAM in banks that touch, overlap and have holes, with    *)
(* carve-outs that cut pages; machines with two zones, the second of them  *)
(* off the alignment of the largest block, or with memory high up only.    *)

MCBanks == {<<0, 5>>, <<3, 4>>, <<8, 8>>, <<12, 5>>}
MCCarveouts == {<<1, 2>>, <<7, 3>>, <<10, 2>>, <<0, 1>>}
MCLayouts == {[ram |-> <<<<0, 10>>, <<12, 4>>>>, reserved |-> <<<<8, 2>>>>],
              [ram |-> <<<<8, 10>>>>, reserved |-> <<>>]}
MCZoneStart == <<0, 2>>
MCClassSize == <<1>>
MCFrames == [l \in VmLoads |-> CASE l = "heap" -> 1 [] l = "maps" -> 2 [] OTHER -> 3]

(***************************************************************************)
(* Pages have one owner: the region lists of boot describe what was added  *)
(* and reserved, and afterwards every page is in one free block, one slab  *)
(* or one allocation (memblock.c, page_alloc.c, kmalloc.c; MemblockExact   *)
(* and HeapExact of PageAlloc).                                            *)
(***************************************************************************)
PageOwnersExact == MemblockExact /\ HeapExact

(***************************************************************************)
(* User address spaces: VMAs, entries and page references agree, no CPU    *)
(* keeps a translation to a page that was given away, and processes read   *)
(* what they wrote (vm.c; SpacesExact, TranslationsSafe, ContentsExact of  *)
(* Vm).                                                                    *)
(***************************************************************************)
UserSpacesExact == SpacesExact /\ TranslationsSafe /\ ContentsExact
=============================================================================
