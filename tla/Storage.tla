------------------------------ MODULE Storage ------------------------------
(***************************************************************************)
(* The storage stack, one layer at a time: the buffer cache over a disk    *)
(* that fails, or the virtio disk under requests.  scope is fixed and says *)
(* which; the cache asks of a disk only what BlockCache!DevWrites says.    *)
(***************************************************************************)
EXTENDS BlockCache, VirtioBlk

VARIABLE scope

storage_vars == <<cache_vars, vars, scope>>

StorageInit ==
    /\ scope \in {"cache", "disk"}
    /\ CacheInit /\ (scope = "disk" => usage = "parts")
    /\ Init /\ (scope = "cache" => setting = "up")

StorageNext ==
    /\ UNCHANGED scope
    /\ \/ scope = "cache" /\ CacheNext /\ UNCHANGED vars
       \/ scope = "disk" /\ Next /\ UNCHANGED cache_vars

StorageSpec == StorageInit /\ [][StorageNext]_storage_vars

StorageView == <<cache_vars, BlkView, scope>>

(***************************************************************************)
(* The virtio disk serves its requests: the free list, the chains and the  *)
(* rings stay consistent, what is answered in time was carried out, no     *)
(* completion is lost and nobody gets stuck (virtio_mmio.c, vblk_submit,   *)
(* vblk_done; see QueueIntact of Virtqueue and AnsweredInTime, NothingLost *)
(* and NotStuck of VirtioBlk).                                             *)
(***************************************************************************)
DiskServes == QueueIntact /\ AnsweredInTime /\ NothingLost /\ NotStuck
=============================================================================
