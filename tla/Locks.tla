------------------------------- MODULE Locks -------------------------------
(***************************************************************************)
(* What must never keep a caller for ever: the ticket spinlock, the        *)
(* sleeping mutex, and the calls on a mount that a server process answers. *)
(* scope is fixed and says which.                                          *)
(***************************************************************************)
EXTENDS Spinlock, Mutex, Userfs

VARIABLE scope

\* One client makes, writes and truncates files, the other opens and removes.
UserfsCalls == <<{"create", "write", "setattr"}, {"lookup", "unlink"}>>

locks_vars == <<spin_vars, vars, ufs_vars, scope>>

LocksInit == scope \in {"spin", "mutex", "userfs"} /\ SpinInit /\ Init /\ UfsInit

LocksNext ==
    /\ UNCHANGED scope
    /\ \/ scope = "spin" /\ SpinNext /\ UNCHANGED <<vars, ufs_vars>>
       \/ scope = "mutex" /\ Next /\ UNCHANGED <<spin_vars, ufs_vars>>
       \/ scope = "userfs" /\ UfsNext /\ UNCHANGED <<spin_vars, vars>>

\* Of a part that is not used no fair action is ever enabled.
LocksSpec ==
    LocksInit /\ [][LocksNext]_locks_vars /\ SpinFairness /\ Fairness /\ UfsFairness

(***************************************************************************)
(* Nobody is kept for ever: every spin_lock returns, a mutex that somebody *)
(* sleeps on keeps changing hands, and every call on a served mount comes  *)
(* back, with an answer or with EIO (EveryLockReturns of Spinlock,         *)
(* AlwaysServed of Mutex and UfsLive of Userfs).                           *)
(***************************************************************************)
NobodyKeptForEver == EveryLockReturns /\ AlwaysServed /\ UfsLive
=============================================================================
