------------------------------- MODULE Mutex -------------------------------
(***************************************************************************)
(* The sleeping mutex of kernel/wait.c: wait_event(m->wq, mutex_try(m))    *)
(* to lock, a store to owner and wake_up_one to unlock.                    *)
(***************************************************************************)
EXTENDS WaitQueue

VARIABLES
    owner,   \* m->owner
    pc       \* where each thread is in mutex_lock and mutex_unlock

vars == <<wq_vars, owner, pc>>

PCs == {"out", "prepare", "try", "sleep", "won", "unlink", "in", "wake", "scan"}

Init == WqInit /\ owner = None /\ pc = [t \in Threads |-> "out"]

Goto(t, l) == pc' = [pc EXCEPT ![t] = l]

mutex_lock(t) ==
    /\ pc[t] = "out"
    /\ Goto(t, "prepare")
    /\ UNCHANGED <<wq_vars, owner>>

\* wait_event: prepare_to_wait(TASK_UNINTERRUPTIBLE).
Prepare(t) ==
    /\ pc[t] = "prepare"
    /\ prepare_to_wait(t, "D")
    /\ Goto(t, "try")
    /\ UNCHANGED owner

\* Mutant: the test sees a free lock but does not claim it atomically.
mutex_try_blind(t) == owner' = t
\* mutex_try: compare and exchange NULL for the caller.
mutex_try(t) == owner = None /\ owner' = t

\* wait_event: test the condition, leave or go to sleep.
Try(t) ==
    /\ pc[t] = "try"
    /\ \/ mutex_try(t) /\ Goto(t, "won")
       \/ owner # None /\ owner' = owner /\ Goto(t, "sleep")
    /\ UNCHANGED wq_vars

\* schedule() returns to a thread that has been woken.
Woken(t) ==
    /\ pc[t] = "sleep" /\ state[t] = "R"
    /\ Goto(t, "prepare")
    /\ UNCHANGED <<wq_vars, owner>>

FinishState(t) ==
    /\ pc[t] = "won"
    /\ finish_state(t)
    /\ Goto(t, "unlink")
    /\ UNCHANGED owner

FinishUnlink(t) ==
    /\ pc[t] = "unlink"
    /\ finish_unlink(t)
    /\ Goto(t, "in")
    /\ UNCHANGED owner

\* mutex_unlock: release-store NULL ...
Release(t) ==
    /\ pc[t] = "in"
    /\ owner' = None
    /\ Goto(t, "wake")
    /\ UNCHANGED wq_vars

WakeBegin(t) ==
    /\ pc[t] = "wake"
    /\ wake_begin(t)
    /\ Goto(t, "scan")
    /\ UNCHANGED owner

\* Mutant: the wake-up mask leaves out TASK_UNINTERRUPTIBLE.
WakeNextMasked(t) ==
    /\ pc[t] = "scan" /\ wq_lock = t /\ scan # <<>>
    /\ scan' = Tail(scan)
    /\ UNCHANGED <<state, queue, wq_lock, owner, pc>>

\* ... and wake_up_one.
WakeNext(t) ==
    /\ pc[t] = "scan"
    /\ wake_next(t, TRUE)
    /\ UNCHANGED <<owner, pc>>

WakeEnd(t) ==
    /\ pc[t] = "scan"
    /\ wake_end(t)
    /\ Goto(t, "out")
    /\ UNCHANGED owner

\* A wake-up meant for something else the thread waited for.
Stray(t) ==
    /\ pc[t] \in {"try", "sleep", "won"}
    /\ stray_wake(t)
    /\ UNCHANGED <<owner, pc>>

Lock(t) == Prepare(t) \/ Try(t) \/ Woken(t) \/ FinishState(t) \/ FinishUnlink(t)
Unlock(t) == Release(t) \/ WakeBegin(t) \/ WakeNext(t) \/ WakeEnd(t)

Next == \E t \in Threads : mutex_lock(t) \/ Lock(t) \/ Unlock(t) \/ Stray(t)

\* Threads keep executing, and whoever holds the mutex releases it.  The wait
\* queue lock is a ticket lock, so a thread that wants it gets it: fairness is
\* strong for the steps that take it, and the same as weak for the others.
Fairness == \A t \in Threads : SF_vars(Lock(t) \/ Unlock(t))

Spec == Init /\ [][Next]_vars /\ Fairness

-----------------------------------------------------------------------------
\* The queue holds threads, their states are those of sleepers, and the owner
\* is a thread or nobody.
TypeOK ==
    /\ WqTypeOK
    /\ owner \in Threads \cup {None}
    /\ pc \in [Threads -> PCs]

\* A thread that is past mutex_try and before the store of mutex_unlock owns
\* the mutex, hence there is one such thread at most.
OwnersOnly ==
    \A t \in Threads : pc[t] \in {"won", "unlink", "in"} => owner = t

\* Somebody will look at the mutex again: a waiter that is awake or has been
\* woken, or an unlocker that has not finished its scan.
Alert ==
    \E t \in Threads :
        \/ pc[t] \in {"prepare", "try", "wake"}
        \/ pc[t] = "sleep" /\ state[t] = "R"
        \/ pc[t] = "scan" /\ \E i \in DOMAIN scan : state[scan[i]] # "R"

\* No wake-up of a mutex is lost: a free mutex with a thread asleep on it
\* always has somebody on the way, although wake_up_one may have spent its
\* wake-up on a thread that had just helped itself to the mutex.
NoStrandedWaiter ==
    owner = None /\ (\E t \in Threads : pc[t] = "sleep") => Alert

\* Waiters on the queue are exactly the threads inside wait_event, once each.
QueueExact ==
    /\ \A t \in Threads : pc[t] \in {"try", "sleep", "won", "unlink"} => InQueue(t)
    /\ \A t \in Threads : pc[t] \in {"out", "in", "wake", "scan"} => ~InQueue(t)
    /\ \A i, j \in DOMAIN queue : queue[i] = queue[j] => i = j

\* If every holder unlocks, somebody asleep on the mutex implies that the mutex
\* keeps changing hands: it never ends with a sleeper and no owner.
AlwaysServed ==
    []<>(owner # None \/ \A t \in Threads : pc[t] # "sleep")
=============================================================================
