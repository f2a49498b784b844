----------------------------- MODULE WaitQueue -----------------------------
(***************************************************************************)
(* Wait queues (kernel/wait.c) over the abstract scheduler: a thread that  *)
(* calls schedule() continues once its state is TASK_RUNNING.  prepare_to_ *)
(* wait runs under wq->lock; a waker holds the lock over its whole scan,   *)
(* but the threads it scans change their states without it.                *)
(***************************************************************************)
EXTENDS Naturals, Sequences

CONSTANTS Threads,   \* threads that wait and wake
          None       \* nobody

ASSUME WaitAssumption == None \notin Threads

VARIABLES
    state,    \* t->state: R running, S interruptible, D uninterruptible
    queue,    \* wq->head, the threads of the linked waiters
    wq_lock,  \* who holds wq->lock over a scan, or None
    scan      \* the waiters the scan has not looked at yet

wq_vars == <<state, queue, wq_lock, scan>>

InQueue(t) == \E i \in DOMAIN queue : queue[i] = t

\* list_del of t's waiter.
Unlinked(s, t) ==
    LET i == CHOOSE j \in DOMAIN s : s[j] = t
    IN  [j \in 1 .. Len(s) - 1 |-> IF j < i THEN s[j] ELSE s[j + 1]]

WqInit ==
    /\ state = [t \in Threads |-> "R"]
    /\ queue = <<>> /\ wq_lock = None /\ scan = <<>>

\* Mutant: a thread that goes round the loop again joins the queue again.
prepare_to_wait_again(t, s) ==
    /\ wq_lock = None
    /\ queue' = IF Len(queue) < 5 THEN Append(queue, t) ELSE queue
    /\ state' = [state EXCEPT ![t] = s]
    /\ UNCHANGED <<wq_lock, scan>>

\* prepare_to_wait: join the queue (once) and announce the sleep.
prepare_to_wait(t, s) ==
    /\ wq_lock = None
    /\ queue' = IF InQueue(t) THEN queue ELSE Append(queue, t)
    /\ state' = [state EXCEPT ![t] = s]
    /\ UNCHANGED <<wq_lock, scan>>

\* finish_wait, in two steps: the state without the lock, the queue with it.
finish_state(t) ==
    /\ state' = [state EXCEPT ![t] = "R"]
    /\ UNCHANGED <<queue, wq_lock, scan>>

finish_unlink(t) ==
    /\ wq_lock = None
    /\ queue' = IF InQueue(t) THEN Unlinked(queue, t) ELSE queue
    /\ UNCHANGED <<state, wq_lock, scan>>

\* wake_up and wake_up_one: lock the queue.
wake_begin(t) ==
    /\ wq_lock = None
    /\ wq_lock' = t /\ scan' = queue
    /\ UNCHANGED <<state, queue>>

\* One try_to_wake_up of the scan; with one, the first success ends it.
wake_next(t, one) ==
    /\ wq_lock = t /\ scan # <<>>
    /\ state' = [state EXCEPT ![Head(scan)] = "R"]
    /\ scan' = IF one /\ state[Head(scan)] # "R" THEN <<>> ELSE Tail(scan)
    /\ UNCHANGED <<queue, wq_lock>>

wake_end(t) ==
    /\ wq_lock = t /\ scan = <<>>
    /\ wq_lock' = None
    /\ UNCHANGED <<state, queue, scan>>

\* A wake-up that has nothing to do with the queue: a schedule_timeout timer
\* that was firing when it was cancelled, or another queue a poll() is on.
stray_wake(t) ==
    /\ state[t] # "R"
    /\ state' = [state EXCEPT ![t] = "R"]
    /\ UNCHANGED <<queue, wq_lock, scan>>

WqTypeOK ==
    /\ state \in [Threads -> {"R", "S", "D"}]
    /\ queue \in Seq(Threads)
    /\ wq_lock \in Threads \cup {None}
    /\ scan \in Seq(Threads)
=============================================================================
