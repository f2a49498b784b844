-------------------------------- MODULE Sched --------------------------------
(***************************************************************************)
(* The preemptive priority scheduler of kernel/sched.c: per-CPU run        *)
(* queues, wake-up and activation, the context switch, fork and exit, the  *)
(* timer tick, policy changes, and the big kernel lock (BKL).              *)
(*                                                                         *)
(* A run queue lock held over a whole function makes that function one     *)
(* step.  activate() is split at the points other CPUs can see, because    *)
(* the target's lock does not cover the thread it enqueues; finish_switch  *)
(* is split at the unlock, because it looks at the thread afterwards.      *)
(* The idle thread of a CPU is not a thread here: curr[c] = Idle.          *)
(***************************************************************************)
EXTENDS Integers, Sequences, FiniteSets

CONSTANTS NrCpus,      \* nr_cpus_possible, all of them online
          Threads,     \* every thread that is ever allocated
          KThreads,    \* those that run a kernel function without the BKL
          Boot,        \* kernel_init
          Idle,        \* the idle thread of a CPU, and "no thread"
          Policies,    \* the scheduling policies in use
          SleepStates, \* the sleeping states in use
          Loads        \* what else goes on: see load

\* Sample pairs of t->policy and t->rt_priority; lower levels are better.
SchedPolicies == {"FIFO99", "FIFO1", "RR1", "OTHER"}

ASSUME SchedAssumption ==
    /\ NrCpus \in Nat \ {0}
    /\ Boot \in Threads \ KThreads
    /\ KThreads \subseteq Threads
    /\ Idle \notin Threads
    /\ Policies \subseteq SchedPolicies /\ "OTHER" \in Policies
    /\ SleepStates \subseteq {"S", "D", "T"}
    /\ Loads \subseteq {"irq", "retune", "both"}

Cpus == 0 .. NrCpus - 1

VARIABLES
    state,        \* t->state: R running, S and D sleeping, T stopped, X dead
    on_rq,        \* t->on_rq
    on_cpu,       \* t->on_cpu
    cpu,          \* t->cpu
    policy,       \* t->policy, which determines t->prio
    holds,        \* t->bkl_depth > 0
    pc,           \* where the thread is
    puts,         \* how often the run reference of the thread was dropped
    runqueue,     \* rq->runqueue[prio], a list per CPU and level
    rq_bitmap,    \* rq->rq_bitmap, as the set of its bits
    nr_running,   \* rq->nr_running
    curr,         \* rq->curr
    need_resched, \* rq->need_resched
    rq_lock,      \* whether an activation holds rq->rq_lock
    bkl,          \* the thread that holds the BKL, or Idle
    wk,           \* the activation each CPU is in the middle of
    last,         \* the thread finish_switch is about to look at, or Idle
    load          \* fixed: interrupts wake threads, or threads change the
                  \* policy of other threads, or both

thread_vars == <<state, on_rq, on_cpu, cpu, policy>>
rq_vars == <<runqueue, rq_bitmap, nr_running, need_resched, rq_lock>>
vars == <<thread_vars, holds, pc, puts, rq_vars, curr, bkl, wk, last, load>>

\* Whether interrupt handlers wake threads; whose policy others may change.
IrqWakers == load # "retune"
Retunable == IF load = "irq" THEN {} ELSE Threads

\* The ranks of the levels compute_prio gives the sample; NR_PRIO is the idle
\* thread's.
Prios == {0, 1, 2}
NR_PRIO == 3
compute_prio(p) == IF p = "FIFO99" THEN 0 ELSE IF p = "OTHER" THEN 2 ELSE 1
IsFifo(t) == policy[t] \in {"FIFO99", "FIFO1"}
Prio(t) == compute_prio(policy[t])

NoWork == [at |-> "none", t |-> Idle, dst |-> 0]

\* Threads that exist and can be found: alive or not yet reaped.
Born(t) == pc[t] # "unborn"

\* CPU c can take its next step in thread context: it runs thread t with
\* interrupts on, outside try_to_wake_up and schedule.
Runs(c, t) == curr[c] = t /\ wk[c].at = "none" /\ last[c] = Idle

\* Interrupts are enabled on c: they are disabled inside schedule() and in an
\* activation only.
IrqsOn(c) == wk[c].at = "none" /\ last[c] = Idle

Goto(t, l) == pc' = [pc EXCEPT ![t] = l]

Init ==
    /\ state = [t \in Threads |-> IF t = Boot THEN "R" ELSE "D"]
    /\ on_rq = [t \in Threads |-> FALSE]
    /\ on_cpu = [t \in Threads |-> t = Boot]
    /\ cpu = [t \in Threads |-> 0]
    /\ policy = [t \in Threads |-> "OTHER"]
    /\ holds = [t \in Threads |-> t = Boot]
    /\ pc = [t \in Threads |-> IF t = Boot THEN "kern" ELSE "unborn"]
    /\ puts = [t \in Threads |-> 0]
    /\ runqueue = [c \in Cpus |-> [p \in Prios |-> <<>>]]
    /\ rq_bitmap = [c \in Cpus |-> {}]
    /\ nr_running = [c \in Cpus |-> 0]
    /\ curr = [c \in Cpus |-> IF c = 0 THEN Boot ELSE Idle]
    /\ need_resched = [c \in Cpus |-> FALSE]
    /\ rq_lock = [c \in Cpus |-> FALSE]
    /\ bkl = Boot
    /\ wk = [c \in Cpus |-> NoWork]
    /\ last = [c \in Cpus |-> Idle]
    /\ load \in Loads

-----------------------------------------------------------------------------
(* The big kernel lock: taken on entry from user mode, for signals on the   *)
(* way back to it, and released on return.                                 *)

lock_kernel(c, t) ==
    /\ Runs(c, t)
    /\ pc[t] = "user" \/ (pc[t] = "exit" /\ ~need_resched[c])
    /\ bkl = Idle /\ bkl' = t
    /\ holds' = [holds EXCEPT ![t] = TRUE]
    /\ Goto(t, "kern")
    /\ UNCHANGED <<thread_vars, puts, rq_vars, curr, wk, last>>

unlock_kernel(c, t) ==
    /\ Runs(c, t) /\ pc[t] = "kern" /\ holds[t] /\ state[t] = "R"
    /\ bkl' = Idle
    /\ holds' = [holds EXCEPT ![t] = FALSE]
    /\ Goto(t, "exit")
    /\ UNCHANGED <<thread_vars, puts, rq_vars, curr, wk, last>>

\* prepare_exit_to_user: user mode is entered with no reschedule request.
prepare_exit_to_user(c, t) ==
    /\ Runs(c, t) /\ pc[t] = "exit" /\ ~need_resched[c]
    /\ Goto(t, "user")
    /\ UNCHANGED <<thread_vars, holds, puts, rq_vars, curr, bkl, wk, last>>

\* A timer or reschedule interrupt in user mode ends in prepare_exit_to_user.
InterruptUser(c, t) ==
    /\ Runs(c, t) /\ pc[t] = "user" /\ need_resched[c]
    /\ Goto(t, "exit")
    /\ UNCHANGED <<thread_vars, holds, puts, rq_vars, curr, bkl, wk, last>>

\* prepare_to_wait, finish_wait and the other plain stores to current->state.
SetState(c, t, s) ==
    /\ Runs(c, t) /\ pc[t] = "kern" /\ s # state[t]
    /\ state' = [state EXCEPT ![t] = s]
    /\ UNCHANGED <<on_rq, on_cpu, cpu, policy, holds, pc, puts, rq_vars, curr,
                   bkl, wk, last>>

-----------------------------------------------------------------------------
(* schedule() *)

\* Mutant: the BKL stays with the thread that sleeps.
schedule_keeping_bkl(c, t) ==
    /\ Runs(c, t)
    /\ pc[t] = "kern" \/ (pc[t] = "exit" /\ need_resched[c])
    /\ Goto(t, "sched")
    /\ UNCHANGED <<thread_vars, holds, puts, rq_vars, curr, bkl, wk, last>>

\* schedule() drops the BKL before it looks at the run queue: a thread that
\* blocks, or a user thread preempted on its way back to user mode.
schedule(c, t) ==
    /\ Runs(c, t)
    /\ pc[t] = "kern" \/ (pc[t] = "exit" /\ need_resched[c])
    /\ bkl' = IF holds[t] THEN Idle ELSE bkl
    /\ Goto(t, "sched")
    /\ UNCHANGED <<thread_vars, holds, puts, rq_vars, curr, wk, last>>

\* sched_yield: schedule() with the time slice used up.
yield(c, t) ==
    /\ Runs(c, t) /\ pc[t] = "kern" /\ state[t] = "R"
    /\ bkl' = IF holds[t] THEN Idle ELSE bkl
    /\ Goto(t, "yield")
    /\ UNCHANGED <<thread_vars, holds, puts, rq_vars, curr, wk, last>>

\* The tail of do_exit: dead, off the BKL, into schedule() for good.
do_exit(c, t) ==
    /\ Runs(c, t) /\ pc[t] = "kern" /\ holds[t] /\ state[t] = "R"
    /\ state' = [state EXCEPT ![t] = "X"]
    /\ holds' = [holds EXCEPT ![t] = FALSE]
    /\ bkl' = Idle
    /\ Goto(t, "sched")
    /\ UNCHANGED <<on_rq, on_cpu, cpu, policy, puts, rq_vars, curr, wk, last>>

\* The list of level p with t put at its head or its tail.
Enqueued(rq, t, head) ==
    [rq EXCEPT ![Prio(t)] = IF head THEN <<t>> \o @ ELSE Append(@, t)]

\* The level pick_next takes its thread from.
TopLevel(bits) == CHOOSE p \in bits : \A q \in bits : p <= q

\* The critical section of schedule() on c, from thread prev to thread next.
SwitchTo(c, prev, next, rq, bits, nr) ==
    /\ need_resched' = [need_resched EXCEPT ![c] = FALSE]
    /\ runqueue' = [runqueue EXCEPT ![c] = rq]
    /\ rq_bitmap' = [rq_bitmap EXCEPT ![c] = bits]
    /\ nr_running' = [nr_running EXCEPT ![c] = nr]
    /\ curr' = [curr EXCEPT ![c] = next]
    /\ last' = [last EXCEPT ![c] = IF next = prev THEN Idle ELSE prev]
    /\ on_rq' = [t \in Threads |->
                   IF t = next THEN FALSE
                   ELSE IF t = prev /\ state[prev] = "R" THEN TRUE ELSE on_rq[t]]
    /\ on_cpu' = [t \in Threads |->
                   IF t = next THEN TRUE ELSE IF t = prev THEN FALSE ELSE on_cpu[t]]
    /\ cpu' = [t \in Threads |-> IF t = next THEN c ELSE cpu[t]]
    /\ pc' = [t \in Threads |-> IF t = next THEN "back" ELSE pc[t]]
    /\ UNCHANGED <<state, policy, holds, puts, rq_lock, bkl, wk>>

\* Requeue prev if it is still runnable, pick the first thread of the best
\* level, or the idle thread.  The idle loop calls schedule() when it has cause.
Switch(c) ==
    LET prev == curr[c]
        requeue == prev # Idle /\ state[prev] = "R"
        rq == IF requeue
                THEN Enqueued(runqueue[c], prev, IsFifo(prev))
                ELSE runqueue[c]
        bits == IF requeue THEN rq_bitmap[c] \cup {Prio(prev)} ELSE rq_bitmap[c]
        nr == IF requeue THEN nr_running[c] + 1 ELSE nr_running[c]
        p == TopLevel(bits)
    IN  /\ IrqsOn(c) /\ ~rq_lock[c]
        /\ IF prev = Idle THEN need_resched[c] \/ nr_running[c] > 0
                          ELSE pc[prev] \in {"sched", "yield"}
        /\ IF bits = {}
             THEN SwitchTo(c, prev, Idle, rq, bits, nr)
             ELSE SwitchTo(c, prev, Head(rq[p]), [rq EXCEPT ![p] = Tail(@)],
                           IF Len(rq[p]) = 1 THEN bits \ {p} ELSE bits, nr - 1)

\* finish_switch after its unlock: drop the run reference of a dead thread.
finish_switch(c) ==
    /\ last[c] # Idle
    /\ last' = [last EXCEPT ![c] = Idle]
    /\ puts' = IF state[last[c]] = "X"
                 THEN [puts EXCEPT ![last[c]] = @ + 1] ELSE puts
    /\ UNCHANGED <<thread_vars, holds, pc, rq_vars, curr, bkl, wk>>

\* schedule() returns, after it has taken the BKL back.
Resume(c, t) ==
    /\ Runs(c, t) /\ pc[t] = "back"
    /\ holds[t] => bkl = Idle
    /\ bkl' = IF holds[t] THEN t ELSE bkl
    /\ Goto(t, IF holds[t] \/ t \in KThreads THEN "kern" ELSE "exit")
    /\ UNCHANGED <<thread_vars, holds, puts, rq_vars, curr, wk, last>>

-----------------------------------------------------------------------------
(* Wake-up *)

\* Who may wake t with which mask: a wait queue or timer wakes sleepers from
\* any context, a signal wakes interruptible ones, and wake_up_thread, which a
\* futex wake-up calls with the BKL held, wakes stopped ones too.
UnderBkl(c) == curr[c] # Idle /\ pc[curr[c]] = "kern" /\ holds[curr[c]]

\* Mutant: wake_up_thread is called without the BKL.
MayWakeUnlocked(c, t, mask) == Born(t)

MayWake(c, t, mask) ==
    /\ Born(t)
    /\ \/ mask = {"S", "D"} /\ pc[t] # "new" /\ (IrqWakers \/ UnderBkl(c))
       \/ mask = {"S"} /\ (IrqWakers \/ UnderBkl(c))
       \/ mask = {"S", "D", "T"} /\ UnderBkl(c)

\* Mutant: any state but TASK_RUNNING is woken.
WakeableAny(t, mask) == state[t] # "R"
\* try_to_wake_up: t->state & state_mask.
Wakeable(t, mask) == state[t] \in mask

\* Mutant: a thread that has left its CPU is taken for one that is about to.
NeedsActivationNever(t) == FALSE
\* Otherwise it is still running (about to sleep) or already queued.
NeedsActivation(t) == ~on_rq[t] /\ ~on_cpu[t]

\* try_to_wake_up up to the unlock.
try_to_wake_up(c, t, mask) ==
    /\ IrqsOn(c) /\ MayWake(c, t, mask)
    /\ ~rq_lock[cpu[t]]
    /\ Wakeable(t, mask)
    /\ state' = [state EXCEPT ![t] = "R"]
    /\ wk' = IF NeedsActivation(t)
               THEN [wk EXCEPT ![c] = [at |-> "select", t |-> t, dst |-> 0]]
               ELSE wk
    /\ UNCHANGED <<on_rq, on_cpu, cpu, policy, holds, pc, puts, rq_vars, curr,
                   bkl, last>>

IdleCpu(c) == curr[c] = Idle /\ nr_running[c] = 0

\* select_cpu: the previous CPU if idle, else the first idle one, else the
\* first of the least loaded ones.
IsFirst(dst, S) == dst \in S /\ \A c \in S : dst <= c
select_cpu(t, dst) ==
    LET idle == {c \in Cpus : IdleCpu(c)}
        least == {c \in Cpus : \A d \in Cpus : nr_running[c] <= nr_running[d]}
    IN  IF IdleCpu(cpu[t]) THEN dst = cpu[t]
        ELSE IF idle # {} THEN IsFirst(dst, idle) ELSE IsFirst(dst, least)

activate_select(c) ==
    /\ wk[c].at = "select"
    /\ \E dst \in Cpus :
         /\ select_cpu(wk[c].t, dst)
         /\ wk' = [wk EXCEPT ![c] = [at |-> "link", t |-> wk[c].t, dst |-> dst]]
    /\ UNCHANGED <<thread_vars, holds, pc, puts, rq_vars, curr, bkl, last>>

\* activate: lock the target; enqueue: link the thread at its level ...
activate_link(c) ==
    LET t == wk[c].t  dst == wk[c].dst
    IN  /\ wk[c].at = "link" /\ ~rq_lock[dst]
        /\ rq_lock' = [rq_lock EXCEPT ![dst] = TRUE]
        /\ runqueue' = [runqueue EXCEPT ![dst] = Enqueued(@, t, FALSE)]
        /\ wk' = [wk EXCEPT ![c].at = "bits"]
        /\ UNCHANGED <<thread_vars, holds, pc, puts, rq_bitmap, nr_running,
                       curr, need_resched, bkl, last>>

\* enqueue: the bitmap with the bit of t's level; on_rq with t queued.
BitsWith(bits, t) == bits \cup {Prio(t)}
FlagSet(t) == [on_rq EXCEPT ![t] = TRUE]

\* ... set the bit of its level, count it and mark it queued ...
activate_bits(c) ==
    LET t == wk[c].t  dst == wk[c].dst
    IN  /\ wk[c].at = "bits"
        /\ rq_bitmap' = [rq_bitmap EXCEPT ![dst] = BitsWith(@, t)]
        /\ nr_running' = [nr_running EXCEPT ![dst] = @ + 1]
        /\ on_rq' = FlagSet(t)
        /\ wk' = [wk EXCEPT ![c].at = "cpu"]
        /\ UNCHANGED <<state, on_cpu, cpu, policy, holds, pc, puts, runqueue,
                       curr, need_resched, rq_lock, bkl, last>>

curr_prio(c) == IF curr[c] = Idle THEN NR_PRIO ELSE Prio(curr[c])

\* Mutant: only an idle CPU is asked to reschedule.
PreemptsIdle(c, p) == curr[c] = Idle
\* activate and sched_setscheduler: whether level p preempts what c runs.
Preempts(c, p) == p < curr_prio(c)

\* ... move it to the target, ask for a preemption, and unlock.
activate_cpu(c) ==
    LET t == wk[c].t  dst == wk[c].dst
    IN  /\ wk[c].at = "cpu"
        /\ cpu' = [cpu EXCEPT ![t] = dst]
        /\ need_resched' = [need_resched EXCEPT ![dst] = @ \/ Preempts(dst, Prio(t))]
        /\ rq_lock' = [rq_lock EXCEPT ![dst] = FALSE]
        /\ wk' = [wk EXCEPT ![c] = NoWork]
        /\ UNCHANGED <<state, on_rq, on_cpu, policy, holds, pc, puts, runqueue,
                       rq_bitmap, nr_running, curr, bkl, last>>

activate(c) ==
    activate_select(c) \/ activate_link(c) \/ activate_bits(c) \/ activate_cpu(c)

-----------------------------------------------------------------------------
(* Threads come into being, change policy, and are charged for time. *)

\* thread_alloc, in do_fork or kthread_create: asleep until sched_add_new.
thread_alloc(c, t, n) ==
    /\ Runs(c, t) /\ pc[t] = "kern" /\ holds[t] /\ state[t] = "R"
    /\ pc[n] = "unborn"
    /\ pc' = [pc EXCEPT ![t] = "fork", ![n] = "new"]
    /\ state' = [state EXCEPT ![n] = "D"]
    /\ cpu' = [cpu EXCEPT ![n] = c]
    /\ policy' = [policy EXCEPT ![n] = "OTHER"]
    /\ UNCHANGED <<on_rq, on_cpu, holds, puts, rq_vars, curr, bkl, wk, last>>

sched_add_new(c, t, n) ==
    /\ Runs(c, t) /\ pc[t] = "fork" /\ pc[n] = "new"
    /\ state' = [state EXCEPT ![n] = "R"]
    /\ pc' = [pc EXCEPT ![t] = "kern", ![n] = "sched"]
    /\ wk' = [wk EXCEPT ![c] = [at |-> "select", t |-> n, dst |-> 0]]
    /\ UNCHANGED <<on_rq, on_cpu, cpu, policy, holds, puts, rq_vars, curr, bkl,
                   last>>

\* The list s without its element t.
Unlinked(s, t) ==
    LET i == CHOOSE j \in DOMAIN s : s[j] = t
    IN  [j \in 1 .. Len(s) - 1 |-> IF j < i THEN s[j] ELSE s[j + 1]]

\* Mutants: t goes back to its old level; the old level keeps its bit.
RequeuedOld(rq, t, old, new) ==
    [rq EXCEPT ![old] = Append(Unlinked(@, t), t)]
RequeuedBitsStale(rq, bits, t, old, new) == bits \cup {new}

\* dequeue, then enqueue at the new level: the lists and the bitmap.
Requeued(rq, t, old, new) ==
    [[rq EXCEPT ![old] = Unlinked(@, t)] EXCEPT ![new] = Append(@, t)]
RequeuedBits(rq, bits, t, old, new) ==
    (IF Unlinked(rq[old], t) = <<>> THEN bits \ {old} ELSE bits) \cup {new}

\* sched_setscheduler on t, called by thread me: under the lock of the run
\* queue that t->cpu names, requeue t at its new level.
sched_setscheduler(c, me, t, p) ==
    LET rq == cpu[t]
        old == Prio(t)
        new == compute_prio(p)
    IN  /\ Runs(c, me) /\ pc[me] = "kern" /\ holds[me]
        /\ Born(t) /\ state[t] # "X" /\ (t = me \/ t \in Retunable)
        /\ p # policy[t]
        /\ ~rq_lock[rq]
        /\ policy' = [policy EXCEPT ![t] = p]
        /\ IF on_rq[t]
             THEN /\ runqueue' = [runqueue EXCEPT ![rq] = Requeued(@, t, old, new)]
                  /\ rq_bitmap' = [rq_bitmap EXCEPT
                        ![rq] = RequeuedBits(runqueue[rq], @, t, old, new)]
                  /\ need_resched' = [need_resched EXCEPT
                                        ![rq] = @ \/ Preempts(rq, new)]
             ELSE UNCHANGED <<runqueue, rq_bitmap, need_resched>>
        /\ UNCHANGED <<state, on_rq, on_cpu, cpu, holds, pc, puts, nr_running,
                       curr, rq_lock, bkl, wk, last>>

\* scheduler_tick: only switch if someone of equal or higher priority waits.
SliceEnds(c) == TopLevel(rq_bitmap[c]) <= Prio(curr[c])

\* scheduler_tick when the time slice is used up, or on an idle CPU.
scheduler_tick(c) ==
    LET t == curr[c]
    IN  /\ IrqsOn(c) /\ ~need_resched[c] /\ ~rq_lock[c]
        /\ IF t = Idle THEN nr_running[c] > 0
                       ELSE /\ ~IsFifo(t)
                            /\ rq_bitmap[c] # {}
                            /\ SliceEnds(c)
        /\ need_resched' = [need_resched EXCEPT ![c] = TRUE]
        /\ UNCHANGED <<thread_vars, holds, pc, puts, runqueue, rq_bitmap,
                       nr_running, rq_lock, curr, bkl, wk, last>>

-----------------------------------------------------------------------------
ThreadStep(c, t) ==
    \/ lock_kernel(c, t) \/ unlock_kernel(c, t)
    \/ prepare_exit_to_user(c, t) \/ InterruptUser(c, t)
    \/ \E s \in SleepStates \cup {"R"} : SetState(c, t, s)
    \/ schedule(c, t) \/ yield(c, t) \/ do_exit(c, t) \/ Resume(c, t)
    \/ \E n \in Threads : thread_alloc(c, t, n) \/ sched_add_new(c, t, n)
    \/ \E n \in Threads, p \in Policies : sched_setscheduler(c, t, n, p)

Masks == {{"S", "D"}, {"S"}, {"S", "D", "T"}}

Next ==
  /\ UNCHANGED load
  /\ \E c \in Cpus :
        \/ \E t \in Threads : ThreadStep(c, t)
        \/ Switch(c) \/ finish_switch(c) \/ activate(c) \/ scheduler_tick(c)
        \/ \E t \in Threads, m \in Masks : try_to_wake_up(c, t, m)

Spec == Init /\ [][Next]_vars

-----------------------------------------------------------------------------
(* Properties *)

Sleeping(t) == state[t] \in {"S", "D", "T"}
Waking(c) == wk[c].at # "none"
Linked(t) == \E c \in Cpus, p \in Prios :
                 \E i \in DOMAIN runqueue[c][p] : runqueue[c][p][i] = t

\* A thread is on one CPU at most, and t->on_cpu says whether it is on any.  It
\* is activated by one CPU at a time and only when it is runnable, on no queue
\* and on no CPU (sched.c:107, "caller holds no rq lock; t->state ==
\* TASK_RUNNING, not on any rq/cpu").
RunsOnOneCpu ==
    /\ \A c, d \in Cpus : curr[c] = curr[d] /\ curr[c] # Idle => c = d
    /\ \A t \in Threads : on_cpu[t] <=> \E c \in Cpus : curr[c] = t
    /\ \A c \in Cpus : Waking(c) =>
         /\ state[wk[c].t] = "R" /\ ~on_cpu[wk[c].t]
         /\ wk[c].at \in {"select", "link"}
              => ~on_rq[wk[c].t] /\ ~Linked(wk[c].t)
         /\ \A d \in Cpus \ {c} : Waking(d) => wk[d].t # wk[c].t

\* A wake-up is never lost, however it races with schedule() and with other
\* wake-ups: a thread whose state is TASK_RUNNING is on a CPU, on a run queue,
\* or being put on one by an activation that is under way.
NoLostThread ==
    \A t \in Threads : state[t] = "R"
        => on_cpu[t] \/ on_rq[t] \/ \E c \in Cpus : Waking(c) /\ wk[c].t = t

\* A thread is linked in one list at most, in the list of its CPU and level,
\* and only if t->on_rq says so (or an activation is about to).
QueuedWhereFlagged ==
    /\ \A c, d \in Cpus : \A p, q \in Prios :
         \A i \in DOMAIN runqueue[c][p], j \in DOMAIN runqueue[d][q] :
            runqueue[c][p][i] = runqueue[d][q][j] => c = d /\ p = q /\ i = j
    /\ \A c \in Cpus, p \in Prios : \A i \in DOMAIN runqueue[c][p] :
         LET t == runqueue[c][p][i]
         IN  /\ p = Prio(t)
             /\ \/ on_rq[t] /\ cpu[t] = c
                \/ \E d \in Cpus : /\ wk[d].at \in {"bits", "cpu"}
                                   /\ wk[d].t = t /\ wk[d].dst = c
    /\ \A t \in Threads : on_rq[t] => Linked(t)

\* smp.h:24: "bit n set: runqueue[n] non-empty", and conversely; nr_running
\* counts the linked threads.  Both while nobody holds the run queue lock.
BitmapExact ==
    \A c \in Cpus : ~rq_lock[c] =>
        /\ \A p \in Prios : p \in rq_bitmap[c] <=> runqueue[c][p] # <<>>
        /\ nr_running[c] = Len(runqueue[c][0]) + Len(runqueue[c][1]) + Len(runqueue[c][2])

\* The run queues, their bitmaps and counts, and the flags of the threads agree,
\* through activations that work without the thread's lock and policy changes.
QueuesExact == QueuedWhereFlagged /\ BitmapExact

\* "Released automatically while a thread sleeps" (sched.h): the holder of the
\* BKL is on a CPU, in the kernel, and it alone executes kernel code that
\* relies on the BKL.
BklHeldRunning ==
    /\ bkl # Idle => on_cpu[bkl] /\ holds[bkl] /\ pc[bkl] \in {"kern", "fork"}
    /\ \A t \in Threads : holds[t] /\ pc[t] \in {"kern", "fork"} => bkl = t

\* finish_switch, sched.c:154, "drop the run reference": it is dropped once.
RunReferenceDroppedOnce == \A t \in Threads : puts[t] <= 1

\* CPU c owes nobody a switch: it idles, has been asked to reschedule, or no
\* better thread is queued there, but for one whose activation is under way.
Prompt(c) ==
    curr[c] = Idle \/ need_resched[c] \/
    \A t \in Threads : on_rq[t] /\ cpu[t] = c /\ Prio(t) < Prio(curr[c])
        => \E d \in Cpus : Waking(d) /\ wk[d].t = t

\* Only a thread that lowers its own policy can outrank itself: no other step
\* leaves a thread queued behind a worse one on a CPU that has not been asked to
\* reschedule ("send a reschedule IPI if the woken thread should preempt the
\* target's current thread", sched.c:11).
PreemptionRequested ==
    [][policy' = policy /\ (\A c \in Cpus : Prompt(c))
         => \A c \in Cpus : Prompt(c)']_vars

Abs == INSTANCE AbsSched WITH running <- {t \in Threads : on_cpu[t]}
\* The scheduler implements its abstraction, whatever the interleaving of
\* switches, activations and wake-ups on the CPUs.
ImplementsAbsSched == Abs!Spec
==============================================================================
