----------------------------- MODULE SchedSteps -----------------------------
(***************************************************************************)
(* The inductive invariant of the scheduler, and the steps that do not     *)
(* touch a run queue: the kernel's own transitions, changes of state,      *)
(* ticks, wake-ups and fork.                                               *)
(*                                                                         *)
(* The invariant says, besides the properties, where a thread is when it is*)
(* on no CPU (PcInv), what an activation under way has already done        *)
(* (WakeInv), and by how much the bitmap and the count of a run queue may  *)
(* lag behind its lists (BitsInv).                                         *)
(*                                                                         *)
(* Loads with both interrupts that wake threads and threads that change the*)
(* policy of others are excluded: there sched_setscheduler may work under  *)
(* the lock of the wrong run queue, and QueuesExact fails.                 *)
(***************************************************************************)
EXTENDS Sched, ListTheorems
\* Leaves that name no prover go to Zenon; those that need arithmetic, records
\* or function updates name SMT.  They name Z3 too: tlapm allows itself 5 seconds
\* to encode a leaf, overruns them now and then, and then tries the next name.
USE ZenonT(40)

PCs == {"unborn", "new", "user", "kern", "exit", "fork", "sched", "yield", "back"}
States == {"R", "S", "D", "T", "X"}
Stages == {"none", "select", "link", "bits", "cpu"}
Linking == {"bits", "cpu"}

ThreadTypes ==
    /\ state \in [Threads -> States] /\ on_rq \in [Threads -> BOOLEAN]
    /\ on_cpu \in [Threads -> BOOLEAN] /\ cpu \in [Threads -> Cpus]
    /\ policy \in [Threads -> SchedPolicies] /\ holds \in [Threads -> BOOLEAN]
    /\ pc \in [Threads -> PCs] /\ puts \in [Threads -> Nat]
    /\ bkl \in Threads \cup {Idle} /\ load \in {"irq", "retune"}

CpuTypes ==
    /\ runqueue \in [Cpus -> [Prios -> Seq(Threads)]]
    /\ rq_bitmap \in [Cpus -> SUBSET Prios] /\ nr_running \in [Cpus -> Nat]
    /\ curr \in [Cpus -> Threads \cup {Idle}] /\ need_resched \in [Cpus -> BOOLEAN]
    /\ rq_lock \in [Cpus -> BOOLEAN] /\ last \in [Cpus -> Threads \cup {Idle}]
    /\ wk \in [Cpus -> [at : Stages, t : Threads \cup {Idle}, dst : Cpus]]

SchedTypeOK == ThreadTypes /\ CpuTypes

\* A thread is current on one CPU at most, the one that t->cpu names.
CpuInv ==
    /\ \A c, d \in Cpus : curr[c] = curr[d] /\ curr[c] # Idle => c = d
    /\ \A t \in Threads : on_cpu[t] <=> \E c \in Cpus : curr[c] = t
    /\ \A c \in Cpus : curr[c] # Idle => cpu[curr[c]] = c

\* Where threads are, and who has the BKL.
PcInv ==
    /\ \A t \in Threads : pc[t] \in {"unborn", "new"}
         => state[t] = "D" /\ ~on_cpu[t] /\ ~on_rq[t] /\ ~holds[t]
    /\ \A t \in Threads : ~on_cpu[t] => pc[t] \in {"unborn", "new", "sched", "yield"}
    /\ \A t \in Threads : pc[t] \in {"user", "exit"} => ~holds[t]
    /\ \A t \in Threads : state[t] = "X" => pc[t] = "sched"
    /\ bkl # Idle => holds[bkl] /\ pc[bkl] \in {"kern", "fork"}
    /\ \A t \in Threads : holds[t] /\ pc[t] \in {"kern", "fork"} => bkl = t
    /\ \A t \in Threads : pc[t] = "fork" => holds[t]
    /\ \A t \in Threads : pc[t] = "new" => bkl # Idle /\ pc[bkl] = "fork"
    /\ \A t, u \in Threads : pc[t] = "new" /\ pc[u] = "new" => t = u

\* t is on the list of its level on CPU c.
On(t, c) == t \in Elems(runqueue[c][Prio(t)])

\* What an activation on CPU c knows of the thread it activates; two of them
\* work on different threads and, once linking, on different run queues.
Activating(c) ==
    /\ wk[c].t \in Threads /\ state[wk[c].t] = "R" /\ ~on_cpu[wk[c].t]
    /\ pc[wk[c].t] \notin {"unborn", "new"}
    /\ on_rq[wk[c].t] <=> wk[c].at = "cpu"
    /\ wk[c].at \in Linking => On(wk[c].t, wk[c].dst) /\ rq_lock[wk[c].dst]
    /\ load = "retune" => UnderBkl(c)
Apart(c, d) ==
    /\ wk[d].t # wk[c].t
    /\ wk[c].at \in Linking /\ wk[d].at \in Linking => wk[d].dst # wk[c].dst
WakeInv ==
    \A c \in Cpus : Waking(c) =>
        Activating(c) /\ \A d \in Cpus \ {c} : Waking(d) => Apart(c, d)

\* A linked thread is runnable, on no CPU, at its level, and flagged or just
\* being linked; a flagged one is linked; none is linked twice.
QueueInv ==
    /\ \A c \in Cpus, p \in Prios : Distinct(runqueue[c][p])
    /\ \A c \in Cpus, p \in Prios : \A t \in Elems(runqueue[c][p]) :
         /\ p = Prio(t) /\ state[t] = "R" /\ ~on_cpu[t]
         /\ \/ on_rq[t] /\ cpu[t] = c
            \/ \E d \in Cpus : wk[d].at \in Linking /\ wk[d].t = t /\ wk[d].dst = c
    /\ \A t \in Threads : on_rq[t] => state[t] = "R" /\ ~on_cpu[t] /\ \E c \in Cpus : On(t, c)
    /\ \A t \in Threads : \A c, d \in Cpus : On(t, c) /\ On(t, d) => c = d

\* The activation that has linked its thread on CPU c but not counted it yet.
Lags(c) == \E d \in Cpus : wk[d].at = "bits" /\ wk[d].dst = c
Count3(rqs, c) == Len(rqs[c][0]) + Len(rqs[c][1]) + Len(rqs[c][2])
Linked3(c) == Count3(runqueue, c)

BitmapLag(c) ==
    \A p \in Prios :
        /\ p \in rq_bitmap[c] => runqueue[c][p] # <<>>
        /\ runqueue[c][p] # <<>> /\ p \notin rq_bitmap[c]
             => \E d \in Cpus : wk[d].at = "bits" /\ wk[d].dst = c /\ p = Prio(wk[d].t)
CountLag(c) ==
    /\ ~Lags(c) => nr_running[c] = Linked3(c)
    /\ Lags(c) => nr_running[c] + 1 = Linked3(c)
BitsInv == \A c \in Cpus : BitmapLag(c) /\ CountLag(c)

\* Every runnable thread is somewhere.
LostInv == NoLostThread

SchedInv == SchedTypeOK /\ CpuInv /\ PcInv /\ WakeInv /\ QueueInv /\ BitsInv /\ LostInv

-----------------------------------------------------------------------------
(* Constants and operators *)

\* CPU 0 exists; every policy has one of the three levels.
LEMMA Constants ==
    /\ 0 \in Cpus /\ Boot \in Threads /\ Idle \notin Threads
    /\ Policies \subseteq SchedPolicies /\ "OTHER" \in Policies
    /\ SleepStates \subseteq {"S", "D", "T"}
    /\ \A p : compute_prio(p) \in Prios
    /\ Cpus \subseteq Nat
BY SMTT(60), Z3T(60), SchedAssumption DEF Cpus, compute_prio, Prios

\* pick_next: the level it takes is set, and none that is set is better.
LEMMA TopLevelBest ==
  ASSUME NEW bits \in SUBSET Prios, bits # {}
  PROVE  TopLevel(bits) \in bits /\ \A q \in bits : TopLevel(bits) <= q
<1>1. CASE 0 \in bits
  <2>1. \A q \in bits : 0 <= q
    BY SMTT(60), Z3T(60) DEF Prios
  <2>2. QED
    BY <1>1, <2>1 DEF TopLevel
<1>2. CASE 0 \notin bits /\ 1 \in bits
  <2>1. \A q \in bits : 1 <= q
    BY SMTT(60), Z3T(60), <1>2 DEF Prios
  <2>2. QED
    BY <1>2, <2>1 DEF TopLevel
<1>3. CASE 0 \notin bits /\ 1 \notin bits
  <2>1. \A q \in bits : q = 2
    BY <1>3 DEF Prios
  <2>2. 2 \in bits /\ \A q \in bits : 2 <= q
    BY SMTT(60), Z3T(60), <2>1
  <2>3. QED
    BY <2>2 DEF TopLevel
<1>4. QED
  BY <1>1, <1>2, <1>3

\* One list of a family of lists replaced.
SetList(rqs, d, p, u) == [rqs EXCEPT ![d] = [rqs[d] EXCEPT ![p] = u]]
Lists == [Cpus -> [Prios -> Seq(Threads)]]

LEMMA ListReplaced ==
  ASSUME NEW rqs \in Lists, NEW d \in Cpus, NEW p \in Prios, NEW u \in Seq(Threads)
  PROVE  /\ SetList(rqs, d, p, u) \in Lists
         /\ SetList(rqs, d, p, u)[d][p] = u
         /\ \A e \in Cpus, q \in Prios : e # d \/ q # p => SetList(rqs, d, p, u)[e][q] = rqs[e][q]
<1>1. [rqs[d] EXCEPT ![p] = u] \in [Prios -> Seq(Threads)]
  BY DEF Lists
<1>2. QED
  BY <1>1 DEF SetList, Lists

\* Lists that are empty, and what is on them.
LEMMA EmptyLists ==
  ASSUME NEW rqs \in Lists, NEW d \in Cpus, NEW q \in Prios
  PROVE  /\ rqs[d][q] \in Seq(Threads)
         /\ rqs[d][q] = <<>> <=> Elems(rqs[d][q]) = {}
         /\ Elems(rqs[d][q]) \subseteq Threads
<1>1. rqs[d][q] \in Seq(Threads)
  BY DEF Lists
<1>2. QED
  BY <1>1, EmptyList

\* The count of the run queue that the list belongs to, and those of the others.
LEMMA CountReplaced ==
  ASSUME NEW rqs \in Lists, NEW d \in Cpus, NEW p \in Prios, NEW u \in Seq(Threads)
  PROVE  /\ Count3(SetList(rqs, d, p, u), d) + Len(rqs[d][p]) = Count3(rqs, d) + Len(u)
         /\ Count3(SetList(rqs, d, p, u), d) \in Nat /\ Len(rqs[d][p]) \in Nat /\ Len(u) \in Nat
         /\ \A e \in Cpus : Count3(rqs, e) \in Nat
         /\ \A e \in Cpus : e # d => Count3(SetList(rqs, d, p, u), e) = Count3(rqs, e)
<1> DEFINE new == SetList(rqs, d, p, u)
<1>0. /\ new \in Lists /\ new[d][p] = u
      /\ \A e \in Cpus, q \in Prios : e # d \/ q # p => new[e][q] = rqs[e][q]
  BY SMTT(60), Z3T(60), ListReplaced
<1> HIDE DEF new
<1>1. PICK a \in Nat, b \in Nat, e \in Nat : a = Len(rqs[d][0]) /\ b = Len(rqs[d][1]) /\ e = Len(rqs[d][2])
  <2>1. rqs[d][0] \in Seq(Threads) /\ rqs[d][1] \in Seq(Threads) /\ rqs[d][2] \in Seq(Threads)
    BY DEF Lists, Prios
  <2>2. QED
    BY SMTT(60), Z3T(60), <2>1
<1>2. PICK x \in Nat, y \in Nat, z \in Nat : x = Len(new[d][0]) /\ y = Len(new[d][1]) /\ z = Len(new[d][2])
  BY SMTT(60), Z3T(60), <1>0 DEF Lists, Prios
<1>30. PICK f \in Nat, g \in Nat : f = Len(rqs[d][p]) /\ g = Len(u)
  BY SMTT(60), Z3T(60) DEF Lists
<1>3. x + y + z + f = a + b + e + g
  <2>1. CASE p = 0
    <3>1. y = b /\ z = e /\ f = a /\ g = x
      <4>1. 1 \in Prios /\ 2 \in Prios /\ p # 1 /\ p # 2
        BY SMTT(60), Z3T(60), <2>1 DEF Prios
      <4>2. new[d][0] = u /\ new[d][1] = rqs[d][1] /\ new[d][2] = rqs[d][2]
        BY <1>0, <2>1, <4>1
      <4>3. QED
        BY <1>1, <1>2, <1>30, <2>1, <4>2
    <3>2. QED
      BY SMTT(60), Z3T(60), <3>1
  <2>2. CASE p = 1
    <3>1. x = a /\ z = e /\ f = b /\ g = y
      <4>1. 0 \in Prios /\ 2 \in Prios /\ p # 0 /\ p # 2
        BY SMTT(60), Z3T(60), <2>2 DEF Prios
      <4>2. new[d][1] = u /\ new[d][0] = rqs[d][0] /\ new[d][2] = rqs[d][2]
        BY <1>0, <2>2, <4>1
      <4>3. QED
        BY <1>1, <1>2, <1>30, <2>2, <4>2
    <3>2. QED
      BY SMTT(60), Z3T(60), <3>1
  <2>3. CASE p = 2
    <3>1. x = a /\ y = b /\ f = e /\ g = z
      <4>1. 0 \in Prios /\ 1 \in Prios /\ p # 0 /\ p # 1
        BY SMTT(60), Z3T(60), <2>3 DEF Prios
      <4>2. new[d][2] = u /\ new[d][0] = rqs[d][0] /\ new[d][1] = rqs[d][1]
        BY <1>0, <2>3, <4>1
      <4>3. QED
        BY <1>1, <1>2, <1>30, <2>3, <4>2
    <3>2. QED
      BY SMTT(60), Z3T(60), <3>1
  <2>4. QED
    BY <2>1, <2>2, <2>3 DEF Prios
<1>4. Count3(new, d) = x + y + z /\ Count3(rqs, d) = a + b + e
  BY <1>1, <1>2 DEF Count3
<1>5. \A k \in Cpus : Count3(rqs, k) \in Nat
  <2> TAKE k \in Cpus
  <2>1. Len(rqs[k][0]) \in Nat /\ Len(rqs[k][1]) \in Nat /\ Len(rqs[k][2]) \in Nat
    BY SMTT(60), Z3T(60) DEF Lists, Prios
  <2>2. QED
    <3>1. PICK a1 \in Nat, b1 \in Nat, e1 \in Nat :
            a1 = Len(rqs[k][0]) /\ b1 = Len(rqs[k][1]) /\ e1 = Len(rqs[k][2])
      BY <2>1
    <3>2. Count3(rqs, k) = a1 + b1 + e1
      BY <3>1 DEF Count3
    <3>3. QED
      BY SMTT(60), Z3T(60), <3>2
<1>6. \A k \in Cpus : k # d => Count3(new, k) = Count3(rqs, k)
  BY <1>0 DEF Count3, Prios
<1>7. Count3(new, d) + f = Count3(rqs, d) + g /\ Count3(new, d) \in Nat
  BY SMTT(60), Z3T(60), <1>3, <1>4
<1>8. QED
  BY <1>30, <1>5, <1>6, <1>7 DEF new

-----------------------------------------------------------------------------
(* One lemma per action, or per group of actions that leave the same alone.  *)

\* A thread in thread context: it is on its CPU, where nothing is activated.
LEMMA RunningThread ==
  ASSUME SchedTypeOK, CpuInv, NEW c \in Cpus, NEW t \in Threads, Runs(c, t)
  PROVE  /\ on_cpu[t] /\ curr[c] = t /\ ~Waking(c) /\ cpu[t] = c /\ t # Idle
         /\ \A d \in Cpus : curr[d] = t => d = c
BY Constants DEF SchedTypeOK, CpuTypes, CpuInv, Runs, Waking

\* Steps that leave the lists and the activations alone.
LEMMA BitsFrame ==
  ASSUME BitsInv, UNCHANGED <<runqueue, rq_bitmap, nr_running, wk, policy>>
  PROVE  BitsInv'
<1>1. \A d \in Cpus : Lags(d)' = Lags(d) /\ Linked3(d)' = Linked3(d) /\ \A u : Prio(u)' = Prio(u)
  BY DEF Lags, Linked3, Prio
<1>2. QED
  BY SMTT(60), Z3T(60), <1>1 DEF BitsInv, BitmapLag, CountLag

\* Steps that only move the thread along: the BKL and the way to and from
\* user mode and schedule().
LEMMA KernelStep ==
  ASSUME SchedInv, NEW c \in Cpus, NEW t \in Threads, UNCHANGED load,
         \/ lock_kernel(c, t) \/ unlock_kernel(c, t) \/ prepare_exit_to_user(c, t)
         \/ InterruptUser(c, t) \/ schedule(c, t) \/ yield(c, t) \/ Resume(c, t)
  PROVE  SchedInv'
<1> USE DEF SchedInv
<1>1. Runs(c, t) /\ UNCHANGED <<thread_vars, puts, rq_vars, curr, wk, last, load>>
  BY DEF lock_kernel, unlock_kernel, prepare_exit_to_user, InterruptUser, schedule, yield, Resume
<1>2. /\ on_cpu[t] /\ curr[c] = t /\ ~Waking(c) /\ cpu[t] = c /\ t # Idle
      /\ \A d \in Cpus : curr[d] = t => d = c
  BY <1>1, RunningThread
<1>3. \A u \in Threads \ {t} : pc'[u] = pc[u] /\ holds'[u] = holds[u]
  BY DEF lock_kernel, unlock_kernel, prepare_exit_to_user, InterruptUser, schedule, yield, Resume,
         Goto, SchedTypeOK, ThreadTypes
<1>4. ThreadTypes'
  BY <1>1, Constants DEF lock_kernel, unlock_kernel, prepare_exit_to_user, InterruptUser, schedule,
         yield, Resume, Goto, SchedTypeOK, ThreadTypes, thread_vars, PCs
<1>5. CpuTypes'
  BY <1>1 DEF SchedTypeOK, CpuTypes, rq_vars
<1>6. CpuInv'
  BY <1>1 DEF CpuInv, thread_vars
<1>7. PcInv'
  <2>1. CASE lock_kernel(c, t)
    BY SMTT(60), Z3T(60), <1>1, <1>2, <2>1, Constants DEF lock_kernel, Goto, PcInv, thread_vars, SchedTypeOK, ThreadTypes
  <2>2. CASE unlock_kernel(c, t)
    BY SMTT(60), Z3T(60), <1>1, <1>2, <2>2, Constants DEF unlock_kernel, Goto, PcInv, thread_vars, SchedTypeOK, ThreadTypes
  <2>3. CASE prepare_exit_to_user(c, t)
    BY SMTT(60), Z3T(60), <1>1, <1>2, <2>3, Constants DEF prepare_exit_to_user, Goto, PcInv, thread_vars, SchedTypeOK, ThreadTypes
  <2>4. CASE InterruptUser(c, t)
    BY SMTT(60), Z3T(60), <1>1, <1>2, <2>4, Constants DEF InterruptUser, Goto, PcInv, thread_vars, SchedTypeOK, ThreadTypes
  <2>5. CASE schedule(c, t)
    BY SMTT(60), Z3T(60), <1>1, <1>2, <2>5, Constants DEF schedule, Goto, PcInv, thread_vars, SchedTypeOK, ThreadTypes
  <2>6. CASE yield(c, t)
    BY SMTT(60), Z3T(60), <1>1, <1>2, <2>6, Constants DEF yield, Goto, PcInv, thread_vars, SchedTypeOK, ThreadTypes
  <2>7. CASE Resume(c, t)
    BY SMTT(60), Z3T(60), <1>1, <1>2, <2>7, Constants DEF Resume, Goto, PcInv, thread_vars, SchedTypeOK, ThreadTypes
  <2>8. QED
    BY <2>1, <2>2, <2>3, <2>4, <2>5, <2>6, <2>7
<1>8. WakeInv'
  <2>1. ASSUME NEW d \in Cpus, Waking(d) PROVE d # c /\ curr[d] # t /\ wk[d].t # t
    BY <1>2, <2>1 DEF WakeInv, Activating, Apart
  <2>2. ASSUME NEW d \in Cpus, Waking(d) PROVE UnderBkl(d) => UnderBkl(d)'
    BY SMTT(60), Z3T(60), <1>1, <1>3, <2>1, <2>2 DEF UnderBkl, SchedTypeOK, CpuTypes
  <2>3. ASSUME NEW d \in Cpus, Waking(d) PROVE pc'[wk[d].t] = pc[wk[d].t]
    BY <1>3, <2>1, <2>3 DEF WakeInv, Activating, Apart
  <2>4. QED
    BY SMTT(60), Z3T(60), <1>1, <2>2, <2>3 DEF WakeInv, Activating, Apart, Waking, On, Prio, thread_vars, rq_vars
<1>9. QueueInv'
  BY SMTT(60), Z3T(60), <1>1 DEF QueueInv, On, Prio, thread_vars, rq_vars
<1>10. BitsInv'
  BY <1>1, BitsFrame DEF thread_vars, rq_vars
<1>11. LostInv'
  BY <1>1 DEF LostInv, NoLostThread, Waking, thread_vars, rq_vars
<1>12. QED
  BY <1>4, <1>5, <1>6, <1>7, <1>8, <1>9, <1>10, <1>11 DEF SchedTypeOK

\* A running thread stores to its own t->state, or exits.
LEMMA StateStep ==
  ASSUME SchedInv, NEW c \in Cpus, NEW t \in Threads, UNCHANGED load,
         do_exit(c, t) \/ \E s \in SleepStates \cup {"R"} : SetState(c, t, s)
  PROVE  SchedInv'
<1> USE DEF SchedInv
<1>1. Runs(c, t) /\ UNCHANGED <<on_rq, on_cpu, cpu, policy, puts, rq_vars, curr, wk, last, load>>
  BY DEF do_exit, SetState
<1>2. /\ on_cpu[t] /\ curr[c] = t /\ ~Waking(c) /\ cpu[t] = c /\ t # Idle
      /\ \A d \in Cpus : curr[d] = t => d = c
  BY <1>1, RunningThread
<1>3. \A u \in Threads \ {t} : pc'[u] = pc[u] /\ holds'[u] = holds[u] /\ state'[u] = state[u]
  BY DEF do_exit, SetState, Goto, SchedTypeOK, ThreadTypes
<1>4. ThreadTypes'
  <2>1. \E s \in States : state' = [state EXCEPT ![t] = s]
    BY Constants DEF do_exit, SetState, States
  <2>2. state' \in [Threads -> States]
    BY <2>1 DEF SchedTypeOK, ThreadTypes
  <2>3. pc' \in [Threads -> PCs] /\ holds' \in [Threads -> BOOLEAN] /\ bkl' \in Threads \cup {Idle}
    BY DEF do_exit, SetState, Goto, SchedTypeOK, ThreadTypes, PCs
  <2>4. QED
    BY <1>1, <2>2, <2>3 DEF SchedTypeOK, ThreadTypes
<1>5. CpuTypes'
  BY <1>1 DEF SchedTypeOK, CpuTypes, rq_vars
<1>6. CpuInv'
  BY <1>1 DEF CpuInv
<1>7. PcInv'
  <2>1. CASE do_exit(c, t)
    BY SMTT(60), Z3T(60), <1>1, <1>2, <2>1, Constants DEF do_exit, Goto, PcInv, SchedTypeOK, ThreadTypes
  <2>2. CASE \E s \in SleepStates \cup {"R"} : SetState(c, t, s)
    <3>1. UNCHANGED <<pc, holds, bkl, on_cpu, on_rq>> /\ pc[t] = "kern"
      BY <1>1, <2>2 DEF SetState
    <3>2. state'[t] # "X"
      BY <2>2, Constants DEF SetState, SchedTypeOK, ThreadTypes
    <3>3. QED
      BY <1>3, <3>1, <3>2, SMTT(60), Z3T(60) DEF PcInv
  <2>3. QED
    BY <2>1, <2>2
<1>8. WakeInv'
  <2>1. ASSUME NEW d \in Cpus, Waking(d) PROVE d # c /\ curr[d] # t /\ wk[d].t # t /\ wk[d].t \in Threads
    BY <1>2, <2>1 DEF WakeInv, Activating, Apart
  <2>2. ASSUME NEW d \in Cpus, Waking(d) PROVE UnderBkl(d) => UnderBkl(d)'
    BY SMTT(60), Z3T(60), <1>1, <1>3, <2>1, <2>2 DEF UnderBkl, SchedTypeOK, CpuTypes
  <2>3. ASSUME NEW d \in Cpus, Waking(d)
        PROVE pc'[wk[d].t] = pc[wk[d].t] /\ state'[wk[d].t] = state[wk[d].t]
    BY <1>3, <2>1, <2>3
  <2>4. QED
    BY SMTT(60), Z3T(60), <1>1, <2>2, <2>3 DEF WakeInv, Activating, Apart, Waking, On, Prio, rq_vars
<1>9. QueueInv'
  <2>1. \A d \in Cpus, p \in Prios : t \notin Elems(runqueue[d][p])
    BY <1>2 DEF QueueInv
  <2>2. ~on_rq[t]
    BY <1>2 DEF QueueInv
  <2>3. \A d \in Cpus, p \in Prios : Elems(runqueue[d][p]) \subseteq Threads
    BY SMTT(60), Z3T(60), EmptyList DEF SchedTypeOK, CpuTypes
  <2>4. QED
    BY SMTT(60), Z3T(60), <1>1, <1>3, <2>1, <2>2, <2>3 DEF QueueInv, On, Prio, rq_vars
<1>10. BitsInv'
  BY <1>1, BitsFrame DEF rq_vars
<1>11. LostInv'
  BY SMTT(60), Z3T(60), <1>1, <1>2, <1>3 DEF LostInv, NoLostThread, Waking
<1>12. QED
  BY <1>4, <1>5, <1>6, <1>7, <1>8, <1>9, <1>10, <1>11 DEF SchedTypeOK

\* finish_switch after its unlock, and the tick: nothing the invariant is about.
LEMMA TickStep ==
  ASSUME SchedInv, NEW c \in Cpus, UNCHANGED load, finish_switch(c) \/ scheduler_tick(c)
  PROVE  SchedInv'
<1> USE DEF SchedInv
<1>1. UNCHANGED <<thread_vars, holds, pc, runqueue, rq_bitmap, nr_running, rq_lock, curr, bkl, wk, load>>
  BY DEF finish_switch, scheduler_tick, rq_vars
<1>2. ThreadTypes'
  <2>1. CASE finish_switch(c)
    BY SMTT(60), Z3T(60), <1>1, <2>1 DEF finish_switch, SchedTypeOK, ThreadTypes, CpuTypes, thread_vars
  <2>2. CASE scheduler_tick(c)
    BY <1>1, <2>2 DEF scheduler_tick, SchedTypeOK, ThreadTypes, thread_vars
  <2>3. QED
    BY <2>1, <2>2
<1>3. CpuTypes'
  BY <1>1 DEF finish_switch, scheduler_tick, SchedTypeOK, CpuTypes, rq_vars
<1>40. UNCHANGED <<state, on_rq, on_cpu, cpu, policy>>
  BY <1>1 DEF thread_vars
<1>41. CpuInv'
  BY <1>1, <1>40 DEF CpuInv
<1>42. PcInv'
  BY <1>1, <1>40 DEF PcInv
<1>4. CpuInv' /\ PcInv'
  BY <1>41, <1>42
<1>50. /\ \A u : Prio(u)' = Prio(u) /\ \A d \in Cpus : On(u, d)' = On(u, d)
       /\ \A d \in Cpus : Waking(d)' = Waking(d) /\ UnderBkl(d)' = UnderBkl(d)
  BY <1>1, <1>40 DEF On, Prio, Waking, UnderBkl
<1>5. WakeInv'
  <2>2. ASSUME NEW d \in Cpus, Waking(d) PROVE Activating(d)'
    <3>1. Activating(d)
      BY <2>2 DEF WakeInv
    <3>2. On(wk[d].t, wk[d].dst)' = On(wk[d].t, wk[d].dst)
      BY <1>1, <1>40 DEF On, Prio
    <3>3. QED
      BY <1>1, <1>40, <1>50, <3>1, <3>2 DEF Activating
  <2>3. ASSUME NEW d \in Cpus, NEW e \in Cpus, Apart(d, e) PROVE Apart(d, e)'
    BY <1>1, <2>3 DEF Apart
  <2>4. QED
    BY <1>50, <2>2, <2>3 DEF WakeInv
<1>6. QueueInv'
  BY SMTT(60), Z3T(60), <1>1, <1>40, <1>50 DEF QueueInv
<1>7. BitsInv'
  BY <1>1, BitsFrame DEF thread_vars
<1>8. LostInv'
  BY <1>1 DEF LostInv, NoLostThread, Waking, thread_vars
<1>9. QED
  BY <1>2, <1>3, <1>4, <1>5, <1>6, <1>7, <1>8 DEF SchedTypeOK

\* A sleeper becomes runnable, and its activation on CPU c begins unless it has
\* not left its CPU yet: what try_to_wake_up and sched_add_new have in common.
LEMMA BecomesRunnable ==
  ASSUME SchedInv, NEW c \in Cpus, NEW t \in Threads, ~Waking(c), state[t] # "R",
         state' = [state EXCEPT ![t] = "R"],
         wk' = IF NeedsActivation(t)
                 THEN [wk EXCEPT ![c] = [at |-> "select", t |-> t, dst |-> 0]] ELSE wk,
         UNCHANGED <<on_rq, on_cpu, cpu, policy, rq_vars, curr, last, load>>,
         pc'[t] \notin {"unborn", "new"},
         \A u \in Threads : pc[u] \notin {"unborn", "new"} => pc'[u] \notin {"unborn", "new"},
         \A d \in Cpus : UnderBkl(d) => UnderBkl(d)',
         load = "retune" => UnderBkl(c)'
  PROVE  CpuTypes' /\ CpuInv' /\ WakeInv' /\ QueueInv' /\ BitsInv' /\ LostInv'
<1> USE DEF SchedInv
<1>1. /\ \A u \in Threads \ {t} : state'[u] = state[u]
      /\ state'[t] = "R"
  BY DEF SchedTypeOK, ThreadTypes
<1>2. /\ \A d \in Cpus \ {c} : wk'[d] = wk[d]
      /\ wk'[c] = IF NeedsActivation(t) THEN [at |-> "select", t |-> t, dst |-> 0] ELSE wk[c]
  BY DEF SchedTypeOK, CpuTypes
<1>3. /\ ~on_rq[t]
      /\ \A d \in Cpus, p \in Prios : t \notin Elems(runqueue[d][p])
      /\ \A d \in Cpus : Waking(d) => wk[d].t # t
  <2>1. ~on_rq[t] /\ \A d \in Cpus, p \in Prios : t \notin Elems(runqueue[d][p])
    BY SMTT(60), Z3T(60) DEF QueueInv
  <2>2. \A d \in Cpus : Waking(d) => wk[d].t # t
    BY DEF WakeInv, Activating
  <2>3. QED
    BY <2>1, <2>2
<1>4. \A d \in Cpus, p \in Prios : Elems(runqueue[d][p]) \subseteq Threads
  BY SMTT(60), Z3T(60), EmptyList DEF SchedTypeOK, CpuTypes
<1>5. CpuTypes'
  <2>1. [at |-> "select", t |-> t, dst |-> 0] \in [at : Stages, t : Threads \cup {Idle}, dst : Cpus]
    BY Constants DEF Stages
  <2>2. wk' \in [Cpus -> [at : Stages, t : Threads \cup {Idle}, dst : Cpus]]
    BY <2>1 DEF SchedTypeOK, CpuTypes
  <2>3. QED
    BY <2>2 DEF SchedTypeOK, CpuTypes, rq_vars
<1>6. CpuInv'
  BY DEF CpuInv
<1>7. WakeInv'
  <2>1. ASSUME NEW d \in Cpus \ {c}, Waking(d)
        PROVE  /\ wk'[d] = wk[d] /\ wk[d].t \in Threads \ {t} /\ state'[wk[d].t] = "R"
               /\ pc'[wk[d].t] \notin {"unborn", "new"}
    BY <1>1, <1>2, <1>3, <2>1 DEF WakeInv, Activating, Apart
  <2>2. \A d \in Cpus \ {c} : Waking(d)' <=> Waking(d)
    BY <1>2 DEF Waking
  <2>3. Waking(c)' => /\ wk'[c].t = t /\ wk'[c].at = "select" /\ ~on_cpu[t]
    BY SMTT(60), Z3T(60), <1>2 DEF Waking, NeedsActivation
  <2>4. ASSUME Waking(c)' PROVE Activating(c)'
    BY <1>1, <1>3, <2>3, <2>4 DEF Activating, Linking
  <2>5. ASSUME NEW d \in Cpus \ {c}, Waking(d)
        PROVE  /\ Activating(d)'
               /\ Waking(c)' => Apart(c, d)' /\ Apart(d, c)'
               /\ \A e \in Cpus \ {c, d} : Waking(e) => Apart(d, e)'
    <3>1. Activating(d) /\ \A e \in Cpus \ {c, d} : Waking(e) => Apart(d, e)
      BY <2>5 DEF WakeInv
    <3>2. Activating(d)'
      BY <2>1, <2>5, <3>1 DEF Activating, On, Prio, rq_vars
    <3>3. \A e \in Cpus \ {c, d} : Waking(e) => Apart(d, e)'
      BY <1>2, <3>1 DEF Apart
    <3>4. QED
      BY <1>3, <2>1, <2>3, <2>5, <3>2, <3>3 DEF Apart, Linking
  <2>6. QED
    BY <2>2, <2>4, <2>5 DEF WakeInv
<1>8. QueueInv'
  <2>1. \A d \in Cpus : wk[d].at \in Linking => wk'[d] = wk[d]
    BY <1>2 DEF Linking, Waking
  <2>2. QED
    BY SMTT(60), Z3T(60), <1>1, <1>3, <1>4, <2>1 DEF QueueInv, On, Prio, rq_vars
<1>9. BitsInv'
  <2>1. \A d \in Cpus : wk[d].at = "bits" \/ wk'[d].at = "bits" => wk'[d] = wk[d]
    BY SMTT(60), Z3T(60), <1>2 DEF Waking
  <2>2. \A d \in Cpus : Lags(d)' = Lags(d) /\ Linked3(d)' = Linked3(d)
    BY <2>1 DEF Lags, Linked3, rq_vars
  <2>3. \A u : Prio(u)' = Prio(u)
    BY DEF Prio
  <2>4. QED
    BY SMTT(60), Z3T(60), <2>1, <2>2, <2>3 DEF BitsInv, BitmapLag, CountLag, rq_vars
<1>10. LostInv'
  <2>1. ASSUME NEW u \in Threads \ {t}, state[u] = "R"
        PROVE  on_cpu[u] \/ on_rq[u] \/ \E d \in Cpus : Waking(d)' /\ wk'[d].t = u
    BY SMTT(60), Z3T(60), <1>2, <2>1 DEF LostInv, NoLostThread, Waking
  <2>2. on_cpu[t] \/ on_rq[t] \/ (Waking(c)' /\ wk'[c].t = t)
    BY SMTT(60), Z3T(60), <1>2 DEF Waking, NeedsActivation
  <2>3. QED
    BY SMTT(60), Z3T(60), <1>1, <2>1, <2>2 DEF LostInv, NoLostThread, Waking
<1>11. QED
  BY <1>5, <1>6, <1>7, <1>8, <1>9, <1>10

\* try_to_wake_up never meets a thread that is being created: with a mask that
\* fits, the waker holds the BKL in system calls, and the creator does.
LEMMA WakeStep ==
  ASSUME SchedInv, NEW c \in Cpus, NEW t \in Threads, NEW m \in Masks, UNCHANGED load,
         try_to_wake_up(c, t, m)
  PROVE  SchedInv'
<1> USE DEF SchedInv
<1>1. /\ ~Waking(c) /\ state[t] \in m /\ MayWake(c, t, m) /\ m \in Masks
      /\ UNCHANGED <<on_rq, on_cpu, cpu, policy, holds, pc, puts, rq_vars, curr, bkl, last, load>>
      /\ state' = [state EXCEPT ![t] = "R"]
  BY DEF try_to_wake_up, IrqsOn, Waking, Wakeable
<1>2. state[t] # "R" /\ state[t] # "X"
  BY <1>1 DEF Masks
<1>3. pc[t] # "unborn"
  BY <1>1 DEF MayWake, Born
<1>4. pc[t] # "new"
  <2> SUFFICES ASSUME pc[t] = "new" PROVE FALSE
    OBVIOUS
  <2>1. state[t] = "D"
    BY DEF PcInv
  <2>2. UnderBkl(c)
    BY <1>1, <2>1 DEF MayWake
  <2>3. curr[c] \in Threads
    BY <2>2 DEF UnderBkl, SchedTypeOK, CpuTypes
  <2>4. bkl = curr[c]
    BY <2>2, <2>3 DEF UnderBkl, PcInv
  <2>5. QED
    BY <2>2, <2>4 DEF UnderBkl, PcInv
<1>5. \A d \in Cpus : UnderBkl(d)' = UnderBkl(d)
  BY <1>1 DEF UnderBkl
<1>6. load = "retune" => UnderBkl(c)
  BY <1>1 DEF MayWake, IrqWakers
<1>7. CpuTypes' /\ CpuInv' /\ WakeInv' /\ QueueInv' /\ BitsInv' /\ LostInv'
  <2>1. wk' = IF NeedsActivation(t)
                 THEN [wk EXCEPT ![c] = [at |-> "select", t |-> t, dst |-> 0]] ELSE wk
    BY DEF try_to_wake_up
  <2>2. QED
    BY <1>1, <1>2, <1>3, <1>4, <1>5, <1>6, <2>1, BecomesRunnable
<1>8. ThreadTypes'
  BY <1>1 DEF SchedTypeOK, ThreadTypes, States
<1>9. PcInv'
  BY <1>1, <1>2, <1>3, <1>4 DEF PcInv, SchedTypeOK, ThreadTypes
<1>10. QED
  BY <1>7, <1>8, <1>9 DEF SchedTypeOK

\* do_fork: the new thread is allocated asleep, then made runnable by its parent,
\* which keeps the BKL in between.
LEMMA ForkStep ==
  ASSUME SchedInv, NEW c \in Cpus, NEW t \in Threads, NEW n \in Threads, UNCHANGED load,
         thread_alloc(c, t, n) \/ sched_add_new(c, t, n)
  PROVE  SchedInv'
<1> USE DEF SchedInv
<1>1. Runs(c, t) /\ UNCHANGED <<on_rq, on_cpu, holds, puts, rq_vars, curr, bkl, last, load>>
  BY DEF thread_alloc, sched_add_new
<1>2. /\ on_cpu[t] /\ curr[c] = t /\ ~Waking(c) /\ cpu[t] = c /\ t # Idle
      /\ \A d \in Cpus : curr[d] = t => d = c
  BY <1>1, RunningThread
<1>3. /\ n # t /\ ~on_cpu[n] /\ ~on_rq[n] /\ state[n] = "D" /\ ~holds[n]
      /\ holds[t] /\ bkl = t
      /\ \A d \in Cpus : curr[d] # n
  BY SMTT(60), Z3T(60), <1>2 DEF thread_alloc, sched_add_new, PcInv, CpuInv
<1>4. /\ \A u \in Threads \ {t, n} : pc'[u] = pc[u] /\ state'[u] = state[u]
      /\ state'[t] = state[t]
  BY <1>3 DEF thread_alloc, sched_add_new, SchedTypeOK, ThreadTypes
<1>5. CASE thread_alloc(c, t, n)
  <2>1. /\ wk' = wk /\ state' = state /\ pc[n] = "unborn" /\ pc'[n] = "new" /\ pc'[t] = "fork"
        /\ pc[t] = "kern" /\ state[t] = "R"
        /\ \A u \in Threads \ {n} : policy'[u] = policy[u] /\ cpu'[u] = cpu[u]
    BY <1>3, <1>5 DEF thread_alloc, SchedTypeOK, ThreadTypes
  <2>2. ThreadTypes'
    BY <1>1, <1>5, <2>1, Constants DEF thread_alloc, SchedTypeOK, ThreadTypes, PCs
  <2>3. CpuTypes'
    BY <1>1, <2>1 DEF SchedTypeOK, CpuTypes, rq_vars
  <2>4. CpuInv'
    <3>1. curr' = curr /\ on_cpu' = on_cpu
      BY <1>1
    <3>2. \A d \in Cpus : curr[d] # Idle => cpu'[curr[d]] = cpu[curr[d]]
      BY <1>3, <2>1 DEF SchedTypeOK, CpuTypes
    <3>3. QED
      BY <3>1, <3>2 DEF CpuInv
  <2>5. PcInv'
    <3>1. \A u \in Threads : pc[u] # "new"
      BY <1>3, <2>1 DEF PcInv
    <3>2. QED
      BY SMTT(60), Z3T(60), <1>1, <1>2, <1>3, <1>4, <2>1, <3>1 DEF PcInv, SchedTypeOK, ThreadTypes
  <2>6. /\ \A d \in Cpus : Waking(d) => wk[d].t # n /\ wk[d].t # t
        /\ \A d \in Cpus, p \in Prios : n \notin Elems(runqueue[d][p])
        /\ \A d \in Cpus, p \in Prios : Elems(runqueue[d][p]) \subseteq Threads
    <3>1. \A d \in Cpus : Waking(d) => wk[d].t # n /\ wk[d].t # t
      BY <1>2, <1>3 DEF WakeInv, Activating, Apart
    <3>2. \A d \in Cpus, p \in Prios : n \notin Elems(runqueue[d][p])
      BY <1>3 DEF QueueInv
    <3>3. \A d \in Cpus, p \in Prios : Elems(runqueue[d][p]) \subseteq Threads
      BY SMTT(60), Z3T(60), EmptyList DEF SchedTypeOK, CpuTypes
    <3>4. QED
      BY <3>1, <3>2, <3>3
  <2>7. \A u : u # n => Prio(u)' = Prio(u)
    BY SMTT(60), Z3T(60), <1>5 DEF thread_alloc, Prio, SchedTypeOK, ThreadTypes
  <2>8. Prio(n)' \in Prios
    BY Constants DEF Prio
  <2>9. /\ \A u \in Threads \ {n}, d \in Cpus : On(u, d)' = On(u, d)
        /\ \A d \in Cpus : ~On(n, d)'
    BY <1>1, <2>6, <2>7, <2>8 DEF On, rq_vars
  <2>10. \A d \in Cpus : Waking(d) => (UnderBkl(d) => UnderBkl(d)')
    <3>1. ASSUME NEW d \in Cpus, Waking(d), UnderBkl(d) PROVE UnderBkl(d)'
      <4>1. curr[d] \in Threads \ {t, n}
        BY <1>2, <1>3, <3>1 DEF UnderBkl, SchedTypeOK, CpuTypes
      <4>2. QED
        BY <1>1, <1>4, <3>1, <4>1 DEF UnderBkl
    <3>2. QED
      BY <3>1
  <2>11. WakeInv'
    <3>1. \A d \in Cpus : Waking(d)' = Waking(d)
      BY <2>1 DEF Waking
    <3>2. ASSUME NEW d \in Cpus, Waking(d)
          PROVE  /\ wk[d].t \in Threads \ {n, t} /\ pc'[wk[d].t] = pc[wk[d].t]
                 /\ On(wk[d].t, wk[d].dst)' = On(wk[d].t, wk[d].dst)
      <4>1. wk[d].t \in Threads \ {n, t} /\ wk[d].dst \in Cpus
        BY <2>6, <3>2 DEF WakeInv, Activating, Apart, SchedTypeOK, CpuTypes
      <4>2. QED
        BY <1>4, <2>1, <2>9, <4>1
    <3>3. ASSUME NEW d \in Cpus, Waking(d) PROVE Activating(d)'
      <4>1. Activating(d)
        BY <3>3 DEF WakeInv
      <4>2. wk' = wk /\ state' = state /\ on_cpu' = on_cpu /\ on_rq' = on_rq /\ rq_lock' = rq_lock /\ load' = load
        BY <1>1, <2>1 DEF rq_vars
      <4>3. QED
        BY <2>10, <3>2, <3>3, <4>1, <4>2 DEF Activating
    <3>4. ASSUME NEW d \in Cpus, NEW e \in Cpus, Apart(d, e) PROVE Apart(d, e)'
      BY <2>1, <3>4 DEF Apart
    <3>5. QED
      BY <3>1, <3>3, <3>4 DEF WakeInv
  <2>12. QueueInv'
    <3>1. runqueue' = runqueue /\ state' = state /\ on_cpu' = on_cpu /\ on_rq' = on_rq /\ wk' = wk
      BY <1>1, <2>1 DEF rq_vars
    <3>2. \A d \in Cpus, p \in Prios : Distinct(runqueue[d][p])'
      BY <3>1 DEF QueueInv
    <3>3. \A d \in Cpus, p \in Prios : \A u \in Elems(runqueue[d][p]) :
            u \in Threads \ {n} /\ Prio(u)' = Prio(u) /\ cpu'[u] = cpu[u]
      BY <2>1, <2>6, <2>7
    <3>4. QED
      BY SMTT(60), Z3T(60), <1>3, <2>9, <3>1, <3>2, <3>3 DEF QueueInv
  <2>13. BitsInv'
    <3>1. \A d \in Cpus : Lags(d)' = Lags(d) /\ Linked3(d)' = Linked3(d)
      BY <1>1, <2>1 DEF Lags, Linked3, rq_vars
    <3>2. \A d \in Cpus : wk[d].at = "bits" => Prio(wk[d].t)' = Prio(wk[d].t)
      BY <2>1, <2>6, <2>7 DEF Waking
    <3>3. QED
      <4>1. UNCHANGED <<runqueue, rq_bitmap, nr_running, wk>>
        BY <1>1, <2>1 DEF rq_vars
      <4>2. QED
        BY SMTT(60), Z3T(60), <3>1, <3>2, <4>1 DEF BitsInv, BitmapLag, CountLag
  <2>14. LostInv'
    BY <1>1, <2>1 DEF LostInv, NoLostThread, Waking
  <2>15. QED
    BY <2>2, <2>3, <2>4, <2>5, <2>11, <2>12, <2>13, <2>14 DEF SchedTypeOK
<1>6. CASE sched_add_new(c, t, n)
  <2>1. /\ pc[n] = "new" /\ pc'[n] = "sched" /\ pc'[t] = "kern" /\ pc[t] = "fork" /\ NeedsActivation(n)
        /\ UNCHANGED <<cpu, policy>> /\ state' = [state EXCEPT ![n] = "R"] /\ state'[n] = "R"
    BY <1>3, <1>6 DEF sched_add_new, SchedTypeOK, ThreadTypes, NeedsActivation
  <2>2. ThreadTypes'
    <3>1. pc' \in [Threads -> PCs]
      BY <1>6 DEF sched_add_new, SchedTypeOK, ThreadTypes, PCs
    <3>2. state' \in [Threads -> States]
      BY <2>1 DEF SchedTypeOK, ThreadTypes, States
    <3>3. QED
      BY <1>1, <2>1, <3>1, <3>2 DEF SchedTypeOK, ThreadTypes
  <2>3. PcInv'
    BY SMTT(60), Z3T(60), <1>1, <1>2, <1>3, <1>4, <2>1 DEF PcInv, SchedTypeOK, ThreadTypes
  <2>4. \A d \in Cpus : UnderBkl(d) => UnderBkl(d)'
    <3>1. ASSUME NEW d \in Cpus, UnderBkl(d) PROVE UnderBkl(d)'
      <4>1. curr[d] \in Threads \ {n}
        BY <1>3, <3>1 DEF UnderBkl, SchedTypeOK, CpuTypes
      <4>2. pc'[curr[d]] = "kern"
        BY <1>4, <2>1, <3>1, <4>1 DEF UnderBkl
      <4>3. QED
        BY <1>1, <3>1, <4>2 DEF UnderBkl
    <3>2. QED
      BY <3>1
  <2>5. UnderBkl(c)'
    BY <1>1, <1>2, <1>3, <2>1 DEF UnderBkl
  <2>6. CpuTypes' /\ CpuInv' /\ WakeInv' /\ QueueInv' /\ BitsInv' /\ LostInv'
    <3>1. wk' = IF NeedsActivation(n)
                   THEN [wk EXCEPT ![c] = [at |-> "select", t |-> n, dst |-> 0]] ELSE wk
      BY <1>6, <2>1 DEF sched_add_new
    <3>2. \A u \in Threads : pc[u] \notin {"unborn", "new"} => pc'[u] \notin {"unborn", "new"}
      BY <1>4, <2>1
    <3>3. QED
      BY <1>1, <1>2, <1>3, <2>1, <2>4, <2>5, <3>1, <3>2, BecomesRunnable
  <2>7. QED
    BY <2>2, <2>3, <2>6 DEF SchedTypeOK
<1>7. QED
  BY <1>5, <1>6
=============================================================================
