---------------------------- MODULE SchedProofs -----------------------------
(***************************************************************************)
(* Proofs about the scheduler: for any number of CPUs and any set of       *)
(* threads, queues, flags and processors agree, no runnable thread is      *)
(* lost, the big kernel lock is held by a running thread, and a better     *)
(* thread on a run queue always finds a request for preemption pending.    *)
(* From these the scheduler is shown to implement AbsSched.                *)
(***************************************************************************)
EXTENDS SchedQueues
\* Leaves that name no prover go to Zenon; those that need arithmetic, records
\* or function updates name SMT.  They name Z3 too: tlapm allows itself 5 seconds
\* to encode a leaf, overruns them now and then, and then tries the next name.
USE ZenonT(40)

-----------------------------------------------------------------------------
(* schedule() *)

\* Bitmap and count of run queue c are those of its lists.
Counted(rqs, c, bits, nr) ==
    /\ bits \in SUBSET Prios
    /\ \A q \in Prios : q \in bits <=> rqs[c][q] # <<>>
    /\ nr = Count3(rqs, c)

\* enqueue, at either end
EnqueuedAt(rqs, c, p, t, head) ==
    SetList(rqs, c, p, IF head THEN <<t>> \o rqs[c][p] ELSE Append(rqs[c][p], t))
Grown(rqs, res, c, p, t, bits, nr) ==
    /\ res \in Lists /\ AllDistinct(res) /\ Counted(res, c, bits \cup {p}, nr + 1)
    /\ Elems(res[c][p]) = Elems(rqs[c][p]) \cup {t}
    /\ \A d \in Cpus, q \in Prios : d # c \/ q # p => res[d][q] = rqs[d][q]
LEMMA EnqueueLists ==
  ASSUME NEW rqs \in Lists, AllDistinct(rqs), NEW c \in Cpus, NEW p \in Prios, NEW t \in Threads,
         NEW head \in BOOLEAN, t \notin Elems(rqs[c][p]), NEW bits, NEW nr, Counted(rqs, c, bits, nr)
  PROVE  Grown(rqs, EnqueuedAt(rqs, c, p, t, head), c, p, t, bits, nr)
<1> DEFINE res == EnqueuedAt(rqs, c, p, t, head)
<1> HIDE DEF res
<1>1. PICK s \in Seq(Threads) : s = rqs[c][p] /\ t \notin Elems(s) /\ Distinct(s)
  BY DEF Lists, AllDistinct
<1>2. PICK u \in Seq(Threads) : /\ u = IF head THEN <<t>> \o s ELSE Append(s, t)
                                /\ Distinct(u) /\ Len(u) = Len(s) + 1 /\ Elems(u) = Elems(s) \cup {t}
  <2>1. LET v == <<t>> \o s
        IN  v \in Seq(Threads) /\ Distinct(v) /\ Len(v) = Len(s) + 1 /\ Elems(v) = Elems(s) \cup {t}
    BY SMTT(60), Z3T(60), <1>1, ConsList
  <2>2. LET v == Append(s, t)
        IN  v \in Seq(Threads) /\ Distinct(v) /\ Len(v) = Len(s) + 1 /\ Elems(v) = Elems(s) \cup {t}
    BY SMTT(60), Z3T(60), <1>1, AppendList
  <2>3. QED
    BY <2>1, <2>2
<1>3. res = SetList(rqs, c, p, u)
  BY <1>1, <1>2 DEF res, EnqueuedAt
<1>4. /\ res \in Lists /\ res[c][p] = u
      /\ \A d \in Cpus, q \in Prios : d # c \/ q # p => res[d][q] = rqs[d][q]
  <2>1. LET v == SetList(rqs, c, p, u)
        IN  /\ v \in Lists /\ v[c][p] = u
            /\ \A d \in Cpus, q \in Prios : d # c \/ q # p => v[d][q] = rqs[d][q]
    BY SMTT(60), Z3T(60), ListReplaced
  <2>2. QED
    BY <1>3, <2>1
<1>5. AllDistinct(res)
  <2>1. \A d \in Cpus, q \in Prios : d # c \/ q # p => Distinct(res[d][q])
    BY <1>4 DEF AllDistinct
  <2>2. QED
    BY <1>2, <1>4, <2>1 DEF AllDistinct
<1>6. Count3(res, c) = nr + 1
  <2>1. LET v == SetList(rqs, c, p, u)
        IN  /\ Count3(v, c) + Len(rqs[c][p]) = Count3(rqs, c) + Len(u)
            /\ Count3(v, c) \in Nat /\ Len(rqs[c][p]) \in Nat /\ Len(u) \in Nat
            /\ \A e \in Cpus : Count3(rqs, e) \in Nat
    BY SMTT(60), Z3T(60), CountReplaced
  <2>2. Count3(rqs, c) \in Nat /\ Count3(rqs, c) = nr
    BY <2>1 DEF Counted
  <2>3. PICK k \in Nat, l \in Nat, m \in Nat :
          k = Count3(res, c) /\ l = Len(s) /\ m = nr /\ k + l = m + Len(u)
    BY <1>1, <1>3, <2>1, <2>2
  <2>4. k + l = m + (l + 1)
    BY <1>2, <2>3
  <2>5. k = m + 1
    BY SMTT(60), Z3T(60), <2>4
  <2>6. QED
    BY <2>3, <2>5
<1>7. Counted(res, c, bits \cup {p}, nr + 1)
  <2>1. u # <<>>
    BY <1>2, EmptyList
  <2>2. \A q \in Prios : q \in bits \cup {p} <=> res[c][q] # <<>>
    BY <1>4, <2>1 DEF Counted
  <2>3. QED
    BY <1>6, <2>2 DEF Counted
<1>8. Elems(res[c][p]) = Elems(rqs[c][p]) \cup {t}
  BY <1>1, <1>2, <1>4
<1>9. QED
  BY <1>4, <1>5, <1>7, <1>8 DEF res, Grown

\* pick_next: the first thread of a level that is set
Popped(rqs, res, c, p, bits, nr) ==
    /\ res \in Lists /\ AllDistinct(res) /\ p \in Prios
    /\ Counted(res, c, IF Len(rqs[c][p]) = 1 THEN bits \ {p} ELSE bits, nr - 1)
    /\ Head(rqs[c][p]) \in Elems(rqs[c][p])
    /\ Elems(res[c][p]) = Elems(rqs[c][p]) \ {Head(rqs[c][p])}
    /\ \A d \in Cpus, q \in Prios : d # c \/ q # p => res[d][q] = rqs[d][q]
LEMMA PopLists ==
  ASSUME NEW rqs \in Lists, AllDistinct(rqs), NEW c \in Cpus, NEW bits, NEW nr,
         Counted(rqs, c, bits, nr), NEW p \in bits
  PROVE  Popped(rqs, SetList(rqs, c, p, Tail(rqs[c][p])), c, p, bits, nr)
<1>0. p \in Prios
  BY DEF Counted
<1>1. PICK s \in Seq(Threads) : s = rqs[c][p] /\ s # <<>> /\ Distinct(s)
  BY <1>0 DEF Lists, AllDistinct, Counted
<1>2. PICK u \in Seq(Threads) : /\ u = Tail(s) /\ Distinct(u) /\ Len(u) = Len(s) - 1
                                /\ Elems(u) = Elems(s) \ {Head(s)} /\ Head(s) \in Elems(s)
  <2>1. LET v == Tail(s)
        IN  /\ v \in Seq(Threads) /\ Distinct(v) /\ Len(v) = Len(s) - 1
            /\ Elems(v) = Elems(s) \ {Head(s)} /\ Head(s) \in Elems(s)
    BY <1>1, TailList
  <2>2. QED
    BY <2>1
<1> DEFINE res == SetList(rqs, c, p, Tail(rqs[c][p]))
<1>3. res = SetList(rqs, c, p, u)
  BY <1>1, <1>2
<1> HIDE DEF res
<1>4. /\ res \in Lists /\ res[c][p] = u
      /\ \A d \in Cpus, q \in Prios : d # c \/ q # p => res[d][q] = rqs[d][q]
  <2>1. LET v == SetList(rqs, c, p, u)
        IN  /\ v \in Lists /\ v[c][p] = u
            /\ \A d \in Cpus, q \in Prios : d # c \/ q # p => v[d][q] = rqs[d][q]
    BY SMTT(60), Z3T(60), <1>0, ListReplaced
  <2>2. QED
    BY <1>3, <2>1
<1>5. AllDistinct(res)
  <2>1. \A d \in Cpus, q \in Prios : d # c \/ q # p => Distinct(res[d][q])
    BY <1>4 DEF AllDistinct
  <2>2. QED
    BY <1>2, <1>4, <2>1 DEF AllDistinct
<1>6. Count3(res, c) = nr - 1
  <2>1. LET v == SetList(rqs, c, p, u)
        IN  /\ Count3(v, c) + Len(rqs[c][p]) = Count3(rqs, c) + Len(u)
            /\ Count3(v, c) \in Nat /\ Len(rqs[c][p]) \in Nat /\ Len(u) \in Nat
            /\ \A e \in Cpus : Count3(rqs, e) \in Nat
    BY SMTT(60), Z3T(60), <1>0, CountReplaced
  <2>2. Count3(rqs, c) \in Nat /\ Count3(rqs, c) = nr
    BY <2>1 DEF Counted
  <2>3. PICK k \in Nat, l \in Nat, m \in Nat :
          k = Count3(res, c) /\ l = Len(s) /\ m = nr /\ k + l = m + Len(u)
    BY <1>1, <1>3, <2>1, <2>2
  <2>4. k + l = m + (l - 1)
    BY <1>2, <2>3
  <2>5. k = m - 1
    BY SMTT(60), Z3T(60), <2>4
  <2>6. QED
    BY <2>3, <2>5
<1>7. Counted(res, c, IF Len(rqs[c][p]) = 1 THEN bits \ {p} ELSE bits, nr - 1)
  <2>1. u = <<>> <=> Len(s) = 1
    <3>1. u = <<>> <=> Len(u) = 0
      BY EmptyList
    <3>2. Len(s) \in Nat
      BY EmptyList
    <3>3. QED
      BY SMTT(60), Z3T(60), <1>2, <3>1, <3>2
  <2>2. \A q \in Prios : q \in (IF Len(rqs[c][p]) = 1 THEN bits \ {p} ELSE bits) <=> res[c][q] # <<>>
    BY <1>0, <1>1, <1>4, <2>1 DEF Counted
  <2>3. QED
    BY <1>6, <2>2 DEF Counted
<1>8. /\ Elems(res[c][p]) = Elems(rqs[c][p]) \ {Head(rqs[c][p])}
      /\ Head(rqs[c][p]) \in Elems(rqs[c][p])
  BY <1>1, <1>2, <1>4
<1>9. QED
  BY <1>0, <1>4, <1>5, <1>7, <1>8 DEF res, Popped

\* What schedule() on CPU c does when it picks next: prev goes back to its list
\* if it is runnable, next comes off its own, and no better thread is left.
Requeues(c) == curr[c] # Idle /\ state[curr[c]] = "R"
Switched(c, next) ==
    /\ SwitchTo(c, curr[c], next, runqueue'[c], rq_bitmap'[c], nr_running'[c])
    /\ next \in Threads \cup {Idle}
    /\ runqueue' \in Lists /\ AllDistinct(runqueue')
    /\ Counted(runqueue', c, rq_bitmap'[c], nr_running'[c])
    /\ \A d \in Cpus \ {c} : \A q \in Prios : runqueue'[d][q] = runqueue[d][q]
    /\ \A v \in Threads, q \in Prios :
         v \in Elems(runqueue'[c][q])
           <=> v # next /\ (v \in Elems(runqueue[c][q]) \/ (Requeues(c) /\ v = curr[c] /\ q = Prio(v)))
    /\ next # Idle => (next = curr[c] /\ Requeues(c)) \/ \E q \in Prios : next \in Elems(runqueue[c][q])
    /\ \A q \in Prios : runqueue'[c][q] # <<>> => next # Idle /\ Prio(next) <= q
    /\ next = Idle => ~Requeues(c)
    /\ curr[c] # Idle => pc[curr[c]] \in {"sched", "yield"}
    /\ wk[c].at = "none" /\ last[c] = Idle /\ ~rq_lock[c]

\* What is known of CPU c when schedule() holds its run queue lock.
LEMMA AtSwitch ==
  ASSUME SchedInv, NEW c \in Cpus, IrqsOn(c), ~rq_lock[c]
  PROVE  /\ runqueue \in Lists /\ AllDistinct(runqueue) /\ ~Lags(c)
         /\ Counted(runqueue, c, rq_bitmap[c], nr_running[c])
         /\ curr[c] # Idle => /\ curr[c] \in Threads /\ on_cpu[curr[c]] /\ ~on_rq[curr[c]] /\ cpu[curr[c]] = c
                              /\ \A d \in Cpus, q \in Prios : curr[c] \notin Elems(runqueue[d][q])
         /\ \A d \in Cpus : wk[d].at \in Linking => wk[d].dst # c
<1> USE DEF SchedInv
<1>1. runqueue \in Lists /\ AllDistinct(runqueue)
  BY DEF SchedTypeOK, CpuTypes, Lists, QueueInv, AllDistinct
<1>2. \A d \in Cpus : wk[d].at \in Linking => wk[d].dst # c
  BY DEF WakeInv, Activating, Waking, Linking
<1>3. ~Lags(c)
  BY <1>2 DEF Lags, Linking
<1>4. Counted(runqueue, c, rq_bitmap[c], nr_running[c])
  <2>1. nr_running[c] = Count3(runqueue, c)
    BY <1>3 DEF BitsInv, CountLag, Linked3
  <2>2. rq_bitmap[c] \in SUBSET Prios
    BY DEF SchedTypeOK, CpuTypes
  <2>3. \A q \in Prios : q \in rq_bitmap[c] <=> runqueue[c][q] # <<>>
    BY <1>2 DEF BitsInv, BitmapLag, Linking
  <2>4. QED
    BY <2>1, <2>2, <2>3 DEF Counted
<1>5. curr[c] # Idle => /\ curr[c] \in Threads /\ on_cpu[curr[c]] /\ ~on_rq[curr[c]] /\ cpu[curr[c]] = c
                        /\ \A d \in Cpus, q \in Prios : curr[c] \notin Elems(runqueue[d][q])
  BY SMTT(60), Z3T(60) DEF SchedTypeOK, CpuTypes, CpuInv, QueueInv
<1>6. QED
  BY <1>1, <1>2, <1>3, <1>4, <1>5

\* After prev has been put back.
LEMMA SwitchEffect ==
  ASSUME SchedInv, NEW c \in Cpus, Switch(c)
  PROVE  \E next \in Threads \cup {Idle} : Switched(c, next)
<1> DEFINE prev == curr[c]
           requeue == prev # Idle /\ state[prev] = "R"
           rq == IF requeue THEN Enqueued(runqueue[c], prev, IsFifo(prev)) ELSE runqueue[c]
           bits == IF requeue THEN rq_bitmap[c] \cup {Prio(prev)} ELSE rq_bitmap[c]
           nr == IF requeue THEN nr_running[c] + 1 ELSE nr_running[c]
           p == TopLevel(bits)
<1>1. /\ IrqsOn(c) /\ ~rq_lock[c]
      /\ prev # Idle => pc[prev] \in {"sched", "yield"}
      /\ bits = {} => SwitchTo(c, prev, Idle, rq, bits, nr)
      /\ bits # {} => SwitchTo(c, prev, Head(rq[p]), [rq EXCEPT ![p] = Tail(@)],
                               IF Len(rq[p]) = 1 THEN bits \ {p} ELSE bits, nr - 1)
  BY DEF Switch
<1>2. /\ runqueue \in Lists /\ AllDistinct(runqueue)
      /\ Counted(runqueue, c, rq_bitmap[c], nr_running[c])
      /\ prev # Idle => /\ prev \in Threads
                        /\ \A d \in Cpus, q \in Prios : prev \notin Elems(runqueue[d][q])
  BY <1>1, AtSwitch
<1>3. requeue <=> Requeues(c)
  BY DEF Requeues
<1>4. PICK mid \in Lists :
        /\ mid = [runqueue EXCEPT ![c] = rq] /\ AllDistinct(mid) /\ Counted(mid, c, bits, nr)
        /\ \A d \in Cpus \ {c} : \A q \in Prios : mid[d][q] = runqueue[d][q]
        /\ \A v \in Threads, q \in Prios :
             v \in Elems(mid[c][q])
               <=> v \in Elems(runqueue[c][q]) \/ (requeue /\ v = prev /\ q = Prio(v))
        /\ mid[c] = rq
  <2>1. CASE requeue
    <3>1. /\ prev \in Threads /\ Prio(prev) \in Prios /\ prev \notin Elems(runqueue[c][Prio(prev)])
          /\ IsFifo(prev) \in BOOLEAN
      BY SMTT(60), Z3T(60), <1>2, <2>1, Constants DEF Prio, IsFifo
    <3>2. PICK t \in Threads, q0 \in Prios, head \in BOOLEAN :
            t = prev /\ q0 = Prio(prev) /\ head = IsFifo(prev) /\ t \notin Elems(runqueue[c][q0])
      BY <3>1
    <3> DEFINE res == EnqueuedAt(runqueue, c, q0, t, head)
    <3>3. /\ res \in Lists /\ AllDistinct(res) /\ Counted(res, c, rq_bitmap[c] \cup {q0}, nr_running[c] + 1)
          /\ Elems(res[c][q0]) = Elems(runqueue[c][q0]) \cup {t}
          /\ \A d \in Cpus, q \in Prios : d # c \/ q # q0 => res[d][q] = runqueue[d][q]
      <4>1. /\ runqueue \in Lists /\ AllDistinct(runqueue) /\ t \notin Elems(runqueue[c][q0])
            /\ Counted(runqueue, c, rq_bitmap[c], nr_running[c])
        BY <1>2, <3>2
      <4>2. QED
        <5>1. Grown(runqueue, EnqueuedAt(runqueue, c, q0, t, head), c, q0, t, rq_bitmap[c], nr_running[c])
          BY <4>1, EnqueueLists
        <5>2. QED
          BY <5>1 DEF Grown
    <3>4. bits = rq_bitmap[c] \cup {q0} /\ nr = nr_running[c] + 1
      BY <2>1, <3>2
    <3>5. res = [runqueue EXCEPT ![c] = rq] /\ rq = res[c]
      <4>1. DOMAIN runqueue = Cpus
        BY <1>2 DEF Lists
      <4>2. rq = [runqueue[c] EXCEPT ![q0] = IF head THEN <<t>> \o runqueue[c][q0] ELSE Append(runqueue[c][q0], t)]
        BY <2>1, <3>2 DEF Enqueued
      <4> HIDE DEF rq
      <4>3. QED
        BY <4>1, <4>2 DEF EnqueuedAt, SetList
    <3> HIDE DEF res, rq, bits, nr
    <3>6. \A v \in Threads, q \in Prios :
             v \in Elems(res[c][q])
               <=> v \in Elems(runqueue[c][q]) \/ (requeue /\ v = prev /\ q = Prio(v))
      BY SMTT(60), Z3T(60), <2>1, <3>2, <3>3
    <3>7. QED
      BY <3>3, <3>4, <3>5, <3>6
  <2>2. CASE ~requeue
    <3>1. rq = runqueue[c] /\ bits = rq_bitmap[c] /\ nr = nr_running[c]
      BY <2>2
    <3> HIDE DEF rq, bits, nr
    <3>2. runqueue = [runqueue EXCEPT ![c] = rq]
      BY <1>2, <3>1 DEF Lists
    <3>3. QED
      BY <1>2, <2>2, <3>1, <3>2
  <2>3. QED
    BY <2>1, <2>2
<1>5. CASE bits = {}
  <2>1. SwitchTo(c, prev, Idle, rq, bits, nr)
    BY <1>1, <1>5
  <2> HIDE DEF rq, bits, nr
  <2>2. runqueue' = mid /\ rq_bitmap'[c] = bits /\ nr_running'[c] = nr
    BY <1>4, <2>1 DEF SwitchTo, SchedInv, SchedTypeOK, CpuTypes
  <2>3. SwitchTo(c, curr[c], Idle, runqueue'[c], rq_bitmap'[c], nr_running'[c])
    BY <1>4, <2>1, <2>2
  <2>4. \A q \in Prios : mid[c][q] = <<>>
    BY <1>4, <1>5 DEF Counted
  <2>5. ~requeue
    BY <1>5 DEF bits
  <2>6. \A v \in Threads, q \in Prios : v \notin Elems(mid[c][q])
    BY <1>4, <2>4, EmptyLists
  <2>7. Switched(c, Idle)
    BY SMTT(60), Z3T(60), <1>1, <1>3, <1>4, <2>2, <2>3, <2>4, <2>5, <2>6 DEF Switched, IrqsOn
  <2>8. QED
    BY <2>7
<1>6. CASE bits # {}
  <2>1. SwitchTo(c, prev, Head(rq[p]), [rq EXCEPT ![p] = Tail(@)],
                 IF Len(rq[p]) = 1 THEN bits \ {p} ELSE bits, nr - 1)
    BY <1>1, <1>6
  <2>2. p \in bits /\ \A q \in bits : p <= q
    BY <1>4, <1>6, TopLevelBest DEF Counted
  <2> HIDE DEF rq, bits, nr, p
  <2> DEFINE res == SetList(mid, c, p, Tail(mid[c][p]))
             next == Head(mid[c][p])
             left == IF Len(mid[c][p]) = 1 THEN bits \ {p} ELSE bits
  <2>3. /\ res \in Lists /\ AllDistinct(res) /\ p \in Prios /\ Counted(res, c, left, nr - 1)
        /\ next \in Elems(mid[c][p])
        /\ Elems(res[c][p]) = Elems(mid[c][p]) \ {next}
        /\ \A d \in Cpus, q \in Prios : d # c \/ q # p => res[d][q] = mid[d][q]
    <3>1. AllDistinct(mid) /\ Counted(mid, c, bits, nr) /\ p \in bits
      BY <1>4, <2>2
    <3>2. Popped(mid, SetList(mid, c, p, Tail(mid[c][p])), c, p, bits, nr)
      BY <3>1, PopLists
    <3>3. QED
      BY <3>2 DEF Popped
  <2>4. /\ runqueue' = res /\ rq_bitmap'[c] = left /\ nr_running'[c] = nr - 1
        /\ SwitchTo(c, curr[c], next, res[c], left, nr - 1)
    <3>1. res[c] = [rq EXCEPT ![p] = Tail(@)] /\ res = [runqueue EXCEPT ![c] = res[c]]
      <4>1. DOMAIN runqueue = Cpus /\ DOMAIN mid = Cpus
        BY <1>2 DEF Lists
      <4>2. mid = [d \in Cpus |-> IF d = c THEN rq ELSE runqueue[d]]
        BY <1>4, <4>1
      <4>3. res = [d \in Cpus |-> IF d = c THEN [rq EXCEPT ![p] = Tail(@)] ELSE runqueue[d]]
        BY <1>4, <4>1, <4>2 DEF SetList
      <4> HIDE DEF res
      <4>4. QED
        BY <4>1, <4>3
    <3>2. SwitchTo(c, prev, next, res[c], left, nr - 1)
      BY SMTT(60), Z3T(60), <1>4, <2>1, <3>1
    <3> HIDE DEF res, left, next
    <3>3. QED
      BY <3>1, <3>2 DEF SwitchTo, SchedInv, SchedTypeOK, CpuTypes
  <2>5. /\ next \in Threads
        /\ next \in Elems(runqueue[c][p]) \/ (requeue /\ next = prev /\ p = Prio(next))
    <3>1. next \in Threads
      BY <1>4, <2>3, EmptyLists
    <3> HIDE DEF next
    <3>2. QED
      BY <1>4, <2>3, <3>1
  <2> HIDE DEF res, left, next
  <2>6. p = Prio(next)
    BY SMTT(60), Z3T(60), <2>3, <2>5 DEF SchedInv, QueueInv
  <2>7. \A v \in Threads, q \in Prios : v \in Elems(res[c][q]) <=> v # next /\ v \in Elems(mid[c][q])
    <3>1. ASSUME NEW q \in Prios, q # p, next \in Elems(mid[c][q]) PROVE FALSE
      <4>1. next \in Elems(runqueue[c][q]) \/ (requeue /\ next = prev /\ q = Prio(next))
        BY <1>4, <2>5, <3>1
      <4>2. q = Prio(next)
        BY SMTT(60), Z3T(60), <4>1 DEF SchedInv, QueueInv
      <4>3. QED
        BY <2>6, <3>1, <4>2
    <3>2. QED
      BY <2>3, <3>1
  <2>8. \A q \in Prios : res[c][q] # <<>> => p <= q
    <3>1. \A q \in Prios : res[c][q] # <<>> => q \in left
      BY <2>3 DEF Counted
    <3>2. QED
      BY <2>2, <3>1 DEF left
  <2>9. Switched(c, next)
    <3>1. SwitchTo(c, curr[c], next, runqueue'[c], rq_bitmap'[c], nr_running'[c])
      BY <2>4
    <3>2. \A d \in Cpus \ {c} : \A q \in Prios : runqueue'[d][q] = runqueue[d][q]
      BY SMTT(60), Z3T(60), <1>4, <2>3, <2>4
    <3>3. \A v \in Threads, q \in Prios :
            v \in Elems(runqueue'[c][q])
              <=> v # next /\ (v \in Elems(runqueue[c][q]) \/ (Requeues(c) /\ v = curr[c] /\ q = Prio(v)))
      BY <1>3, <1>4, <2>4, <2>7
    <3>4. next # Idle
      BY <2>5, Constants
    <3>5. QED
      BY <1>1, <1>3, <2>3, <2>4, <2>5, <2>6, <2>8, <3>1, <3>2, <3>3, <3>4 DEF Switched, IrqsOn
  <2>10. QED
    BY <2>5, <2>9
<1>7. QED
  BY <1>5, <1>6

\* The thread that is picked was waiting on this very run queue, and nobody is
\* in the middle of activating it.
LEMMA PickedThread ==
  ASSUME SchedInv, NEW c \in Cpus, NEW next \in Threads, Switched(c, next), next # curr[c]
  PROVE  /\ state[next] = "R" /\ ~on_cpu[next] /\ on_rq[next] /\ cpu[next] = c
         /\ \A d \in Cpus : curr[d] # next
         /\ \A d \in Cpus : Waking(d) => wk[d].t # next
         /\ \A d \in Cpus, q \in Prios : next \in Elems(runqueue[d][q]) => d = c /\ q = Prio(next)
<1> USE DEF SchedInv
<1>1. IrqsOn(c) /\ ~rq_lock[c]
  BY DEF Switched, IrqsOn
<1>2. PICK q \in Prios : next \in Elems(runqueue[c][q])
  BY Constants DEF Switched
<1>3. state[next] = "R" /\ ~on_cpu[next] /\ q = Prio(next) /\ On(next, c)
  BY SMTT(60), Z3T(60), <1>2 DEF QueueInv, On
<1>4. on_rq[next] /\ cpu[next] = c
  BY SMTT(60), Z3T(60), <1>1, <1>2, AtSwitch DEF QueueInv
<1>5. \A d \in Cpus : curr[d] # next
  BY <1>3 DEF CpuInv
<1>6. \A d \in Cpus, r \in Prios : next \in Elems(runqueue[d][r]) => d = c /\ r = Prio(next)
  BY SMTT(60), Z3T(60), <1>3 DEF QueueInv, On
<1>7. ASSUME NEW d \in Cpus, Waking(d), wk[d].t = next PROVE FALSE
  <2>1. wk[d].at \in Linking /\ On(next, wk[d].dst) /\ wk[d].dst \in Cpus
    BY <1>4, <1>7 DEF WakeInv, Activating, Linking, SchedTypeOK, CpuTypes
  <2>2. wk[d].dst = c
    BY SMTT(60), Z3T(60), <1>3, <2>1 DEF QueueInv
  <2>3. QED
    BY <1>1, <2>1, <2>2, AtSwitch
<1>8. QED
  BY <1>3, <1>4, <1>5, <1>6, <1>7

LEMMA SwitchStep ==
  ASSUME SchedInv, NEW c \in Cpus, UNCHANGED load, Switch(c)
  PROVE  SchedInv'
<1> USE DEF SchedInv
<1>1. PICK next \in Threads \cup {Idle} : Switched(c, next)
  BY SwitchEffect
<1>2. PICK prev \in Threads \cup {Idle} : prev = curr[c]
  BY DEF SchedTypeOK, CpuTypes
<1>3. /\ UNCHANGED <<state, policy, holds, puts, rq_lock, bkl, wk, load>>
      /\ IrqsOn(c) /\ ~rq_lock[c] /\ ~Waking(c)
      /\ prev # Idle => pc[prev] \in {"sched", "yield"}
      /\ next = Idle => ~Requeues(c)
  BY <1>1, <1>2 DEF Switched, SwitchTo, IrqsOn, Waking
<1>4. /\ curr' \in [Cpus -> Threads \cup {Idle}] /\ curr'[c] = next
      /\ \A d \in Cpus \ {c} : curr'[d] = curr[d]
  BY SMTT(60), Z3T(60), <1>1 DEF Switched, SwitchTo, SchedTypeOK, CpuTypes
<1>5. /\ on_rq' \in [Threads -> BOOLEAN] /\ on_cpu' \in [Threads -> BOOLEAN]
      /\ cpu' \in [Threads -> Cpus] /\ pc' \in [Threads -> PCs]
  BY <1>1, <1>2 DEF Switched, SwitchTo, SchedTypeOK, ThreadTypes, PCs
<1>6. /\ \A v \in Threads : on_rq'[v] = (v # next /\ ((v = prev /\ state[v] = "R") \/ on_rq[v]))
      /\ \A v \in Threads : on_cpu'[v] = (v = next \/ (v # prev /\ on_cpu[v]))
      /\ \A v \in Threads : cpu'[v] = IF v = next THEN c ELSE cpu[v]
      /\ \A v \in Threads : pc'[v] = IF v = next THEN "back" ELSE pc[v]
  <2>1. /\ on_rq' = [v \in Threads |-> IF v = next THEN FALSE
                                   ELSE IF v = prev /\ state[prev] = "R" THEN TRUE ELSE on_rq[v]]
        /\ on_cpu' = [v \in Threads |-> IF v = next THEN TRUE ELSE IF v = prev THEN FALSE ELSE on_cpu[v]]
        /\ cpu' = [v \in Threads |-> IF v = next THEN c ELSE cpu[v]]
        /\ pc' = [v \in Threads |-> IF v = next THEN "back" ELSE pc[v]]
    BY <1>1, <1>2 DEF Switched, SwitchTo
  <2>2. on_rq \in [Threads -> BOOLEAN] /\ on_cpu \in [Threads -> BOOLEAN]
    BY DEF SchedTypeOK, ThreadTypes
  <2>3. ASSUME NEW v \in Threads
        PROVE  on_rq'[v] = (v # next /\ ((v = prev /\ state[v] = "R") \/ on_rq[v]))
    BY <2>1, <2>2
  <2>4. ASSUME NEW v \in Threads
        PROVE  on_cpu'[v] = (v = next \/ (v # prev /\ on_cpu[v]))
    BY <2>1, <2>2
  <2>5. QED
    BY <2>1, <2>3, <2>4
<1>7. /\ prev # Idle => /\ prev \in Threads /\ on_cpu[prev] /\ ~on_rq[prev] /\ cpu[prev] = c
                        /\ \A d \in Cpus, q \in Prios : prev \notin Elems(runqueue[d][q])
                        /\ \A d \in Cpus : curr[d] = prev => d = c
                        /\ \A d \in Cpus : Waking(d) => wk[d].t # prev
      /\ \A d \in Cpus : wk[d].at \in Linking => wk[d].dst # c
      /\ ~Lags(c)
  <2>1. /\ prev # Idle => /\ prev \in Threads /\ on_cpu[prev] /\ ~on_rq[prev] /\ cpu[prev] = c
                          /\ \A d \in Cpus, q \in Prios : prev \notin Elems(runqueue[d][q])
        /\ \A d \in Cpus : wk[d].at \in Linking => wk[d].dst # c
        /\ ~Lags(c)
    BY <1>2, <1>3, AtSwitch
  <2>2. prev # Idle => /\ \A d \in Cpus : curr[d] = prev => d = c
                       /\ \A d \in Cpus : Waking(d) => wk[d].t # prev
    BY SMTT(60), Z3T(60), <1>2, <2>1 DEF CpuInv, WakeInv, Activating
  <2>3. QED
    BY <2>1, <2>2
<1>8. next # Idle =>
        /\ next \in Threads /\ state[next] = "R" /\ pc[next] \in {"sched", "yield"}
        /\ \A d \in Cpus \ {c} : curr[d] # next
        /\ \A d \in Cpus : Waking(d) => wk[d].t # next
  <2>1. CASE next = prev
    BY <1>1, <1>2, <1>3, <1>7, <2>1 DEF Switched, Requeues
  <2>2. CASE next # prev /\ next # Idle
    <3>1. /\ state[next] = "R" /\ ~on_cpu[next] /\ next \in Threads
          /\ \A d \in Cpus : curr[d] # next
          /\ \A d \in Cpus : Waking(d) => wk[d].t # next
      BY SMTT(60), Z3T(60), <1>1, <1>2, <2>2, PickedThread
    <3>2. pc[next] \in {"sched", "yield"}
      BY <3>1 DEF PcInv
    <3>3. QED
      BY <3>1, <3>2
  <2>3. QED
    BY <2>1, <2>2
<1>9. ThreadTypes'
  BY <1>3, <1>5 DEF SchedTypeOK, ThreadTypes
<1>10. CpuTypes'
  <2>1. /\ runqueue' \in Lists /\ rq_bitmap' \in [Cpus -> SUBSET Prios]
        /\ need_resched' \in [Cpus -> BOOLEAN] /\ last' \in [Cpus -> Threads \cup {Idle}]
    BY <1>1, <1>2 DEF Switched, SwitchTo, Counted, SchedTypeOK, CpuTypes
  <2>2. nr_running' \in [Cpus -> Nat]
    <3>1. nr_running'[c] = Count3(runqueue', c)
      BY <1>1 DEF Switched, Counted
    <3>2. nr_running'[c] \in Nat
      <4>1. \A q \in Prios : runqueue'[c][q] \in Seq(Threads)
        BY <2>1 DEF Lists
      <4>2. Count3(runqueue', c) \in Nat
        <5>1. PICK x \in Nat, y \in Nat, z \in Nat :
                x = Len(runqueue'[c][0]) /\ y = Len(runqueue'[c][1]) /\ z = Len(runqueue'[c][2])
          BY SMTT(60), Z3T(60), <4>1 DEF Prios
        <5>2. Count3(runqueue', c) = x + y + z
          BY <5>1 DEF Count3
        <5>3. QED
          BY SMTT(60), Z3T(60), <5>2
      <4>3. QED
        BY <3>1, <4>2
    <3>3. nr_running' = [nr_running EXCEPT ![c] = nr_running'[c]]
      BY <1>1 DEF Switched, SwitchTo
    <3>4. QED
      BY <3>2, <3>3 DEF SchedTypeOK, CpuTypes
  <2>3. QED
    BY <1>3, <1>4, <2>1, <2>2 DEF SchedTypeOK, CpuTypes, Lists
<1>11. CpuInv'
  <2>1. \A d, e \in Cpus : curr'[d] = curr'[e] /\ curr'[d] # Idle => d = e
    BY SMTT(60), Z3T(60), <1>4, <1>8 DEF CpuInv
  <2>2. \A v \in Threads : on_cpu'[v] <=> \E d \in Cpus : curr'[d] = v
    <3> SUFFICES ASSUME NEW v \in Threads PROVE on_cpu'[v] <=> \E d \in Cpus : curr'[d] = v
      OBVIOUS
    <3>1. v # Idle /\ (on_cpu[v] <=> \E d \in Cpus : curr[d] = v)
      BY Constants DEF CpuInv
    <3>2. CASE v = next
      BY <1>4, <1>6, <3>2
    <3>3. CASE v # next /\ v = prev
      <4>1. ~on_cpu'[v]
        BY <1>6, <3>3
      <4>2. \A d \in Cpus : curr'[d] # v
        BY <1>4, <1>7, <3>1, <3>3
      <4>3. QED
        BY <4>1, <4>2
    <3>4. CASE v # next /\ v # prev
      <4>1. on_cpu'[v] <=> on_cpu[v]
        BY <1>6, <3>4
      <4>2. (\E d \in Cpus : curr'[d] = v) <=> \E d \in Cpus : curr[d] = v
        BY <1>2, <1>4, <3>4
      <4>3. QED
        BY <3>1, <4>1, <4>2
    <3>5. QED
      BY <3>2, <3>3, <3>4
  <2>3. ASSUME NEW d \in Cpus, curr'[d] # Idle PROVE cpu'[curr'[d]] = d
    <3>1. PICK v \in Threads : v = curr'[d]
      BY <1>4, <2>3
    <3>2. CASE d = c
      BY <1>4, <1>6, <3>1, <3>2
    <3>3. CASE d # c
      <4>1. curr[d] = v /\ cpu[v] = d /\ v # next
        BY SMTT(60), Z3T(60), <1>4, <1>8, <2>3, <3>1, <3>3 DEF CpuInv
      <4>2. QED
        BY <1>6, <3>1, <4>1
    <3>4. QED
      BY <3>2, <3>3
  <2>4. QED
    BY <2>1, <2>2, <2>3 DEF CpuInv
<1>12. PcInv'
  <2>1. bkl # Idle => bkl \in Threads /\ bkl # next
    BY <1>8 DEF PcInv, SchedTypeOK, ThreadTypes
  <2>2. \A v \in Threads : pc[v] \in {"unborn", "new"} => v # next /\ v # prev
    BY <1>3, <1>8, Constants
  <2>3. \A v \in Threads : pc'[v] \in {"unborn", "new"}
          => state'[v] = "D" /\ ~on_cpu'[v] /\ ~on_rq'[v] /\ ~holds'[v]
    BY <1>3, <1>6, <2>2 DEF PcInv
  <2>4. \A v \in Threads : ~on_cpu'[v] => pc'[v] \in {"unborn", "new", "sched", "yield"}
    <3> SUFFICES ASSUME NEW v \in Threads, ~on_cpu'[v] PROVE pc'[v] \in {"unborn", "new", "sched", "yield"}
      OBVIOUS
    <3>1. v # next /\ (v = prev \/ ~on_cpu[v]) /\ v # Idle /\ pc'[v] = pc[v]
      BY <1>6, Constants
    <3>2. QED
      BY <1>3, <3>1 DEF PcInv
  <2>5. \A v \in Threads : pc'[v] \in {"user", "exit"} => ~holds'[v]
    BY <1>3, <1>6 DEF PcInv
  <2>6. \A v \in Threads : state'[v] = "X" => pc'[v] = "sched"
    BY SMTT(60), Z3T(60), <1>3, <1>6, <1>8, Constants DEF PcInv
  <2>7. bkl' # Idle => holds'[bkl'] /\ pc'[bkl'] \in {"kern", "fork"}
    BY <1>3, <1>6, <2>1 DEF PcInv
  <2>8. \A v \in Threads : holds'[v] /\ pc'[v] \in {"kern", "fork"} => bkl' = v
    BY <1>3, <1>6 DEF PcInv
  <2>9. \A v \in Threads : pc'[v] = "fork" => holds'[v]
    BY <1>3, <1>6 DEF PcInv
  <2>10. \A v \in Threads : pc'[v] = "new" => bkl' # Idle /\ pc'[bkl'] = "fork"
    BY <1>3, <1>6, <2>1 DEF PcInv
  <2>11. \A v, u \in Threads : pc'[v] = "new" /\ pc'[u] = "new" => v = u
    BY SMTT(60), Z3T(60), <1>6 DEF PcInv
  <2>12. QED
    BY <2>3, <2>4, <2>5, <2>6, <2>7, <2>8, <2>9, <2>10, <2>11 DEF PcInv
<1>13. WakeInv'
  <2>1. \A d \in Cpus : Waking(d)' = Waking(d)
    BY <1>3 DEF Waking
  <2>2. ASSUME NEW d \in Cpus, Waking(d) PROVE Activating(d)' /\ \A e \in Cpus \ {d} : Waking(e) => Apart(d, e)'
    <3>1. PICK t \in Threads : /\ t = wk[d].t /\ Activating(d) /\ t # next /\ t # prev /\ wk[d].dst \in Cpus
                               /\ d # c /\ Prio(t) \in Prios
      <4>1. Activating(d) /\ wk[d].t \in Threads /\ wk[d].dst \in Cpus /\ Prio(wk[d].t) \in Prios
        BY <2>2, Activation DEF WakeInv
      <4>2. wk[d].t # next /\ wk[d].t # prev /\ d # c
        BY <1>3, <1>7, <1>8, <2>2, <4>1, Constants
      <4>3. QED
        BY <4>1, <4>2
    <3>2. state'[t] = state[t] /\ (on_cpu'[t] <=> on_cpu[t]) /\ (on_rq'[t] <=> on_rq[t]) /\ pc'[t] = pc[t]
      BY <1>3, <1>6, <3>1
    <3>3. ASSUME wk[d].at \in Linking PROVE On(t, wk[d].dst)' <=> On(t, wk[d].dst)
      <4>1. PICK e \in Cpus : e = wk[d].dst /\ e # c
        BY <1>7, <3>1, <3>3
      <4>2. runqueue'[e][Prio(t)] = runqueue[e][Prio(t)]
        BY SMTT(60), Z3T(60), <1>1, <3>1, <4>1 DEF Switched
      <4>3. Prio(t)' = Prio(t)
        BY <1>3 DEF Prio
      <4>4. On(t, e)' <=> On(t, e)
        BY <4>2, <4>3 DEF On
      <4>5. QED
        BY <1>3, <4>1, <4>4
    <3>4. UnderBkl(d) => UnderBkl(d)'
      <4> SUFFICES ASSUME UnderBkl(d) PROVE UnderBkl(d)'
        OBVIOUS
      <4>1. PICK v \in Threads : v = curr[d] /\ pc[v] = "kern" /\ holds[v] /\ v # Idle
        BY DEF UnderBkl, SchedTypeOK, CpuTypes
      <4>2. curr'[d] = v /\ v # next
        BY <1>4, <1>8, <3>1, <4>1
      <4>3. QED
        BY SMTT(60), Z3T(60), <1>3, <1>6, <4>1, <4>2 DEF UnderBkl
    <3>5. Activating(d)'
      BY <1>3, <3>1, <3>2, <3>3, <3>4 DEF Activating
    <3>6. QED
      BY <1>3, <2>2, <3>5 DEF WakeInv, Apart
  <2>3. QED
    BY <2>1, <2>2 DEF WakeInv
<1>14. QueueInv'
  <2>1. \A d \in Cpus, q \in Prios : Distinct(runqueue'[d][q])
    BY <1>1 DEF Switched, AllDistinct
  <2>2. \A v : Prio(v)' = Prio(v)
    BY <1>3 DEF Prio
  <2>3. \A v \in Threads, d \in Cpus \ {c}, q \in Prios :
          v \in Elems(runqueue'[d][q]) <=> v \in Elems(runqueue[d][q])
    BY <1>1 DEF Switched
  <2>4. \A v \in Threads, q \in Prios :
          v \in Elems(runqueue'[c][q])
            <=> v # next /\ (v \in Elems(runqueue[c][q]) \/ (Requeues(c) /\ v = prev /\ q = Prio(v)))
    BY <1>1, <1>2 DEF Switched
  <2>5. next # Idle => \A d \in Cpus, q \in Prios : next \in Elems(runqueue[d][q]) => d = c
    BY SMTT(60), Z3T(60), <1>1, <1>2, <1>7, PickedThread
  <2>6. Requeues(c) <=> prev # Idle /\ state[prev] = "R"
    BY <1>2 DEF Requeues
  <2> HIDE DEF Requeues
  <2>7. ASSUME NEW d \in Cpus, NEW q \in Prios, NEW v \in Threads, v \in Elems(runqueue'[d][q])
        PROVE  /\ q = Prio(v) /\ state[v] = "R" /\ ~on_cpu'[v] /\ v # next
               /\ \/ on_rq'[v] /\ cpu'[v] = d
                  \/ \E e \in Cpus : wk[e].at \in Linking /\ wk[e].t = v /\ wk[e].dst = d
    <3>1. CASE v \in Elems(runqueue[d][q])
      <4>1. v # next /\ v # prev
        BY SMTT(60), Z3T(60), <1>7, <2>4, <2>5, <2>7, <3>1, Constants
      <4>2. /\ q = Prio(v) /\ state[v] = "R" /\ ~on_cpu[v]
            /\ \/ on_rq[v] /\ cpu[v] = d
               \/ \E e \in Cpus : wk[e].at \in Linking /\ wk[e].t = v /\ wk[e].dst = d
        BY SMTT(60), Z3T(60), <3>1 DEF QueueInv
      <4>3. QED
        BY <1>6, <4>1, <4>2
    <3>2. CASE v \notin Elems(runqueue[d][q])
      <4>1. d = c /\ v # next /\ v = prev /\ q = Prio(v) /\ prev # Idle /\ state[v] = "R"
        BY <2>3, <2>4, <2>6, <2>7, <3>2
      <4>2. QED
        BY <1>6, <1>7, <4>1
    <3>3. QED
      BY <3>1, <3>2
  <2>8. ASSUME NEW v \in Threads, on_rq'[v]
        PROVE  state[v] = "R" /\ ~on_cpu'[v] /\ \E d \in Cpus : v \in Elems(runqueue'[d][Prio(v)])
    <3>0. Prio(v) \in Prios /\ v # next /\ v # Idle
      BY <1>6, <2>8, Constants DEF Prio
    <3>1. CASE v = prev
      <4>1. state[v] = "R" /\ ~on_cpu'[v]
        BY <1>6, <1>7, <2>8, <3>0, <3>1
      <4>2. v \in Elems(runqueue'[c][Prio(v)])
        BY <2>4, <2>6, <3>0, <3>1, <4>1
      <4>3. QED
        BY <4>1, <4>2
    <3>2. CASE v # prev
      <4>1. on_rq[v]
        BY <1>6, <2>8, <3>0, <3>2
      <4>2. state[v] = "R" /\ ~on_cpu[v] /\ \E d \in Cpus : v \in Elems(runqueue[d][Prio(v)])
        BY <4>1 DEF QueueInv, On
      <4>3. \A d \in Cpus : v \in Elems(runqueue[d][Prio(v)]) => v \in Elems(runqueue'[d][Prio(v)])
        BY <2>3, <2>4, <3>0
      <4>4. QED
        BY <1>6, <3>0, <4>2, <4>3
    <3>3. QED
      BY <3>1, <3>2
  <2>9. ASSUME NEW v \in Threads, NEW d \in Cpus, NEW e \in Cpus,
               v \in Elems(runqueue'[d][Prio(v)]), v \in Elems(runqueue'[e][Prio(v)])
        PROVE  d = e
    <3>0. Prio(v) \in Prios /\ v # Idle
      BY Constants DEF Prio
    <3>1. CASE v = prev
      <4>1. \A b \in Cpus : v \in Elems(runqueue'[b][Prio(v)]) => b = c
        BY <1>7, <2>3, <3>0, <3>1
      <4>2. QED
        BY <2>9, <4>1
    <3>2. CASE v # prev
      <4>1. v \in Elems(runqueue[d][Prio(v)]) /\ v \in Elems(runqueue[e][Prio(v)])
        BY <2>3, <2>4, <2>9, <3>0, <3>2
      <4>2. QED
        BY <4>1 DEF QueueInv, On
    <3>3. QED
      BY <3>1, <3>2
  <2>10. \A d \in Cpus, q \in Prios : Elems(runqueue'[d][q]) \subseteq Threads
    BY SMTT(60), Z3T(60), <1>1 DEF Switched, Lists, Elems
  <2>11. \A d \in Cpus, q \in Prios : \A v \in Elems(runqueue'[d][q]) :
           /\ q = Prio(v)' /\ state'[v] = "R" /\ ~on_cpu'[v]
           /\ \/ on_rq'[v] /\ cpu'[v] = d
              \/ \E e \in Cpus : wk'[e].at \in Linking /\ wk'[e].t = v /\ wk'[e].dst = d
    BY SMTT(60), Z3T(60), <1>3, <2>2, <2>7, <2>10
  <2>12. \A v \in Threads, d \in Cpus : On(v, d)' <=> v \in Elems(runqueue'[d][Prio(v)])
    BY <2>2 DEF On
  <2>13. \A v \in Threads : on_rq'[v] => state'[v] = "R" /\ ~on_cpu'[v] /\ \E d \in Cpus : On(v, d)'
    BY <1>3, <2>8, <2>12
  <2>14. \A v \in Threads : \A d, e \in Cpus : On(v, d)' /\ On(v, e)' => d = e
    BY <2>9, <2>12
  <2>15. QED
    BY <2>1, <2>11, <2>13, <2>14 DEF QueueInv
<1>15. BitsInv'
  <2>1. \A d \in Cpus : Lags(d)' <=> Lags(d)
    BY <1>3 DEF Lags
  <2>2. BitmapLag(c)' /\ CountLag(c)'
    <3>1. ~Lags(c)'
      BY <1>7, <2>1
    <3>2. Linked3(c)' = Count3(runqueue', c)
      BY DEF Linked3, Count3
    <3>3. nr_running'[c] = Count3(runqueue', c) /\ \A q \in Prios : q \in rq_bitmap'[c] <=> runqueue'[c][q] # <<>>
      BY <1>1 DEF Switched, Counted
    <3>4. CountLag(c)'
      BY <3>1, <3>2, <3>3 DEF CountLag
    <3>5. BitmapLag(c)'
      BY <3>3 DEF BitmapLag
    <3>6. QED
      BY <3>4, <3>5
  <2>3. ASSUME NEW d \in Cpus, d # c PROVE BitmapLag(d)' /\ CountLag(d)'
    <3>1. runqueue'[d] = runqueue[d] /\ rq_bitmap'[d] = rq_bitmap[d] /\ nr_running'[d] = nr_running[d]
      BY <1>1, <2>3 DEF Switched, SwitchTo, SchedTypeOK, CpuTypes
    <3>2. BitmapLag(d) /\ CountLag(d)
      BY DEF BitsInv
    <3>3. CountLag(d)'
      BY <2>1, <3>1, <3>2 DEF CountLag, Linked3, Count3
    <3>4. BitmapLag(d)'
      <4>1. \A v : Prio(v)' = Prio(v)
        BY <1>3 DEF Prio
      <4>2. QED
        BY <1>3, <3>1, <3>2, <4>1 DEF BitmapLag
    <3>5. QED
      BY <3>3, <3>4
  <2>4. QED
    BY <2>2, <2>3 DEF BitsInv
<1>16. LostInv'
  <2>1. \A v \in Threads : on_cpu[v] \/ on_rq[v] => state[v] # "R" \/ on_cpu'[v] \/ on_rq'[v]
    BY <1>6
  <2>2. \A d \in Cpus : Waking(d)' <=> Waking(d)
    BY <1>3 DEF Waking
  <2>3. QED
    BY <1>3, <2>1, <2>2 DEF LostInv, NoLostThread
<1>17. QED
  BY <1>9, <1>10, <1>11, <1>12, <1>13, <1>14, <1>15, <1>16 DEF SchedTypeOK
-----------------------------------------------------------------------------
(* The invariant *)

\* kernel_init runs on CPU 0 with the BKL, and nothing is queued.
LEMMA InitInv ==
  ASSUME "both" \notin Loads, Init
  PROVE  SchedInv
<1> USE Constants
<1>1. load \in {"irq", "retune"}
  BY SchedAssumption DEF Init
<1>2. SchedTypeOK
  <2>1. ThreadTypes
    BY <1>1 DEF Init, ThreadTypes, PCs, States
  <2>2. CpuTypes
    BY SMTT(60), Z3T(60) DEF Init, CpuTypes, NoWork, Stages
  <2>3. QED
    BY <2>1, <2>2 DEF SchedTypeOK
<1>3. CpuInv
  BY DEF Init, CpuInv
<1>4. PcInv
  BY DEF Init, PcInv
<1>5. \A c \in Cpus : wk[c].at = "none"
  BY DEF Init, NoWork
<1>6. WakeInv
  BY <1>5 DEF WakeInv, Waking
<1>7. \A c \in Cpus, p \in Prios : runqueue[c][p] = <<>>
  BY DEF Init
<1>8. QueueInv
  <2>1. \A c \in Cpus, p \in Prios : Distinct(runqueue[c][p]) /\ Elems(runqueue[c][p]) = {}
    <3>1. DOMAIN <<>> = {}
      BY SMTT(60), Z3T(60)
    <3>2. QED
      BY <1>7, <3>1 DEF Distinct, Elems
  <2>2. \A t \in Threads : ~on_rq[t]
    BY DEF Init
  <2>3. \A t \in Threads : Prio(t) \in Prios
    BY DEF Prio
  <2>4. QED
    BY <2>1, <2>2, <2>3 DEF QueueInv, On
<1>9. BitsInv
  <2>1. \A c \in Cpus : ~Lags(c)
    BY <1>5 DEF Lags
  <2>2. \A c \in Cpus : nr_running[c] = 0 /\ rq_bitmap[c] = {}
    BY DEF Init
  <2>3. \A c \in Cpus : Linked3(c) = 0
    <3>1. \A c \in Cpus : Len(runqueue[c][0]) = 0 /\ Len(runqueue[c][1]) = 0 /\ Len(runqueue[c][2]) = 0
      <4>1. Len(<<>>) = 0
        OBVIOUS
      <4>2. QED
        BY <1>7, <4>1 DEF Prios
    <3>2. \A c \in Cpus : Linked3(c) = 0 + 0 + 0
      BY <3>1, Zenon DEF Linked3, Count3
    <3>3. QED
      BY SMTT(60), Z3T(60), <3>2
  <2>4. QED
    BY <1>7, <2>1, <2>2, <2>3 DEF BitsInv, BitmapLag, CountLag
<1>10. LostInv
  BY DEF Init, LostInv, NoLostThread
<1>11. QED
  BY <1>2, <1>3, <1>4, <1>6, <1>8, <1>9, <1>10 DEF SchedInv

LEMMA StutterInv ==
  ASSUME SchedInv, UNCHANGED vars
  PROVE  SchedInv'
<1>1. /\ UNCHANGED <<state, on_rq, on_cpu, cpu, policy, holds, pc, puts, bkl, load>>
      /\ UNCHANGED <<runqueue, rq_bitmap, nr_running, need_resched, rq_lock, curr, wk, last>>
  BY DEF vars, thread_vars, rq_vars
<1>2. ThreadTypes' /\ CpuTypes' /\ CpuInv'
  BY <1>1 DEF SchedInv, SchedTypeOK, ThreadTypes, CpuTypes, CpuInv
<1>3. PcInv'
  BY <1>1 DEF SchedInv, PcInv
<1>4. \A v, d : (On(v, d)' <=> On(v, d)) /\ Prio(v)' = Prio(v)
  BY <1>1 DEF On, Prio
<1>5. WakeInv'
  <2>1. \A d \in Cpus : (Waking(d)' <=> Waking(d)) /\ (UnderBkl(d)' <=> UnderBkl(d))
    BY <1>1 DEF Waking, UnderBkl
  <2>2. \A d \in Cpus : Activating(d)' <=> Activating(d)
    BY <1>1, <1>4, <2>1 DEF Activating
  <2>3. \A d, e \in Cpus : Apart(d, e)' <=> Apart(d, e)
    BY <1>1 DEF Apart
  <2>4. QED
    BY <2>1, <2>2, <2>3 DEF SchedInv, WakeInv
<1>6. QueueInv'
  BY SMTT(60), Z3T(60), <1>1, <1>4 DEF SchedInv, QueueInv
<1>7. BitsInv'
  BY <1>1, BitsFrame DEF SchedInv
<1>8. LostInv'
  BY <1>1 DEF SchedInv, LostInv, NoLostThread, Waking
<1>9. QED
  BY <1>2, <1>3, <1>5, <1>6, <1>7, <1>8 DEF SchedInv, SchedTypeOK

LEMMA NextInv ==
  ASSUME SchedInv, Next
  PROVE  SchedInv'
<1>1. PICK c \in Cpus :
        /\ UNCHANGED load
        /\ \/ \E t \in Threads : ThreadStep(c, t)
           \/ Switch(c) \/ finish_switch(c) \/ activate(c) \/ scheduler_tick(c)
           \/ \E t \in Threads, m \in Masks : try_to_wake_up(c, t, m)
  BY DEF Next
<1>2. ASSUME NEW t \in Threads, ThreadStep(c, t) PROVE SchedInv'
  <2>1. CASE \/ lock_kernel(c, t) \/ unlock_kernel(c, t) \/ prepare_exit_to_user(c, t)
             \/ InterruptUser(c, t) \/ schedule(c, t) \/ yield(c, t) \/ Resume(c, t)
    BY <1>1, <2>1, KernelStep
  <2>2. CASE do_exit(c, t) \/ \E s \in SleepStates \cup {"R"} : SetState(c, t, s)
    BY <1>1, <2>2, StateStep
  <2>3. CASE \E n \in Threads : thread_alloc(c, t, n) \/ sched_add_new(c, t, n)
    BY <1>1, <2>3, ForkStep
  <2>4. CASE \E n \in Threads, p \in Policies : sched_setscheduler(c, t, n, p)
    BY <1>1, <2>4, RetuneStep
  <2>5. QED
    BY <1>2, <2>1, <2>2, <2>3, <2>4 DEF ThreadStep
<1>3. CASE Switch(c)
  BY <1>1, <1>3, SwitchStep
<1>4. CASE finish_switch(c) \/ scheduler_tick(c)
  BY <1>1, <1>4, TickStep
<1>5. CASE activate(c)
  BY <1>1, <1>5, ActivateSelect, ActivateLink, ActivateBits, ActivateCpu DEF activate
<1>6. CASE \E t \in Threads, m \in Masks : try_to_wake_up(c, t, m)
  BY <1>1, <1>6, WakeStep
<1>7. QED
  BY <1>1, <1>2, <1>3, <1>4, <1>5, <1>6

\* SchedInv holds throughout, on any number of CPUs and with any set of threads,
\* unless interrupts wake threads while threads retune others.
THEOREM SchedInvariant ==
  ASSUME "both" \notin Loads
  PROVE  Spec => []SchedInv
<1>1. Init => SchedInv
  BY InitInv
<1>2. SchedInv /\ [Next]_vars => SchedInv'
  BY NextInv, StutterInv
<1>3. QED
  BY <1>1, <1>2, PTL DEF Spec

-----------------------------------------------------------------------------
(* The properties of the runs *)

\* The lists, as the properties of Sched look at them, index by index.
LEMMA LinkedOn ==
  ASSUME NEW t
  PROVE  Linked(t) <=> \E c \in Cpus, p \in Prios : t \in Elems(runqueue[c][p])
BY DEF Linked, Elems

\* schedule, try_to_wake_up, activate: a thread is on one CPU at most, and it is
\* activated by one CPU at a time, only when it is on no queue and no CPU.
THEOREM OneCpuPerThread ==
  ASSUME "both" \notin Loads
  PROVE  Spec => []RunsOnOneCpu
<1>1. SchedInv => RunsOnOneCpu
  <2> SUFFICES ASSUME SchedInv PROVE RunsOnOneCpu
    OBVIOUS
  <2>1. /\ \A c, d \in Cpus : curr[c] = curr[d] /\ curr[c] # Idle => c = d
        /\ \A t \in Threads : on_cpu[t] <=> \E c \in Cpus : curr[c] = t
    BY DEF SchedInv, CpuInv
  <2>2. ASSUME NEW c \in Cpus, Waking(c)
        PROVE  /\ state[wk[c].t] = "R" /\ ~on_cpu[wk[c].t]
               /\ wk[c].at \in {"select", "link"} => ~on_rq[wk[c].t] /\ ~Linked(wk[c].t)
               /\ \A d \in Cpus \ {c} : Waking(d) => wk[d].t # wk[c].t
    <3>1. /\ state[wk[c].t] = "R" /\ ~on_cpu[wk[c].t]
          /\ \A d \in Cpus \ {c} : Waking(d) => wk[d].t # wk[c].t
          /\ wk[c].at \notin Linking
               => \A d \in Cpus, p \in Prios : wk[c].t \notin Elems(runqueue[d][p])
      BY <2>2, Activation
    <3>2. wk[c].at # "cpu" => ~on_rq[wk[c].t]
      BY <2>2 DEF SchedInv, WakeInv, Activating
    <3>3. QED
      BY <3>1, <3>2, LinkedOn DEF Linking
  <2>3. QED
    BY <2>1, <2>2 DEF RunsOnOneCpu
<1>2. QED
  BY SchedInvariant, <1>1, PTL

\* try_to_wake_up against schedule() and other wake-ups: no wake-up is lost.
THEOREM WakeupsKept ==
  ASSUME "both" \notin Loads
  PROVE  Spec => []NoLostThread
<1>1. SchedInv => NoLostThread
  BY DEF SchedInv, LostInv
<1>2. QED
  BY SchedInvariant, <1>1, PTL

\* enqueue, dequeue, pick_next and sched_setscheduler keep lists, bitmaps, counts
\* and flags in agreement.
THEOREM QueuesAgree ==
  ASSUME "both" \notin Loads
  PROVE  Spec => []QueuesExact
<1>1. ASSUME SchedInv PROVE QueuedWhereFlagged
  <2> USE DEF SchedInv
  <2>1. \A c \in Cpus, p \in Prios : \A i \in DOMAIN runqueue[c][p] :
           runqueue[c][p][i] \in Elems(runqueue[c][p]) /\ runqueue[c][p][i] \in Threads
    BY SMTT(60), Z3T(60), <1>1 DEF Elems, SchedTypeOK, CpuTypes
  <2>2. \A c, d \in Cpus : \A p, q \in Prios :
          \A t \in Elems(runqueue[c][p]) \cap Elems(runqueue[d][q]) : t \in Threads => c = d /\ p = q
    BY SMTT(60), Z3T(60), <1>1 DEF QueueInv, On
  <2>3. ASSUME NEW c \in Cpus, NEW d \in Cpus, NEW p \in Prios, NEW q \in Prios,
               NEW i \in DOMAIN runqueue[c][p], NEW j \in DOMAIN runqueue[d][q],
               runqueue[c][p][i] = runqueue[d][q][j]
        PROVE  c = d /\ p = q /\ i = j
    <3>1. c = d /\ p = q
      BY SMTT(60), Z3T(60), <2>1, <2>2, <2>3
    <3>2. Distinct(runqueue[c][p])
      BY <1>1 DEF QueueInv
    <3>3. QED
      BY <2>3, <3>1, <3>2 DEF Distinct
  <2>4. \A c \in Cpus, p \in Prios : \A t \in Elems(runqueue[c][p]) :
          /\ p = Prio(t)
          /\ \/ on_rq[t] /\ cpu[t] = c
             \/ \E d \in Cpus : wk[d].at \in {"bits", "cpu"} /\ wk[d].t = t /\ wk[d].dst = c
    BY SMTT(60), Z3T(60), <1>1 DEF QueueInv, Linking
  <2>5. \A t \in Threads : on_rq[t] => Linked(t)
    BY SMTT(60), Z3T(60), <1>1, LinkedOn, Constants DEF QueueInv, On, Prio
  <2>6. QED
    BY SMTT(60), Z3T(60), <2>1, <2>3, <2>4, <2>5 DEF QueuedWhereFlagged
<1>2. ASSUME SchedInv PROVE BitmapExact
  <2> SUFFICES ASSUME NEW c \in Cpus, ~rq_lock[c]
               PROVE  /\ \A p \in Prios : p \in rq_bitmap[c] <=> runqueue[c][p] # <<>>
                      /\ nr_running[c] = Len(runqueue[c][0]) + Len(runqueue[c][1]) + Len(runqueue[c][2])
    BY DEF BitmapExact
  <2>1. \A d \in Cpus : wk[d].at = "bits" => wk[d].dst # c
    BY <1>2 DEF SchedInv, WakeInv, Activating, Waking, Linking
  <2>2. ~Lags(c)
    BY <2>1 DEF Lags
  <2>3. BitmapLag(c) /\ CountLag(c)
    BY <1>2 DEF SchedInv, BitsInv
  <2>4. nr_running[c] = Len(runqueue[c][0]) + Len(runqueue[c][1]) + Len(runqueue[c][2])
    BY <2>2, <2>3 DEF CountLag, Linked3, Count3
  <2>5. \A p \in Prios : p \in rq_bitmap[c] <=> runqueue[c][p] # <<>>
    BY <2>1, <2>3 DEF BitmapLag
  <2>6. QED
    BY <2>4, <2>5
<1>3. SchedInv => QueuesExact
  BY <1>1, <1>2 DEF QueuesExact
<1>4. QED
  BY SchedInvariant, <1>3, PTL

\* lock_kernel, unlock_kernel and schedule(): the holder of the BKL is on a CPU.
THEOREM BklReleasedAsleep ==
  ASSUME "both" \notin Loads
  PROVE  Spec => []BklHeldRunning
<1>1. SchedInv => BklHeldRunning
  <2> SUFFICES ASSUME SchedInv PROVE BklHeldRunning
    OBVIOUS
  <2>1. bkl \in Threads \cup {Idle}
    BY DEF SchedInv, SchedTypeOK, ThreadTypes
  <2>2. QED
    BY <2>1 DEF SchedInv, PcInv, BklHeldRunning
<1>2. QED
  BY SchedInvariant, <1>1, PTL

-----------------------------------------------------------------------------
(* Preemption *)

\* On CPU d nothing has got worse: it runs the same thread, a request stands,
\* and what is queued there now was queued there before or is being activated.
NoWorse(d) ==
    /\ curr'[d] = curr[d] /\ (need_resched[d] => need_resched'[d])
    /\ \A t \in Threads : on_rq'[t] /\ cpu'[t] = d
         => \/ \E e \in Cpus : Waking(e)' /\ wk'[e].t = t
            \/ /\ on_rq[t] /\ cpu[t] = d
               /\ ~\E e \in Cpus : Waking(e) /\ wk[e].t = t

LEMMA StaysPrompt ==
  ASSUME NEW d \in Cpus, UNCHANGED policy, NoWorse(d), Prompt(d)
  PROVE  Prompt(d)'
<1>1. \A v : Prio(v)' = Prio(v)
  BY DEF Prio
<1>2. CASE curr[d] = Idle \/ need_resched[d]
  BY <1>2 DEF NoWorse, Prompt
<1>3. CASE curr[d] # Idle /\ ~need_resched[d]
  <2>1. \A t \in Threads : on_rq[t] /\ cpu[t] = d /\ Prio(t) < Prio(curr[d])
          => \E e \in Cpus : Waking(e) /\ wk[e].t = t
    BY <1>3 DEF Prompt
  <2>2. \A t \in Threads : on_rq'[t] /\ cpu'[t] = d /\ Prio(t) < Prio(curr[d])
          => \E e \in Cpus : Waking(e)' /\ wk'[e].t = t
    BY <2>1 DEF NoWorse
  <2>3. Prio(curr[d])' = Prio(curr[d])
    BY <1>1 DEF NoWorse, Prio
  <2>4. QED
    BY <1>1, <2>2, <2>3 DEF Prompt
<1>4. QED
  BY <1>2, <1>3

\* A step that moves no thread to or from a run queue and ends no activation.
LEMMA QuietStep ==
  ASSUME UNCHANGED <<on_rq, policy, curr>>,
         \A d \in Cpus : need_resched[d] => need_resched'[d],
         \A t \in Threads : on_rq[t] => cpu'[t] = cpu[t],
         \A d \in Cpus : Waking(d) => Waking(d)' /\ wk'[d].t = wk[d].t,
         \A d \in Cpus : Prompt(d)
  PROVE  \A d \in Cpus : Prompt(d)'
<1>1. \A d \in Cpus : NoWorse(d)
  BY DEF NoWorse
<1>2. QED
  BY <1>1, StaysPrompt

LEMMA PromptStep ==
  ASSUME SchedInv, SchedInv', Next, UNCHANGED policy, \A d \in Cpus : Prompt(d)
  PROVE  \A d \in Cpus : Prompt(d)'
<1>1. PICK c \in Cpus :
        \/ \E t \in Threads : ThreadStep(c, t)
        \/ Switch(c) \/ finish_switch(c) \/ activate(c) \/ scheduler_tick(c)
        \/ \E t \in Threads, m \in Masks : try_to_wake_up(c, t, m)
  BY DEF Next
<1>2. ASSUME NEW t \in Threads, ThreadStep(c, t) PROVE \A d \in Cpus : Prompt(d)'
  <2>1. CASE \/ lock_kernel(c, t) \/ unlock_kernel(c, t) \/ prepare_exit_to_user(c, t)
             \/ InterruptUser(c, t) \/ schedule(c, t) \/ yield(c, t) \/ Resume(c, t)
             \/ do_exit(c, t) \/ \E s \in SleepStates \cup {"R"} : SetState(c, t, s)
    <3>1. UNCHANGED <<on_rq, cpu, need_resched, curr, wk>>
      BY <2>1 DEF lock_kernel, unlock_kernel, prepare_exit_to_user, InterruptUser, schedule, yield,
                  Resume, do_exit, SetState, thread_vars, rq_vars
    <3>2. QED
      BY <3>1, QuietStep DEF Waking
  <2>2. ASSUME NEW n \in Threads, thread_alloc(c, t, n) PROVE \A d \in Cpus : Prompt(d)'
    <3>1. UNCHANGED <<on_rq, need_resched, curr, wk>> /\ cpu' = [cpu EXCEPT ![n] = c] /\ pc[n] = "unborn"
      BY <2>2 DEF thread_alloc, rq_vars
    <3>2. \A v \in Threads : on_rq[v] => cpu'[v] = cpu[v]
      BY SMTT(60), Z3T(60), <3>1 DEF SchedInv, PcInv, SchedTypeOK, ThreadTypes
    <3>3. QED
      BY <3>1, <3>2, QuietStep DEF Waking
  <2>3. ASSUME NEW n \in Threads, sched_add_new(c, t, n) PROVE \A d \in Cpus : Prompt(d)'
    <3>1. UNCHANGED <<on_rq, cpu, need_resched, curr>> /\ ~Waking(c)
          /\ wk' = [wk EXCEPT ![c] = [at |-> "select", t |-> n, dst |-> 0]]
      BY <2>3 DEF sched_add_new, rq_vars, Runs, Waking
    <3>2. \A d \in Cpus : Waking(d) => Waking(d)' /\ wk'[d].t = wk[d].t
      BY SMTT(60), Z3T(60), <3>1 DEF Waking, SchedInv, SchedTypeOK, CpuTypes
    <3>3. QED
      BY <3>1, <3>2, QuietStep
  <2>4. ASSUME NEW n \in Threads, NEW p \in Policies, sched_setscheduler(c, t, n, p) PROVE FALSE
    BY <2>4 DEF sched_setscheduler, SchedInv, SchedTypeOK, ThreadTypes
  <2>5. QED
    BY <1>2, <2>1, <2>2, <2>3, <2>4 DEF ThreadStep
<1>3. CASE finish_switch(c) \/ scheduler_tick(c)
  <2>1. UNCHANGED <<on_rq, cpu, curr, wk>>
    BY <1>3 DEF finish_switch, scheduler_tick, thread_vars, rq_vars
  <2>2. \A d \in Cpus : need_resched[d] => need_resched'[d]
    BY <1>3 DEF finish_switch, scheduler_tick, rq_vars, SchedInv, SchedTypeOK, CpuTypes
  <2>3. QED
    BY <2>1, <2>2, QuietStep DEF Waking
<1>4. ASSUME NEW t \in Threads, NEW m \in Masks, try_to_wake_up(c, t, m) PROVE \A d \in Cpus : Prompt(d)'
  <2>1. /\ UNCHANGED <<on_rq, cpu, need_resched, curr>> /\ ~Waking(c)
        /\ \/ wk' = wk
           \/ wk' = [wk EXCEPT ![c] = [at |-> "select", t |-> t, dst |-> 0]]
    BY <1>4 DEF try_to_wake_up, rq_vars, IrqsOn, Waking
  <2>2. \A d \in Cpus : Waking(d) => Waking(d)' /\ wk'[d].t = wk[d].t
    BY <2>1 DEF Waking, SchedInv, SchedTypeOK, CpuTypes
  <2>3. QED
    BY <2>1, <2>2, QuietStep
<1>5. CASE activate_select(c) \/ activate_link(c)
  <2>1. UNCHANGED <<on_rq, cpu, need_resched, curr>>
    BY <1>5 DEF activate_select, activate_link, thread_vars, rq_vars
  <2>2. \A d \in Cpus : Waking(d) => Waking(d)' /\ wk'[d].t = wk[d].t
    <3>1. \E dst : \/ wk' = [wk EXCEPT ![c] = [at |-> "link", t |-> wk[c].t, dst |-> dst]]
                   \/ wk' = [wk EXCEPT ![c].at = "bits"]
      BY <1>5 DEF activate_select, activate_link
    <3>2. wk \in [Cpus -> [at : Stages, t : Threads \cup {Idle}, dst : Cpus]]
      BY DEF SchedInv, SchedTypeOK, CpuTypes
    <3>3. QED
      BY SMTT(60), Z3T(60), <3>1, <3>2 DEF Waking
  <2>3. QED
    BY <2>1, <2>2, QuietStep
<1>6. CASE activate_bits(c)
  <2>1. PICK t \in Threads : t = wk[c].t /\ Waking(c) /\ wk[c].at = "bits"
    BY <1>6, Activation DEF activate_bits, Waking
  <2>2. /\ UNCHANGED <<cpu, need_resched, curr>> /\ on_rq' = [on_rq EXCEPT ![t] = TRUE]
        /\ wk' = [wk EXCEPT ![c].at = "cpu"]
    BY <1>6, <2>1 DEF activate_bits, FlagSet
  <2>3. \A d \in Cpus : Waking(d) => Waking(d)' /\ wk'[d].t = wk[d].t
    BY SMTT(60), Z3T(60), <2>2 DEF Waking, SchedInv, SchedTypeOK, CpuTypes
  <2>4. \A v \in Threads : on_rq'[v] => on_rq[v] \/ v = t
    BY <2>2 DEF SchedInv, SchedTypeOK, ThreadTypes
  <2>5. \A d \in Cpus : NoWorse(d)
    BY <2>1, <2>2, <2>3, <2>4 DEF NoWorse
  <2>6. QED
    BY <2>5, StaysPrompt
<1>7. CASE activate_cpu(c)
  <2>1. PICK t \in Threads, dst \in Cpus : t = wk[c].t /\ dst = wk[c].dst /\ Waking(c)
    BY <1>7, Activation DEF activate_cpu, Waking
  <2>2. /\ UNCHANGED <<on_rq, curr>> /\ cpu' = [cpu EXCEPT ![t] = dst]
        /\ need_resched' = [need_resched EXCEPT ![dst] = @ \/ Preempts(dst, Prio(t))]
        /\ wk' = [wk EXCEPT ![c] = NoWork]
    BY <1>7, <2>1 DEF activate_cpu
  <2>3. /\ \A d \in Cpus : need_resched[d] => need_resched'[d]
        /\ Preempts(dst, Prio(t)) => need_resched'[dst]
        /\ \A v \in Threads : v # t => cpu'[v] = cpu[v]
        /\ cpu'[t] = dst
        /\ \A d \in Cpus \ {c} : Waking(d) => Waking(d)' /\ wk'[d].t = wk[d].t
    <3>1. /\ need_resched \in [Cpus -> BOOLEAN] /\ cpu \in [Threads -> Cpus]
          /\ wk \in [Cpus -> [at : Stages, t : Threads \cup {Idle}, dst : Cpus]]
      BY DEF SchedInv, SchedTypeOK, CpuTypes, ThreadTypes
    <3>2. /\ \A d \in Cpus : need_resched[d] => need_resched'[d]
          /\ Preempts(dst, Prio(t)) => need_resched'[dst]
      BY <2>2, <3>1, Zenon
    <3>3. /\ \A v \in Threads : v # t => cpu'[v] = cpu[v]
          /\ cpu'[t] = dst
          /\ \A d \in Cpus \ {c} : Waking(d) => Waking(d)' /\ wk'[d].t = wk[d].t
      BY <2>2, <3>1 DEF Waking
    <3>4. QED
      BY <3>2, <3>3
  <2>4. \A v \in Threads : v # t => \A e \in Cpus : Waking(e) /\ wk[e].t = v => Waking(e)' /\ wk'[e].t = v
    BY <2>1, <2>3
  <2>5. ASSUME NEW d \in Cpus, d # dst PROVE Prompt(d)'
    <3>1. NoWorse(d)
      BY <2>2, <2>3, <2>4, <2>5 DEF NoWorse
    <3>2. QED
      BY <3>1, StaysPrompt
  <2>6. Prompt(dst)'
    <3>0. \A v : Prio(v)' = Prio(v)
      BY DEF Prio
    <3>1. CASE curr[dst] = Idle \/ need_resched[dst] \/ Preempts(dst, Prio(t))
      BY <2>2, <2>3, <3>1 DEF Prompt
    <3>2. CASE curr[dst] # Idle /\ ~need_resched[dst] /\ ~Preempts(dst, Prio(t))
      <4>1. ~(Prio(t) < Prio(curr[dst]))
        BY <3>2 DEF Preempts, curr_prio
      <4>2. \A v \in Threads : on_rq[v] /\ cpu[v] = dst /\ Prio(v) < Prio(curr[dst])
              => \E e \in Cpus : Waking(e) /\ wk[e].t = v
        BY <3>2 DEF Prompt
      <4>3. \A v \in Threads : on_rq'[v] /\ cpu'[v] = dst /\ Prio(v) < Prio(curr[dst])
              => \E e \in Cpus : Waking(e)' /\ wk'[e].t = v
        BY <2>2, <2>3, <2>4, <4>1, <4>2
      <4>4. Prio(curr[dst])' = Prio(curr[dst])
        BY <2>2 DEF Prio
      <4>5. QED
        BY <3>0, <4>3, <4>4 DEF Prompt
    <3>3. QED
      BY <3>1, <3>2
  <2>7. QED
    BY <2>5, <2>6
<1>8. CASE Switch(c)
  <2>1. PICK next \in Threads \cup {Idle}, prev \in Threads \cup {Idle} : Switched(c, next) /\ prev = curr[c]
    BY <1>8, SwitchEffect DEF SchedInv, SchedTypeOK, CpuTypes
  <2>2. /\ wk' = wk /\ curr'[c] = next /\ \A d \in Cpus \ {c} : curr'[d] = curr[d]
        /\ \A d \in Cpus \ {c} : need_resched'[d] = need_resched[d]
        /\ \A v \in Threads : on_rq'[v] => v # next /\ (v = prev \/ on_rq[v]) /\ cpu'[v] = cpu[v]
    BY SMTT(60), Z3T(60), <2>1 DEF Switched, SwitchTo, SchedInv, SchedTypeOK, CpuTypes, ThreadTypes
  <2>3. ASSUME NEW d \in Cpus, d # c PROVE Prompt(d)'
    <3>1. prev \in Threads => cpu[prev] = c
      BY <2>1, Constants DEF SchedInv, CpuInv
    <3>2. NoWorse(d)
      BY <2>2, <2>3, <3>1 DEF NoWorse, Waking
    <3>3. QED
      BY <3>2, StaysPrompt
  <2>4. Prompt(c)'
    <3>0. \A v : Prio(v)' = Prio(v)
      BY DEF Prio
    <3>1. ASSUME NEW v \in Threads, on_rq'[v], cpu'[v] = c, next # Idle, Prio(v) < Prio(next)
          PROVE  \E e \in Cpus : Waking(e)' /\ wk'[e].t = v
      <4>1. PICK d \in Cpus : v \in Elems(runqueue'[d][Prio(v)])
        BY <3>0, <3>1 DEF SchedInv, QueueInv, On
      <4>2. Prio(v) \in Prios /\ Prio(next) \in Prios
        BY Constants DEF Prio
      <4>3. CASE d = c
        <5>1. runqueue'[c][Prio(v)] # <<>>
          BY SMTT(60), Z3T(60), <4>1, <4>3 DEF Elems
        <5>2. Prio(next) <= Prio(v)
          BY <2>1, <4>2, <5>1 DEF Switched
        <5>3. QED
          BY SMTT(60), Z3T(60), <3>1, <4>2, <5>2 DEF Prios
      <4>4. CASE d # c
        <5>1. \/ cpu'[v] = d
              \/ \E e \in Cpus : wk'[e].at \in Linking /\ wk'[e].t = v
          BY SMTT(60), Z3T(60), <4>1, <4>2 DEF SchedInv, QueueInv
        <5>2. QED
          BY <3>1, <4>4, <5>1 DEF Waking, Linking
      <4>5. QED
        BY <4>3, <4>4
    <3>2. Prio(curr[c])' = Prio(next)
      BY <2>2 DEF Prio
    <3>3. QED
      BY <2>2, <3>0, <3>1, <3>2 DEF Prompt
  <2>5. QED
    BY <2>3, <2>4
<1>9. QED
  BY <1>1, <1>2, <1>3, <1>4, <1>5, <1>6, <1>7, <1>8 DEF activate

\* activate, scheduler_tick and schedule(): only a thread that changes a policy can
\* leave a better thread queued behind a worse one without a reschedule request.
THEOREM PreemptionAlwaysRequested ==
  ASSUME "both" \notin Loads
  PROVE  Spec => PreemptionRequested
<1>1. SchedInv /\ SchedInv' /\ [Next]_vars
        => [policy' = policy /\ (\A c \in Cpus : Prompt(c)) => \A c \in Cpus : Prompt(c)']_vars
  BY PromptStep
<1>2. QED
  BY SchedInvariant, <1>1, PTL DEF Spec, PreemptionRequested

-----------------------------------------------------------------------------
(* The scheduler implements AbsSched: whatever run queues, flags and
   activations do, a thread becomes runnable, gets one of NrCpus processors,
   gives it up and sleeps, one at a time. *)

INSTANCE FiniteSetTheorems

Running == {t \in Threads : on_cpu[t]}

\* No more threads run than there are CPUs: t->cpu tells them apart.
LEMMA RunningBound ==
  ASSUME SchedInv
  PROVE  Cardinality(Running) <= NrCpus
<1> DEFINE f == [t \in Running |-> cpu[t]]
<1>1. \A t \in Running : cpu[t] \in Cpus /\ curr[cpu[t]] = t
  BY SMTT(60), Z3T(60), Constants DEF SchedInv, CpuInv, SchedTypeOK, ThreadTypes, Running
<1>2. f \in Injection(Running, Cpus)
  BY <1>1 DEF Injection, IsInjective
<1>3. IsFiniteSet(Cpus) /\ Cardinality(Cpus) = NrCpus
  BY SMTT(60), Z3T(60), FS_Interval, SchedAssumption DEF Cpus
<1> HIDE DEF f
<1>4. QED
  BY <1>2, <1>3, FS_Injection

LEMMA RunningBoundNext ==
  SchedInv' => (Cardinality(Running) <= NrCpus)'
<1>1. SchedInv => Cardinality(Running) <= NrCpus
  BY RunningBound
<1>2. QED
  BY <1>1, PTL

LEMMA AbsInit ==
  ASSUME Init
  PROVE  Abs!Init
<1>1. {t \in Threads : on_cpu[t]} = {Boot}
  BY Constants DEF Init
<1>2. QED
  BY <1>1 DEF Init, Abs!Init

LEMMA AbsStep ==
  ASSUME SchedInv, SchedInv', Next
  PROVE  Abs!Next \/ UNCHANGED Abs!vars
<1>1. PICK c \in Cpus :
        \/ \E t \in Threads : ThreadStep(c, t)
        \/ Switch(c) \/ finish_switch(c) \/ activate(c) \/ scheduler_tick(c)
        \/ \E t \in Threads, m \in Masks : try_to_wake_up(c, t, m)
  BY DEF Next
<1>2. ASSUME UNCHANGED <<state, on_cpu>> PROVE UNCHANGED Abs!vars
  BY <1>2 DEF Abs!vars
<1>3. ASSUME NEW t \in Threads, state[t] \in {"S", "D", "T"}, state' = [state EXCEPT ![t] = "R"], on_cpu' = on_cpu
      PROVE  Abs!Next
  <2>1. Abs!Wake(t)
    BY <1>3 DEF Abs!Wake, Abs!Asleep
  <2>2. QED
    BY <2>1 DEF Abs!Next
<1>4. ASSUME NEW t \in Threads, NEW s \in {"S", "D", "T", "R", "X"}, on_cpu[t], state[t] # "X",
             state' = [state EXCEPT ![t] = s], on_cpu' = on_cpu
      PROVE  Abs!Next
  <2>1. Abs!SetState(t, s)
    BY <1>4 DEF Abs!SetState
  <2>2. s \in Abs!Asleep \cup {"R", "X"}
    BY DEF Abs!Asleep
  <2>3. QED
    BY <2>1, <2>2 DEF Abs!Next
<1>5. ASSUME NEW t \in Threads, ThreadStep(c, t) PROVE Abs!Next \/ UNCHANGED Abs!vars
  <2>1. CASE \/ lock_kernel(c, t) \/ unlock_kernel(c, t) \/ prepare_exit_to_user(c, t)
             \/ InterruptUser(c, t) \/ schedule(c, t) \/ yield(c, t) \/ Resume(c, t)
    <3>1. UNCHANGED <<state, on_cpu>>
      BY <2>1 DEF lock_kernel, unlock_kernel, prepare_exit_to_user, InterruptUser, schedule, yield,
                  Resume, thread_vars
    <3>2. QED
      BY <1>2, <3>1
  <2>2. ASSUME NEW s \in SleepStates \cup {"R"}, SetState(c, t, s) PROVE Abs!Next
    <3>1. Runs(c, t) /\ pc[t] = "kern" /\ state' = [state EXCEPT ![t] = s] /\ on_cpu' = on_cpu
      BY <2>2 DEF SetState
    <3>2. on_cpu[t] /\ state[t] # "X" /\ s \in {"S", "D", "T", "R", "X"}
      BY <3>1, RunningThread, Constants DEF SchedInv, PcInv
    <3>3. QED
      BY <1>4, <3>1, <3>2
  <2>3. CASE do_exit(c, t)
    <3>1. Runs(c, t) /\ pc[t] = "kern" /\ state' = [state EXCEPT ![t] = "X"] /\ on_cpu' = on_cpu
      BY <2>3 DEF do_exit
    <3>2. on_cpu[t] /\ state[t] # "X"
      BY <3>1, RunningThread DEF SchedInv, PcInv
    <3>3. QED
      BY <1>4, <3>1, <3>2
  <2>4. ASSUME NEW n \in Threads, thread_alloc(c, t, n) PROVE UNCHANGED Abs!vars
    <3>1. pc[n] = "unborn" /\ state' = [state EXCEPT ![n] = "D"] /\ on_cpu' = on_cpu
      BY <2>4 DEF thread_alloc
    <3>2. state' = state
      BY SMTT(60), Z3T(60), <3>1 DEF SchedInv, PcInv, SchedTypeOK, ThreadTypes
    <3>3. QED
      BY <1>2, <3>1, <3>2
  <2>5. ASSUME NEW n \in Threads, sched_add_new(c, t, n) PROVE Abs!Next
    <3>1. pc[n] = "new" /\ state' = [state EXCEPT ![n] = "R"] /\ on_cpu' = on_cpu
      BY <2>5 DEF sched_add_new
    <3>2. state[n] = "D"
      BY <3>1 DEF SchedInv, PcInv
    <3>3. QED
      BY <1>3, <3>1, <3>2
  <2>6. ASSUME NEW n \in Threads, NEW p \in Policies, sched_setscheduler(c, t, n, p) PROVE UNCHANGED Abs!vars
    <3>1. UNCHANGED <<state, on_cpu>>
      BY <2>6 DEF sched_setscheduler
    <3>2. QED
      BY <1>2, <3>1
  <2>7. QED
    BY <1>5, <2>1, <2>2, <2>3, <2>4, <2>5, <2>6 DEF ThreadStep
<1>6. CASE finish_switch(c) \/ activate(c) \/ scheduler_tick(c)
  <2>1. UNCHANGED <<state, on_cpu>>
    BY <1>6 DEF finish_switch, activate, activate_select, activate_link, activate_bits, activate_cpu,
                scheduler_tick, thread_vars
  <2>2. QED
    BY <1>2, <2>1
<1>7. ASSUME NEW t \in Threads, NEW m \in Masks, try_to_wake_up(c, t, m) PROVE Abs!Next
  <2>1. state[t] \in {"S", "D", "T"} /\ state' = [state EXCEPT ![t] = "R"] /\ on_cpu' = on_cpu
    BY <1>7 DEF try_to_wake_up, Wakeable, Masks
  <2>2. QED
    BY <1>3, <2>1
<1>8. CASE Switch(c)
  <2>1. PICK next \in Threads \cup {Idle}, prev \in Threads \cup {Idle} : Switched(c, next) /\ prev = curr[c]
    BY <1>8, SwitchEffect DEF SchedInv, SchedTypeOK, CpuTypes
  <2>2. /\ state' = state
        /\ \A v \in Threads : on_cpu'[v] <=> v = next \/ (v # prev /\ on_cpu[v])
    BY <2>1 DEF Switched, SwitchTo
  <2>3. prev # Idle => on_cpu[prev]
    BY <2>1 DEF SchedInv, CpuInv
  <2>4. CASE next = prev
    <3>1. {t \in Threads : on_cpu'[t]} = {t \in Threads : on_cpu[t]}
      BY <2>2, <2>3, <2>4, Constants
    <3>2. QED
      BY <2>2, <3>1 DEF Abs!vars
  <2>5. CASE next # prev
    <3> DEFINE out == {prev} \ {Idle}
               in == {next} \ {Idle}
    <3>1. out \in Abs!OneOrNone /\ in \in Abs!OneOrNone
      BY DEF Abs!OneOrNone
    <3>2. out \subseteq Running /\ in \subseteq Threads \ Running /\ \A t \in in : state[t] = "R"
      BY SMTT(60), Z3T(60), <2>1, <2>3, <2>5, PickedThread DEF Running
    <3>3. {t \in Threads : on_cpu'[t]} = (Running \ out) \cup in
      BY <2>2, Constants DEF Running
    <3>4. Cardinality({t \in Threads : on_cpu'[t]}) <= NrCpus
      <4>1. (Cardinality(Running) <= NrCpus)'
        BY RunningBoundNext
      <4>2. QED
        BY <4>1 DEF Running
    <3> HIDE DEF out, in
    <3>5. Abs!Switch(out, in)
      <4>1. /\ out \subseteq {t \in Threads : on_cpu[t]} /\ in \subseteq Threads \ {t \in Threads : on_cpu[t]}
            /\ {t \in Threads : on_cpu'[t]} = ({t \in Threads : on_cpu[t]} \ out) \cup in
        BY <3>2, <3>3, ZenonT(30) DEF Running
      <4>2. Abs!Cardinality({t \in Threads : on_cpu[t]}') <= NrCpus
        <5>1. PICK S : S = {t \in Threads : on_cpu'[t]}
          OBVIOUS
        <5>2. Abs!Cardinality(S) = Cardinality(S)
          BY Zenon DEF Abs!Cardinality, Cardinality
        <5>3. QED
          BY <3>4, <5>1, <5>2
      <4>3. {t \in Threads : on_cpu[t]}' = ({t \in Threads : on_cpu[t]} \ out) \cup in
        BY <4>1
      <4>4. \A t \in in : state[t] = "R"
        BY <3>2
      <4>5. QED
        BY <2>2, <4>1, <4>2, <4>3, <4>4, ZenonT(30) DEF Abs!Switch
    <3>6. QED
      BY <3>1, <3>5 DEF Abs!Next
  <2>6. QED
    BY <2>4, <2>5
<1>9. QED
  BY <1>1, <1>5, <1>6, <1>7, <1>8

\* sched.c as a whole: every step of the run queues, activations and switches is a
\* step of the abstract scheduler on states and running threads, or invisible to it.
THEOREM ImplementsAbs ==
  ASSUME "both" \notin Loads
  PROVE  Spec => ImplementsAbsSched
<1>1. Init => Abs!Init
  BY AbsInit
<1>2. UNCHANGED vars => UNCHANGED Abs!vars
  BY DEF vars, thread_vars, Abs!vars
<1>3. SchedInv /\ SchedInv' /\ [Next]_vars => [Abs!Next]_(Abs!vars)
  BY <1>2, AbsStep
<1>4. QED
  BY SchedInvariant, <1>1, <1>3, PTL DEF Spec, ImplementsAbsSched, Abs!Spec

=============================================================================
