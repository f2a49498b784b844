---------------------------- MODULE SchedQueues -----------------------------
(***************************************************************************)
(* The steps of the scheduler that work on run queues of other CPUs: the   *)
(* four steps of an activation, and sched_setscheduler, preserve the       *)
(* inductive invariant.                                                    *)
(***************************************************************************)
EXTENDS SchedSteps
\* Leaves that name no prover go to Zenon; those that need arithmetic, records
\* or function updates name SMT.  They name Z3 too: tlapm allows itself 5 seconds
\* to encode a leaf, overruns them now and then, and then tries the next name.
USE ZenonT(40)

\* The activation a CPU is in the middle of: its thread is on no other
\* activation and, before it is linked, on no list.
LEMMA Activation ==
  ASSUME SchedInv, NEW c \in Cpus, Waking(c)
  PROVE  /\ wk[c].t \in Threads /\ wk[c].dst \in Cpus /\ Prio(wk[c].t) \in Prios
         /\ state[wk[c].t] = "R" /\ ~on_cpu[wk[c].t] /\ pc[wk[c].t] \notin {"unborn", "new"}
         /\ \A d \in Cpus : curr[d] # wk[c].t
         /\ \A d \in Cpus \ {c} : Waking(d) => wk[d].t # wk[c].t
         /\ wk[c].at \notin Linking
              => \A d \in Cpus, p \in Prios : wk[c].t \notin Elems(runqueue[d][p])
         /\ wk[c].at \in Linking
              => \A d \in Cpus \ {c} : wk[d].at \in Linking => wk[d].dst # wk[c].dst
<1> USE DEF SchedInv
<1>1. wk[c].t \in Threads /\ wk[c].dst \in Cpus /\ Prio(wk[c].t) \in Prios
  BY Constants DEF WakeInv, Activating, Apart, SchedTypeOK, CpuTypes, Prio
<1>2. state[wk[c].t] = "R" /\ ~on_cpu[wk[c].t] /\ pc[wk[c].t] \notin {"unborn", "new"}
  BY DEF WakeInv, Activating, Apart
<1>3. \A d \in Cpus : curr[d] # wk[c].t
  BY <1>1, <1>2 DEF CpuInv
<1>4. \A d \in Cpus \ {c} : Waking(d) => wk[d].t # wk[c].t
  BY DEF WakeInv, Activating, Apart
<1>5. ASSUME wk[c].at \notin Linking, NEW d \in Cpus, NEW p \in Prios, wk[c].t \in Elems(runqueue[d][p])
      PROVE  FALSE
  <2>1. ~on_rq[wk[c].t]
    BY <1>5 DEF WakeInv, Activating, Apart, Linking
  <2>2. PICK e \in Cpus : wk[e].at \in Linking /\ wk[e].t = wk[c].t
    BY SMTT(60), Z3T(60), <1>5, <2>1 DEF QueueInv
  <2>3. QED
    BY <1>4, <1>5, <2>2 DEF Waking, Linking
<1>6. ASSUME wk[c].at \in Linking, NEW d \in Cpus \ {c}, wk[d].at \in Linking
      PROVE  wk[d].dst # wk[c].dst
  BY <1>6 DEF WakeInv, Activating, Apart, Waking, Linking
<1>7. QED
  BY <1>1, <1>2, <1>3, <1>4, <1>5, <1>6

\* Steps of an activation leave the threads, but for flag and CPU, alone.
LEMMA ActivateSelect ==
  ASSUME SchedInv, NEW c \in Cpus, UNCHANGED load, activate_select(c)
  PROVE  SchedInv'
<1> USE DEF SchedInv
<1>1. /\ UNCHANGED <<state, on_rq, on_cpu, cpu, policy, holds, pc, puts, curr, bkl, last, load>>
      /\ UNCHANGED <<runqueue, rq_bitmap, nr_running, need_resched, rq_lock>>
      /\ wk[c].at = "select" /\ Waking(c)
  BY DEF activate_select, thread_vars, rq_vars, Waking
<1>2. PICK dst \in Cpus : wk' = [wk EXCEPT ![c] = [at |-> "link", t |-> wk[c].t, dst |-> dst]]
  BY DEF activate_select
<1>3. /\ wk' \in [Cpus -> [at : Stages, t : Threads \cup {Idle}, dst : Cpus]]
      /\ wk'[c].at = "link" /\ wk'[c].t = wk[c].t
      /\ \A d \in Cpus \ {c} : wk'[d] = wk[d]
  <2>1. wk \in [Cpus -> [at : Stages, t : Threads \cup {Idle}, dst : Cpus]]
    BY DEF SchedTypeOK, CpuTypes
  <2>2. [at |-> "link", t |-> wk[c].t, dst |-> dst] \in [at : Stages, t : Threads \cup {Idle}, dst : Cpus]
    BY <2>1 DEF Stages
  <2>3. QED
    BY <1>2, <2>1, <2>2
<1>4. \A d \in Cpus : Waking(d)' = Waking(d)
  BY <1>1, <1>3 DEF Waking
<1>5. ThreadTypes' /\ CpuTypes'
  BY <1>1, <1>3 DEF SchedTypeOK, ThreadTypes, CpuTypes
<1>61. CpuInv'
  BY <1>1 DEF CpuInv
<1>62. PcInv'
  BY <1>1 DEF PcInv
<1>6. CpuInv' /\ PcInv'
  BY <1>61, <1>62
<1>7. \A d \in Cpus : UnderBkl(d)' = UnderBkl(d)
  BY <1>1 DEF UnderBkl
<1>8. \A u : Prio(u)' = Prio(u) /\ \A d \in Cpus : On(u, d)' = On(u, d)
  BY <1>1 DEF On, Prio
<1>9. WakeInv'
  BY SMTT(60), Z3T(60), <1>1, <1>3, <1>4, <1>7, <1>8 DEF WakeInv, Activating, Apart, Linking
<1>10. \A d \in Cpus : wk[d].at \in Linking \/ wk'[d].at \in Linking => wk'[d] = wk[d]
  BY <1>1, <1>3 DEF Linking
<1>11. QueueInv'
  BY SMTT(60), Z3T(60), <1>1, <1>8, <1>10 DEF QueueInv
<1>12. BitsInv'
  <2>1. \A d \in Cpus : Lags(d)' = Lags(d) /\ Linked3(d)' = Linked3(d)
    BY <1>1, <1>10 DEF Lags, Linked3, Linking
  <2>2. QED
    BY SMTT(60), Z3T(60), <1>1, <1>8, <1>10, <2>1 DEF BitsInv, BitmapLag, CountLag, Linking
<1>13. LostInv'
  BY SMTT(60), Z3T(60), <1>1, <1>3, <1>4 DEF LostInv, NoLostThread
<1>14. QED
  BY <1>5, <1>6, <1>9, <1>11, <1>12, <1>13 DEF SchedTypeOK

\* Linking: the list is ahead of bitmap, count and flag, under its lock.
LEMMA ActivateLink ==
  ASSUME SchedInv, NEW c \in Cpus, UNCHANGED load, activate_link(c)
  PROVE  SchedInv'
<1> USE DEF SchedInv
<1>1. /\ UNCHANGED <<state, on_rq, on_cpu, cpu, policy, holds, pc, puts, curr, bkl, last, load>>
      /\ UNCHANGED <<rq_bitmap, nr_running, need_resched>>
      /\ wk[c].at = "link" /\ Waking(c) /\ ~rq_lock[wk[c].dst]
  BY DEF activate_link, thread_vars, Waking
<1>2. PICK t \in Threads, dst \in Cpus, p \in Prios :
        t = wk[c].t /\ dst = wk[c].dst /\ p = Prio(t)
  BY <1>1, Activation
<1>3. /\ state[t] = "R" /\ ~on_cpu[t] /\ ~on_rq[t] /\ pc[t] \notin {"unborn", "new"}
      /\ \A d \in Cpus, q \in Prios : t \notin Elems(runqueue[d][q])
      /\ \A d \in Cpus \ {c} : Waking(d) => wk[d].t # t
  BY <1>1, <1>2, Activation DEF Linking, WakeInv, Activating, Apart
<1>4. /\ wk' \in [Cpus -> [at : Stages, t : Threads \cup {Idle}, dst : Cpus]]
      /\ wk'[c].at = "bits" /\ wk'[c].t = t /\ wk'[c].dst = dst
      /\ \A d \in Cpus \ {c} : wk'[d] = wk[d]
  BY <1>2 DEF activate_link, SchedTypeOK, CpuTypes, Stages
<1>5. /\ rq_lock' \in [Cpus -> BOOLEAN] /\ rq_lock'[dst]
      /\ \A d \in Cpus : d # dst => rq_lock'[d] = rq_lock[d]
  BY <1>2 DEF activate_link, SchedTypeOK, CpuTypes
<1>6. PICK s \in Seq(Threads) : s = runqueue[dst][p] /\ Distinct(s) /\ t \notin Elems(s)
  BY SMTT(60), Z3T(60), <1>3 DEF QueueInv, SchedTypeOK, CpuTypes
<1>7. PICK u \in Seq(Threads) : /\ u = Append(s, t) /\ Distinct(u) /\ Len(u) = Len(s) + 1
                                /\ Elems(u) = Elems(s) \cup {t}
  <2>1. LET v == Append(s, t)
        IN  /\ v \in Seq(Threads) /\ Distinct(v) /\ Len(v) = Len(s) + 1
            /\ Elems(v) = Elems(s) \cup {t}
    BY SMTT(60), Z3T(60), <1>6, AppendList
  <2>2. QED
    BY <2>1
<1>8. runqueue' = SetList(runqueue, dst, p, u) /\ runqueue \in Lists
  BY <1>2, <1>6, <1>7 DEF activate_link, Enqueued, SetList, Lists, SchedTypeOK, CpuTypes
<1>9. /\ runqueue' \in Lists /\ runqueue'[dst][p] = u
      /\ \A d \in Cpus, q \in Prios : d # dst \/ q # p => runqueue'[d][q] = runqueue[d][q]
  <2>1. LET l == SetList(runqueue, dst, p, u)
        IN  /\ l \in Lists /\ l[dst][p] = u
            /\ \A d \in Cpus, q \in Prios : d # dst \/ q # p => l[d][q] = runqueue[d][q]
    BY SMTT(60), Z3T(60), <1>8, ListReplaced
  <2>2. QED
    BY <1>8, <2>1
<1>10. \A d \in Cpus \ {c} : wk[d].at \in Linking => wk[d].dst # dst
  BY <1>1, <1>2 DEF WakeInv, Activating, Apart, Waking, Linking
<1>11. \A d \in Cpus : Waking(d)' = Waking(d) /\ UnderBkl(d)' = UnderBkl(d)
  BY <1>1, <1>4 DEF Waking, UnderBkl
<1>12. ThreadTypes' /\ CpuTypes'
  BY <1>1, <1>4, <1>5, <1>9 DEF SchedTypeOK, ThreadTypes, CpuTypes, Lists
<1>13. CpuInv' /\ PcInv'
  BY SMTT(60), Z3T(60), <1>1 DEF CpuInv, PcInv
<1>14. \A v \in Threads : Prio(v)' = Prio(v) /\ Prio(v) \in Prios
  BY <1>1, Constants DEF Prio
<1>15. /\ \A v \in Threads, d \in Cpus, q \in Prios :
            v # t => (v \in Elems(runqueue'[d][q]) <=> v \in Elems(runqueue[d][q]))
       /\ \A d \in Cpus, q \in Prios : t \in Elems(runqueue'[d][q]) <=> d = dst /\ q = p
  <2>1. \A v \in Threads, d \in Cpus, q \in Prios :
          ~(d = dst /\ q = p) => Elems(runqueue'[d][q]) = Elems(runqueue[d][q])
    BY <1>9
  <2>2. Elems(runqueue'[dst][p]) = Elems(runqueue[dst][p]) \cup {t}
    BY <1>6, <1>7, <1>9
  <2>3. QED
    BY <1>3, <2>1, <2>2
<1>16. /\ \A v \in Threads, d \in Cpus : v # t => (On(v, d)' <=> On(v, d))
       /\ \A d \in Cpus : On(t, d)' <=> d = dst
  BY <1>2, <1>14, <1>15 DEF On
<1>17. WakeInv'
  <2>1. ASSUME NEW d \in Cpus \ {c}, Waking(d), wk[d].at \in Linking
        PROVE  On(wk[d].t, wk[d].dst)' /\ rq_lock'[wk[d].dst]
    <3>1. PICK e \in Cpus, v \in Threads : e = wk[d].dst /\ v = wk[d].t /\ v # t /\ e # dst
      BY <1>3, <1>10, <2>1, Activation
    <3>2. On(v, e) /\ rq_lock[e]
      BY <2>1, <3>1 DEF WakeInv, Activating, Apart
    <3>3. On(v, e)' /\ rq_lock'[e] /\ wk'[d].t = v /\ wk'[d].dst = e
      BY <1>4, <1>5, <1>16, <3>1, <3>2
    <3>4. QED
      BY <3>1, <3>3
  <2>2. On(t, dst)'
    BY <1>16
  <2>3. load = "retune" => UnderBkl(c)'
    BY <1>1, <1>11 DEF WakeInv, Activating, Apart
  <2>4. Activating(c)'
    BY <1>1, <1>3, <1>4, <1>5, <2>2, <2>3 DEF Activating, Linking
  <2>5. ASSUME NEW d \in Cpus \ {c}, Waking(d) PROVE Activating(d)' /\ Apart(c, d)' /\ Apart(d, c)'
    <3>1. Activating(d) /\ wk'[d] = wk[d]
      BY <1>4, <2>5 DEF WakeInv
    <3>2. Activating(d)'
      BY <1>1, <1>11, <2>1, <2>5, <3>1 DEF Activating
    <3>3. QED
      BY <1>3, <1>4, <1>10, <2>5, <3>2 DEF Apart
  <2>6. ASSUME NEW d \in Cpus \ {c}, NEW e \in Cpus \ {c}, d # e, Waking(d), Waking(e) PROVE Apart(d, e)'
    BY <1>4, <2>6 DEF WakeInv, Apart
  <2>7. QED
    BY <1>11, <2>4, <2>5, <2>6 DEF WakeInv
<1>18. QueueInv'
  <2>1. \A d \in Cpus, q \in Prios : Elems(runqueue'[d][q]) \subseteq Threads
    BY SMTT(60), Z3T(60), <1>9, EmptyList DEF Lists
  <2>2. \A d \in Cpus, q \in Prios : Distinct(runqueue'[d][q])
    <3>1. \A d \in Cpus, q \in Prios : ~(d = dst /\ q = p) => Distinct(runqueue'[d][q])
      BY SMTT(60), Z3T(60), <1>9 DEF QueueInv
    <3>2. QED
      BY <1>7, <1>9, <3>1
  <2>3. \A d \in Cpus : wk[d].at \in Linking => wk'[d] = wk[d]
    BY <1>1, <1>4 DEF Linking
  <2>4. ASSUME NEW d \in Cpus, NEW q \in Prios, NEW v \in Elems(runqueue'[d][q])
        PROVE  /\ q = Prio(v)' /\ state'[v] = "R" /\ ~on_cpu'[v]
               /\ \/ on_rq'[v] /\ cpu'[v] = d
                  \/ \E e \in Cpus : wk'[e].at \in Linking /\ wk'[e].t = v /\ wk'[e].dst = d
    <3>1. CASE v = t
      BY SMTT(60), Z3T(60), <1>1, <1>2, <1>3, <1>4, <1>14, <1>15, <2>4, <3>1 DEF Linking
    <3>2. CASE v # t
      <4>1. v \in Threads /\ v \in Elems(runqueue[d][q])
        BY <1>15, <2>1, <2>4, <3>2
      <4>2. QED
        BY SMTT(60), Z3T(60), <1>1, <1>14, <2>3, <4>1 DEF QueueInv
    <3>3. QED
      BY <3>1, <3>2
  <2>5. ASSUME NEW v \in Threads, on_rq'[v] PROVE state'[v] = "R" /\ ~on_cpu'[v] /\ \E d \in Cpus : On(v, d)'
    BY <1>1, <1>3, <1>16, <2>5 DEF QueueInv
  <2>6. ASSUME NEW v \in Threads, NEW d \in Cpus, NEW e \in Cpus, On(v, d)', On(v, e)' PROVE d = e
    BY SMTT(60), Z3T(60), <1>16, <2>6 DEF QueueInv
  <2>7. QED
    BY <2>2, <2>4, <2>5, <2>6 DEF QueueInv
<1>19. BitsInv'
  <2>1. Lags(dst)' /\ ~Lags(dst)
    BY <1>1, <1>4, <1>10 DEF Lags, Linking
  <2>2. /\ Linked3(dst)' = Linked3(dst) + 1
        /\ \A d \in Cpus : d # dst => Linked3(d)' = Linked3(d)
        /\ \A d \in Cpus : Linked3(d) \in Nat
    <3>1. Len(u) = Len(runqueue[dst][p]) + 1
      BY <1>6, <1>7
    <3>2. /\ Count3(SetList(runqueue, dst, p, u), dst) + Len(runqueue[dst][p]) = Count3(runqueue, dst) + Len(u)
          /\ Count3(SetList(runqueue, dst, p, u), dst) \in Nat /\ Len(runqueue[dst][p]) \in Nat
          /\ \A e \in Cpus : Count3(runqueue, e) \in Nat
          /\ \A e \in Cpus : e # dst => Count3(SetList(runqueue, dst, p, u), e) = Count3(runqueue, e)
      BY SMTT(60), Z3T(60), <1>8, CountReplaced
    <3>3. \A d : Linked3(d)' = Count3(runqueue', d) /\ Linked3(d) = Count3(runqueue, d)
      BY DEF Linked3, Count3
    <3>4. Count3(SetList(runqueue, dst, p, u), dst) = Count3(runqueue, dst) + 1
      <4>1. PICK m \in Nat, n \in Nat, l \in Nat :
              m = Count3(SetList(runqueue, dst, p, u), dst) /\ n = Count3(runqueue, dst)
                /\ l = Len(runqueue[dst][p]) /\ m + l = n + Len(u)
        BY <3>2
      <4>2. m + l = n + (l + 1)
        BY <3>1, <4>1
      <4>3. m = n + 1
        BY SMTT(60), Z3T(60), <4>2
      <4>4. QED
        BY <4>1, <4>3
    <3>5. QED
      BY <1>8, <3>2, <3>3, <3>4
  <2>3. \A d \in Cpus : d # dst => Lags(d)' = Lags(d)
    BY SMTT(60), Z3T(60), <1>1, <1>4 DEF Lags
  <2>4. u # <<>>
    BY <1>7, EmptyList
  <2>5. ASSUME NEW d \in Cpus PROVE BitmapLag(d)'
    <3>1. ASSUME NEW q \in Prios, ~(d = dst /\ q = p)
          PROVE  runqueue'[d][q] = runqueue[d][q] /\ rq_bitmap'[d] = rq_bitmap[d]
      BY <1>1, <1>9, <3>1
    <3>2. \A e \in Cpus : wk[e].at = "bits" => wk'[e] = wk[e] /\ Prio(wk[e].t)' = Prio(wk[e].t)
      BY <1>1, <1>4 DEF Prio
    <3>3. wk'[c].at = "bits" /\ wk'[c].dst = dst /\ Prio(wk[c].t)' = p
      BY <1>1, <1>2, <1>4 DEF Prio
    <3>4. runqueue'[dst][p] # <<>>
      BY <1>9, <2>4
    <3>5. QED
      BY SMTT(60), Z3T(60), <3>1, <3>2, <3>3, <3>4 DEF BitsInv, BitmapLag
  <2>6. \A d \in Cpus : nr_running'[d] = nr_running[d] /\ nr_running[d] \in Nat
    BY <1>1 DEF SchedTypeOK, CpuTypes
  <2>7. CountLag(dst)'
    BY <2>1, <2>2, <2>6 DEF BitsInv, CountLag
  <2>8. ASSUME NEW d \in Cpus, d # dst PROVE CountLag(d)'
    BY <2>2, <2>3, <2>6, <2>8 DEF BitsInv, CountLag
  <2>9. QED
    BY <2>5, <2>7, <2>8 DEF BitsInv
<1>20. LostInv'
  BY SMTT(60), Z3T(60), <1>1, <1>4, <1>2, <1>11 DEF LostInv, NoLostThread
<1>21. QED
  BY <1>12, <1>13, <1>17, <1>18, <1>19, <1>20 DEF SchedTypeOK

\* Bitmap, count and flag catch up with the list.
LEMMA ActivateBits ==
  ASSUME SchedInv, NEW c \in Cpus, UNCHANGED load, activate_bits(c)
  PROVE  SchedInv'
<1> USE DEF SchedInv
<1>1. /\ UNCHANGED <<state, on_cpu, cpu, policy, holds, pc, puts, curr, bkl, last, load>>
      /\ UNCHANGED <<runqueue, need_resched, rq_lock>>
      /\ wk[c].at = "bits" /\ Waking(c)
  BY DEF activate_bits, Waking
<1>2. PICK t \in Threads, dst \in Cpus, p \in Prios :
        t = wk[c].t /\ dst = wk[c].dst /\ p = Prio(t)
  BY <1>1, Activation
<1>3. /\ state[t] = "R" /\ ~on_cpu[t] /\ pc[t] \notin {"unborn", "new"}
      /\ On(t, dst) /\ rq_lock[dst]
      /\ \A d \in Cpus \ {c} : Waking(d) => wk[d].t # t
      /\ \A d \in Cpus \ {c} : wk[d].at \in Linking => wk[d].dst # dst
  BY <1>1, <1>2, Activation DEF Linking, WakeInv, Activating
<1>4. /\ wk' \in [Cpus -> [at : Stages, t : Threads \cup {Idle}, dst : Cpus]]
      /\ wk'[c].at = "cpu" /\ wk'[c].t = t /\ wk'[c].dst = dst
      /\ \A d \in Cpus \ {c} : wk'[d] = wk[d]
  BY <1>2 DEF activate_bits, SchedTypeOK, CpuTypes, Stages
<1>5. /\ on_rq' \in [Threads -> BOOLEAN] /\ on_rq'[t]
      /\ \A v \in Threads : v # t => on_rq'[v] = on_rq[v]
  BY <1>2 DEF activate_bits, FlagSet, SchedTypeOK, ThreadTypes
<1>6. /\ rq_bitmap' \in [Cpus -> SUBSET Prios] /\ rq_bitmap'[dst] = rq_bitmap[dst] \cup {p}
      /\ \A d \in Cpus : d # dst => rq_bitmap'[d] = rq_bitmap[d]
  BY <1>2 DEF activate_bits, BitsWith, SchedTypeOK, CpuTypes
<1>7. /\ nr_running' \in [Cpus -> Nat] /\ nr_running'[dst] = nr_running[dst] + 1
      /\ \A d \in Cpus : d # dst => nr_running'[d] = nr_running[d]
  BY SMTT(60), Z3T(60), <1>2 DEF activate_bits, SchedTypeOK, CpuTypes
<1>8. \A d \in Cpus : Waking(d)' = Waking(d) /\ UnderBkl(d)' = UnderBkl(d)
  BY <1>1, <1>4 DEF Waking, UnderBkl
<1>9. ThreadTypes' /\ CpuTypes'
  BY <1>1, <1>4, <1>5, <1>6, <1>7 DEF SchedTypeOK, ThreadTypes, CpuTypes
<1>10. CpuInv' /\ PcInv'
  BY SMTT(60), Z3T(60), <1>1, <1>3, <1>5 DEF CpuInv, PcInv
<1>11. /\ \A v : Prio(v)' = Prio(v)
       /\ \A v, d : On(v, d)' <=> On(v, d)
  BY <1>1 DEF Prio, On
<1>12. WakeInv'
  <2>1. Activating(c)'
    BY SMTT(60), Z3T(60), <1>1, <1>3, <1>4, <1>5, <1>8, <1>11 DEF WakeInv, Activating, Linking
  <2>2. ASSUME NEW d \in Cpus \ {c}, Waking(d) PROVE Activating(d)' /\ Apart(c, d)' /\ Apart(d, c)'
    <3>1. Activating(d) /\ wk'[d] = wk[d] /\ wk[d].t \in Threads /\ wk[d].t # t
      BY <1>3, <1>4, <2>2, Activation DEF WakeInv
    <3>2. Activating(d)'
      BY <1>1, <1>5, <1>8, <1>11, <3>1 DEF Activating
    <3>3. QED
      BY <1>3, <1>4, <2>2, <3>1, <3>2 DEF Apart
  <2>3. ASSUME NEW d \in Cpus \ {c}, NEW e \in Cpus \ {c}, d # e, Waking(d), Waking(e) PROVE Apart(d, e)'
    BY <1>4, <2>3 DEF WakeInv, Apart
  <2>4. QED
    BY <1>8, <2>1, <2>2, <2>3 DEF WakeInv
<1>13. QueueInv'
  <2>1. \A d \in Cpus : wk[d].at \in Linking => wk'[d].at \in Linking /\ wk'[d].t = wk[d].t /\ wk'[d].dst = wk[d].dst
    BY <1>2, <1>4 DEF Linking
  <2>2. ASSUME NEW d \in Cpus, NEW q \in Prios, NEW v \in Elems(runqueue[d][q])
        PROVE  /\ q = Prio(v)' /\ state'[v] = "R" /\ ~on_cpu'[v]
               /\ \/ on_rq'[v] /\ cpu'[v] = d
                  \/ \E e \in Cpus : wk'[e].at \in Linking /\ wk'[e].t = v /\ wk'[e].dst = d
    <3>1. /\ q = Prio(v)' /\ state'[v] = "R" /\ ~on_cpu'[v] /\ v \in Threads
      BY SMTT(60), Z3T(60), <1>1, <1>11, <2>2, EmptyList DEF QueueInv, SchedTypeOK, CpuTypes
    <3>2. \/ on_rq[v] /\ cpu[v] = d
          \/ \E e \in Cpus : wk[e].at \in Linking /\ wk[e].t = v /\ wk[e].dst = d
      BY SMTT(60), Z3T(60), <2>2 DEF QueueInv
    <3>3. QED
      BY <1>1, <1>5, <2>1, <3>1, <3>2
  <2>3. ASSUME NEW v \in Threads, on_rq'[v] PROVE state'[v] = "R" /\ ~on_cpu'[v] /\ \E d \in Cpus : On(v, d)'
    BY SMTT(60), Z3T(60), <1>1, <1>3, <1>5, <1>11, <2>3 DEF QueueInv
  <2>4. (\A d \in Cpus, q \in Prios : Distinct(runqueue[d][q]))'
    BY <1>1 DEF QueueInv
  <2>5. (\A v \in Threads : \A d, e \in Cpus : On(v, d) /\ On(v, e) => d = e)'
    BY <1>11 DEF QueueInv
  <2>6. (\A d \in Cpus, q \in Prios : \A v \in Elems(runqueue[d][q]) :
          /\ q = Prio(v) /\ state[v] = "R" /\ ~on_cpu[v]
          /\ \/ on_rq[v] /\ cpu[v] = d
             \/ \E e \in Cpus : wk[e].at \in Linking /\ wk[e].t = v /\ wk[e].dst = d)'
    BY SMTT(60), Z3T(60), <1>1, <2>2
  <2>7. QED
    BY <2>3, <2>4, <2>5, <2>6 DEF QueueInv
<1>14. BitsInv'
  <2>1. ~Lags(dst)' /\ Lags(dst)
    BY SMTT(60), Z3T(60), <1>1, <1>2, <1>3, <1>4 DEF Lags, Linking
  <2>2. \A d \in Cpus : d # dst => Lags(d)' = Lags(d)
    BY <1>1, <1>2, <1>4 DEF Lags
  <2>3. \A d : Linked3(d)' = Linked3(d)
    BY <1>1 DEF Linked3, Count3
  <2>4. runqueue[dst][p] # <<>>
    BY SMTT(60), Z3T(60), <1>2, <1>3, EmptyList DEF On, SchedTypeOK, CpuTypes
  <2>5. BitmapLag(dst)'
    <3>1. \A q \in Prios : runqueue[dst][q] # <<>> => q \in rq_bitmap'[dst]
      BY SMTT(60), Z3T(60), <1>2, <1>3, <1>6 DEF BitsInv, BitmapLag, Linking
    <3>2. \A q \in Prios : q \in rq_bitmap'[dst] => runqueue[dst][q] # <<>>
      BY <1>6, <2>4 DEF BitsInv, BitmapLag
    <3>3. QED
      BY <1>1, <3>1, <3>2 DEF BitmapLag
  <2>6. ASSUME NEW d \in Cpus, d # dst PROVE BitmapLag(d)'
    <3>1. \A e \in Cpus : wk[e].at = "bits" /\ wk[e].dst = d => wk'[e] = wk[e]
      BY <1>2, <1>4, <2>6
    <3>2. QED
      BY SMTT(60), Z3T(60), <1>1, <1>6, <1>11, <2>6, <3>1 DEF BitsInv, BitmapLag
  <2>7. CountLag(dst)'
    BY <1>7, <2>1, <2>3 DEF BitsInv, CountLag
  <2>8. ASSUME NEW d \in Cpus, d # dst PROVE CountLag(d)'
    BY <1>7, <2>2, <2>3, <2>8 DEF BitsInv, CountLag
  <2>9. QED
    BY <2>5, <2>6, <2>7, <2>8 DEF BitsInv
<1>15. LostInv'
  BY SMTT(60), Z3T(60), <1>1, <1>2, <1>4, <1>5, <1>8 DEF LostInv, NoLostThread
<1>16. QED
  BY <1>9, <1>10, <1>12, <1>13, <1>14, <1>15 DEF SchedTypeOK

\* The end of an activation: the thread is where its list says.
LEMMA ActivateCpu ==
  ASSUME SchedInv, NEW c \in Cpus, UNCHANGED load, activate_cpu(c)
  PROVE  SchedInv'
<1> USE DEF SchedInv
<1>1. /\ UNCHANGED <<state, on_rq, on_cpu, policy, holds, pc, puts, curr, bkl, last, load>>
      /\ UNCHANGED <<runqueue, rq_bitmap, nr_running>>
      /\ wk[c].at = "cpu" /\ Waking(c)
  BY DEF activate_cpu, Waking
<1>2. PICK t \in Threads, dst \in Cpus, p \in Prios :
        t = wk[c].t /\ dst = wk[c].dst /\ p = Prio(t)
  BY <1>1, Activation
<1>3. /\ state[t] = "R" /\ ~on_cpu[t] /\ on_rq[t] /\ On(t, dst)
      /\ \A d \in Cpus : curr[d] # t
      /\ \A d \in Cpus \ {c} : Waking(d) => wk[d].t # t
      /\ \A d \in Cpus \ {c} : wk[d].at \in Linking => wk[d].dst # dst
  BY <1>1, <1>2, Activation DEF Linking, WakeInv, Activating
<1>4. /\ wk' \in [Cpus -> [at : Stages, t : Threads \cup {Idle}, dst : Cpus]]
      /\ wk'[c].at = "none"
      /\ \A d \in Cpus \ {c} : wk'[d] = wk[d]
  BY Constants DEF activate_cpu, SchedTypeOK, CpuTypes, Stages, NoWork
<1>5. /\ cpu' \in [Threads -> Cpus] /\ cpu'[t] = dst
      /\ \A v \in Threads : v # t => cpu'[v] = cpu[v]
  BY <1>2 DEF activate_cpu, SchedTypeOK, ThreadTypes
<1>6. /\ rq_lock' \in [Cpus -> BOOLEAN]
      /\ \A d \in Cpus : d # dst => rq_lock'[d] = rq_lock[d]
  BY <1>2 DEF activate_cpu, SchedTypeOK, CpuTypes
<1>7. need_resched' \in [Cpus -> BOOLEAN]
  BY DEF activate_cpu, SchedTypeOK, CpuTypes
<1>8. /\ \A d \in Cpus \ {c} : Waking(d)' = Waking(d)
      /\ \A d \in Cpus : UnderBkl(d)' = UnderBkl(d)
      /\ ~Waking(c)'
  BY <1>1, <1>4 DEF Waking, UnderBkl
<1>9. ThreadTypes' /\ CpuTypes'
  BY <1>1, <1>4, <1>5, <1>6, <1>7 DEF SchedTypeOK, ThreadTypes, CpuTypes
<1>10. CpuInv' /\ PcInv'
  <2>1. \A d \in Cpus : curr[d] # Idle => curr[d] \in Threads /\ cpu'[curr[d]] = cpu[curr[d]]
    BY <1>3, <1>5 DEF SchedTypeOK, CpuTypes
  <2>2. QED
    <3>1. CpuInv'
      BY <1>1, <2>1 DEF CpuInv
    <3>2. PcInv'
      BY <1>1 DEF PcInv
    <3>3. QED
      BY <3>1, <3>2
<1>11. /\ \A v : Prio(v)' = Prio(v)
       /\ \A v, d : On(v, d)' <=> On(v, d)
  BY <1>1 DEF Prio, On
<1>12. WakeInv'
  <2>1. ASSUME NEW d \in Cpus \ {c}, Waking(d) PROVE Activating(d)'
    <3>1. Activating(d) /\ wk'[d] = wk[d] /\ wk[d].dst \in Cpus
      BY <1>4, <2>1, Activation DEF WakeInv
    <3>2. wk[d].at \in Linking => rq_lock'[wk[d].dst] = rq_lock[wk[d].dst]
      BY <1>3, <1>6, <3>1
    <3>3. QED
      BY <1>1, <1>8, <1>11, <3>1, <3>2 DEF Activating
  <2>2. ASSUME NEW d \in Cpus \ {c}, NEW e \in Cpus \ {c}, d # e, Waking(d), Waking(e) PROVE Apart(d, e)'
    BY <1>4, <2>2 DEF WakeInv, Apart
  <2>3. QED
    BY <1>8, <2>1, <2>2 DEF WakeInv
<1>13. QueueInv'
  <2>1. \A d \in Cpus : wk[d].at \in Linking /\ wk[d].t # t => wk'[d] = wk[d]
    BY <1>2, <1>4
  <2>2. ASSUME NEW d \in Cpus, NEW q \in Prios, NEW v \in Elems(runqueue[d][q])
        PROVE  /\ q = Prio(v)' /\ state'[v] = "R" /\ ~on_cpu'[v]
               /\ \/ on_rq'[v] /\ cpu'[v] = d
                  \/ \E e \in Cpus : wk'[e].at \in Linking /\ wk'[e].t = v /\ wk'[e].dst = d
    <3>1. /\ q = Prio(v) /\ q = Prio(v)' /\ state'[v] = "R" /\ ~on_cpu'[v] /\ v \in Threads
      BY SMTT(60), Z3T(60), <1>1, <1>11, <2>2, EmptyList DEF QueueInv, SchedTypeOK, CpuTypes
    <3>2. \/ on_rq[v] /\ cpu[v] = d
          \/ \E e \in Cpus : wk[e].at \in Linking /\ wk[e].t = v /\ wk[e].dst = d
      BY SMTT(60), Z3T(60), <2>2 DEF QueueInv
    <3>3. CASE v = t
      <4>1. On(t, d)
        BY <2>2, <3>1, <3>3 DEF On
      <4>2. d = dst
        BY <1>3, <4>1 DEF QueueInv
      <4>3. QED
        BY <1>1, <1>3, <1>5, <3>1, <3>3, <4>2
    <3>4. CASE v # t
      BY <1>1, <1>5, <2>1, <3>1, <3>2, <3>4
    <3>5. QED
      BY <3>3, <3>4
  <2>3. \A v \in Threads : on_rq'[v] => state'[v] = "R" /\ ~on_cpu'[v] /\ \E d \in Cpus : On(v, d)'
    BY <1>1, <1>11 DEF QueueInv
  <2>4. (\A d \in Cpus, q \in Prios : Distinct(runqueue[d][q]))'
    BY <1>1 DEF QueueInv
  <2>5. (\A v \in Threads : \A d, e \in Cpus : On(v, d) /\ On(v, e) => d = e)'
    BY <1>11 DEF QueueInv
  <2>6. (\A d \in Cpus, q \in Prios : \A v \in Elems(runqueue[d][q]) :
          /\ q = Prio(v) /\ state[v] = "R" /\ ~on_cpu[v]
          /\ \/ on_rq[v] /\ cpu[v] = d
             \/ \E e \in Cpus : wk[e].at \in Linking /\ wk[e].t = v /\ wk[e].dst = d)'
    BY SMTT(60), Z3T(60), <1>1, <2>2
  <2>7. QED
    BY <2>3, <2>4, <2>5, <2>6 DEF QueueInv
<1>14. BitsInv'
  <2>1. \A d \in Cpus : wk[d].at = "bits" \/ wk'[d].at = "bits" => wk'[d] = wk[d]
    BY <1>1, <1>4
  <2>2. \A d \in Cpus : Lags(d)' = Lags(d) /\ Linked3(d)' = Linked3(d)
    BY <1>1, <2>1 DEF Lags, Linked3, Count3
  <2>3. ASSUME NEW d \in Cpus PROVE BitmapLag(d)'
    BY SMTT(60), Z3T(60), <1>1, <1>11, <2>1 DEF BitsInv, BitmapLag
  <2>4. ASSUME NEW d \in Cpus PROVE CountLag(d)'
    BY <1>1, <2>2 DEF BitsInv, CountLag
  <2>5. QED
    BY <2>3, <2>4 DEF BitsInv
<1>15. LostInv'
  <2>1. \A v \in Threads \ {t} : (\E d \in Cpus : Waking(d) /\ wk[d].t = v) => \E d \in Cpus : Waking(d)' /\ wk'[d].t = v
    BY <1>2, <1>4, <1>8
  <2>2. QED
    BY <1>1, <1>3, <2>1 DEF LostInv, NoLostThread
<1>16. QED
  BY <1>9, <1>10, <1>12, <1>13, <1>14, <1>15 DEF SchedTypeOK

\* A thread in a system call: where policies of others may change, nobody else
\* is activating, because wake-ups hold the BKL there.
LEMMA NobodyWakes ==
  ASSUME SchedInv, NEW c \in Cpus, NEW me \in Threads, Runs(c, me), pc[me] = "kern", holds[me],
         load = "retune"
  PROVE  \A d \in Cpus : ~Waking(d)
<1> USE DEF SchedInv
<1> SUFFICES ASSUME NEW d \in Cpus, Waking(d) PROVE FALSE
  OBVIOUS
<1>1. UnderBkl(d) /\ curr[d] \in Threads
  BY SMTT(60), Z3T(60) DEF WakeInv, Activating, UnderBkl, SchedTypeOK, CpuTypes
<1>2. bkl = curr[d] /\ bkl = me
  BY <1>1 DEF UnderBkl, PcInv
<1>3. d = c /\ ~Waking(c)
  <2>1. ~Waking(c) /\ \A e \in Cpus : curr[e] = me => e = c
    BY RunningThread
  <2>2. QED
    BY <1>2, <2>1
<1>4. QED
  BY <1>3

\* A flagged thread of a system without activations is on the list of its CPU.
LEMMA FlaggedIsThere ==
  ASSUME SchedInv, \A d \in Cpus : ~Waking(d), NEW t \in Threads, on_rq[t]
  PROVE  /\ t \in Elems(runqueue[cpu[t]][Prio(t)])
         /\ \A d \in Cpus, q \in Prios : t \in Elems(runqueue[d][q]) => d = cpu[t] /\ q = Prio(t)
<1> USE DEF SchedInv
<1>1. ASSUME NEW d \in Cpus, NEW q \in Prios, t \in Elems(runqueue[d][q]) PROVE d = cpu[t] /\ q = Prio(t)
  BY SMTT(60), Z3T(60), <1>1 DEF QueueInv, Waking, Linking
<1>2. PICK d \in Cpus : On(t, d)
  BY DEF QueueInv
<1>3. Prio(t) \in Prios
  BY Constants DEF Prio
<1>4. d = cpu[t]
  BY <1>1, <1>2, <1>3 DEF On
<1>5. QED
  BY <1>1, <1>2, <1>4 DEF On

\* list_del on an entry known by its thread.
LEMMA UnlinkedList ==
  ASSUME NEW s \in Seq(Threads), NEW t \in Elems(s), Distinct(s)
  PROVE  /\ Unlinked(s, t) \in Seq(Threads)
         /\ Elems(Unlinked(s, t)) = Elems(s) \ {t}
         /\ Distinct(Unlinked(s, t))
         /\ Len(Unlinked(s, t)) = Len(s) - 1
<1>1. PICK k \in DOMAIN s : s[k] = t /\ k = CHOOSE j \in DOMAIN s : s[j] = t
  BY DEF Elems
<1>2. Unlinked(s, t) = Cut(s, k)
  BY <1>1 DEF Unlinked, Cut
<1>3. LET u == Cut(s, k)
      IN  u \in Seq(Threads) /\ Elems(u) = Elems(s) \ {s[k]} /\ Distinct(u) /\ Len(u) = Len(s) - 1
  BY CutList
<1>4. QED
  BY <1>1, <1>2, <1>3

\* A change of the level of a thread that is on no list.
LEMMA RetuneOther ==
  ASSUME SchedInv, NEW t \in Threads, NEW pol \in SchedPolicies,
         ~on_rq[t], \A d \in Cpus : Waking(d) => wk[d].t # t,
         policy' = [policy EXCEPT ![t] = pol],
         UNCHANGED <<state, on_rq, on_cpu, cpu, holds, pc, puts, curr, bkl, last, wk, load>>,
         UNCHANGED <<runqueue, rq_bitmap, nr_running, need_resched, rq_lock>>
  PROVE  SchedInv'
<1> USE DEF SchedInv
<1>1. ThreadTypes' /\ CpuTypes'
  BY DEF SchedTypeOK, ThreadTypes, CpuTypes
<1>21. CpuInv'
  BY DEF CpuInv
<1>22. PcInv'
  BY DEF PcInv
<1>2. CpuInv' /\ PcInv'
  BY <1>21, <1>22
<1>3. /\ \A v : v # t => Prio(v)' = Prio(v)
      /\ \A v, d : v # t => (On(v, d)' <=> On(v, d))
  BY SMTT(60), Z3T(60) DEF Prio, On, SchedTypeOK, ThreadTypes
<1>4. Prio(t)' \in Prios
  BY Constants DEF Prio
<1>5. \A d \in Cpus, q \in Prios : t \notin Elems(runqueue[d][q])
  BY SMTT(60), Z3T(60) DEF QueueInv, Waking, Linking
<1>6. \A d \in Cpus : ~On(t, d)'
  BY <1>4, <1>5 DEF On
<1>7. \A d \in Cpus : Waking(d)' = Waking(d) /\ UnderBkl(d)' = UnderBkl(d)
  BY DEF Waking, UnderBkl
<1>8. WakeInv'
  <2>1. ASSUME NEW d \in Cpus, Waking(d) PROVE Activating(d)' /\ \A e \in Cpus \ {d} : Waking(e) => Apart(d, e)'
    <3>1. Activating(d) /\ wk[d].t # t
      BY <2>1 DEF WakeInv
    <3>2. On(wk[d].t, wk[d].dst)' <=> On(wk[d].t, wk[d].dst)
      BY <1>3, <3>1
    <3>3. Activating(d)'
      BY <1>7, <3>1, <3>2 DEF Activating
    <3>4. QED
      BY <2>1, <3>3 DEF WakeInv, Apart
  <2>2. QED
    BY <1>7, <2>1 DEF WakeInv
<1>9. QueueInv'
  <2>1. ASSUME NEW d \in Cpus, NEW q \in Prios, NEW v \in Elems(runqueue[d][q])
        PROVE  /\ q = Prio(v)' /\ state[v] = "R" /\ ~on_cpu[v]
               /\ \/ on_rq[v] /\ cpu[v] = d
                  \/ \E e \in Cpus : wk[e].at \in Linking /\ wk[e].t = v /\ wk[e].dst = d
    BY SMTT(60), Z3T(60), <1>3, <1>5, <2>1 DEF QueueInv
  <2>2. \A v \in Threads : on_rq[v] => v # t /\ state[v] = "R" /\ ~on_cpu[v] /\ \E d \in Cpus : On(v, d)
    BY DEF QueueInv
  <2>3. \A v \in Threads : \A d, e \in Cpus : On(v, d)' /\ On(v, e)' => d = e
    BY SMTT(60), Z3T(60), <1>3, <1>6 DEF QueueInv
  <2>4. \A v \in Threads : on_rq[v] => \E d \in Cpus : On(v, d)'
    BY <1>3, <2>2
  <2>5. (\A d \in Cpus, q \in Prios : Distinct(runqueue[d][q]))'
    BY DEF QueueInv
  <2>6. (\A d \in Cpus, q \in Prios : \A v \in Elems(runqueue[d][q]) :
          /\ q = Prio(v) /\ state[v] = "R" /\ ~on_cpu[v]
          /\ \/ on_rq[v] /\ cpu[v] = d
             \/ \E e \in Cpus : wk[e].at \in Linking /\ wk[e].t = v /\ wk[e].dst = d)'
    BY SMTT(60), Z3T(60), <2>1
  <2>7. QED
    BY <2>2, <2>3, <2>4, <2>5, <2>6 DEF QueueInv
<1>10. BitsInv'
  <2>1. \A d \in Cpus : Lags(d)' = Lags(d) /\ Linked3(d)' = Linked3(d)
    BY DEF Lags, Linked3, Count3
  <2>2. \A d \in Cpus : wk[d].at = "bits" => Prio(wk[d].t)' = Prio(wk[d].t)
    BY <1>3 DEF Waking
  <2>3. ASSUME NEW d \in Cpus PROVE BitmapLag(d)'
    BY SMTT(60), Z3T(60), <2>2 DEF BitsInv, BitmapLag
  <2>4. ASSUME NEW d \in Cpus PROVE CountLag(d)'
    BY <2>1 DEF BitsInv, CountLag
  <2>5. QED
    BY <2>3, <2>4 DEF BitsInv
<1>11. LostInv'
  BY <1>7 DEF LostInv, NoLostThread
<1>12. QED
  BY <1>1, <1>2, <1>8, <1>9, <1>10, <1>11 DEF SchedTypeOK

\* t is on the list of level p of run queue r and on no other list.
OnlyOn(rqs, t, r, p) ==
    /\ t \in Elems(rqs[r][p])
    /\ \A d \in Cpus, q \in Prios : t \in Elems(rqs[d][q]) => d = r /\ q = p
AllDistinct(rqs) == \A d \in Cpus, q \in Prios : Distinct(rqs[d][q])
RequeuedAt(rqs, r, t, old, new) == [rqs EXCEPT ![r] = Requeued(rqs[r], t, old, new)]

\* What requeueing t on run queue r makes of the lists.
Moved(rqs, res, t, r, old, new) ==
    /\ res \in Lists /\ AllDistinct(res)
    /\ \A d \in Cpus, q \in Prios :
         Elems(res[d][q]) = (Elems(rqs[d][q]) \ {t}) \cup (IF d = r /\ q = new THEN {t} ELSE {})
    /\ \A d \in Cpus : Count3(res, d) = Count3(rqs, d)
    /\ Unlinked(rqs[r][old], t) = <<>> <=> Elems(rqs[r][old]) = {t}

\* dequeue, then enqueue: t moves to the new level, all else stays.
LEMMA RequeuedLists ==
  ASSUME NEW rqs \in Lists, NEW r \in Cpus, NEW old \in Prios, NEW new \in Prios, NEW t \in Threads,
         OnlyOn(rqs, t, r, old), AllDistinct(rqs)
  PROVE  Moved(rqs, RequeuedAt(rqs, r, t, old, new), t, r, old, new)
<1> DEFINE res == RequeuedAt(rqs, r, t, old, new)
<1> HIDE DEF res
<1>1. PICK s \in Seq(Threads) : s = rqs[r][old] /\ t \in Elems(s) /\ Distinct(s)
  BY DEF Lists, OnlyOn, AllDistinct
<1>2. PICK cut \in Seq(Threads) : /\ cut = Unlinked(s, t) /\ Distinct(cut) /\ Len(cut) = Len(s) - 1
                                  /\ Elems(cut) = Elems(s) \ {t}
  <2>1. LET v == Unlinked(s, t)
        IN  v \in Seq(Threads) /\ Distinct(v) /\ Len(v) = Len(s) - 1 /\ Elems(v) = Elems(s) \ {t}
    BY <1>1, UnlinkedList
  <2>2. QED
    BY <2>1
<1>3. PICK mid \in Lists : /\ mid = SetList(rqs, r, old, cut) /\ mid[r][old] = cut
                           /\ \A d \in Cpus, q \in Prios : d # r \/ q # old => mid[d][q] = rqs[d][q]
  <2>1. LET v == SetList(rqs, r, old, cut)
        IN  /\ v \in Lists /\ v[r][old] = cut
            /\ \A d \in Cpus, q \in Prios : d # r \/ q # old => v[d][q] = rqs[d][q]
    BY SMTT(60), Z3T(60), ListReplaced
  <2>2. QED
    BY <2>1
<1>4. \A d \in Cpus, q \in Prios : Elems(mid[d][q]) = Elems(rqs[d][q]) \ {t}
  <2>1. Elems(mid[r][old]) = Elems(rqs[r][old]) \ {t}
    BY <1>1, <1>2, <1>3
  <2>2. \A d \in Cpus, q \in Prios : d # r \/ q # old => Elems(mid[d][q]) = Elems(rqs[d][q]) \ {t}
    BY <1>3 DEF OnlyOn
  <2>3. QED
    BY <2>1, <2>2
<1>5. \A d \in Cpus, q \in Prios : Distinct(mid[d][q])
  <2>1. \A d \in Cpus, q \in Prios : d # r \/ q # old => Distinct(mid[d][q])
    BY <1>3 DEF AllDistinct
  <2>2. QED
    BY <1>2, <1>3, <2>1
<1>6. PICK w \in Seq(Threads) : w = mid[r][new] /\ Distinct(w) /\ t \notin Elems(w)
  <2>1. mid[r][new] \in Seq(Threads)
    BY DEF Lists
  <2>2. QED
    BY <1>4, <1>5, <2>1
<1>7. PICK u \in Seq(Threads) : /\ u = Append(w, t) /\ Distinct(u) /\ Len(u) = Len(w) + 1
                                /\ Elems(u) = Elems(w) \cup {t}
  <2>1. LET v == Append(w, t)
        IN  v \in Seq(Threads) /\ Distinct(v) /\ Len(v) = Len(w) + 1 /\ Elems(v) = Elems(w) \cup {t}
    BY SMTT(60), Z3T(60), <1>6, AppendList
  <2>2. QED
    BY <2>1
<1>8. res = SetList(mid, r, new, u)
  <2>1. mid[r] = [rqs[r] EXCEPT ![old] = cut]
    BY <1>3 DEF SetList, Lists
  <2>2. Requeued(rqs[r], t, old, new) = [mid[r] EXCEPT ![new] = u]
    BY <1>1, <1>2, <1>6, <1>7, <2>1 DEF Requeued
  <2>3. mid = [rqs EXCEPT ![r] = mid[r]]
    BY <1>3, <2>1 DEF SetList
  <2>4. DOMAIN rqs = Cpus /\ DOMAIN mid = Cpus
    BY DEF Lists
  <2>5. \A d \in Cpus : d # r => mid[d] = rqs[d]
    BY <2>3, <2>4
  <2>6. res = [d \in Cpus |-> IF d = r THEN [mid[r] EXCEPT ![new] = u] ELSE rqs[d]]
    BY <2>2, <2>4 DEF res, RequeuedAt
  <2>7. SetList(mid, r, new, u) = [d \in Cpus |-> IF d = r THEN [mid[r] EXCEPT ![new] = u] ELSE mid[d]]
    BY <2>4 DEF SetList
  <2>8. QED
    BY <2>5, <2>6, <2>7
<1>9. /\ res \in Lists /\ res[r][new] = u
      /\ \A d \in Cpus, q \in Prios : d # r \/ q # new => res[d][q] = mid[d][q]
  <2>1. LET v == SetList(mid, r, new, u)
        IN  /\ v \in Lists /\ v[r][new] = u
            /\ \A d \in Cpus, q \in Prios : d # r \/ q # new => v[d][q] = mid[d][q]
    BY SMTT(60), Z3T(60), ListReplaced
  <2>2. QED
    BY <1>8, <2>1
<1>10. AllDistinct(res)
  <2>1. \A d \in Cpus, q \in Prios : d # r \/ q # new => Distinct(res[d][q])
    BY <1>5, <1>9
  <2>2. QED
    BY <1>7, <1>9, <2>1 DEF AllDistinct
<1>11. ASSUME NEW d \in Cpus, NEW q \in Prios
       PROVE  Elems(res[d][q]) = (Elems(rqs[d][q]) \ {t}) \cup (IF d = r /\ q = new THEN {t} ELSE {})
  <2>1. CASE d = r /\ q = new
    BY <1>4, <1>6, <1>7, <1>9, <2>1
  <2>2. CASE ~(d = r /\ q = new)
    <3>1. res[d][q] = mid[d][q]
      BY <1>9, <2>2
    <3>2. QED
      BY <1>4, <2>2, <3>1
  <2>3. QED
    BY <2>1, <2>2
<1>12. \A d \in Cpus : Count3(res, d) = Count3(rqs, d)
  <2>1. /\ Count3(mid, r) + Len(s) = Count3(rqs, r) + Len(cut)
        /\ Count3(mid, r) \in Nat /\ Len(s) \in Nat /\ Len(cut) \in Nat
        /\ \A e \in Cpus : Count3(rqs, e) \in Nat
        /\ \A e \in Cpus : e # r => Count3(mid, e) = Count3(rqs, e)
    <3>1. LET v == SetList(rqs, r, old, cut)
          IN  /\ Count3(v, r) + Len(rqs[r][old]) = Count3(rqs, r) + Len(cut)
              /\ Count3(v, r) \in Nat /\ Len(rqs[r][old]) \in Nat /\ Len(cut) \in Nat
              /\ \A e \in Cpus : Count3(rqs, e) \in Nat
              /\ \A e \in Cpus : e # r => Count3(v, e) = Count3(rqs, e)
      <4>1. rqs \in Lists /\ r \in Cpus /\ old \in Prios /\ cut \in Seq(Threads)
        BY <1>2
      <4>2. QED
        BY <4>1, CountReplaced, ZenonT(60)
    <3>2. QED
      BY <1>1, <1>3, <3>1
  <2>2. /\ Count3(res, r) + Len(w) = Count3(mid, r) + Len(u)
        /\ Count3(res, r) \in Nat /\ Len(w) \in Nat /\ Len(u) \in Nat
        /\ \A e \in Cpus : e # r => Count3(res, e) = Count3(mid, e)
    <3>1. LET v == SetList(mid, r, new, u)
          IN  /\ Count3(v, r) + Len(mid[r][new]) = Count3(mid, r) + Len(u)
              /\ Count3(v, r) \in Nat /\ Len(mid[r][new]) \in Nat /\ Len(u) \in Nat
              /\ \A e \in Cpus : e # r => Count3(v, e) = Count3(mid, e)
      BY SMTT(60), Z3T(60), CountReplaced
    <3>2. QED
      BY <1>6, <1>8, <3>1
  <2>3. Count3(res, r) = Count3(rqs, r)
    <3>1. Len(cut) = Len(s) - 1 /\ Len(u) = Len(w) + 1 /\ Count3(rqs, r) \in Nat
      BY <1>2, <1>7, <2>1
    <3>2. QED
      BY SMTT(60), Z3T(60), <2>1, <2>2, <3>1
  <2>4. QED
    BY <2>1, <2>2, <2>3
<1>13. Unlinked(rqs[r][old], t) = <<>> <=> Elems(rqs[r][old]) = {t}
  <2>1. cut = <<>> <=> Elems(cut) = {}
    BY EmptyList
  <2>2. QED
    BY <1>1, <1>2, <2>1
<1>14. QED
  BY <1>9, <1>10, <1>11, <1>12, <1>13 DEF res, Moved

\* A change of the level of a queued thread.
LEMMA RetuneQueued ==
  ASSUME SchedInv, NEW c \in Cpus, NEW me \in Threads, NEW t \in Threads, NEW pol \in Policies,
         UNCHANGED load, sched_setscheduler(c, me, t, pol), on_rq[t], \A d \in Cpus : ~Waking(d)
  PROVE  SchedInv'
<1> USE DEF SchedInv
<1>1. /\ UNCHANGED <<state, on_rq, on_cpu, cpu, holds, pc, puts, curr, bkl, last, wk, load>>
      /\ UNCHANGED <<nr_running, rq_lock>>
      /\ need_resched' \in [Cpus -> BOOLEAN] /\ policy' \in [Threads -> SchedPolicies]
      /\ policy' = [policy EXCEPT ![t] = pol]
  BY Constants DEF sched_setscheduler, SchedTypeOK, CpuTypes, ThreadTypes
<1>2. PICK r \in Cpus, old \in Prios, new \in Prios : r = cpu[t] /\ old = Prio(t) /\ new = compute_prio(pol)
  BY Constants DEF SchedTypeOK, ThreadTypes, Prio
<1>3. /\ t \in Elems(runqueue[r][old])
      /\ \A d \in Cpus, q \in Prios : t \in Elems(runqueue[d][q]) => d = r /\ q = old
      /\ state[t] = "R" /\ ~on_cpu[t]
  BY SMTT(60), Z3T(60), <1>2, FlaggedIsThere DEF QueueInv
<1>4. /\ runqueue' = [runqueue EXCEPT ![r] = Requeued(runqueue[r], t, old, new)]
      /\ rq_bitmap' = [rq_bitmap EXCEPT ![r] = RequeuedBits(runqueue[r], rq_bitmap[r], t, old, new)]
      /\ runqueue \in Lists
  BY <1>2 DEF sched_setscheduler, SchedTypeOK, CpuTypes, Lists
<1>5. /\ runqueue' \in Lists
      /\ \A d \in Cpus, q \in Prios : Distinct(runqueue'[d][q])
      /\ \A d \in Cpus, q \in Prios :
           Elems(runqueue'[d][q]) = (Elems(runqueue[d][q]) \ {t}) \cup (IF d = r /\ q = new THEN {t} ELSE {})
      /\ \A d \in Cpus : Count3(runqueue', d) = Count3(runqueue, d)
      /\ Unlinked(runqueue[r][old], t) = <<>> <=> Elems(runqueue[r][old]) = {t}
  <2>1. AllDistinct(runqueue) /\ OnlyOn(runqueue, t, r, old)
    BY <1>3 DEF QueueInv, AllDistinct, OnlyOn
  <2>2. runqueue' = RequeuedAt(runqueue, r, t, old, new)
    BY <1>4 DEF RequeuedAt
  <2>3. Moved(runqueue, runqueue', t, r, old, new)
    <3>1. runqueue \in Lists
      BY <1>4
    <3>2. Moved(runqueue, RequeuedAt(runqueue, r, t, old, new), t, r, old, new)
      BY <2>1, <3>1, RequeuedLists
    <3>3. QED
      BY <2>2, <3>2
  <2>4. QED
    BY <2>3 DEF Moved, AllDistinct
<1>6. /\ \A v \in Threads, d \in Cpus, q \in Prios :
           v # t => (v \in Elems(runqueue'[d][q]) <=> v \in Elems(runqueue[d][q]))
      /\ \A d \in Cpus, q \in Prios : t \in Elems(runqueue'[d][q]) <=> d = r /\ q = new
  <2>1. ASSUME NEW d \in Cpus, NEW q \in Prios, d = r /\ q = new
        PROVE  Elems(runqueue'[d][q]) = (Elems(runqueue[d][q]) \ {t}) \cup {t}
    BY <1>5, <2>1
  <2>2. ASSUME NEW d \in Cpus, NEW q \in Prios, ~(d = r /\ q = new)
        PROVE  Elems(runqueue'[d][q]) = Elems(runqueue[d][q]) \ {t}
    BY SMTT(60), Z3T(60), <1>5, <2>2
  <2>3. QED
    BY SMTT(60), Z3T(60), <2>1, <2>2
<1>7. /\ \A v \in Threads : v # t => Prio(v)' = Prio(v)
      /\ Prio(t)' = new
      /\ \A v : Prio(v) \in Prios
  BY <1>1, <1>2, Constants DEF Prio, SchedTypeOK, ThreadTypes
<1>8. /\ \A v \in Threads, d \in Cpus : v # t => (On(v, d)' <=> On(v, d))
      /\ \A d \in Cpus : On(t, d)' <=> d = r
  BY <1>6, <1>7 DEF On
<1>9. \A d \in Cpus : ~Waking(d)' /\ wk[d].at = "none"
  BY <1>1 DEF Waking
<1>10. /\ rq_bitmap'[r] = (IF Elems(runqueue[r][old]) = {t} THEN rq_bitmap[r] \ {old} ELSE rq_bitmap[r]) \cup {new}
       /\ rq_bitmap' \in [Cpus -> SUBSET Prios] /\ \A d \in Cpus : d # r => rq_bitmap'[d] = rq_bitmap[d]
  BY SMTT(60), Z3T(60), <1>4, <1>5 DEF RequeuedBits, SchedTypeOK, CpuTypes
<1>11. ThreadTypes' /\ CpuTypes'
  BY <1>1, <1>5, <1>10 DEF SchedTypeOK, ThreadTypes, CpuTypes, Lists
<1>121. CpuInv'
  BY <1>1 DEF CpuInv
<1>122. PcInv'
  BY <1>1 DEF PcInv
<1>12. CpuInv' /\ PcInv' /\ WakeInv'
  BY <1>9, <1>121, <1>122 DEF WakeInv
<1>13. QueueInv'
  <2>1. \A d \in Cpus, q \in Prios : Elems(runqueue'[d][q]) \subseteq Threads
    BY <1>5, EmptyLists
  <2>2. ASSUME NEW d \in Cpus, NEW q \in Prios, NEW v \in Elems(runqueue'[d][q])
        PROVE  q = Prio(v)' /\ state[v] = "R" /\ ~on_cpu[v] /\ on_rq[v] /\ cpu[v] = d
    <3>1. CASE v = t
      BY <1>2, <1>3, <1>6, <1>7, <2>2, <3>1
    <3>2. CASE v # t
      <4>1. v \in Threads /\ v \in Elems(runqueue[d][q])
        BY <1>6, <2>1, <2>2, <3>2
      <4>2. QED
        BY SMTT(60), Z3T(60), <1>7, <1>9, <3>2, <4>1 DEF QueueInv, Linking
    <3>3. QED
      BY <3>1, <3>2
  <2>3. \A v \in Threads : on_rq[v] => state[v] = "R" /\ ~on_cpu[v] /\ \E d \in Cpus : On(v, d)
    BY DEF QueueInv
  <2>4. \A v \in Threads : on_rq[v] => \E d \in Cpus : On(v, d)'
    BY <1>8, <2>3
  <2>5. \A v \in Threads : \A d, e \in Cpus : On(v, d)' /\ On(v, e)' => d = e
    BY SMTT(60), Z3T(60), <1>8 DEF QueueInv
  <2>6. \A d \in Cpus, q \in Prios : Distinct(runqueue'[d][q])
    BY <1>5
  <2>7. QED
    <3>1. (\A d \in Cpus, q \in Prios : \A v \in Elems(runqueue[d][q]) :
             /\ q = Prio(v) /\ state[v] = "R" /\ ~on_cpu[v]
             /\ \/ on_rq[v] /\ cpu[v] = d
                \/ \E e \in Cpus : wk[e].at \in Linking /\ wk[e].t = v /\ wk[e].dst = d)'
      BY SMTT(60), Z3T(60), <1>1, <2>2
    <3>2. (\A v \in Threads : on_rq[v] => state[v] = "R" /\ ~on_cpu[v] /\ \E d \in Cpus : On(v, d))'
      BY <1>1, <2>3, <2>4
    <3>3. QED
      BY <2>5, <2>6, <3>1, <3>2 DEF QueueInv
<1>14. BitsInv'
  <2>1. \A d \in Cpus : ~Lags(d) /\ ~Lags(d)'
    BY <1>1, <1>9 DEF Lags
  <2>2. \A d \in Cpus, q \in Prios : runqueue[d][q] = <<>> <=> Elems(runqueue[d][q]) = {}
    BY <1>4, EmptyLists
  <2>3. \A d \in Cpus, q \in Prios : runqueue'[d][q] = <<>> <=> Elems(runqueue'[d][q]) = {}
    BY <1>5, EmptyLists
  <2>4. \A d \in Cpus, q \in Prios : q \in rq_bitmap[d] <=> Elems(runqueue[d][q]) # {}
    BY SMTT(60), Z3T(60), <1>9, <2>2 DEF BitsInv, BitmapLag
  <2>5. ASSUME NEW d \in Cpus, NEW q \in Prios PROVE q \in rq_bitmap'[d] <=> Elems(runqueue'[d][q]) # {}
    <3>1. CASE d # r
      <4>1. t \notin Elems(runqueue[d][q]) /\ Elems(runqueue'[d][q]) = Elems(runqueue[d][q]) \ {t}
        BY SMTT(60), Z3T(60), <1>3, <1>5, <3>1
      <4>2. QED
        BY SMTT(60), Z3T(60), <1>10, <2>4, <3>1, <4>1
    <3>2. CASE d = r /\ q = new
      BY <1>6, <1>10, <3>2
    <3>3. CASE d = r /\ q # new /\ q # old
      <4>1. t \notin Elems(runqueue[d][q]) /\ Elems(runqueue'[d][q]) = Elems(runqueue[d][q]) \ {t}
        BY SMTT(60), Z3T(60), <1>3, <1>5, <3>3
      <4>2. q \in rq_bitmap'[r] <=> q \in rq_bitmap[r]
        BY <1>10, <3>3
      <4>3. QED
        BY <2>4, <3>3, <4>1, <4>2
    <3>4. CASE d = r /\ q # new /\ q = old
      <4>1. Elems(runqueue'[r][old]) = Elems(runqueue[r][old]) \ {t}
        BY SMTT(60), Z3T(60), <1>5, <3>4
      <4>2. old \in rq_bitmap'[r] <=> Elems(runqueue[r][old]) # {t}
        BY <1>3, <1>10, <2>4, <3>4
      <4>3. QED
        BY <1>3, <3>4, <4>1, <4>2
    <3>5. QED
      BY <3>1, <3>2, <3>3, <3>4
  <2>6. \A d : Linked3(d)' = Count3(runqueue', d) /\ Linked3(d) = Count3(runqueue, d)
    BY DEF Linked3, Count3
  <2>7. ASSUME NEW d \in Cpus PROVE CountLag(d)'
    BY <1>1, <1>5, <2>1, <2>6 DEF BitsInv, CountLag
  <2>8. ASSUME NEW d \in Cpus PROVE BitmapLag(d)'
    BY <2>3, <2>5 DEF BitmapLag
  <2>9. QED
    BY <2>7, <2>8 DEF BitsInv
<1>15. LostInv'
  BY <1>1, <1>9 DEF LostInv, NoLostThread, Waking
<1>16. QED
  BY <1>11, <1>12, <1>13, <1>14, <1>15 DEF SchedTypeOK

\* sched_setscheduler: with interrupts that wake, a thread changes only its own
\* policy; otherwise nobody is activating.
LEMMA RetuneStep ==
  ASSUME SchedInv, NEW c \in Cpus, NEW me \in Threads, NEW t \in Threads, NEW pol \in Policies,
         UNCHANGED load, sched_setscheduler(c, me, t, pol)
  PROVE  SchedInv'
<1> USE DEF SchedInv
<1>1. /\ Runs(c, me) /\ pc[me] = "kern" /\ holds[me] /\ (t = me \/ t \in Retunable)
      /\ policy' = [policy EXCEPT ![t] = pol] /\ pol \in SchedPolicies
      /\ UNCHANGED <<state, on_rq, on_cpu, cpu, holds, pc, puts, curr, bkl, last, wk, load>>
      /\ UNCHANGED <<nr_running, rq_lock>>
  BY Constants DEF sched_setscheduler
<1>2. on_cpu[me] /\ ~on_rq[me]
  BY <1>1, RunningThread DEF QueueInv
<1>3. t = me \/ \A d \in Cpus : ~Waking(d)
  <2>1. load # "irq" => load = "retune"
    BY DEF SchedTypeOK, ThreadTypes
  <2>2. QED
    BY <1>1, <2>1, NobodyWakes DEF Retunable
<1>4. CASE on_rq[t]
  BY <1>2, <1>3, <1>4, RetuneQueued
<1>5. CASE ~on_rq[t]
  <2>1. UNCHANGED <<runqueue, rq_bitmap, need_resched>>
    BY <1>5 DEF sched_setscheduler
  <2>2. \A d \in Cpus : Waking(d) => wk[d].t # t
    BY SMTT(60), Z3T(60), <1>2, <1>3 DEF WakeInv, Activating
  <2>3. QED
    BY <1>1, <1>5, <2>1, <2>2, RetuneOther
<1>6. QED
  BY <1>4, <1>5
=============================================================================
