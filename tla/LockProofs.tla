----------------------------- MODULE LockProofs -----------------------------
(***************************************************************************)
(* Three locks.                                                            *)
(*                                                                         *)
(* The sleeping mutex excludes and strands nobody, for any set of threads. *)
(* MutexInv adds to the properties what ties the wait queue to the program *)
(* counters: the scanning thread is the one that holds wq->lock, what is   *)
(* still to be scanned is on the queue, and the queue holds exactly the    *)
(* threads inside wait_event, each of them once.                           *)
(*                                                                         *)
(* The mount's lock in userfs is held while a message is away; with it the *)
(* sizes the kernel has are the server's.                                  *)
(*                                                                         *)
(* The ticket spinlock excludes, records its holder, loses no event and is *)
(* fair, for every number of CPUs below the number of ticket values.       *)
(* SpinInv counts the tickets between the two counters.                    *)
(***************************************************************************)
EXTENDS Spinlock, Mutex, Userfs, TLAPS

\* Leaves that name no prover go to Zenon; those that need arithmetic, records
\* or function updates name SMT.  They name Z3 too: tlapm allows itself 5 seconds
\* to encode a leaf, overruns them now and then, and then tries the next name.
USE ZenonT(40)

-----------------------------------------------------------------------------
\* The thread in wake_up_one's loop is the holder of wq->lock.
ScannerLocks == \A t \in Threads : pc[t] = "scan" <=> wq_lock = t

\* What the scan has still to look at is linked, and without the lock there is
\* nothing to look at.
ScanLinked ==
    /\ \A i \in DOMAIN scan : InQueue(scan[i])
    /\ wq_lock = None => scan = <<>>

MutexInv ==
    /\ TypeOK /\ OwnersOnly /\ QueueExact /\ NoStrandedWaiter
    /\ ScannerLocks /\ ScanLinked

-----------------------------------------------------------------------------
\* list_del takes exactly t out of a queue that holds t once.
LEMMA UnlinkedRemoves ==
    ASSUME NEW s \in Seq(Threads), NEW t \in Threads,
           \E i \in DOMAIN s : s[i] = t,
           \A i, j \in DOMAIN s : s[i] = s[j] => i = j
    PROVE  /\ Unlinked(s, t) \in Seq(Threads)
           /\ \A u \in Threads : (\E i \in DOMAIN Unlinked(s, t) : Unlinked(s, t)[i] = u)
                                 <=> (u # t /\ \E i \in DOMAIN s : s[i] = u)
           /\ \A i, j \in DOMAIN Unlinked(s, t) :
                  Unlinked(s, t)[i] = Unlinked(s, t)[j] => i = j
<1> DEFINE k == CHOOSE j \in DOMAIN s : s[j] = t
           r == [j \in 1 .. Len(s) - 1 |-> IF j < k THEN s[j] ELSE s[j + 1]]
<1>1. k \in 1 .. Len(s) /\ s[k] = t /\ Len(s) \in Nat /\ DOMAIN s = 1 .. Len(s)
  BY SMTT(60), Z3T(60)
<1>2. \A j \in 1 .. Len(s) : s[j] \in Threads
  BY SMTT(60), Z3T(60)
<1>3. Unlinked(s, t) = r
  BY DEF Unlinked
<1> HIDE DEF k
<1>4. DOMAIN r = 1 .. Len(s) - 1 /\ \A j \in 1 .. Len(s) - 1 : r[j] \in Threads
  BY SMTT(60), Z3T(60), <1>1, <1>2
<1>5. r \in Seq(Threads)
  <2>1. r \in [1 .. Len(s) - 1 -> Threads]
    BY SMTT(60), Z3T(60), <1>1, <1>2
  <2>2. Len(s) - 1 \in Nat
    BY SMTT(60), Z3T(60), <1>1
  <2>. QED
    BY SMTT(60), Z3T(60), <2>1, <2>2
<1>6. ASSUME NEW u \in Threads
      PROVE  (\E i \in DOMAIN r : r[i] = u) <=> (u # t /\ \E i \in DOMAIN s : s[i] = u)
  <2>1. ASSUME NEW i \in DOMAIN r, r[i] = u
        PROVE  u # t /\ \E j \in DOMAIN s : s[j] = u
    <3>1. CASE i < k
      BY SMTT(60), Z3T(60), <1>1, <2>1, <3>1
    <3>2. CASE ~(i < k)
      BY SMTT(60), Z3T(60), <1>1, <2>1, <3>2
    <3>. QED
      BY <3>1, <3>2
  <2>2. ASSUME u # t, NEW i \in DOMAIN s, s[i] = u
        PROVE  \E j \in DOMAIN r : r[j] = u
    <3>1. CASE i < k
      <4>1. i \in DOMAIN r /\ r[i] = u
        BY SMTT(60), Z3T(60), <1>1, <2>2, <3>1
      <4>. QED
        BY <4>1
    <3>2. CASE i > k
      <4>1. i - 1 \in DOMAIN r /\ r[i - 1] = u
        BY SMTT(60), Z3T(60), <1>1, <2>2, <3>2
      <4>. QED
        BY <4>1
    <3>. QED
      BY SMTT(60), Z3T(60), <1>1, <2>2, <3>1, <3>2
  <2>. QED
    BY <2>1, <2>2
<1>7. ASSUME NEW i \in DOMAIN r, NEW j \in DOMAIN r, r[i] = r[j]
      PROVE  i = j
  <2>1. CASE i < k /\ j < k
    BY SMTT(60), Z3T(60), <1>1, <1>7, <2>1
  <2>2. CASE ~(i < k) /\ ~(j < k)
    BY SMTT(60), Z3T(60), <1>1, <1>7, <2>2
  <2>3. CASE i < k /\ ~(j < k)
    BY SMTT(60), Z3T(60), <1>1, <1>7, <2>3
  <2>4. CASE ~(i < k) /\ j < k
    BY SMTT(60), Z3T(60), <1>1, <1>7, <2>4
  <2>. QED
    BY <2>1, <2>2, <2>3, <2>4
<1> HIDE DEF r
<1>. QED
  BY <1>3, <1>5, <1>6, <1>7

-----------------------------------------------------------------------------
\* An unlocked queue, no owner and no waiter satisfy the invariant.
LEMMA MutexInitInv == Init => MutexInv
  BY SMTT(60), Z3T(60), WaitAssumption DEF Init, WqInit, MutexInv, TypeOK, WqTypeOK, OwnersOnly, QueueExact,
     NoStrandedWaiter, ScannerLocks, ScanLinked, InQueue, PCs

\* The steps of mutex_lock and mutex_unlock keep the variables in their types.
LEMMA TypeStep == ASSUME MutexInv, [Next]_vars PROVE TypeOK'
<1> USE DEF MutexInv, TypeOK, WqTypeOK, PCs, Goto
<1>1. CASE UNCHANGED vars
  BY <1>1 DEF vars, wq_vars
<1>2. ASSUME NEW t \in Threads, mutex_lock(t) \/ Try(t) \/ Woken(t) \/ Release(t)
      PROVE  TypeOK'
  BY <1>2 DEF mutex_lock, Try, mutex_try, Woken, Release, wq_vars
<1>3. ASSUME NEW t \in Threads, Prepare(t)
      PROVE  TypeOK'
  <2>1. queue' \in Seq(Threads)
    BY SMTT(60), Z3T(60), <1>3 DEF Prepare, prepare_to_wait
  <2>. QED
    BY <1>3, <2>1 DEF Prepare, prepare_to_wait
<1>4. ASSUME NEW t \in Threads, FinishState(t) \/ WakeBegin(t) \/ WakeEnd(t) \/ Stray(t)
      PROVE  TypeOK'
  BY <1>4 DEF FinishState, finish_state, WakeBegin, wake_begin, WakeEnd, wake_end,
     Stray, stray_wake
<1>5. ASSUME NEW t \in Threads, FinishUnlink(t)
      PROVE  TypeOK'
  <2>1. queue' \in Seq(Threads)
    BY <1>5, UnlinkedRemoves DEF FinishUnlink, finish_unlink, InQueue, QueueExact
  <2>. QED
    BY <1>5, <2>1 DEF FinishUnlink, finish_unlink
<1>6. ASSUME NEW t \in Threads, WakeNext(t)
      PROVE  TypeOK'
  <2>1. scan' \in Seq(Threads)
    BY SMTT(60), Z3T(60), <1>6 DEF WakeNext, wake_next
  <2>. QED
    BY <1>6, <2>1 DEF WakeNext, wake_next
<1>. QED
  BY <1>1, <1>2, <1>3, <1>4, <1>5, <1>6 DEF Next, Lock, Unlock

\* Only the winner of mutex_try passes it, and only mutex_unlock gives back.
LEMMA OwnersStep == ASSUME MutexInv, [Next]_vars PROVE OwnersOnly'
<1> USE WaitAssumption DEF MutexInv, TypeOK, WqTypeOK, PCs, Goto, OwnersOnly
<1>1. CASE UNCHANGED vars
  BY <1>1 DEF vars, wq_vars
<1>2. ASSUME NEW t \in Threads, mutex_lock(t) \/ Prepare(t) \/ Woken(t) \/ Release(t) \/ Stray(t)
      PROVE  OwnersOnly'
  BY SMTT(60), Z3T(60), <1>2 DEF mutex_lock, Prepare, Woken, Release, Stray
<1>3. ASSUME NEW t \in Threads, Try(t)
      PROVE  OwnersOnly'
  BY SMTT(60), Z3T(60), <1>3 DEF Try, mutex_try
<1>4. ASSUME NEW t \in Threads, FinishState(t) \/ FinishUnlink(t)
      PROVE  OwnersOnly'
  BY <1>4 DEF FinishState, FinishUnlink
<1>5. ASSUME NEW t \in Threads, WakeBegin(t) \/ WakeNext(t) \/ WakeEnd(t)
      PROVE  OwnersOnly'
  BY <1>5 DEF WakeBegin, WakeNext, WakeEnd
<1>. QED
  BY <1>1, <1>2, <1>3, <1>4, <1>5 DEF Next, Lock, Unlock

\* The queue changes only at prepare_to_wait and finish_wait.
LEMMA QueueStep == ASSUME MutexInv, [Next]_vars PROVE QueueExact'
<1> USE DEF MutexInv, TypeOK, WqTypeOK, PCs, Goto, QueueExact, InQueue
<1>1. CASE UNCHANGED vars
  BY <1>1 DEF vars, wq_vars
<1>2. ASSUME NEW t \in Threads, mutex_lock(t) \/ Try(t) \/ Woken(t) \/ Release(t)
      PROVE  QueueExact'
  BY SMTT(60), Z3T(60), <1>2 DEF mutex_lock, Try, Woken, Release, wq_vars
<1>3. ASSUME NEW t \in Threads, Prepare(t), InQueue(t)
      PROVE  QueueExact'
  BY <1>3 DEF Prepare, prepare_to_wait
<1>4. ASSUME NEW t \in Threads, Prepare(t), ~InQueue(t)
      PROVE  QueueExact'
  <2>1. /\ queue' = Append(queue, t) /\ DOMAIN queue = 1 .. Len(queue) /\ Len(queue) \in Nat
        /\ DOMAIN queue' = 1 .. Len(queue) + 1
        /\ queue'[Len(queue) + 1] = t
        /\ \A i \in 1 .. Len(queue) : queue'[i] = queue[i]
    BY SMTT(60), Z3T(60), <1>4 DEF Prepare, prepare_to_wait
  <2>2. pc' = [pc EXCEPT ![t] = "try"]
    BY <1>4 DEF Prepare
  <2>3. \A u \in Threads : InQueue(u)' <=> InQueue(u) \/ u = t
    BY SMTT(60), Z3T(60), <2>1
  <2>4. \A i, j \in DOMAIN queue' : queue'[i] = queue'[j] => i = j
    BY SMTT(60), Z3T(60), <1>4, <2>1
  <2>. QED
    BY <1>4, <2>2, <2>3, <2>4
<1>5. ASSUME NEW t \in Threads, FinishState(t) \/ WakeBegin(t) \/ WakeNext(t) \/ WakeEnd(t) \/ Stray(t)
      PROVE  QueueExact'
  BY SMTT(60), Z3T(60), <1>5 DEF FinishState, finish_state, WakeBegin, wake_begin, WakeNext, wake_next,
     WakeEnd, wake_end, Stray, stray_wake
<1>6. ASSUME NEW t \in Threads, FinishUnlink(t)
      PROVE  QueueExact'
  <2>1. pc[t] = "unlink" /\ InQueue(t) /\ pc' = [pc EXCEPT ![t] = "in"]
    BY <1>6 DEF FinishUnlink
  <2>2. queue' = Unlinked(queue, t)
    BY <1>6, <2>1 DEF FinishUnlink, finish_unlink
  <2> DEFINE q == Unlinked(queue, t)
  <2>4. /\ \A u \in Threads : (\E i \in DOMAIN q : q[i] = u)
                                <=> u # t /\ (\E i \in DOMAIN queue : queue[i] = u)
        /\ \A i, j \in DOMAIN q : q[i] = q[j] => i = j
    BY <2>1, UnlinkedRemoves
  <2>5. queue' = q
    BY <2>2
  <2> HIDE DEF q
  <2>3. /\ \A u \in Threads : InQueue(u)' <=> u # t /\ InQueue(u)
        /\ \A i, j \in DOMAIN queue' : queue'[i] = queue'[j] => i = j
    BY <2>4, <2>5
  <2>6. pc'[t] = "in" /\ \A u \in Threads : u # t => pc'[u] = pc[u]
    BY <2>1
  <2>7. \A u \in Threads : pc'[u] \in {"try", "sleep", "won", "unlink"} => InQueue(u)'
    BY <2>3, <2>6, SMTT(60), Z3T(60)
  <2>8. \A u \in Threads : pc'[u] \in {"out", "in", "wake", "scan"} => ~InQueue(u)'
    BY <2>3, <2>6
  <2>. QED
    BY <2>3, <2>7, <2>8
<1>. QED
  BY <1>1, <1>2, <1>3, <1>4, <1>5, <1>6 DEF Next, Lock, Unlock

\* A scan begins and ends with wq->lock and looks at linked waiters only,
\* because nobody joins or leaves the queue while the lock is held.
LEMMA ScanStep == ASSUME MutexInv, [Next]_vars PROVE ScannerLocks' /\ ScanLinked'
<1> USE WaitAssumption DEF MutexInv, TypeOK, WqTypeOK, PCs, Goto, ScannerLocks, ScanLinked
<1>1. CASE UNCHANGED vars
  BY <1>1 DEF vars, wq_vars, InQueue
<1>2. ASSUME NEW t \in Threads, mutex_lock(t) \/ Try(t) \/ Woken(t) \/ Release(t)
      PROVE  ScannerLocks' /\ ScanLinked'
  BY SMTT(60), Z3T(60), <1>2 DEF mutex_lock, Try, Woken, Release, wq_vars, InQueue
<1>3. ASSUME NEW t \in Threads, FinishState(t) \/ Stray(t)
      PROVE  ScannerLocks' /\ ScanLinked'
  BY SMTT(60), Z3T(60), <1>3 DEF FinishState, finish_state, Stray, stray_wake, InQueue
<1>4. ASSUME NEW t \in Threads, WakeBegin(t)
      PROVE  ScannerLocks' /\ ScanLinked'
  BY <1>4 DEF WakeBegin, wake_begin, InQueue
<1>5. ASSUME NEW t \in Threads, WakeNext(t)
      PROVE  ScannerLocks' /\ ScanLinked'
  <2>1. scan' = <<>> \/ scan' = Tail(scan)
    BY <1>5 DEF WakeNext, wake_next
  <2>2. scan \in Seq(Threads) /\ scan # <<>>
    BY <1>5 DEF WakeNext, wake_next
  <2>3. \A i \in DOMAIN Tail(scan) : \E j \in DOMAIN scan : Tail(scan)[i] = scan[j]
    BY SMTT(60), Z3T(60), <2>2
  <2>4. ScanLinked'
    BY SMTT(60), Z3T(60), <1>5, <2>1, <2>3 DEF WakeNext, wake_next, InQueue
  <2>. QED
    BY <1>5, <2>4 DEF WakeNext, wake_next
<1>6. ASSUME NEW t \in Threads, WakeEnd(t)
      PROVE  ScannerLocks' /\ ScanLinked'
  BY <1>6 DEF WakeEnd, wake_end, InQueue
<1>7. ASSUME NEW t \in Threads, Prepare(t) \/ FinishUnlink(t)
      PROVE  ScannerLocks' /\ ScanLinked'
  BY SMTT(60), Z3T(60), <1>7 DEF Prepare, prepare_to_wait, FinishUnlink, finish_unlink
<1>. QED
  BY <1>1, <1>2, <1>3, <1>4, <1>5, <1>6, <1>7 DEF Next, Lock, Unlock

\* The heart of the matter: whatever wake_up_one spends its wake-up on, a free
\* mutex with a sleeper has somebody who will look at it.
LEMMA StrandedStep == ASSUME MutexInv, [Next]_vars PROVE NoStrandedWaiter'
<1> USE WaitAssumption DEF MutexInv, TypeOK, WqTypeOK, PCs, Goto, NoStrandedWaiter
<1>1. CASE UNCHANGED vars
  BY <1>1 DEF vars, wq_vars, Alert
<1>2. ASSUME NEW t \in Threads, mutex_lock(t) \/ Prepare(t) \/ Woken(t) \/ Release(t)
      PROVE  NoStrandedWaiter'
  BY <1>2 DEF mutex_lock, Prepare, Woken, Release, Alert
<1>3. ASSUME NEW t \in Threads, Try(t)
      PROVE  NoStrandedWaiter'
  BY <1>3 DEF Try, mutex_try
<1>4. ASSUME NEW t \in Threads, FinishState(t) \/ FinishUnlink(t)
      PROVE  NoStrandedWaiter'
  BY <1>4 DEF FinishState, FinishUnlink, OwnersOnly
<1>5. ASSUME NEW t \in Threads, WakeBegin(t),
             owner' = None, NEW s \in Threads, pc'[s] = "sleep"
      PROVE  Alert'
  <2>1. pc[s] = "sleep" /\ s # t /\ pc'[t] = "scan" /\ state' = state /\ scan' = queue
    BY <1>5 DEF WakeBegin, wake_begin
  <2>2. \E i \in DOMAIN queue : queue[i] = s
    BY <2>1 DEF QueueExact, InQueue
  <2>3. CASE state[s] = "R"
    BY <1>5, <2>1, <2>3 DEF Alert
  <2>4. CASE state[s] # "R"
    <3>1. \E i \in DOMAIN scan' : state'[scan'[i]] # "R"
      BY <2>1, <2>2, <2>4
    <3>. QED
      BY <2>1, <3>1 DEF Alert
  <2>. QED
    BY <2>3, <2>4
<1>6. ASSUME NEW t \in Threads, WakeNext(t),
             owner' = None, NEW s \in Threads, pc'[s] = "sleep"
      PROVE  Alert'
  <2> DEFINE h == Head(scan)
  <2>1. /\ owner = None /\ pc' = pc
        /\ scan \in Seq(Threads) /\ scan # <<>>
        /\ state' = [state EXCEPT ![h] = "R"]
    BY <1>6 DEF WakeNext, wake_next
  <2>2. h \in Threads /\ 1 \in DOMAIN scan /\ scan[1] = h
    BY SMTT(60), Z3T(60), <2>1
  <2>3. InQueue(h)
    BY <2>2 DEF ScanLinked
  <2> HIDE DEF h
  <2>4. pc[h] \in {"prepare", "try", "sleep"}
    BY <2>1, <2>2, <2>3 DEF QueueExact, OwnersOnly
  <2>5. state'[h] = "R"
    BY <2>1, <2>2
  <2>. QED
    BY <2>1, <2>2, <2>4, <2>5 DEF Alert
<1>7. ASSUME NEW t \in Threads, WakeEnd(t),
             owner' = None, NEW s \in Threads, pc'[s] = "sleep"
      PROVE  Alert'
  <2>1. /\ owner = None /\ pc[s] = "sleep" /\ scan = <<>> /\ state' = state
        /\ pc[t] = "scan" /\ \A u \in Threads : u # t => pc'[u] = pc[u]
    BY <1>7 DEF WakeEnd, wake_end
  <2>2. PICK u \in Threads :
            \/ pc[u] \in {"prepare", "try", "wake"}
            \/ pc[u] = "sleep" /\ state[u] = "R"
    BY SMTT(60), Z3T(60), <2>1 DEF Alert
  <2>3. u # t
    BY <2>1, <2>2
  <2>. QED
    BY <2>1, <2>2, <2>3 DEF Alert
<1>8. ASSUME NEW t \in Threads, Stray(t),
             owner' = None, NEW s \in Threads, pc'[s] = "sleep"
      PROVE  Alert'
  <2>1. /\ owner = None /\ pc' = pc /\ scan' = scan /\ state' = [state EXCEPT ![t] = "R"]
        /\ pc[t] \in {"try", "sleep", "won"}
    BY <1>8 DEF Stray, stray_wake
  <2>2. pc[t] \in {"try", "sleep"} /\ state'[t] = "R"
    BY <2>1 DEF OwnersOnly
  <2>. QED
    BY <2>1, <2>2 DEF Alert
<1>. QED
  BY <1>1, <1>2, <1>3, <1>4, <1>5, <1>6, <1>7, <1>8 DEF Next, Lock, Unlock

-----------------------------------------------------------------------------
\* The invariant holds throughout mutex_lock and mutex_unlock.
THEOREM MutexInvariant == Spec => []MutexInv
<1>1. MutexInv /\ [Next]_vars => MutexInv'
  BY TypeStep, OwnersStep, QueueStep, ScanStep, StrandedStep DEF MutexInv
<1>. QED
  BY MutexInitInv, <1>1, PTL DEF Spec

\* One owner: whoever is past mutex_try is the thread m->owner names.
THEOREM MutexExcludes == Spec => []OwnersOnly
<1>1. MutexInv => OwnersOnly
  BY DEF MutexInv
<1>. QED
  BY <1>1, MutexInvariant, PTL

\* No lost wake-up: a free mutex with a sleeper always has somebody on the way.
THEOREM MutexStrandsNobody == Spec => []NoStrandedWaiter
<1>1. MutexInv => NoStrandedWaiter
  BY DEF MutexInv
<1>. QED
  BY <1>1, MutexInvariant, PTL

\* Waiters are linked exactly while they are inside wait_event, once each.
THEOREM MutexQueueExact == Spec => []QueueExact
<1>1. MutexInv => QueueExact
  BY DEF MutexInv
<1>. QED
  BY <1>1, MutexInvariant, PTL

-----------------------------------------------------------------------------
(***************************************************************************)
(* userfs: the kernel's sizes are the server's, for any number of clients, *)
(* names, inodes, deaths and stalls.                                       *)
(*                                                                         *)
(* UfsInv follows the one request under way.  Its caller holds s->lock, so *)
(* only that caller's file may differ from what the kernel knows of it,    *)
(* and only between the server's effect and its reply.  Nothing is under   *)
(* way when the lock is free, except at a server that was given up alive;  *)
(* what that one may still do concerns a file marked unsure.               *)
(***************************************************************************)

Sized(op) == op \notin {"lookup", "create", "unlink"}
Opens(op) == op \in {"lookup", "create"}

\* What the kernel knows of a file's size is so.
Agrees(i) == i \in Inos /\ i \notin unsure /\ icache[i].ref > 0 => icache[i].size = disk.size[i]

Shape ==
    /\ clients = [c \in Clients |-> clients[c]] /\ icache = [i \in Inos |-> icache[i]]
    /\ disk.dir = [n \in UNames |-> disk.dir[n]] /\ disk.size = [i \in Inos |-> disk.size[i]]
    /\ ulock \in Clients \cup {Nobody} /\ sb.dead \in BOOLEAN
    /\ \A c \in Clients : clients[c].f \in Inos \cup {0}
    /\ \A n \in UNames : disk.dir[n] \in Inos \cup {0}

CallerOK(c) ==
    /\ clients[c].pc = "wait" <=> ulock = c
    /\ clients[c].pc # "user" =>
         /\ clients[c].n \in UNames
         /\ Opens(clients[c].op) => clients[c].f = 0
         /\ Sized(clients[c].op) => clients[c].f \in Inos
Callers == \A c \in Clients : CallerOK(c)

Served == server.st \in {"serve", "handle", "stalled", "reply"}
Resting == server.st \in {"serve", "down", "attach"}
Empty == msgs.req = <<>> /\ msgs.rep = <<>>

\* The request of the caller that holds the lock, and a reply to it: the size in it
\* is the file's, or the file's has not changed.
Asked(q, c) ==
    /\ q.id = sb.id /\ q.op = clients[c].op /\ q.n = clients[c].n /\ q.i = clients[c].f
    /\ Agrees(clients[c].f)
Answers(r, c) ==
    /\ r.id = sb.id /\ r.ok \in BOOLEAN
    /\ r.ok /\ clients[c].op # "unlink" => r.i \in Inos /\ r.size = disk.size[r.i]
    /\ r.ok /\ Sized(clients[c].op) => r.i = clients[c].f
    /\ ~(r.ok /\ Sized(clients[c].op)) => Agrees(clients[c].f)

\* Where the request is: sent, with the server, answered, returned, or lost.
Sent(c) == Resting /\ msgs.rep = <<>> /\ \E q : msgs.req = <<q>> /\ Asked(q, c)
AtServer(c) == Empty /\ server.st \in {"handle", "stalled"} /\ Asked(server.req, c)
Done(c) == Empty /\ server.st = "reply" /\ Answers(server.req, c)
Returned(c) == Resting /\ msgs.req = <<>> /\ \E r : msgs.rep = <<r>> /\ Answers(r, c)
Lost(c) == Empty /\ server.st \in {"down", "attach"}
Stage(c) == Sent(c) \/ AtServer(c) \/ Done(c) \/ Returned(c) \/ Lost(c)

Waited == \A c \in Clients : ulock = c => Stage(c)
Connected == Served => server.chan = sb.chan
DeadFree == sb.dead => ulock = Nobody
Quiet == ulock = Nobody /\ ~sb.dead => Empty /\ Resting

\* A server that was given up may still carry out the request it has.
Harmless(q) ==
    /\ q.n \in UNames
    /\ Sized(q.op) => q.i \in Inos /\ (q.i \in unsure \/ icache[q.i].ref = 0)
GivenUp ==
    sb.dead /\ Served =>
        msgs.req = <<>> /\ (server.st \in {"handle", "stalled"} => Harmless(server.req))

Counted == \A i \in Inos : icache[i].ref = Cardinality({c \in Clients : clients[c].f = i})
Exempt(i) == \E c \in Clients : ulock = c /\ clients[c].f = i
Known == \A i \in Inos : Agrees(i) \/ Exempt(i)

UfsInv ==
    Shape /\ Callers /\ Waited /\ Connected /\ DeadFree /\ Quiet /\ GivenUp /\ Counted /\ Known

LEMMA Singles ==
  ASSUME NEW q
  PROVE  Append(<<>>, q) = <<q>> /\ Head(<<q>>) = q /\ Tail(<<q>>) = <<>> /\ <<q>> # <<>>
  BY SMTT(60), Z3T(60)

\* The lock holder is a client, and waits.
LEMMA Holder ==
  ASSUME UfsInv, NEW c \in Clients, clients[c].pc = "wait"
  PROVE  ulock = c /\ Stage(c) /\ ~sb.dead /\ c # Nobody
<1>1. ulock = c
  BY DEF UfsInv, Callers, CallerOK
<1>2. c # Nobody
  BY UfsAssumption
<1>3. QED
  BY <1>1, <1>2 DEF UfsInv, Waited, DeadFree

-----------------------------------------------------------------------------
\* Steps of the server that touch neither callers nor files.
LEMMA ServerFrame ==
  ASSUME UfsInv, sb' = sb, ulock' = ulock, clients' = clients, icache' = icache, unsure' = unsure,
         disk' = disk
  PROVE  /\ Shape' /\ Callers' /\ DeadFree' /\ Counted' /\ Known'
         /\ \A q, c : Asked(q, c)' <=> Asked(q, c)
         /\ \A r, c : Answers(r, c)' <=> Answers(r, c)
         /\ \A q : Harmless(q)' <=> Harmless(q)
<1>1. Shape' /\ Callers' /\ DeadFree' /\ Counted'
  BY DEF UfsInv, Shape, Callers, CallerOK, DeadFree, Counted
<1>2. \A i : Agrees(i)' <=> Agrees(i)
  BY DEF Agrees
<1>3. Known'
  BY <1>2 DEF UfsInv, Known, Exempt
<1>4. \A q, c : Asked(q, c)' <=> Asked(q, c)
  BY <1>2 DEF Asked
<1>5. \A r, c : Answers(r, c)' <=> Answers(r, c)
  BY <1>2 DEF Answers
<1>6. \A q : Harmless(q)' <=> Harmless(q)
  BY DEF Harmless
<1>7. QED
  BY <1>1, <1>3, <1>4, <1>5, <1>6

\* The server is gone, dies or starts: it has no request any more.
LEMMA GoneStep ==
  ASSUME UfsInv, sb' = sb, ulock' = ulock, clients' = clients, icache' = icache, unsure' = unsure,
         disk' = disk, msgs' = msgs, server'.st \in {"down", "attach"}
  PROVE  UfsInv'
<1>1. /\ Shape' /\ Callers' /\ DeadFree' /\ Counted' /\ Known'
      /\ \A q, c : Asked(q, c)' <=> Asked(q, c)
      /\ \A r, c : Answers(r, c)' <=> Answers(r, c)
  BY ServerFrame
<1>2. ~Served' /\ Resting'
  BY DEF Served, Resting
<1>3. Connected' /\ GivenUp'
  BY <1>2 DEF Connected, GivenUp
<1>4. Quiet'
  BY <1>2 DEF UfsInv, Quiet, Empty
<1>5. ASSUME NEW c \in Clients, ulock = c PROVE Stage(c)'
  <2>1. Stage(c)
    BY <1>5 DEF UfsInv, Waited
  <2>2. CASE Sent(c)
    BY <1>1, <1>2, <2>2 DEF Sent, Stage
  <2>3. CASE AtServer(c) \/ Done(c) \/ Lost(c)
    BY <2>3 DEF AtServer, Done, Lost, Stage, Empty
  <2>4. CASE Returned(c)
    BY <1>1, <1>2, <2>4 DEF Returned, Stage
  <2>5. QED
    BY <2>1, <2>2, <2>3, <2>4 DEF Stage
<1>6. QED
  BY <1>1, <1>3, <1>4, <1>5 DEF UfsInv, Waited

LEMMA ServeStep ==
  ASSUME UfsInv, ufs_serve
  PROVE  UfsInv'
<1>1. server'.st = "attach"
  BY DEF ufs_serve, Server
<1>2. QED
  BY <1>1, GoneStep DEF ufs_serve

LEMMA DiesStep ==
  ASSUME UfsInv, Dies
  PROVE  UfsInv'
<1>1. server'.st = "down"
  BY DEF Dies, Server
<1>2. QED
  BY <1>1, GoneStep DEF Dies

LEMMA AttachStep ==
  ASSUME UfsInv, ufs_attach
  PROVE  UfsInv'
<1>1. Attachable /\ ulock = Nobody /\ ulock \notin Clients
  BY UfsAssumption DEF ufs_attach, Attachable, PeerClosed
<1>2. /\ sb' = Mount(server.chan, FALSE, sb.id) /\ server' = Server("serve", server.chan, server.req)
      /\ msgs' = Msgs(<<>>, <<>>) /\ ulock' = ulock /\ clients' = clients /\ icache' = icache
      /\ disk' = disk /\ unsure' = unsure
  BY <1>1 DEF ufs_attach
<1>3. sb'.dead = FALSE /\ sb'.chan = server.chan /\ server'.st = "serve" /\ server'.chan = server.chan /\ Empty'
  BY <1>2 DEF Mount, Server, Msgs, Empty
<1>4. Shape' /\ Callers' /\ Counted'
  BY <1>2, <1>3 DEF UfsInv, Shape, Callers, CallerOK, Counted
<1>5. Known'
  BY <1>2 DEF UfsInv, Known, Exempt, Agrees
<1>6. Waited' /\ DeadFree' /\ GivenUp'
  BY <1>1, <1>2, <1>3 DEF Waited, DeadFree, GivenUp
<1>7. Connected' /\ Quiet'
  BY <1>3 DEF Connected, Quiet, Resting
<1>8. QED
  BY <1>4, <1>5, <1>6, <1>7 DEF UfsInv

LEMMA RecvStep ==
  ASSUME UfsInv, olux_msg_recv
  PROVE  UfsInv'
<1>1. /\ server.st = "serve" /\ msgs.req # <<>> /\ server' = Server("handle", server.chan, Head(msgs.req))
      /\ msgs' = Msgs(Tail(msgs.req), msgs.rep)
      /\ sb' = sb /\ ulock' = ulock /\ clients' = clients /\ icache' = icache /\ unsure' = unsure /\ disk' = disk
  BY DEF olux_msg_recv
<1>2. /\ Shape' /\ Callers' /\ DeadFree' /\ Counted' /\ Known'
      /\ \A q, c : Asked(q, c)' <=> Asked(q, c)
  BY <1>1, ServerFrame
<1>3. ~sb.dead /\ ulock # Nobody
  BY <1>1 DEF UfsInv, Quiet, GivenUp, Served, Empty
<1>4. PICK c \in Clients : ulock = c
  BY <1>3 DEF UfsInv, Shape
<1>5. PICK q : msgs.req = <<q>> /\ Asked(q, c) /\ msgs.rep = <<>>
  <2>1. Stage(c)
    BY <1>4 DEF UfsInv, Waited
  <2>2. QED
    BY <1>1, <2>1 DEF Stage, Sent, AtServer, Done, Returned, Lost, Empty
<1>6. server'.st = "handle" /\ server'.chan = server.chan /\ server'.req = q /\ Empty'
  <2>1. Head(msgs.req) = q /\ Tail(msgs.req) = <<>>
    BY <1>5, Singles
  <2>2. QED
    BY <1>1, <1>5, <2>1 DEF Server, Msgs, Empty
<1>7. AtServer(c)'
  BY <1>2, <1>5, <1>6 DEF AtServer
<1>8. Waited'
  BY <1>1, <1>4, <1>7 DEF Waited, Stage
<1>9. Connected' /\ Quiet' /\ GivenUp'
  BY <1>1, <1>3, <1>6 DEF UfsInv, Connected, Served, Quiet, GivenUp
<1>10. QED
  BY <1>2, <1>8, <1>9 DEF UfsInv

LEMMA SendStep ==
  ASSUME UfsInv, olux_msg_send
  PROVE  UfsInv'
<1>1. /\ server.st = "reply" /\ server' = Server("serve", server.chan, NoReq)
      /\ msgs' = Msgs(msgs.req, Append(msgs.rep, server.req))
      /\ sb' = sb /\ ulock' = ulock /\ clients' = clients /\ icache' = icache /\ unsure' = unsure /\ disk' = disk
  BY DEF olux_msg_send
<1>2. /\ Shape' /\ Callers' /\ DeadFree' /\ Counted' /\ Known'
      /\ \A r, c : Answers(r, c)' <=> Answers(r, c)
  BY <1>1, ServerFrame
<1>3. server'.st = "serve" /\ server'.chan = server.chan /\ msgs'.req = msgs.req
      /\ msgs'.rep = Append(msgs.rep, server.req)
  BY <1>1 DEF Server, Msgs
<1>4. ASSUME NEW c \in Clients, ulock = c PROVE Stage(c)'
  <2>1. Stage(c)
    BY <1>4 DEF UfsInv, Waited
  <2>2. Empty /\ Answers(server.req, c)
    BY <1>1, <2>1 DEF Stage, Sent, AtServer, Done, Returned, Lost, Resting
  <2>3. PICK r : r = server.req
    OBVIOUS
  <2>4. msgs'.req = <<>> /\ msgs'.rep = <<r>> /\ Answers(r, c)'
    BY <1>2, <1>3, <2>2, <2>3, Singles DEF Empty
  <2>5. Returned(c)'
    BY <1>3, <2>4 DEF Returned, Resting
  <2>6. QED
    BY <2>5 DEF Stage
<1>5. Waited'
  BY <1>1, <1>4 DEF Waited
<1>6. Connected'
  BY <1>1, <1>3 DEF UfsInv, Connected, Served
<1>7. Quiet'
  BY <1>1 DEF UfsInv, Quiet, Resting
<1>8. GivenUp'
  BY <1>1, <1>3 DEF UfsInv, GivenUp, Served
<1>9. QED
  BY <1>2, <1>5, <1>6, <1>7, <1>8 DEF UfsInv

\* The server sits on its request, or goes on with it.
LEMMA StallStep ==
  ASSUME UfsInv, Stalls \/ Resumes
  PROVE  UfsInv'
<1>1. /\ server.st \in {"handle", "stalled"} /\ msgs' = msgs
      /\ \E st \in {"handle", "stalled"} : server' = Server(st, server.chan, server.req)
      /\ sb' = sb /\ ulock' = ulock /\ clients' = clients /\ icache' = icache /\ unsure' = unsure /\ disk' = disk
  BY DEF Stalls, Resumes
<1>2. /\ Shape' /\ Callers' /\ DeadFree' /\ Counted' /\ Known'
      /\ \A q, c : Asked(q, c)' <=> Asked(q, c)
      /\ \A q : Harmless(q)' <=> Harmless(q)
  BY <1>1, ServerFrame
<1>3. server'.st \in {"handle", "stalled"} /\ server'.chan = server.chan /\ server'.req = server.req
  <2>1. PICK st \in {"handle", "stalled"} : server' = Server(st, server.chan, server.req)
    BY <1>1
  <2>2. server'.st = st /\ server'.chan = server.chan /\ server'.req = server.req
    BY <2>1 DEF Server
  <2>3. QED
    BY <2>2
<1>4. PICK q : q = server.req
  OBVIOUS
<1>5. ASSUME NEW c \in Clients, ulock = c PROVE Stage(c)'
  <2>1. Stage(c)
    BY <1>5 DEF UfsInv, Waited
  <2>2. Empty /\ Asked(q, c)
    BY <1>1, <1>4, <2>1 DEF Stage, Sent, AtServer, Done, Returned, Lost, Resting
  <2>3. AtServer(c)'
    BY <1>1, <1>2, <1>3, <1>4, <2>2 DEF AtServer, Empty
  <2>4. QED
    BY <2>3 DEF Stage
<1>6. Waited'
  BY <1>1, <1>5 DEF Waited
<1>7. Served /\ Served' /\ ~Resting
  BY <1>1, <1>3 DEF Served, Resting
<1>8. Connected'
  BY <1>1, <1>3, <1>7 DEF UfsInv, Connected
<1>9. Quiet'
  BY <1>1, <1>7 DEF UfsInv, Quiet
<1>10. GivenUp'
  BY <1>1, <1>2, <1>3, <1>4, <1>7 DEF UfsInv, GivenUp
<1>11. QED
  BY <1>2, <1>6, <1>8, <1>9, <1>10 DEF UfsInv

-----------------------------------------------------------------------------
\* What handle answers, and what it leaves alone.
Outcome(q, ok, i, size) ==
    /\ server' = Server("reply", server.chan, Rep(q.id, ok, i, size)) /\ ok \in BOOLEAN
    /\ ok => i \in Inos /\ size = disk'.size[i]
    /\ ok /\ Sized(q.op) => i = q.i
    /\ ~(ok /\ Sized(q.op)) => disk'.size = disk.size
    /\ \A j \in Inos : j # q.i => disk'.size[j] = disk.size[j]
    /\ disk'.dir = [n \in UNames |-> disk'.dir[n]] /\ disk'.size = [j \in Inos |-> disk'.size[j]]
    /\ \A n \in UNames : disk'.dir[n] \in Inos \cup {0}

LEMMA Refused ==
  ASSUME Shape, Refuses
  PROVE  Outcome(server.req, FALSE, 0, 0)
  BY DEF Refuses, Outcome, Shape

\* An answer that changes at most a name.
LEMMA NameReply ==
  ASSUME Shape, NEW i \in Inos, NEW d, Replies(i, d), d.size = disk.size, ~Sized(server.req.op),
         d.dir = [n \in UNames |-> d.dir[n]], \A n \in UNames : d.dir[n] \in Inos \cup {0}
  PROVE  Outcome(server.req, TRUE, i, disk.size[i])
<1>1. server' = Server("reply", server.chan, Rep(server.req.id, TRUE, i, disk.size[i])) /\ disk' = d
  BY DEF Replies
<1>2. QED
  BY <1>1 DEF Outcome, Shape

LEMMA SizeReply ==
  ASSUME Shape, server.req.i \in Inos, Sized(server.req.op), NEW s, Replies(server.req.i, WithSize(server.req.i, s))
  PROVE  Outcome(server.req, TRUE, server.req.i, s)
<1> DEFINE i == server.req.i
<1>1. PICK d : d = WithSize(i, s)
  OBVIOUS
<1>2. d.dir = disk.dir /\ d.size = [disk.size EXCEPT ![i] = s]
  BY <1>1 DEF WithSize, Tree
<1>3. d.size[i] = s /\ d.size = [j \in Inos |-> d.size[j]] /\ \A j \in Inos : j # i => d.size[j] = disk.size[j]
  BY <1>2 DEF Shape
<1>4. server' = Server("reply", server.chan, Rep(server.req.id, TRUE, i, s)) /\ disk' = d
  BY <1>1, <1>3 DEF Replies
<1>5. /\ \A j \in Inos : j # i => disk'.size[j] = disk.size[j]
      /\ disk'.dir = [n \in UNames |-> disk'.dir[n]] /\ disk'.size = [j \in Inos |-> disk'.size[j]]
      /\ \A n \in UNames : disk'.dir[n] \in Inos \cup {0}
  BY <1>2, <1>3, <1>4 DEF Shape
<1>6. s = disk'.size[i]
  BY <1>3, <1>4
<1>7. QED
  BY <1>4, <1>5, <1>6 DEF Outcome

LEMMA HandleOutcome ==
  ASSUME Shape, handle, server.req.n \in UNames, Sized(server.req.op) => server.req.i \in Inos
  PROVE  \E ok, i, size : Outcome(server.req, ok, i, size)
<1> DEFINE q == server.req
<1>1. disk.dir[q.n] \in Inos \cup {0}
  BY DEF Shape
<1>2. CASE Refuses
  BY <1>2, Refused
<1>3. CASE q.op = "lookup" /\ op_lookup(q) /\ ~Refuses
  <2>1. disk.dir[q.n] \in Inos /\ Replies(disk.dir[q.n], disk) /\ ~Sized(q.op)
    BY <1>1, <1>3 DEF op_lookup, Sized
  <2>2. Outcome(q, TRUE, disk.dir[q.n], disk.size[disk.dir[q.n]])
    BY <2>1, NameReply DEF Shape
  <2>3. QED
    BY <2>2
<1>4. CASE q.op = "create" /\ op_create(q) /\ ~Refuses
  <2>1. /\ \E i \in Inos \ disk.given : TRUE
        /\ Replies(NewIno, WithName(q.n, NewIno, disk.given \cup {NewIno})) /\ ~Sized(q.op)
    BY <1>4 DEF op_create, Sized
  <2>2. PICK i : i = NewIno
    OBVIOUS
  <2>3. i \in Inos
    BY <2>1, <2>2 DEF NewIno
  <2>4. PICK d : d = WithName(q.n, i, disk.given \cup {i})
    OBVIOUS
  <2>5. Replies(i, d)
    BY <2>1, <2>2, <2>4
  <2>6. /\ d.size = disk.size /\ d.dir = [m \in UNames |-> d.dir[m]]
        /\ \A m \in UNames : d.dir[m] \in Inos \cup {0}
    <3>1. d.dir = [disk.dir EXCEPT ![q.n] = i] /\ d.size = disk.size
      BY <2>4 DEF WithName, Tree
    <3>2. QED
      BY <2>3, <3>1 DEF Shape
  <2>7. Outcome(q, TRUE, i, disk.size[i])
    BY <2>1, <2>3, <2>5, <2>6, NameReply
  <2>8. QED
    BY <2>7
<1>5. CASE q.op = "unlink" /\ op_unlink(q) /\ ~Refuses
  <2>1. disk.dir[q.n] \in Inos /\ Replies(disk.dir[q.n], WithName(q.n, 0, disk.given)) /\ ~Sized(q.op)
    BY <1>1, <1>5 DEF op_unlink, Sized
  <2>2. PICK d : d = WithName(q.n, 0, disk.given)
    OBVIOUS
  <2>3. /\ d.size = disk.size /\ d.dir = [m \in UNames |-> d.dir[m]]
        /\ \A m \in UNames : d.dir[m] \in Inos \cup {0}
    <3>1. d.dir = [disk.dir EXCEPT ![q.n] = 0] /\ d.size = disk.size
      BY <2>2 DEF WithName, Tree
    <3>2. QED
      BY <3>1 DEF Shape
  <2>4. Outcome(q, TRUE, disk.dir[q.n], disk.size[disk.dir[q.n]])
    BY <2>1, <2>2, <2>3, NameReply
  <2>5. QED
    BY <2>4
<1>6. CASE q.op = "write" /\ op_write(q) /\ ~Refuses
  <2>1. q.i \in Inos /\ Sized(q.op) /\ \E s : Replies(q.i, WithSize(q.i, s))
    BY <1>6 DEF op_write, Sized
  <2>2. QED
    BY <2>1, SizeReply
<1>7. CASE q.op = "setattr" /\ op_setattr(q)
  <2>1. q.i \in Inos /\ Sized(q.op) /\ \E s : Replies(q.i, WithSize(q.i, s))
    BY <1>7 DEF op_setattr, Sized
  <2>2. QED
    BY <2>1, SizeReply
<1>8. QED
  BY <1>2, <1>3, <1>4, <1>5, <1>6, <1>7 DEF handle

LEMMA HandleStep ==
  ASSUME UfsInv, handle
  PROVE  UfsInv'
<1>1. /\ server.st = "handle" /\ sb' = sb /\ ulock' = ulock /\ clients' = clients /\ icache' = icache
      /\ msgs' = msgs /\ unsure' = unsure
  BY DEF handle
<1>2. Shape /\ Callers /\ Waited /\ Connected /\ DeadFree /\ Quiet /\ GivenUp /\ Counted /\ Known
  BY DEF UfsInv
<1>3. PICK q : q = server.req
  OBVIOUS
<1>4. Served /\ ~Resting
  BY <1>1 DEF Served, Resting
<1>5. \A c \in Clients : ulock = c => Empty /\ Asked(q, c)
  BY <1>1, <1>2, <1>3, <1>4 DEF Waited, Stage, Sent, AtServer, Done, Returned, Lost
<1>6. ulock \notin Clients => ulock = Nobody /\ sb.dead /\ msgs.req = <<>> /\ Harmless(q)
  BY <1>1, <1>2, <1>3, <1>4 DEF Shape, Quiet, GivenUp
<1>7. q.n \in UNames /\ (Sized(q.op) => q.i \in Inos)
  <2>1. CASE ulock \in Clients
    <3>1. PICK c \in Clients : ulock = c
      BY <2>1
    <3>2. CallerOK(c) /\ clients[c].pc = "wait"
      BY <1>2, <3>1 DEF Callers, CallerOK
    <3>3. QED
      BY <1>5, <3>1, <3>2 DEF CallerOK, Asked
  <2>2. CASE ulock \notin Clients
    BY <1>6, <2>2 DEF Harmless
  <2>3. QED
    BY <2>1, <2>2
<1>8. PICK ok, i, size : Outcome(q, ok, i, size)
  BY <1>2, <1>3, <1>7, HandleOutcome
<1>9. PICK r : r = Rep(q.id, ok, i, size)
  OBVIOUS
<1>10. r.id = q.id /\ r.ok = ok /\ r.i = i /\ r.size = size
  BY <1>9 DEF Rep
<1>11. server'.st = "reply" /\ server'.chan = server.chan /\ server'.req = r
  BY <1>8, <1>9 DEF Outcome, Server
<1>12. Shape' /\ Callers' /\ DeadFree' /\ Counted'
  BY <1>1, <1>2, <1>8 DEF Shape, Callers, CallerOK, DeadFree, Counted, Outcome
<1>13. ASSUME NEW j, j \in Inos => disk'.size[j] = disk.size[j] PROVE Agrees(j)' <=> Agrees(j)
  BY <1>1, <1>13 DEF Agrees
<1>14. Known'
  <2> SUFFICES ASSUME NEW j \in Inos PROVE Agrees(j)' \/ Exempt(j)'
    BY DEF Known
  <2>1. Exempt(j)' <=> Exempt(j)
    BY <1>1 DEF Exempt
  <2>2. CASE disk'.size[j] = disk.size[j]
    BY <1>2, <1>13, <2>1, <2>2 DEF Known
  <2>3. CASE disk'.size[j] # disk.size[j]
    <3>1. j = q.i /\ Sized(q.op)
      BY <1>8, <2>3 DEF Outcome
    <3>2. CASE ulock \in Clients
      BY <1>1, <1>5, <3>1, <3>2 DEF Asked, Exempt
    <3>3. CASE ulock \notin Clients
      <4>1. j \in unsure \/ icache[j].ref = 0
        BY <1>6, <3>1, <3>3 DEF Harmless
      <4>2. ~(0 > 0)
        BY SMTT(60), Z3T(60)
      <4>3. QED
        BY <1>1, <4>1, <4>2 DEF Agrees
    <3>4. QED
      BY <3>2, <3>3
  <2>4. QED
    BY <2>2, <2>3
<1>15. ASSUME NEW c \in Clients, ulock = c PROVE Stage(c)'
  <2>1. Empty /\ Asked(q, c)
    BY <1>5, <1>15
  <2>2. q.id = sb.id /\ q.op = clients[c].op /\ q.i = clients[c].f /\ Agrees(clients[c].f)
    BY <2>1 DEF Asked
  <2>3. PICK f : f = clients[c].f
    OBVIOUS
  <2>4. ~(ok /\ Sized(q.op)) => Agrees(f)'
    BY <1>8, <1>13, <2>2, <2>3 DEF Outcome
  <2>5. /\ r.id = sb'.id /\ r.ok \in BOOLEAN
        /\ r.ok /\ clients'[c].op # "unlink" => r.i \in Inos /\ r.size = disk'.size[r.i]
        /\ r.ok /\ Sized(clients'[c].op) => r.i = clients'[c].f
    BY <1>1, <1>8, <1>10, <2>2 DEF Outcome
  <2>6. Answers(r, c)'
    BY <1>1, <1>10, <2>2, <2>3, <2>4, <2>5 DEF Answers
  <2>7. Done(c)'
    BY <1>1, <1>11, <2>1, <2>6 DEF Done, Empty
  <2>8. QED
    BY <2>7 DEF Stage
<1>16. Waited'
  BY <1>1, <1>15 DEF Waited
<1>17. Connected'
  BY <1>1, <1>2, <1>4, <1>11 DEF Connected
<1>18. Quiet'
  BY <1>1, <1>2, <1>4 DEF Quiet
<1>19. GivenUp'
  BY <1>1, <1>2, <1>4, <1>11 DEF GivenUp
<1>20. QED
  BY <1>12, <1>14, <1>16, <1>17, <1>18, <1>19 DEF UfsInv

-----------------------------------------------------------------------------
(* Callers *)

LEMMA StageKept ==
  ASSUME NEW c, Stage(c), msgs' = msgs, server' = server,
         \A q : Asked(q, c) => Asked(q, c)', \A r : Answers(r, c) => Answers(r, c)'
  PROVE  Stage(c)'
<1>1. CASE Sent(c)
  BY <1>1 DEF Sent, Resting, Stage
<1>2. CASE AtServer(c)
  BY <1>2 DEF AtServer, Empty, Stage
<1>3. CASE Done(c)
  BY <1>3 DEF Done, Empty, Stage
<1>4. CASE Returned(c)
  BY <1>4 DEF Returned, Resting, Stage
<1>5. CASE Lost(c)
  BY <1>5 DEF Lost, Empty, Stage
<1>6. QED
  BY <1>1, <1>2, <1>3, <1>4, <1>5 DEF Stage

\* A caller changes and keeps its file.
LEMMA CallerFrame ==
  ASSUME UfsInv, NEW c \in Clients, NEW w, clients' = [clients EXCEPT ![c] = w], w.f = clients[c].f
  PROVE  /\ clients' = [d \in Clients |-> clients'[d]] /\ clients'[c] = w
         /\ \A d \in Clients \ {c} : clients'[d] = clients[d]
         /\ \A d \in Clients : clients'[d].f = clients[d].f
         /\ icache' = icache => Counted'
<1>1. clients = [d \in Clients |-> clients[d]]
  BY DEF UfsInv, Shape
<1>2. /\ clients' = [d \in Clients |-> clients'[d]] /\ clients'[c] = w
      /\ \A d \in Clients \ {c} : clients'[d] = clients[d]
  BY <1>1
<1>3. \A d \in Clients : clients'[d].f = clients[d].f
  BY <1>2
<1>4. ASSUME NEW i PROVE {d \in Clients : clients'[d].f = i} = {d \in Clients : clients[d].f = i}
  BY <1>3
<1>5. icache' = icache => Counted'
  BY <1>4 DEF UfsInv, Counted
<1>6. QED
  BY <1>2, <1>3, <1>5

LEMMA CallStep ==
  ASSUME UfsInv, NEW c \in Clients, NEW op, NEW n \in UNames, Call(c, op, n)
  PROVE  UfsInv'
<1>1. /\ clients[c].pc = "user" /\ sb' = sb /\ ulock' = ulock /\ icache' = icache /\ msgs' = msgs
      /\ server' = server /\ disk' = disk /\ unsure' = unsure
      /\ op \in {"lookup", "create", "unlink"} \/ clients[c].f # 0
      /\ op \in {"lookup", "create"} => clients[c].f = 0
  BY DEF Call
<1>2. Shape /\ Callers /\ Waited /\ Connected /\ DeadFree /\ Quiet /\ GivenUp /\ Counted /\ Known
  BY DEF UfsInv
<1>3. PICK w : clients' = [clients EXCEPT ![c] = w] /\ w.pc = "lock" /\ w.op = op /\ w.n = n /\ w.f = clients[c].f
  <2>1. PICK left, off : clients' = [clients EXCEPT ![c] = Caller("lock", op, n, left, clients[c].f, off)]
    BY DEF Call
  <2>2. PICK w : w = Caller("lock", op, n, left, clients[c].f, off)
    OBVIOUS
  <2>3. w.pc = "lock" /\ w.op = op /\ w.n = n /\ w.f = clients[c].f
    BY <2>2 DEF Caller
  <2>4. QED
    BY <2>1, <2>2, <2>3
<1>4. /\ clients' = [d \in Clients |-> clients'[d]] /\ clients'[c] = w
      /\ \A d \in Clients \ {c} : clients'[d] = clients[d]
      /\ \A d \in Clients : clients'[d].f = clients[d].f
      /\ Counted'
  BY <1>1, <1>3, CallerFrame
<1>5. ulock # c
  BY <1>1, <1>2 DEF Callers, CallerOK
<1>6. Shape'
  BY <1>1, <1>2, <1>4 DEF Shape
<1>7. CallerOK(c)'
  <2>1. clients[c].f \in Inos \cup {0}
    BY <1>2 DEF Shape
  <2>2. Opens(op) => clients[c].f = 0
    BY <1>1 DEF Opens
  <2>3. Sized(op) => clients[c].f \in Inos
    BY <1>1, <2>1 DEF Sized
  <2>4. QED
    BY <1>1, <1>3, <1>4, <1>5, <2>2, <2>3 DEF CallerOK
<1>8. Callers'
  BY <1>1, <1>2, <1>4, <1>7 DEF Callers, CallerOK
<1>9. \A i : Agrees(i)' <=> Agrees(i)
  BY <1>1 DEF Agrees
<1>10. Known'
  BY <1>1, <1>2, <1>4, <1>9 DEF Known, Exempt
<1>11. ASSUME NEW d \in Clients, ulock = d PROVE Stage(d)'
  <2>1. clients'[d] = clients[d] /\ Stage(d)
    BY <1>2, <1>4, <1>5, <1>11 DEF Waited
  <2>2. (\A q : Asked(q, d) => Asked(q, d)') /\ \A r : Answers(r, d) => Answers(r, d)'
    BY <1>1, <1>9, <2>1 DEF Asked, Answers
  <2>3. QED
    BY <1>1, <2>1, <2>2, StageKept
<1>12. Waited'
  BY <1>1, <1>11 DEF Waited
<1>13. Connected' /\ DeadFree' /\ Quiet' /\ GivenUp'
  BY <1>1, <1>2 DEF Connected, Served, DeadFree, Quiet, Empty, Resting, GivenUp, Harmless
<1>14. QED
  BY <1>4, <1>6, <1>8, <1>10, <1>12, <1>13 DEF UfsInv

\* begin: the mount is dead, or its server is found gone.
LEMMA BeginFails ==
  ASSUME UfsInv, NEW c \in Clients, ulock = Nobody, NEW s, Fail(c, s), msgs' = msgs, unsure' = unsure,
         s.dead = TRUE, s.chan = sb.chan, GivenUp', clients[c].pc # "wait"
  PROVE  UfsInv'
<1>1. /\ clients' = [clients EXCEPT ![c] = UIdle(clients[c].f)] /\ sb' = s /\ ulock' = Nobody
      /\ icache' = icache /\ server' = server /\ disk' = disk
  BY DEF Fail
<1>2. Shape /\ Callers /\ Connected /\ Counted /\ Known
  BY DEF UfsInv
<1>3. UIdle(clients[c].f).f = clients[c].f /\ UIdle(clients[c].f).pc = "user"
  BY DEF UIdle, Caller
<1>4. /\ clients' = [d \in Clients |-> clients'[d]] /\ clients'[c].pc = "user"
      /\ \A d \in Clients \ {c} : clients'[d] = clients[d]
      /\ \A d \in Clients : clients'[d].f = clients[d].f
      /\ Counted'
  BY <1>1, <1>3, CallerFrame
<1>5. Shape'
  BY <1>1, <1>2, <1>4 DEF Shape
<1>6. c # Nobody
  BY UfsAssumption
<1>7. Callers'
  BY <1>1, <1>2, <1>4, <1>6 DEF Callers, CallerOK
<1>8. ulock \notin Clients
  BY UfsAssumption
<1>9. Known'
  BY <1>1, <1>2, <1>8 DEF Known, Exempt, Agrees
<1>10. Waited' /\ DeadFree' /\ Quiet'
  BY <1>1, <1>8 DEF Waited, DeadFree, Quiet
<1>11. Connected'
  BY <1>1, <1>2 DEF Connected, Served
<1>12. QED
  BY <1>4, <1>5, <1>7, <1>9, <1>10, <1>11 DEF UfsInv

LEMMA BeginStep ==
  ASSUME UfsInv, NEW c \in Clients, begin(c)
  PROVE  UfsInv'
<1>1. clients[c].pc = "lock" /\ clients[c].pc # "wait" /\ ulock = Nobody /\ c # Nobody /\ ulock \notin Clients
  BY UfsAssumption DEF begin
<1>2. Shape /\ Callers /\ Connected /\ DeadFree /\ Quiet /\ GivenUp /\ Counted /\ Known
  BY DEF UfsInv
<1>3. CASE sb.dead
  <2>1. Fail(c, sb) /\ msgs' = msgs /\ unsure' = unsure
    BY <1>3 DEF begin
  <2>2. sb.dead = TRUE
    BY <1>2, <1>3 DEF Shape
  <2>3. GivenUp'
    BY <1>2, <2>1 DEF Fail, GivenUp, Served, Harmless
  <2>4. QED
    BY <1>1, <2>1, <2>2, <2>3, BeginFails
<1>4. CASE ~sb.dead /\ PeerClosed
  <2>1. PICK s : s = Mount(sb.chan, TRUE, NextId)
    OBVIOUS
  <2>2. Fail(c, s) /\ msgs' = msgs /\ unsure' = unsure
    BY <1>4, <2>1 DEF begin
  <2>3. s.dead = TRUE /\ s.chan = sb.chan
    BY <2>1 DEF Mount
  <2>4. ~Served
    BY <1>2, <1>4 DEF PeerClosed, Connected, Served
  <2>5. GivenUp'
    BY <2>2, <2>4 DEF Fail, GivenUp, Served
  <2>6. QED
    BY <1>1, <2>2, <2>3, <2>5, BeginFails
<1>5. CASE ~sb.dead /\ ~PeerClosed
  <2>1. PICK q, w : /\ q = Req(NextId, clients[c].op, clients[c].n, clients[c].f, clients[c].off)
                    /\ w = Caller("wait", clients[c].op, clients[c].n, clients[c].left, clients[c].f, clients[c].off)
    OBVIOUS
  <2>2. /\ ulock' = c /\ sb' = Mount(sb.chan, sb.dead, NextId) /\ msgs' = Msgs(Append(msgs.req, q), msgs.rep)
        /\ clients' = [clients EXCEPT ![c] = w]
        /\ icache' = icache /\ server' = server /\ disk' = disk /\ unsure' = unsure
    BY <1>5, <2>1 DEF begin
  <2>3. /\ q.id = NextId /\ q.op = clients[c].op /\ q.n = clients[c].n /\ q.i = clients[c].f
        /\ w.pc = "wait" /\ w.op = clients[c].op /\ w.n = clients[c].n /\ w.f = clients[c].f
    BY <2>1 DEF Req, Caller
  <2>4. Empty /\ Resting /\ server.st = "serve"
    BY <1>1, <1>2, <1>5 DEF Quiet, PeerClosed, Resting
  <2>5. sb'.dead = sb.dead /\ sb'.chan = sb.chan /\ sb'.id = NextId
    BY <2>2 DEF Mount
  <2>6. msgs'.req = <<q>> /\ msgs'.rep = <<>>
    <3>1. Append(msgs.req, q) = <<q>> /\ msgs.rep = <<>>
      BY <2>4, Singles DEF Empty
    <3>2. QED
      BY <2>2, <3>1 DEF Msgs
  <2>7. /\ clients' = [d \in Clients |-> clients'[d]] /\ clients'[c] = w
        /\ \A d \in Clients \ {c} : clients'[d] = clients[d]
        /\ \A d \in Clients : clients'[d].f = clients[d].f
        /\ Counted'
    BY <2>2, <2>3, CallerFrame
  <2>8. Shape'
    BY <1>2, <2>2, <2>5, <2>7 DEF Shape
  <2>9. CallerOK(c)'
    BY <1>1, <1>2, <2>2, <2>3, <2>7 DEF Callers, CallerOK
  <2>10. ASSUME NEW d \in Clients \ {c} PROVE CallerOK(d)'
    BY <1>1, <1>2, <2>2, <2>7 DEF Callers, CallerOK
  <2>11. \A i : Agrees(i)' <=> Agrees(i)
    BY <2>2 DEF Agrees
  <2>12. \A i \in Inos : Agrees(i)
    BY <1>1, <1>2 DEF Known, Exempt
  <2>13. \A i : Agrees(i)'
    BY <2>11, <2>12 DEF Agrees
  <2>14. Known'
    BY <2>13 DEF Known
  <2>15. Asked(q, c)'
    BY <2>3, <2>5, <2>7, <2>13 DEF Asked
  <2>16. Sent(c)'
    BY <2>2, <2>4, <2>6, <2>15 DEF Sent, Resting
  <2>17. Waited'
    BY <2>2, <2>16 DEF Waited, Stage
  <2>18. DeadFree' /\ Quiet' /\ GivenUp'
    BY <1>1, <1>5, <2>2, <2>5 DEF DeadFree, Quiet, GivenUp
  <2>19. Connected'
    BY <1>2, <2>2, <2>5 DEF Connected, Served
  <2>20. Callers'
    BY <2>9, <2>10 DEF Callers
  <2>21. QED
    BY <2>7, <2>8, <2>14, <2>17, <2>18, <2>19, <2>20 DEF UfsInv
<1>6. QED
  BY <1>3, <1>4, <1>5

\* No reply: the file's size is unsure, and what a stalled server may still do to it
\* does not matter.
LEMMA DeadStep ==
  ASSUME UfsInv, NEW c \in Clients, ufs_dead(c)
  PROVE  UfsInv'
<1>1. /\ clients[c].pc = "wait" /\ msgs.rep = <<>> /\ (PeerClosed \/ server.st = "stalled")
      /\ sb' = Mount(sb.chan, TRUE, sb.id) /\ ulock' = Nobody
      /\ clients' = [clients EXCEPT ![c] = UIdle(clients[c].f)]
      /\ unsure' = unsure \cup ({clients[c].f} \ {0})
      /\ icache' = icache /\ server' = server /\ disk' = disk /\ msgs' = msgs
  BY DEF ufs_dead, GivesUp, Fail
<1>2. Shape /\ Callers /\ Connected /\ Counted /\ Known
  BY DEF UfsInv
<1>3. ulock = c /\ Stage(c) /\ ~sb.dead /\ c # Nobody
  BY <1>1, Holder
<1>4. UIdle(clients[c].f).f = clients[c].f /\ UIdle(clients[c].f).pc = "user"
  BY DEF UIdle, Caller
<1>5. /\ clients' = [d \in Clients |-> clients'[d]] /\ clients'[c].pc = "user"
      /\ \A d \in Clients \ {c} : clients'[d] = clients[d]
      /\ \A d \in Clients : clients'[d].f = clients[d].f
      /\ Counted'
  BY <1>1, <1>4, CallerFrame
<1>6. sb'.dead = TRUE /\ sb'.chan = sb.chan
  BY <1>1 DEF Mount
<1>7. Shape'
  BY <1>1, <1>2, <1>5, <1>6 DEF Shape
<1>8. \A d \in Clients : d # Nobody
  BY UfsAssumption
<1>9. Callers'
  BY <1>1, <1>2, <1>3, <1>5, <1>8 DEF Callers, CallerOK
<1>10. ASSUME NEW i \in Inos PROVE Agrees(i)'
  <2>1. CASE i = clients[c].f
    <3>1. i # 0
      BY UfsAssumption
    <3>2. i \in unsure'
      BY <1>1, <2>1, <3>1
    <3>3. QED
      BY <3>2 DEF Agrees
  <2>2. CASE i # clients[c].f
    <3>1. Agrees(i)
      BY <1>2, <1>3, <2>2 DEF Known, Exempt
    <3>2. QED
      BY <1>1, <3>1 DEF Agrees
  <2>3. QED
    BY <2>1, <2>2
<1>11. Known'
  BY <1>10 DEF Known
<1>12. Waited' /\ DeadFree' /\ Quiet'
  BY <1>1, <1>6, <1>8 DEF Waited, DeadFree, Quiet
<1>13. Connected'
  BY <1>1, <1>2, <1>6 DEF Connected, Served
<1>14. GivenUp'
  <2>1. CASE ~Served
    BY <1>1, <2>1 DEF GivenUp, Served
  <2>2. CASE Served
    <3>1. server.st = "stalled"
      BY <1>1, <1>2, <2>2 DEF PeerClosed, Connected, Served
    <3>2. Empty /\ Asked(server.req, c)
      BY <1>3, <3>1 DEF Stage, Sent, AtServer, Done, Returned, Lost, Resting
    <3>3. CallerOK(c)
      BY <1>2 DEF Callers
    <3>4. server.req.n \in UNames
      BY <1>1, <3>2, <3>3 DEF CallerOK, Asked
    <3>5. Sized(server.req.op) => server.req.i \in Inos /\ server.req.i = clients[c].f
      BY <1>1, <3>2, <3>3 DEF CallerOK, Asked
    <3>6. Sized(server.req.op) => server.req.i \in Inos /\ server.req.i \in unsure'
      BY <1>1, <3>5, UfsAssumption
    <3>7. Harmless(server.req)'
      BY <1>1, <3>4, <3>6 DEF Harmless
    <3>8. QED
      BY <1>1, <3>2, <3>7 DEF GivenUp, Empty
  <2>3. QED
    BY <2>1, <2>2
<1>15. QED
  BY <1>5, <1>7, <1>9, <1>11, <1>12, <1>13, <1>14 DEF UfsInv

\* A reply has come: what it leaves behind.
LEMMA ReplyEnds ==
  ASSUME UfsInv, NEW c \in Clients, ulock = c, ~sb.dead, Resting, Empty', ulock' = Nobody, sb' = sb,
         server' = server, disk' = disk, icache' = [i \in Inos |-> icache'[i]],
         NEW w, clients' = [clients EXCEPT ![c] = w], w.f \in Inos \cup {0},
         w.pc = "user" \/ (w.pc = "lock" /\ w.n \in UNames /\ ~Opens(w.op) /\ w.f \in Inos),
         \A i \in Inos : icache'[i].ref = Cardinality({d \in Clients : clients'[d].f = i}),
         \A i \in Inos : Agrees(i)'
  PROVE  UfsInv'
<1>1. Shape /\ Callers /\ Connected
  BY DEF UfsInv
<1>2. clients' = [d \in Clients |-> clients'[d]] /\ clients'[c] = w /\ \A d \in Clients \ {c} : clients'[d] = clients[d]
  BY <1>1 DEF Shape
<1>3. \A d \in Clients : d # Nobody
  BY UfsAssumption
<1>4. Shape'
  BY <1>1, <1>2 DEF Shape
<1>5. CallerOK(c)'
  BY <1>2, <1>3 DEF CallerOK
<1>6. ASSUME NEW d \in Clients \ {c} PROVE CallerOK(d)'
  BY <1>1, <1>2, <1>3 DEF Callers, CallerOK
<1>7. Callers'
  BY <1>5, <1>6 DEF Callers
<1>8. Waited' /\ DeadFree' /\ GivenUp'
  BY <1>3 DEF Waited, DeadFree, GivenUp
<1>9. Connected' /\ Quiet'
  BY <1>1 DEF Connected, Served, Quiet, Resting
<1>10. Counted' /\ Known'
  BY DEF Counted, Known
<1>11. QED
  BY <1>4, <1>7, <1>8, <1>9, <1>10 DEF UfsInv

-----------------------------------------------------------------------------
(* Counting open files *)

INSTANCE FiniteSetTheorems

\* Files open, for counting.
LEMMA RefNat ==
  ASSUME UfsInv, NEW i \in Inos
  PROVE  icache[i].ref \in Nat /\ IsFiniteSet({c \in Clients : clients[c].f = i})
<1>1. IsFiniteSet({c \in Clients : clients[c].f = i})
  BY FS_Subset, UfsAssumption
<1>2. Cardinality({c \in Clients : clients[c].f = i}) \in Nat
  BY <1>1, FS_CardinalityType
<1>3. QED
  BY <1>1, <1>2 DEF UfsInv, Counted

\* A file more is open on an inode, or one less.
LEMMA OpenCounted ==
  ASSUME UfsInv, NEW c \in Clients, NEW w, clients' = [clients EXCEPT ![c] = w], NEW k \in Inos,
         clients[c].f = 0, w.f = k
  PROVE  \A i \in Inos : Cardinality({d \in Clients : clients'[d].f = i}) =
                            IF i = k THEN icache[i].ref + 1 ELSE icache[i].ref
<1>1. clients'[c] = w /\ \A d \in Clients \ {c} : clients'[d] = clients[d]
  BY DEF UfsInv, Shape
<1>2. Counted
  BY DEF UfsInv
<1>3. 0 \notin Inos
  BY UfsAssumption
<1>4. ASSUME NEW i \in Inos, i # k
      PROVE  Cardinality({d \in Clients : clients'[d].f = i}) = icache[i].ref
  <2>1. {d \in Clients : clients'[d].f = i} = {d \in Clients : clients[d].f = i}
    BY <1>1, <1>3, <1>4
  <2>2. QED
    BY <1>2, <2>1 DEF Counted
<1>5. Cardinality({d \in Clients : clients'[d].f = k}) = icache[k].ref + 1
  <2>1. PICK S, T : S = {d \in Clients : clients[d].f = k} /\ T = {d \in Clients : clients'[d].f = k}
    OBVIOUS
  <2>2. T = S \cup {c}
    BY <1>1, <2>1
  <2>3. c \notin S
    BY <1>3, <2>1
  <2>4. IsFiniteSet(S)
    BY <2>1, RefNat
  <2>5. Cardinality(T) = Cardinality(S) + 1
    BY <2>2, <2>3, <2>4, FS_AddElement
  <2>6. QED
    BY <1>2, <2>1, <2>5 DEF Counted
<1>6. QED
  BY <1>4, <1>5

LEMMA CloseCounted ==
  ASSUME UfsInv, NEW c \in Clients, NEW w, clients' = [clients EXCEPT ![c] = w], NEW k \in Inos,
         clients[c].f = k, w.f = 0
  PROVE  \A i \in Inos : Cardinality({d \in Clients : clients'[d].f = i}) =
                            IF i = k THEN icache[i].ref - 1 ELSE icache[i].ref
<1>1. clients'[c] = w /\ \A d \in Clients \ {c} : clients'[d] = clients[d]
  BY DEF UfsInv, Shape
<1>2. Counted
  BY DEF UfsInv
<1>3. 0 \notin Inos
  BY UfsAssumption
<1>4. ASSUME NEW i \in Inos, i # k
      PROVE  Cardinality({d \in Clients : clients'[d].f = i}) = icache[i].ref
  <2>1. {d \in Clients : clients'[d].f = i} = {d \in Clients : clients[d].f = i}
    BY <1>1, <1>3, <1>4
  <2>2. QED
    BY <1>2, <2>1 DEF Counted
<1>5. Cardinality({d \in Clients : clients'[d].f = k}) = icache[k].ref - 1
  <2>1. PICK S, T : S = {d \in Clients : clients[d].f = k} /\ T = {d \in Clients : clients'[d].f = k}
    OBVIOUS
  <2>2. T = S \ {c}
    BY <1>1, <1>3, <2>1
  <2>3. c \in S
    BY <2>1
  <2>4. IsFiniteSet(S)
    BY <2>1, RefNat
  <2>5. Cardinality(T) = Cardinality(S) - 1
    BY <2>2, <2>3, <2>4, FS_RemoveElement
  <2>6. QED
    BY <1>2, <2>1, <2>5 DEF Counted
<1>6. QED
  BY <1>4, <1>5

LEMMA AnsweredStep ==
  ASSUME UfsInv, NEW c \in Clients, clients[c].pc = "wait", ulock = c, ~sb.dead, Resting, Empty',
         ulock' = Nobody, sb' = sb, server' = server, disk' = disk, NEW r, Answers(r, c), Answered(c, r)
  PROVE  UfsInv'
<1>1. Shape /\ Callers /\ Counted /\ Known /\ 0 \notin Inos
  BY UfsAssumption DEF UfsInv
<1>2. PICK o : o = clients[c]
  OBVIOUS
<1>3. /\ o.n \in UNames /\ (Opens(o.op) => o.f = 0) /\ (Sized(o.op) => o.f \in Inos) /\ o.f \in Inos \cup {0}
  BY <1>1, <1>2 DEF Callers, CallerOK, Shape
<1>4. ASSUME NEW i \in Inos, i # o.f PROVE Agrees(i)
  BY <1>1, <1>2, <1>4 DEF Known, Exempt
<1>5. icache = [i \in Inos |-> icache[i]]
  BY <1>1 DEF Shape
<1>6. CASE Opens(o.op) /\ r.ok
  <2>1. o.op # "unlink" /\ o.op # "write" /\ r.i \in Inos /\ r.size = disk.size[r.i] /\ o.f = 0
    BY <1>2, <1>3, <1>6 DEF Opens, Answers
  <2>2. /\ clients' = [clients EXCEPT ![c] = UIdle(r.i)] /\ icache' = ufs_iget(icache, r.i, r.size)
        /\ unsure' = unsure \ {r.i}
    BY <1>2, <1>6, <2>1 DEF Answered, Opens
  <2>3. PICK k, w : k = r.i /\ w = UIdle(k)
    OBVIOUS
  <2>4. k \in Inos /\ w.f = k /\ w.pc = "user" /\ clients' = [clients EXCEPT ![c] = w]
    BY <2>1, <2>2, <2>3 DEF UIdle, Caller
  <2>5. /\ icache' = [i \in Inos |-> icache'[i]] /\ \A i \in Inos \ {k} : icache'[i] = icache[i]
        /\ icache'[k].ref = icache[k].ref + 1 /\ icache'[k].size = disk.size[k]
    BY <1>5, <2>1, <2>2, <2>3 DEF ufs_iget, InoObj
  <2>6. \A i \in Inos : Cardinality({d \in Clients : clients'[d].f = i}) =
                           IF i = k THEN icache[i].ref + 1 ELSE icache[i].ref
    BY <1>2, <2>1, <2>4, OpenCounted
  <2>7. \A i \in Inos : icache'[i].ref = Cardinality({d \in Clients : clients'[d].f = i})
    BY <2>5, <2>6
  <2>8. ASSUME NEW i \in Inos PROVE Agrees(i)'
    <3>1. CASE i = k
      BY <2>5, <3>1 DEF Agrees
    <3>2. CASE i # k
      <4>1. i # o.f
        BY <1>1, <2>1
      <4>2. Agrees(i)
        BY <1>4, <4>1
      <4>3. QED
        BY <2>2, <2>3, <2>5, <3>2, <4>2 DEF Agrees
    <3>3. QED
      BY <3>1, <3>2
  <2>9. QED
    BY <2>4, <2>5, <2>7, <2>8, ReplyEnds
<1>7. CASE ~Opens(o.op) \/ ~r.ok
  <2>1. PICK w : /\ clients' = [clients EXCEPT ![c] = w] /\ w.f = o.f
                 /\ w.pc = "user" \/ (w.pc = "lock" /\ w.n = o.n /\ w.op = o.op /\ r.ok /\ o.op = "write")
    <3>1. CASE r.ok /\ o.op = "write" /\ o.left > 1
      <4>1. PICK w : w = Caller("lock", o.op, o.n, o.left - 1, o.f, o.off + 1)
        OBVIOUS
      <4>2. clients' = [clients EXCEPT ![c] = w]
        BY <1>2, <3>1, <4>1 DEF Answered
      <4>3. w.f = o.f /\ w.pc = "lock" /\ w.n = o.n /\ w.op = o.op
        BY <4>1 DEF Caller
      <4>4. QED
        BY <3>1, <4>2, <4>3
    <3>2. CASE ~(r.ok /\ o.op = "write" /\ o.left > 1)
      <4>1. PICK w : w = UIdle(o.f)
        OBVIOUS
      <4>2. clients' = [clients EXCEPT ![c] = w]
        BY <1>2, <1>7, <3>2, <4>1 DEF Answered, Opens
      <4>3. w.f = o.f /\ w.pc = "user"
        BY <4>1 DEF UIdle, Caller
      <4>4. QED
        BY <4>2, <4>3
    <3>3. QED
      BY <3>1, <3>2
  <2>2. w.f \in Inos \cup {0}
    BY <1>3, <2>1
  <2>3. w.pc = "user" \/ (w.pc = "lock" /\ w.n \in UNames /\ ~Opens(w.op) /\ w.f \in Inos)
    BY <1>3, <1>7, <2>1 DEF Sized
  <2>4. w.f = clients[c].f
    BY <1>2, <2>1
  <2>5. \A d \in Clients : clients'[d].f = clients[d].f
    BY <2>1, <2>4, CallerFrame
  <2>6. ASSUME NEW i PROVE {d \in Clients : clients'[d].f = i} = {d \in Clients : clients[d].f = i}
    BY <2>5
  <2>7. CASE r.ok /\ Sized(o.op)
    <3>1. o.op # "unlink" /\ r.i = o.f /\ o.f \in Inos /\ r.size = disk.size[o.f]
      BY <1>2, <1>3, <2>7 DEF Sized, Answers
    <3>2. icache' = apply_attr(icache, o.f, r.size) /\ unsure' = unsure \ {o.f}
      BY <1>2, <2>7, <3>1 DEF Answered, Sized
    <3>3. PICK k : k = o.f
      OBVIOUS
    <3>4. /\ icache' = [i \in Inos |-> icache'[i]] /\ \A i \in Inos \ {k} : icache'[i] = icache[i]
          /\ icache'[k].ref = icache[k].ref /\ icache'[k].size = disk.size[k]
      BY <1>5, <3>1, <3>2, <3>3 DEF apply_attr, InoObj
    <3>5. ASSUME NEW i \in Inos PROVE icache'[i].ref = Cardinality({d \in Clients : clients'[d].f = i})
      <4>1. icache'[i].ref = icache[i].ref
        BY <3>4
      <4>2. QED
        BY <1>1, <2>6, <4>1 DEF Counted
    <3>6. ASSUME NEW i \in Inos PROVE Agrees(i)'
      <4>1. CASE i = k
        BY <3>4, <4>1 DEF Agrees
      <4>2. CASE i # k
        <5>1. Agrees(i)
          BY <1>4, <3>3, <4>2
        <5>2. QED
          BY <3>2, <3>3, <3>4, <4>2, <5>1 DEF Agrees
      <4>3. QED
        BY <4>1, <4>2
    <3>7. QED
      BY <2>1, <2>2, <2>3, <3>4, <3>5, <3>6, ReplyEnds
  <2>8. CASE ~(r.ok /\ Sized(o.op))
    <3>1. icache' = icache /\ unsure' = unsure
      BY <1>2, <1>7, <2>8 DEF Answered, Opens, Sized
    <3>2. Agrees(o.f)
      BY <1>2, <2>8 DEF Answers
    <3>3. \A i \in Inos : Agrees(i)
      BY <1>4, <3>2
    <3>4. \A i \in Inos : Agrees(i)'
      BY <3>1, <3>3 DEF Agrees
    <3>5. \A i \in Inos : icache'[i].ref = Cardinality({d \in Clients : clients'[d].f = i})
      BY <1>1, <2>6, <3>1 DEF Counted
    <3>6. icache' = [i \in Inos |-> icache'[i]]
      BY <1>5, <3>1
    <3>7. QED
      BY <2>1, <2>2, <2>3, <3>4, <3>5, <3>6, ReplyEnds
  <2>9. QED
    BY <2>7, <2>8
<1>8. QED
  BY <1>6, <1>7

LEMMA ReplyStep ==
  ASSUME UfsInv, NEW c \in Clients, ufs_reply(c)
  PROVE  UfsInv'
<1>1. clients[c].pc = "wait" /\ msgs.rep # <<>> /\ msgs' = Msgs(msgs.req, Tail(msgs.rep))
      /\ sb' = sb /\ server' = server /\ disk' = disk
  BY DEF ufs_reply
<1>2. ulock = c /\ Stage(c) /\ ~sb.dead
  BY <1>1, Holder
<1>3. Returned(c)
  BY <1>1, <1>2 DEF Stage, Sent, AtServer, Done, Lost, Empty
<1>4. PICK r : msgs.rep = <<r>> /\ Answers(r, c)
  BY <1>3 DEF Returned
<1>5. Head(msgs.rep) = r /\ Tail(msgs.rep) = <<>>
  BY <1>4, Singles
<1>6. r.id = sb.id
  BY <1>4 DEF Answers
<1>7. Answered(c, r) /\ ulock' = Nobody
  BY <1>5, <1>6 DEF ufs_reply
<1>8. Resting /\ Empty'
  BY <1>1, <1>3, <1>5 DEF Returned, Empty, Msgs
<1>9. QED
  BY <1>1, <1>2, <1>4, <1>7, <1>8, AnsweredStep

\* The last file on an inode takes what the kernel knew of it along.
LEMMA CloseStep ==
  ASSUME UfsInv, NEW c \in Clients, ufs_close(c)
  PROVE  UfsInv'
<1>1. /\ clients[c].pc = "user" /\ clients[c].f # 0 /\ clients' = [clients EXCEPT ![c] = UIdle(0)]
      /\ icache' = ufs_iput(icache, clients[c].f) /\ unsure' = {i \in unsure : icache'[i].ref > 0}
      /\ sb' = sb /\ ulock' = ulock /\ msgs' = msgs /\ server' = server /\ disk' = disk
  BY DEF ufs_close
<1>2. Shape /\ Callers /\ Waited /\ Connected /\ DeadFree /\ Quiet /\ GivenUp /\ Counted /\ Known
  BY DEF UfsInv
<1>3. PICK k, w : k = clients[c].f /\ w = UIdle(0)
  OBVIOUS
<1>4. k \in Inos /\ w.f = 0 /\ w.pc = "user" /\ clients' = [clients EXCEPT ![c] = w]
  BY <1>1, <1>2, <1>3 DEF Shape, UIdle, Caller
<1>5. clients' = [d \in Clients |-> clients'[d]] /\ clients'[c] = w /\ \A d \in Clients \ {c} : clients'[d] = clients[d]
  BY <1>2, <1>4 DEF Shape
<1>6. ulock # c
  BY <1>1, <1>2 DEF Callers, CallerOK
<1>7. icache = [i \in Inos |-> icache[i]]
  BY <1>2 DEF Shape
<1>8. /\ icache' = [i \in Inos |-> icache'[i]] /\ \A i \in Inos \ {k} : icache'[i] = icache[i]
      /\ icache'[k] = IF icache[k].ref = 1 THEN NoInoObj ELSE InoObj(icache[k].ref - 1, icache[k].size)
  BY <1>1, <1>3, <1>4, <1>7 DEF ufs_iput
<1>9. 1 - 1 = 0 /\ ~(0 > 0) /\ \A n \in Nat : n > 0 \/ n = 0
  BY SMTT(60), Z3T(60)
<1>10. icache'[k].ref = icache[k].ref - 1 /\ (icache'[k].ref > 0 => icache'[k].size = icache[k].size)
  <2>1. CASE icache[k].ref = 1
    <3>1. icache'[k].ref = 0
      <4>1. icache'[k] = NoInoObj
        BY <1>8, <2>1
      <4>2. NoInoObj.ref = 0
        BY DEF NoInoObj, InoObj
      <4>3. QED
        BY <4>1, <4>2
    <3>2. QED
      BY <1>9, <2>1, <3>1
  <2>2. CASE icache[k].ref # 1
    <3>1. PICK ref, size : ref = icache[k].ref - 1 /\ size = icache[k].size
      OBVIOUS
    <3>2. icache'[k] = InoObj(ref, size)
      BY <1>8, <2>2, <3>1
    <3>3. InoObj(ref, size).ref = ref /\ InoObj(ref, size).size = size
      BY DEF InoObj
    <3>4. QED
      BY <3>1, <3>2, <3>3
  <2>3. QED
    BY <2>1, <2>2
<1>11. \A i \in Inos : Cardinality({d \in Clients : clients'[d].f = i}) =
                          IF i = k THEN icache[i].ref - 1 ELSE icache[i].ref
  BY <1>3, <1>4, CloseCounted
<1>12. ASSUME NEW i \in Inos PROVE icache'[i].ref = Cardinality({d \in Clients : clients'[d].f = i})
  BY <1>8, <1>10, <1>11
<1>13. Counted'
  BY <1>12 DEF Counted
<1>14. ASSUME NEW i \in Inos PROVE icache'[i].ref \in Nat
  <2>1. IsFiniteSet({d \in Clients : clients'[d].f = i})
    BY FS_Subset, UfsAssumption
  <2>2. Cardinality({d \in Clients : clients'[d].f = i}) \in Nat
    BY <2>1, FS_CardinalityType
  <2>3. QED
    BY <1>12, <2>2
<1>15. ASSUME NEW i \in Inos, icache'[i].ref > 0 PROVE icache[i].ref > 0 /\ icache'[i].size = icache[i].size
  <2>1. CASE i = k
    <3>1. icache[k].ref \in Nat /\ icache[k].ref - 1 > 0
      BY <1>4, <1>10, <1>15, <2>1, RefNat
    <3>2. icache[k].ref > 0
      BY <3>1, SMTT(60), Z3T(60)
    <3>3. QED
      BY <1>10, <1>15, <2>1, <3>2
  <2>2. CASE i # k
    BY <1>8, <1>15, <2>2
  <2>3. QED
    BY <2>1, <2>2
<1>16. ASSUME NEW i \in Inos, icache[i].ref = 0 PROVE icache'[i].ref = 0
  <2>1. ~(icache'[i].ref > 0)
    BY <1>9, <1>15, <1>16
  <2>2. QED
    BY <1>9, <1>14, <2>1
<1>17. ASSUME NEW i, Agrees(i) PROVE Agrees(i)'
  <2>1. CASE i \in Inos /\ icache'[i].ref > 0 /\ i \notin unsure'
    <3>1. i \notin unsure
      BY <1>1, <2>1
    <3>2. QED
      BY <1>1, <1>15, <1>17, <2>1, <3>1 DEF Agrees
  <2>2. CASE ~(i \in Inos /\ icache'[i].ref > 0 /\ i \notin unsure')
    BY <2>2 DEF Agrees
  <2>3. QED
    BY <2>1, <2>2
<1>18. ASSUME NEW q, Harmless(q) PROVE Harmless(q)'
  <2>1. q.n \in UNames
    BY <1>18 DEF Harmless
  <2>2. ASSUME Sized(q.op) PROVE q.i \in Inos /\ (q.i \in unsure' \/ icache'[q.i].ref = 0)
    <3>1. q.i \in Inos /\ (q.i \in unsure \/ icache[q.i].ref = 0)
      BY <1>18, <2>2 DEF Harmless
    <3>2. CASE icache'[q.i].ref = 0
      BY <3>1, <3>2
    <3>3. CASE icache'[q.i].ref # 0
      <4>1. icache'[q.i].ref > 0
        BY <1>9, <1>14, <3>1, <3>3
      <4>2. q.i \in unsure
        BY <1>16, <3>1, <3>3
      <4>3. QED
        BY <1>1, <3>1, <4>1, <4>2
    <3>4. QED
      BY <3>2, <3>3
  <2>3. QED
    BY <2>1, <2>2 DEF Harmless
<1>19. Shape'
  BY <1>1, <1>2, <1>4, <1>5, <1>8 DEF Shape
<1>20. CallerOK(c)'
  BY <1>1, <1>4, <1>5, <1>6 DEF CallerOK
<1>21. Callers'
  BY <1>1, <1>2, <1>5, <1>20 DEF Callers, CallerOK
<1>22. ASSUME NEW i \in Inos PROVE Agrees(i)' \/ Exempt(i)'
  <2>1. CASE Agrees(i)
    BY <1>17, <2>1
  <2>2. CASE Exempt(i)
    <3>1. PICK d \in Clients : ulock = d /\ clients[d].f = i
      BY <2>2 DEF Exempt
    <3>2. clients'[d] = clients[d]
      BY <1>5, <1>6, <3>1
    <3>3. QED
      BY <1>1, <3>1, <3>2 DEF Exempt
  <2>3. QED
    BY <1>2, <2>1, <2>2 DEF Known
<1>23. ASSUME NEW d \in Clients, ulock = d PROVE Stage(d)'
  <2>1. clients'[d] = clients[d] /\ Stage(d)
    BY <1>2, <1>5, <1>6, <1>23 DEF Waited
  <2>2. PICK f : f = clients[d].f
    OBVIOUS
  <2>3. Agrees(f) => Agrees(f)'
    BY <1>17
  <2>4. \A q : Asked(q, d) => Asked(q, d)'
    BY <1>1, <2>1, <2>2, <2>3 DEF Asked
  <2>5. \A r : Answers(r, d) => Answers(r, d)'
    BY <1>1, <2>1, <2>2, <2>3 DEF Answers
  <2>6. QED
    BY <1>1, <2>1, <2>4, <2>5, StageKept
<1>24. Waited' /\ Known'
  BY <1>1, <1>22, <1>23 DEF Waited, Known
<1>25. GivenUp'
  BY <1>1, <1>2, <1>18 DEF GivenUp, Served
<1>26. Connected' /\ DeadFree' /\ Quiet'
  BY <1>1, <1>2 DEF Connected, Served, DeadFree, Quiet, Empty, Resting
<1>27. QED
  BY <1>13, <1>19, <1>21, <1>24, <1>25, <1>26 DEF UfsInv

-----------------------------------------------------------------------------
LEMMA UfsInitInv ==
  ASSUME UfsInit
  PROVE  UfsInv
<1>1. /\ sb.dead = FALSE /\ sb.chan = 0 /\ ulock = Nobody /\ Empty /\ server.st = "serve" /\ server.chan = 0
      /\ icache = [i \in Inos |-> NoInoObj] /\ clients = [c \in Clients |-> UIdle(0)]
      /\ disk.dir = [n \in UNames |-> 0] /\ disk.size = [i \in Inos |-> 0]
  BY DEF UfsInit, Mount, Server, Tree, Msgs, Empty
<1>2. Nobody \notin Clients /\ 0 \notin Inos
  BY UfsAssumption
<1>3. UIdle(0).pc = "user" /\ UIdle(0).f = 0 /\ NoInoObj.ref = 0 /\ NoInoObj.size = 0
  BY DEF UIdle, Caller, NoInoObj, InoObj
<1>4. Shape
  BY <1>1, <1>3 DEF Shape
<1>5. Callers
  BY <1>1, <1>2, <1>3 DEF Callers, CallerOK
<1>6. Waited /\ Connected /\ DeadFree /\ Quiet /\ GivenUp
  BY <1>1, <1>2 DEF Waited, Connected, DeadFree, Quiet, GivenUp, Resting
<1>7. ASSUME NEW i \in Inos PROVE icache[i].ref = Cardinality({c \in Clients : clients[c].f = i})
  <2>1. {c \in Clients : clients[c].f = i} = {}
    BY <1>1, <1>2, <1>3
  <2>2. QED
    BY <1>1, <1>3, <2>1, FS_EmptySet
<1>8. Counted
  BY <1>7 DEF Counted
<1>9. Known
  BY <1>1, <1>3 DEF Known, Agrees
<1>10. QED
  BY <1>4, <1>5, <1>6, <1>8, <1>9 DEF UfsInv

LEMMA UfsNextInv ==
  ASSUME UfsInv, [UfsNext]_ufs_vars
  PROVE  UfsInv'
<1>1. CASE \E c \in Clients : begin(c) \/ ufs_reply(c) \/ ufs_dead(c) \/ ufs_close(c)
  BY <1>1, BeginStep, ReplyStep, DeadStep, CloseStep
<1>2. CASE \E c \in Clients : \E op \in UOps[c], n \in UNames : Call(c, op, n)
  BY <1>2, CallStep
<1>3. CASE ufs_serve \/ ufs_attach \/ olux_msg_recv \/ handle \/ olux_msg_send
  BY <1>3, ServeStep, AttachStep, RecvStep, HandleStep, SendStep
<1>4. CASE Stalls \/ Resumes
  BY <1>4, StallStep
<1>5. CASE Dies
  BY <1>5, DiesStep
<1>6. CASE UNCHANGED ufs_vars
  <2>1. /\ sb' = sb /\ ulock' = ulock /\ clients' = clients /\ icache' = icache /\ msgs' = msgs
        /\ server' = server /\ disk' = disk /\ unsure' = unsure
    BY <1>6 DEF ufs_vars
  <2>2. /\ Shape' /\ Callers' /\ DeadFree' /\ Counted' /\ Known'
        /\ \A q, c : Asked(q, c)' <=> Asked(q, c)
        /\ \A r, c : Answers(r, c)' <=> Answers(r, c)
        /\ \A q : Harmless(q)' <=> Harmless(q)
    BY <2>1, ServerFrame
  <2>3. \A c : Stage(c) => Stage(c)'
    BY <2>1, <2>2, StageKept
  <2>4. Waited' /\ Connected' /\ Quiet' /\ GivenUp'
    BY <2>1, <2>2, <2>3 DEF UfsInv, Waited, Connected, Served, Quiet, Empty, Resting, GivenUp
  <2>5. QED
    BY <2>2, <2>4 DEF UfsInv
<1>7. QED
  BY <1>1, <1>2, <1>3, <1>4, <1>5, <1>6 DEF UfsNext, ClientStep, ServerStep

\* Callers, the mount, its channel and its servers stay in step: at most one request is
\* under way, it is the lock holder's, and wherever it is the kernel can tell from its
\* reply what the file has become; a server that was given up can do no harm (ufs_call,
\* ufs_attach, handle).
THEOREM UfsInvariant == UfsSpec => []UfsInv
<1>1. UfsInit => UfsInv
  BY UfsInitInv
<1>2. UfsInv /\ [UfsNext]_ufs_vars => UfsInv'
  BY UfsNextInv
<1>3. QED
  BY <1>1, <1>2, PTL DEF UfsSpec

\* Whenever no call holds the mount, the size the kernel has of an open file is the
\* server's unless a call on it failed since the last answer, and an inode is cached for
\* exactly the files open on it (apply_attr, ufs_iget, ufs_evict).
THEOREM SizesKeptExact == UfsSpec => []UfsExact
<1>1. UfsInv => UfsExact
  <2> SUFFICES ASSUME UfsInv PROVE UfsExact
    OBVIOUS
  <2>1. Counted /\ Known /\ Nobody \notin Clients
    BY UfsAssumption DEF UfsInv
  <2>2. ulock = Nobody => \A i \in Inos : Agrees(i)
    BY <2>1 DEF Known, Exempt
  <2>3. QED
    BY <2>1, <2>2 DEF UfsExact, Counted, Agrees
<1>2. QED
  BY <1>1, UfsInvariant, PTL

-----------------------------------------------------------------------------
(* The ticket spinlock *)

Ticketed == Holders \cup Waiting

(***************************************************************************)
(* The tickets drawn and not yet served are exactly the interval from      *)
(* owner up to next: they are distinct, they lie in the interval, and      *)
(* there are as many CPUs as the interval is long.  The last conjunct is   *)
(* what rules out a counter that wraps onto a ticket still in use.         *)
(***************************************************************************)
TicketsDistinct == \A c, d \in Ticketed : ticket[c] = ticket[d] => c = d
TicketsPending == \A c \in Ticketed : Dist(serving, ticket[c]) < Dist(serving, next)
HolderIsServed == \A c \in Holders : ticket[c] = serving
TicketsCounted == Cardinality(Ticketed) = Dist(serving, next)

SpinInv ==
    /\ SpinTypeOK
    /\ TicketsDistinct
    /\ TicketsPending
    /\ HolderIsServed
    /\ TicketsCounted

\* A counter step stays in range, and moves the distance to or from it by one.
LEMMA IncType == \A x \in Tickets : Inc(x) \in Tickets
  BY SMTT(60), Z3T(60), TicketAssumption DEF Inc, Tickets

LEMMA DistGrows ==
    \A a, b \in Tickets :
        Dist(a, b) < W - 1 => Dist(a, Inc(b)) = Dist(a, b) + 1
  BY SMTT(60), Z3T(60), TicketAssumption DEF Inc, Tickets, Dist

LEMMA DistShrinks ==
    \A a, b \in Tickets :
        a # b => Dist(Inc(a), b) = Dist(a, b) - 1
  BY SMTT(60), Z3T(60), TicketAssumption DEF Inc, Tickets, Dist

LEMMA DistRange ==
    \A a, b \in Tickets : /\ Dist(a, b) \in 0 .. W - 1
                          /\ Dist(a, b) = 0 <=> a = b
  BY SMTT(60), Z3T(60), TicketAssumption DEF Tickets, Dist

LEMMA DistInjective ==
    \A a, b, d \in Tickets : Dist(a, b) = Dist(a, d) => b = d
  BY SMTT(60), Z3T(60), TicketAssumption DEF Tickets, Dist

\* A CPU outside the ticketed ones leaves room for one more ticket.
LEMMA RoomForOne ==
    ASSUME NEW S, S \subseteq Cpus, NEW c \in Cpus, c \notin S
    PROVE  /\ IsFiniteSet(S)
           /\ Cardinality(S) \in Nat
           /\ Cardinality(S) < W - 1
           /\ Cardinality(S \cup {c}) = Cardinality(S) + 1
  <1>1. IsFiniteSet(S) /\ Cardinality(S) \in Nat
    BY FS_Subset, FS_CardinalityType, TicketAssumption
  <1>2. Cardinality(S \cup {c}) = Cardinality(S) + 1
    BY <1>1, FS_AddElement
  <1>3. S \cup {c} \subseteq Cpus
    OBVIOUS
  <1>4. Cardinality(S \cup {c}) <= Cardinality(Cpus)
    BY <1>3, FS_Subset, TicketAssumption
  <1>5. Cardinality(Cpus) \in Nat
    BY FS_CardinalityType, TicketAssumption
  <1> QED BY SMTT(60), Z3T(60), <1>1, <1>2, <1>4, <1>5, TicketAssumption

LEMMA SpinInitInv == SpinInit => SpinInv
  <1> SUFFICES ASSUME SpinInit PROVE SpinInv
    OBVIOUS
  <1>1. Ticketed = {}
    BY DEF SpinInit, Ticketed, Holders, Waiting
  <1>2. Cardinality(Ticketed) = 0
    BY <1>1, FS_EmptySet
  <1>3. SpinTypeOK
    BY SMTT(60), Z3T(60), TicketAssumption, FS_CardinalityType DEF SpinInit, SpinTypeOK, Tickets, SpinPCs
  <1>4. Dist(serving, next) = 0
    BY SMTT(60), Z3T(60) DEF SpinInit, Dist
  <1> QED
    BY <1>1, <1>2, <1>3, <1>4
    DEF SpinInv, TicketsDistinct, TicketsPending, HolderIsServed, TicketsCounted, Ticketed

\* Steps that leave counters and tickets alone and keep the CPUs in their roles.
LEMMA Neutral ==
    ASSUME SpinInv, SpinTypeOK', serving' = serving, next' = next,
           Ticketed' = Ticketed, \A c \in Ticketed : ticket'[c] = ticket[c],
           \A c \in Holders' : ticket[c] = serving
    PROVE  SpinInv'
  <1>1. TicketsDistinct' /\ TicketsPending' /\ TicketsCounted'
    BY SMTT(60), Z3T(60) DEF SpinInv, TicketsDistinct, TicketsPending, TicketsCounted, Dist
  <1>2. HolderIsServed'
    BY DEF HolderIsServed, Ticketed
  <1> QED BY <1>1, <1>2 DEF SpinInv

LEMMA SpinNextInv == SpinInv /\ [SpinNext]_spin_vars => SpinInv'
  <1> SUFFICES ASSUME SpinInv, [SpinNext]_spin_vars PROVE SpinInv'
    OBVIOUS
  <1> USE DEF SpinGoto
  <1>t. SpinTypeOK' /\ SpinTypeOK
    <2>0. SpinTypeOK
      BY DEF SpinInv
    <2> USE DEF SpinTypeOK, SpinPCs
    <2>1. ASSUME NEW c \in Cpus, TakeTicket(c) PROVE SpinTypeOK'
      BY <2>0, <2>1, IncType, TicketAssumption DEF TakeTicket
    <2>2. ASSUME NEW c \in Cpus, CheckOwner(c) PROVE SpinTypeOK'
      BY <2>0, <2>2 DEF CheckOwner
    <2>3. ASSUME NEW c \in Cpus, WaitForEvent(c) PROVE SpinTypeOK'
      BY <2>0, <2>3 DEF WaitForEvent
    <2>4. ASSUME NEW c \in Cpus, RecordHolder(c) PROVE SpinTypeOK'
      BY <2>0, <2>4 DEF RecordHolder
    <2>5. ASSUME NEW c \in Cpus, TryRead(c) PROVE SpinTypeOK'
      BY <2>0, <2>5 DEF TryRead
    <2>6. ASSUME NEW c \in Cpus, TryCas(c) PROVE SpinTypeOK'
      BY <2>0, <2>6, IncType, TicketAssumption DEF TryCas
    <2>7. ASSUME NEW c \in Cpus, ForgetHolder(c) PROVE SpinTypeOK'
      BY <2>0, <2>7 DEF ForgetHolder
    <2>8. ASSUME NEW c \in Cpus, StoreOwner(c) PROVE SpinTypeOK'
      BY <2>0, <2>8, IncType, TicketAssumption DEF StoreOwner
    <2>9. ASSUME NEW c \in Cpus, SendEvent(c) PROVE SpinTypeOK'
      BY <2>0, <2>9 DEF SendEvent
    <2>10. CASE UNCHANGED spin_vars
      BY <2>0, <2>10 DEF spin_vars
    <2> HIDE DEF SpinTypeOK
    <2> QED BY <2>0, <2>1, <2>2, <2>3, <2>4, <2>5, <2>6, <2>7, <2>8, <2>9, <2>10
            DEF SpinNext, SpinLock, TryLock, SpinUnlock
  <1>1. ASSUME NEW c \in Cpus, TakeTicket(c) PROVE SpinInv'
    <2>1. c \notin Ticketed /\ Ticketed' = Ticketed \cup {c} /\ Holders' = Holders
      BY <1>1, <1>t DEF TakeTicket, Ticketed, Holders, Waiting, SpinTypeOK
    <2>2. Cardinality(Ticketed) < W - 1 /\ Cardinality(Ticketed') = Cardinality(Ticketed) + 1
      BY <2>1, RoomForOne DEF Ticketed, Holders, Waiting
    <2>3. Dist(serving, next)' = Dist(serving, next) + 1
      BY <2>2, <1>1, DistGrows, <1>t DEF TakeTicket, SpinInv, TicketsCounted, SpinTypeOK, Dist
    <2>4. ticket'[c] = next /\ \A d \in Ticketed : ticket'[d] = ticket[d]
      BY <1>1, <2>1, <1>t DEF TakeTicket, SpinTypeOK, Ticketed, Holders, Waiting
    <2>5. serving' = serving
      BY <1>1 DEF TakeTicket
    <2>6. \A d \in Ticketed : ticket[d] # next
      BY SMTT(60), Z3T(60), DistInjective, DistRange, <1>t DEF SpinInv, TicketsPending, SpinTypeOK, Ticketed, Holders, Waiting
    <2>7. TicketsDistinct'
      BY SMTT(60), Z3T(60), <2>1, <2>4, <2>6 DEF SpinInv, TicketsDistinct
    <2>8. TicketsPending'
      <3> SUFFICES ASSUME NEW d \in Ticketed' PROVE Dist(serving, ticket'[d]) < Dist(serving, next) + 1
        BY <2>3, <2>5 DEF TicketsPending, Dist
      <3>1. Dist(serving, next) \in Nat
        BY SMTT(60), Z3T(60), DistRange, <1>t DEF SpinTypeOK
      <3>2. CASE d = c
        BY SMTT(60), Z3T(60), <3>1, <3>2, <2>4
      <3>3. CASE d \in Ticketed
        <4>1. Dist(serving, ticket[d]) < Dist(serving, next)
          BY <3>3 DEF SpinInv, TicketsPending
        <4>2. Dist(serving, ticket[d]) \in Nat
          BY SMTT(60), Z3T(60), <3>3, DistRange, <1>t DEF SpinTypeOK, Ticketed, Holders, Waiting
        <4> QED BY SMTT(60), Z3T(60), <4>1, <4>2, <3>1, <3>3, <2>4
      <3> QED BY <3>2, <3>3, <2>1
    <2>9. HolderIsServed'
      BY <2>1, <2>4, <2>5 DEF SpinInv, HolderIsServed, Ticketed
    <2>10. TicketsCounted'
      BY <2>2, <2>3 DEF SpinInv, TicketsCounted
    <2> QED BY <2>7, <2>8, <2>9, <2>10, <1>t DEF SpinInv
  <1>2. ASSUME NEW c \in Cpus, CheckOwner(c) PROVE SpinInv'
    BY <1>2, <1>t, Neutral
    DEF CheckOwner, Ticketed, Holders, Waiting, SpinTypeOK, SpinInv, HolderIsServed
  <1>3. ASSUME NEW c \in Cpus, WaitForEvent(c) PROVE SpinInv'
    BY <1>3, <1>t, Neutral
    DEF WaitForEvent, Ticketed, Holders, Waiting, SpinTypeOK, SpinInv, HolderIsServed
  <1>4. ASSUME NEW c \in Cpus, RecordHolder(c) PROVE SpinInv'
    BY <1>4, <1>t, Neutral
    DEF RecordHolder, Ticketed, Holders, Waiting, SpinTypeOK, SpinInv, HolderIsServed
  <1>5. ASSUME NEW c \in Cpus, TryRead(c) PROVE SpinInv'
    BY <1>5, <1>t, Neutral
    DEF TryRead, Ticketed, Holders, Waiting, SpinTypeOK, SpinInv, HolderIsServed
  <1>6. ASSUME NEW c \in Cpus, TryCas(c) PROVE SpinInv'
    <2>1. CASE serving = ticket[c] /\ next = ticket[c]
      <3>1. c \notin Ticketed /\ Ticketed' = Ticketed \cup {c} /\ Holders' = Holders \cup {c}
        BY <1>6, <2>1, <1>t DEF TryCas, Ticketed, Holders, Waiting, SpinTypeOK
      <3>2. Dist(serving, next) = 0
        BY <2>1, DistRange, <1>t DEF SpinTypeOK
      <3>3. Cardinality(Ticketed) < W - 1 /\ Cardinality(Ticketed') = Cardinality(Ticketed) + 1
        BY <3>1, RoomForOne DEF Ticketed, Holders, Waiting
      <3>4. Dist(serving, next)' = 1
        BY SMTT(60), Z3T(60), <3>2, <3>3, <1>6, <2>1, DistGrows, <1>t DEF TryCas, SpinInv, TicketsCounted, SpinTypeOK, Dist
      <3>5. Ticketed = {}
        BY SMTT(60), Z3T(60), <3>2, DistRange, <1>t DEF SpinInv, TicketsPending, SpinTypeOK, Ticketed, Holders, Waiting
      <3>6. Ticketed' = {c} /\ Holders' = {c}
        BY <3>1, <3>5 DEF Ticketed
      <3>7. ticket' = ticket /\ serving' = serving
        BY <1>6 DEF TryCas
      <3>8. Dist(serving, ticket[c]) = 0
        BY <2>1, DistRange, <1>t DEF SpinTypeOK
      <3>9. TicketsPending'
        BY SMTT(60), Z3T(60), <3>4, <3>6, <3>7, <3>8 DEF TicketsPending, Dist
      <3>10. TicketsDistinct' /\ HolderIsServed'
        BY <3>6, <3>7, <2>1 DEF TicketsDistinct, HolderIsServed
      <3>11. TicketsCounted'
        BY SMTT(60), Z3T(60), <3>2, <3>3, <3>4 DEF SpinInv, TicketsCounted
      <3> QED BY <3>9, <3>10, <3>11, <1>t DEF SpinInv
    <2>2. CASE ~(serving = ticket[c] /\ next = ticket[c])
      BY <1>6, <2>2, <1>t, Neutral
      DEF TryCas, Ticketed, Holders, Waiting, SpinTypeOK, SpinInv, HolderIsServed
    <2> QED BY <2>1, <2>2
  <1>7. ASSUME NEW c \in Cpus, ForgetHolder(c) PROVE SpinInv'
    BY <1>7, <1>t, Neutral
    DEF ForgetHolder, Ticketed, Holders, Waiting, SpinTypeOK, SpinInv, HolderIsServed
  <1>8. ASSUME NEW c \in Cpus, StoreOwner(c) PROVE SpinInv'
    <2>1. c \in Holders /\ ticket[c] = serving
      BY <1>8 DEF StoreOwner, Holders, SpinInv, HolderIsServed
    <2>2. \A d \in Ticketed : d # c => ticket[d] # serving
      BY <2>1 DEF SpinInv, TicketsDistinct, Ticketed
    <2>3. Ticketed' = Ticketed \ {c} /\ Holders' = {} /\ c \in Ticketed
      BY <1>8, <2>1, <2>2, <1>t DEF StoreOwner, Ticketed, Holders, Waiting, SpinTypeOK, SpinInv, HolderIsServed
    <2>4. serving # next
      BY SMTT(60), Z3T(60), <2>1, DistRange, <1>t DEF SpinInv, TicketsPending, SpinTypeOK, Ticketed
    <2>5. serving' = Inc(serving) /\ next' = next /\ ticket' = ticket
      BY <1>8 DEF StoreOwner
    <2>6. Dist(serving', next') = Dist(serving, next) - 1
      BY <2>4, <2>5, DistShrinks, <1>t DEF SpinTypeOK
    <2>7. TicketsPending'
      <3> SUFFICES ASSUME NEW d \in Ticketed' PROVE Dist(serving', ticket[d]) < Dist(serving', next')
        BY <2>5 DEF TicketsPending, Dist
      <3>1. ticket[d] \in Tickets /\ ticket[d] # serving /\ d \in Ticketed
        BY <2>2, <2>3, <1>t DEF SpinTypeOK, Ticketed, Holders, Waiting
      <3>2. Dist(serving', ticket[d]) = Dist(serving, ticket[d]) - 1
        BY <3>1, <2>5, DistShrinks, <1>t DEF SpinTypeOK
      <3>3. Dist(serving, ticket[d]) < Dist(serving, next)
        BY <3>1 DEF SpinInv, TicketsPending
      <3>4. Dist(serving, ticket[d]) \in Int /\ Dist(serving, next) \in Int
        BY SMTT(60), Z3T(60), <3>1, DistRange, <1>t DEF SpinTypeOK
      <3> QED BY SMTT(60), Z3T(60), <3>2, <3>3, <3>4, <2>6
    <2>8. TicketsDistinct' /\ HolderIsServed'
      BY <2>3, <2>5 DEF SpinInv, TicketsDistinct, HolderIsServed
    <2>9. TicketsCounted'
      <3>1. IsFiniteSet(Ticketed)
        BY FS_Subset, TicketAssumption DEF Ticketed, Holders, Waiting
      <3>2. Cardinality(Ticketed \ {c}) = Cardinality(Ticketed) - 1
        BY <3>1, <2>3, FS_RemoveElement
      <3> QED BY <3>2, <2>3, <2>6 DEF SpinInv, TicketsCounted, Dist
    <2> QED BY <2>7, <2>8, <2>9, <1>t DEF SpinInv
  <1>9. ASSUME NEW c \in Cpus, SendEvent(c) PROVE SpinInv'
    BY <1>9, <1>t, Neutral
    DEF SendEvent, Ticketed, Holders, Waiting, SpinTypeOK, SpinInv, HolderIsServed
  <1>10. CASE UNCHANGED spin_vars
    BY <1>10, <1>t, Neutral
    DEF spin_vars, Ticketed, Holders, Waiting, SpinInv, HolderIsServed
  <1> QED
    BY <1>1, <1>2, <1>3, <1>4, <1>5, <1>6, <1>7, <1>8, <1>9, <1>10
    DEF SpinNext, SpinLock, TryLock, SpinUnlock

LEMMA InvExcludes == SpinInv => MutualExclusion
  BY DEF SpinInv, TicketsDistinct, HolderIsServed, MutualExclusion, Ticketed

\* The counters, tickets and event registers keep their types (spinlock.c).
THEOREM SpinlockTypeCorrect == SpinSpec => []SpinTypeOK
  <1>1. SpinInv => SpinTypeOK
    BY DEF SpinInv
  <1> QED BY SpinInitInv, SpinNextInv, <1>1, PTL DEF SpinSpec

\* spin_lock, spin_trylock and spin_unlock exclude, for any number of CPUs below
\* the number of ticket values and across any number of counter wraps.
THEOREM SpinlockExcludes == SpinSpec => []MutualExclusion
  BY SpinInitInv, SpinNextInv, InvExcludes, PTL DEF SpinSpec

\* l->cpu names exactly the CPU between RecordHolder and ForgetHolder.
THEOREM SpinlockRecordsHolder == SpinSpec => []HolderRecorded
  <1> DEFINE HInv == SpinInv /\ HolderRecorded
  <1>1. SpinInit => HInv
    BY SpinInitInv DEF SpinInit, HolderRecorded
  <1>2. HInv /\ [SpinNext]_spin_vars => HInv'
    <2> SUFFICES ASSUME HInv, [SpinNext]_spin_vars PROVE HolderRecorded'
      BY SpinNextInv
    <2>1. SpinTypeOK /\ MutualExclusion /\ MutualExclusion'
      BY SpinNextInv DEF SpinInv, TicketsDistinct, HolderIsServed, MutualExclusion, Ticketed
    <2> USE TicketAssumption DEF SpinGoto
    <2>2. CASE UNCHANGED spin_vars
      BY <2>2 DEF spin_vars, HolderRecorded
    <2>3. ASSUME NEW c \in Cpus, SpinLock(c) PROVE HolderRecorded'
      BY SMTT(60), Z3T(60), <2>3, <2>1 DEF SpinLock, TakeTicket, CheckOwner, WaitForEvent, RecordHolder,
         HolderRecorded, SpinTypeOK, MutualExclusion, Holders
    <2>4. ASSUME NEW c \in Cpus, TryLock(c) PROVE HolderRecorded'
      BY <2>4, <2>1 DEF TryLock, TryRead, TryCas, HolderRecorded, SpinTypeOK
    <2>5. ASSUME NEW c \in Cpus, SpinUnlock(c) PROVE HolderRecorded'
      BY SMTT(60), Z3T(60), <2>5, <2>1 DEF SpinUnlock, ForgetHolder, StoreOwner, SendEvent,
         HolderRecorded, SpinTypeOK, MutualExclusion, Holders
    <2> QED BY <2>2, <2>3, <2>4, <2>5 DEF SpinNext
  <1> QED BY <1>1, <1>2, PTL DEF SpinSpec

\* No CPU sleeps in WFE past the SEV that announces its ticket.
THEOREM SpinlockLosesNoEvent == SpinSpec => []NoLostEvent
  <1> DEFINE EInv == SpinTypeOK /\ NoLostEvent
  <1>1. SpinInit => EInv
    BY SpinInitInv DEF SpinInv, SpinInit, NoLostEvent
  <1>2. EInv /\ SpinTypeOK' /\ [SpinNext]_spin_vars => EInv'
    <2> SUFFICES ASSUME EInv, [SpinNext]_spin_vars PROVE NoLostEvent'
      OBVIOUS
    <2> USE DEF SpinGoto, SpinTypeOK, NoLostEvent
    <2>1. CASE UNCHANGED spin_vars
      BY <2>1 DEF spin_vars
    <2>2. ASSUME NEW c \in Cpus, SpinLock(c) PROVE NoLostEvent'
      BY <2>2 DEF SpinLock, TakeTicket, CheckOwner, WaitForEvent, RecordHolder
    <2>3. ASSUME NEW c \in Cpus, TryLock(c) PROVE NoLostEvent'
      BY <2>3 DEF TryLock, TryRead, TryCas
    <2>4. ASSUME NEW c \in Cpus, SpinUnlock(c) PROVE NoLostEvent'
      BY <2>4 DEF SpinUnlock, ForgetHolder, StoreOwner, SendEvent
    <2> QED BY <2>1, <2>2, <2>3, <2>4 DEF SpinNext
  <1> QED BY <1>1, <1>2, SpinlockTypeCorrect, PTL DEF SpinSpec

\* "Fair ticket spinlock" (spinlock.h): a waiting CPU gets the lock only by seeing
\* its own ticket served, and then nobody who waits has an earlier one.
THEOREM SpinlockIsFair == SpinSpec => FirstComeFirstServed
  <1> DEFINE Fair == \A c, d \in Waiting :
               Dist(serving, ticket[c]) < Dist(serving, ticket[d]) => lpc'[d] # "got"
  <1>1. SpinTypeOK /\ [SpinNext]_spin_vars => [Fair]_spin_vars
    <2> SUFFICES ASSUME SpinTypeOK, SpinNext, NEW c \in Waiting, NEW d \in Waiting,
                        Dist(serving, ticket[c]) < Dist(serving, ticket[d]), lpc'[d] = "got"
                 PROVE  FALSE
      OBVIOUS
    <2>1. /\ c \in Cpus /\ d \in Cpus /\ lpc[d] \in {"check", "wfe"}
          /\ ticket[c] \in Tickets /\ ticket[d] \in Tickets /\ serving \in Tickets
      BY DEF Waiting, SpinTypeOK
    <2>2. PICK e \in Cpus : SpinLock(e) \/ TryLock(e) \/ SpinUnlock(e)
      BY DEF SpinNext
    <2>3. e = d /\ serving = ticket[d]
      BY <2>1, <2>2 DEF SpinLock, TryLock, SpinUnlock, TakeTicket, CheckOwner, WaitForEvent,
         RecordHolder, TryRead, TryCas, ForgetHolder, StoreOwner, SendEvent, SpinGoto, SpinTypeOK
    <2>4. Dist(serving, ticket[d]) = 0 /\ Dist(serving, ticket[c]) \in 0 .. W - 1
      BY <2>1, <2>3, DistRange
    <2> QED BY SMTT(60), Z3T(60), <2>4, TicketAssumption
  <1> QED BY <1>1, SpinlockTypeCorrect, PTL DEF SpinSpec, FirstComeFirstServed

=============================================================================
