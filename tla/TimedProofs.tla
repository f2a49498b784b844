---------------------------- MODULE TimedProofs ----------------------------
(***************************************************************************)
(* Timers and futexes.  For any number of CPUs and timers the lists of     *)
(* kernel/time.c are exact and sorted, cancelled timers stay off, and the  *)
(* compare register never lets a timer or a tick be overslept.  For any    *)
(* number of threads, words and values futex waiters are linked exactly    *)
(* while they wait, no wake-up is lost and none is swallowed.              *)
(***************************************************************************)
EXTENDS Timed, ListTheorems

\* Leaves that name no prover go to Zenon; those that need arithmetic, records
\* or function updates name SMT.  They name Z3 too: tlapm allows itself 5 seconds
\* to encode a leaf, overruns them now and then, and then tries the next name.
USE ZenonT(40)

-----------------------------------------------------------------------------
(* Timers *)

CallType == [pc : Calls, cpu : Cpus \cup {NoCpu}, then : {"none", "decide", "insert"}, exp : Nat]

TimerTypeOK ==
    /\ now \in Nat
    /\ expires \in [Timers -> Nat]
    /\ tcpu \in [Timers -> Cpus \cup {NoCpu}]
    /\ pending \in [Timers -> BOOLEAN]
    /\ list \in [Cpus -> Seq(Timers)]
    /\ next_tick \in [Cpus -> Nat] /\ hw \in [Cpus -> Nat] /\ inow \in [Cpus -> Nat]
    /\ irq \in [Cpus -> {"off", "loop", "fn", "call"}]
    /\ popped \in [Cpus -> Timers \cup {NoTimer}]
    /\ call \in [Actors -> CallType]
    /\ interval \in [Timers -> BOOLEAN] /\ armed \in [Timers -> BOOLEAN]
    /\ only \in Cpus \cup {NoCpu}

\* The tick is a multiple of its period, at most one period ahead of the clock,
\* and ahead of the time that the running interrupt has read.
Ticks ==
    \A c \in Cpus :
        /\ \E n \in Nat : next_tick[c] = n * TICK_NSEC
        /\ inow[c] <= now /\ next_tick[c] <= now + TICK_NSEC
        /\ irq[c] # "off" => inow[c] < next_tick[c] /\ next_tick[c] <= inow[c] + TICK_NSEC

\* Between the ktimer_cancel of an owner and its ktimer_start.
Stopped(t) == call[t].pc = "decide" \/ call[t].then = "insert"

\* A timer that is being started is not pending; one that is off stays off; only
\* on a single CPU are there interval timers.
OwnerOK(t) ==
    /\ interval[t] => armed[t] /\ only # NoCpu
    /\ ~armed[t] => ~pending[t] /\ call[t].then # "insert"
    /\ Stopped(t) => ~pending[t]
    /\ call[t].pc # "none" => call[t].cpu \in Online /\ call[t].then # "none"
    /\ call[t].pc = "insert" => call[t].then = "insert"
Owners == \A t \in Timers : OwnerOK(t)

\* A callback that restarts its timer finds it off, and its owner not at it.
CallbackOK(c) ==
    /\ irq[c] # "off" => c \in Online
    /\ irq[c] \in {"fn", "call"} => popped[c] \in Timers
    /\ call[c].pc # "none" => irq[c] = "call" /\ call[c].then = "insert"
    /\ irq[c] = "call" => interval[popped[c]]
    /\ irq[c] \in {"fn", "call"} /\ interval[popped[c]] =>
         ~Stopped(popped[c]) /\ ~pending[popped[c]]
Callbacks == \A c \in Cpus : CallbackOK(c)

TimerInv == /\ TimerTypeOK /\ PendingExact /\ Sorted /\ HardwareCovers
            /\ Ticks /\ Owners /\ Callbacks

-----------------------------------------------------------------------------
\* The entries of u are entries of s, in the same order.
Keeps(u, s) ==
    \A i, j \in DOMAIN u : i < j => \E m, n \in DOMAIN s : m < n /\ u[i] = s[m] /\ u[j] = s[n]

\* list_del: the others stay in order.
LEMMA DeletedList ==
  ASSUME NEW T, NEW s \in Seq(T), NEW k \in DOMAIN s, Distinct(s)
  PROVE  /\ Deleted(s, k) \in Seq(T) /\ Distinct(Deleted(s, k))
         /\ Elems(Deleted(s, k)) = Elems(s) \ {s[k]}
         /\ Keeps(Deleted(s, k), s)
<1>1. Deleted(s, k) = Cut(s, k)
  BY DEF Deleted, Cut
<1>2. /\ Cut(s, k) \in Seq(T) /\ Distinct(Cut(s, k))
      /\ Elems(Cut(s, k)) = Elems(s) \ {s[k]}
  BY CutList
<1>3. Len(s) \in Nat /\ DOMAIN s = 1 .. Len(s) /\ k \in 1 .. Len(s)
  BY SMTT(60), Z3T(60)
<1>4. DOMAIN Deleted(s, k) = 1 .. Len(s) - 1
  BY DEF Deleted
<1>5. ASSUME NEW i \in DOMAIN Deleted(s, k), NEW j \in DOMAIN Deleted(s, k), i < j
      PROVE  \E m, n \in DOMAIN s : m < n /\ Deleted(s, k)[i] = s[m] /\ Deleted(s, k)[j] = s[n]
  <2>1. /\ Deleted(s, k)[i] = s[IF i < k THEN i ELSE i + 1]
        /\ Deleted(s, k)[j] = s[IF j < k THEN j ELSE j + 1]
    BY <1>4 DEF Deleted
  <2>2. /\ (IF i < k THEN i ELSE i + 1) < (IF j < k THEN j ELSE j + 1)
        /\ (IF i < k THEN i ELSE i + 1) \in DOMAIN s /\ (IF j < k THEN j ELSE j + 1) \in DOMAIN s
    BY <1>3, <1>4, <1>5, SMTT(60), Z3T(60)
  <2>3. QED
    BY <2>1, <2>2
<1>6. /\ Deleted(s, k) \in Seq(T) /\ Distinct(Deleted(s, k))
      /\ Elems(Deleted(s, k)) = Elems(s) \ {s[k]}
  BY <1>1, <1>2
<1>7. Keeps(Deleted(s, k), s)
  BY <1>5 DEF Keeps
<1>8. QED
  BY <1>6, <1>7

\* list_add_tail in front of the k-th entry.
LEMMA AddedList ==
  ASSUME NEW T, NEW s \in Seq(T), NEW t \in T, NEW k \in 1 .. Len(s) + 1,
         t \notin Elems(s), Distinct(s)
  PROVE  /\ Added(s, k, t) \in Seq(T) /\ Distinct(Added(s, k, t))
         /\ Elems(Added(s, k, t)) = Elems(s) \cup {t}
         /\ DOMAIN Added(s, k, t) = 1 .. Len(s) + 1 /\ Added(s, k, t)[k] = t
         /\ \A i \in 1 .. Len(s) + 1 : /\ i < k => i \in DOMAIN s /\ Added(s, k, t)[i] = s[i]
                                       /\ k < i => i - 1 \in DOMAIN s /\ Added(s, k, t)[i] = s[i - 1]
<1> DEFINE u == Added(s, k, t)
<1>1. Len(s) \in Nat /\ DOMAIN s = 1 .. Len(s) /\ \A i \in DOMAIN s : s[i] \in T
  BY SMTT(60), Z3T(60)
<1>2. DOMAIN u = 1 .. Len(s) + 1
  BY DEF Added
<1>3. u[k] = t
  BY SMTT(60), Z3T(60) DEF Added
<1>4. ASSUME NEW i \in 1 .. Len(s) + 1
      PROVE  /\ i < k => i \in DOMAIN s /\ u[i] = s[i]
             /\ k < i => i - 1 \in DOMAIN s /\ u[i] = s[i - 1]
  BY <1>1, SMTT(60), Z3T(60) DEF Added
<1>5. u \in Seq(T)
  <2>1. u = [i \in 1 .. Len(s) + 1 |-> u[i]]
    BY DEF Added
  <2> HIDE DEF u
  <2>2. \A i \in 1 .. Len(s) + 1 : u[i] \in T
    <3> SUFFICES ASSUME NEW i \in 1 .. Len(s) + 1 PROVE u[i] \in T
      OBVIOUS
    <3>1. i = k \/ i < k \/ k < i
      BY <1>1, SMTT(60), Z3T(60)
    <3>2. QED
      BY <1>1, <1>3, <1>4, <3>1
  <2>3. u \in [1 .. Len(s) + 1 -> T] /\ Len(s) + 1 \in Nat
    BY <1>1, <2>1, <2>2, SMTT(60), Z3T(60)
  <2>4. QED
    BY <2>3, SMTT(60), Z3T(60)
<1> HIDE DEF u
<1>6. \A i \in DOMAIN u : i # k => \E m \in DOMAIN s : u[i] = s[m]
  <2> SUFFICES ASSUME NEW i \in DOMAIN u, i # k PROVE \E m \in DOMAIN s : u[i] = s[m]
    OBVIOUS
  <2>1. i < k \/ k < i
    BY <1>1, <1>2, SMTT(60), Z3T(60)
  <2>2. QED
    BY <1>2, <1>4, <2>1
<1>7. \A m \in DOMAIN s : \E i \in DOMAIN u : u[i] = s[m]
  <2> SUFFICES ASSUME NEW m \in DOMAIN s PROVE \E i \in DOMAIN u : u[i] = s[m]
    OBVIOUS
  <2>1. CASE m < k
    <3>1. m \in 1 .. Len(s) + 1
      BY <1>1, SMTT(60), Z3T(60)
    <3>2. QED
      BY <1>2, <1>4, <2>1, <3>1
  <2>2. CASE ~(m < k)
    <3>1. k < m + 1 /\ m + 1 \in 1 .. Len(s) + 1 /\ m + 1 - 1 = m
      BY <1>1, <2>2, SMTT(60), Z3T(60)
    <3>2. u[m + 1] = s[m + 1 - 1]
      BY <1>4, <3>1, SMTT(60), Z3T(60)
    <3>3. m + 1 \in DOMAIN u /\ u[m + 1] = s[m]
      BY <1>2, <3>1, <3>2, SMTT(60), Z3T(60)
    <3>4. QED
      BY <3>3
  <2>3. QED
    BY <2>1, <2>2
<1>8. Elems(u) = Elems(s) \cup {t}
  <2>1. k \in DOMAIN u
    BY <1>2
  <2>2. ASSUME NEW x \in Elems(u) PROVE x \in Elems(s) \cup {t}
    <3>1. PICK i \in DOMAIN u : x = u[i]
      BY DEF Elems
    <3>2. QED
      BY <1>3, <1>6, <3>1 DEF Elems
  <2>3. ASSUME NEW x \in Elems(s) PROVE x \in Elems(u)
    <3>1. PICK m \in DOMAIN s : x = s[m]
      BY DEF Elems
    <3>2. PICK i \in DOMAIN u : u[i] = s[m]
      BY <1>7
    <3>3. QED
      BY <3>1, <3>2 DEF Elems
  <2>4. t \in Elems(u)
    BY <1>3, <2>1 DEF Elems
  <2>5. QED
    BY <2>2, <2>3, <2>4
<1>9. Distinct(u)
  <2> SUFFICES ASSUME NEW i \in DOMAIN u, NEW j \in DOMAIN u, u[i] = u[j] PROVE i = j
    BY DEF Distinct
  <2>1. \A x \in DOMAIN u : u[x] = t => x = k
    BY <1>6 DEF Elems
  <2>2. CASE i = k \/ j = k
    BY <2>1, <2>2, <1>3
  <2>3. CASE i # k /\ j # k
    <3>1. \A x \in DOMAIN u : x # k =>
             \E m \in DOMAIN s : s[m] = u[x] /\ m = IF x < k THEN x ELSE x - 1
      <4> SUFFICES ASSUME NEW x \in DOMAIN u, x # k
                   PROVE  \E m \in DOMAIN s : s[m] = u[x] /\ m = IF x < k THEN x ELSE x - 1
        OBVIOUS
      <4>1. CASE x < k
        BY <1>2, <1>4, <4>1
      <4>2. CASE ~(x < k)
        <5>1. k < x
          BY <1>1, <1>2, <4>2, SMTT(60), Z3T(60)
        <5>2. QED
          BY <1>2, <1>4, <4>2, <5>1
      <4>3. QED
        BY <4>1, <4>2
    <3>2. PICK m \in DOMAIN s : s[m] = u[i] /\ m = IF i < k THEN i ELSE i - 1
      BY <2>3, <3>1
    <3>3. PICK n \in DOMAIN s : s[n] = u[j] /\ n = IF j < k THEN j ELSE j - 1
      BY <2>3, <3>1
    <3>4. m = n
      BY <3>2, <3>3 DEF Distinct
    <3>5. QED
      BY <1>1, <1>2, <2>3, <3>2, <3>3, <3>4, SMTT(60), Z3T(60)
  <2>4. QED
    BY <2>2, <2>3
<1>10. QED
  BY <1>2, <1>3, <1>4, <1>5, <1>8, <1>9 DEF u

-----------------------------------------------------------------------------
\* timer_interrupt skips the missed ticks: the next one is in the future, by one
\* period at most, and on the grid.
LEMMA TickSkips ==
  ASSUME NEW T \in Nat, T # 0, NEW a \in Nat, NEW b \in Nat, a <= b,
         \E n \in Nat : a = n * T
  PROVE  LET x == a + ((b - a) \div T + 1) * T
         IN  x \in Nat /\ b < x /\ x <= b + T /\ \E n \in Nat : x = n * T
<1> DEFINE d == b - a
           q == d \div T
<1>1. d \in Nat
  BY SMTT(60), Z3T(60)
<1>2. q \in Nat /\ q * T <= d /\ d < q * T + T
  BY <1>1, SMTT(60), Z3T(60)
<1>3. (q + 1) * T = q * T + T
  BY <1>2, SMTT(60), Z3T(60)
<1>4. PICK n \in Nat : a = n * T
  OBVIOUS
<1>5. n * T + (q + 1) * T = (n + q + 1) * T
  BY <1>2, SMTT(60), Z3T(60)
<1>6. q * T \in Nat /\ n + q + 1 \in Nat
  BY <1>2, SMTT(60), Z3T(60)
<1> DEFINE z == q * T
<1>7. b < a + (z + T) /\ a + (z + T) <= b + T /\ a + (z + T) \in Nat
  <2>1. z \in Nat /\ z <= b - a /\ b - a < z + T
    BY <1>2, <1>6
  <2> HIDE DEF z
  <2>2. QED
    BY <2>1, SMTT(60), Z3T(60)
<1>8. QED
  BY <1>3, <1>4, <1>5, <1>6, <1>7

\* A multiple of the period is on the grid.
LEMMA Multiple ==
  ASSUME NEW T \in Nat, T # 0, NEW n \in Nat
  PROVE  (n * T) % T = 0
  BY SMTT(60), Z3T(60)

-----------------------------------------------------------------------------
\* PendingExact in the words of ListTheorems.
Linking ==
    /\ \A c \in Cpus : Distinct(list[c])
    /\ \A t \in Timers : /\ pending[t] => tcpu[t] # NoCpu
                         /\ \A c \in Cpus : t \in Elems(list[c]) <=> pending[t] /\ tcpu[t] = c

LEMMA LinkingIs == PendingExact <=> Linking
BY DEF PendingExact, Linking, Distinct, Elems, On

LEMMA LinkingIsNext == PendingExact' <=> Linking'
BY DEF PendingExact, Linking, Distinct, Elems, On

\* ktimer_cancel and timer_interrupt unlink a timer and clear its flag.
Unlinks(c, k) ==
    /\ list' = [d \in Cpus |-> IF d = c THEN Deleted(list[c], k) ELSE list[d]]
    /\ pending' = [pending EXCEPT ![list[c][k]] = FALSE]
    /\ tcpu' \in [Timers -> Cpus \cup {NoCpu}]
    /\ \A u \in Timers : u # list[c][k] => tcpu'[u] = tcpu[u]
    /\ expires' = expires

LEMMA UnlinkInv ==
  ASSUME TimerTypeOK, PendingExact, Sorted, NEW c \in Cpus, NEW k \in DOMAIN list[c],
         Unlinks(c, k)
  PROVE  /\ list' \in [Cpus -> Seq(Timers)] /\ pending' \in [Timers -> BOOLEAN]
         /\ PendingExact' /\ Sorted'
         /\ \A u \in Timers : pending'[u] => pending[u] /\ u # list[c][k]
         /\ \A d \in Cpus : \A i \in DOMAIN list'[d] :
              \E m \in DOMAIN list[d] : list'[d][i] = list[d][m]
<1> DEFINE t == list[c][k]
           l == Deleted(list[c], k)
<1>1. Linking /\ list[c] \in Seq(Timers)
  BY LinkingIs DEF TimerTypeOK
<1>2. t \in Timers /\ t \in Elems(list[c])
  <2>1. t \in Elems(list[c])
    BY DEF Elems
  <2>2. Elems(list[c]) \subseteq Timers
    BY <1>1, EmptyList
  <2>3. QED
    BY <2>1, <2>2
<1>3. Distinct(list[c])
  BY <1>1 DEF Linking
<1>4. /\ l \in Seq(Timers) /\ Distinct(l) /\ Elems(l) = Elems(list[c]) \ {t}
      /\ Keeps(l, list[c])
  BY <1>1, <1>3, DeletedList
<1>5. list'[c] = l /\ \A d \in Cpus : d # c => list'[d] = list[d]
  BY DEF Unlinks, TimerTypeOK
<1>6. pending'[t] = FALSE /\ \A u \in Timers : u # t => pending'[u] = pending[u] /\ tcpu'[u] = tcpu[u]
  BY <1>2 DEF Unlinks, TimerTypeOK
<1>7. list' \in [Cpus -> Seq(Timers)] /\ pending' \in [Timers -> BOOLEAN]
  BY <1>2, <1>4 DEF Unlinks, TimerTypeOK
<1>8. expires' = expires /\ pending[t] /\ tcpu[t] = c
  BY <1>1, <1>2 DEF Unlinks, Linking
<1> HIDE DEF t, l
<1>9. Linking'
  <2>1. ASSUME NEW d \in Cpus PROVE Distinct(list'[d])
    BY <1>1, <1>4, <1>5 DEF Linking
  <2>2. ASSUME NEW u \in Timers
        PROVE  /\ pending'[u] => tcpu'[u] # NoCpu
               /\ \A d \in Cpus : u \in Elems(list'[d]) <=> pending'[u] /\ tcpu'[u] = d
    <3>1. CASE u = t
      <4>1. ASSUME NEW d \in Cpus PROVE u \notin Elems(list'[d])
        <5>1. d = c \/ u \notin Elems(list[d])
          BY <1>1, <1>8, <3>1, <1>2 DEF Linking
        <5>2. QED
          BY <1>4, <1>5, <3>1, <5>1
      <4>2. QED
        BY <1>6, <3>1, <4>1
    <3>2. CASE u # t
      <4>1. ASSUME NEW d \in Cpus PROVE u \in Elems(list'[d]) <=> u \in Elems(list[d])
        BY <1>4, <1>5, <3>2
      <4>2. QED
        BY <1>1, <1>6, <3>2, <4>1 DEF Linking
    <3>3. QED
      BY <3>1, <3>2
  <2>3. QED
    BY <2>1, <2>2 DEF Linking
<1>10. ASSUME NEW d \in Cpus, NEW i \in DOMAIN list'[d], NEW j \in DOMAIN list'[d], i < j
       PROVE  \E m, n \in DOMAIN list[d] : m < n /\ list'[d][i] = list[d][m] /\ list'[d][j] = list[d][n]
  <2>1. CASE d = c
    <3>1. list'[d] = l /\ i \in DOMAIN l /\ j \in DOMAIN l
      BY <1>5, <2>1
    <3>2. PICK m \in DOMAIN list[c], n \in DOMAIN list[c] :
             m < n /\ l[i] = list[c][m] /\ l[j] = list[c][n]
      BY <1>4, <1>10, <3>1 DEF Keeps
    <3>3. QED
      BY <2>1, <3>1, <3>2
  <2>2. CASE d # c
    BY <1>5, <1>10, <2>2
  <2>3. QED
    BY <2>1, <2>2
<1>11. Sorted'
  <2> SUFFICES ASSUME NEW d \in Cpus, NEW i \in DOMAIN list'[d], NEW j \in DOMAIN list'[d], i < j
               PROVE  expires'[list'[d][i]] <= expires'[list'[d][j]]
    BY DEF Sorted
  <2>1. PICK m \in DOMAIN list[d], n \in DOMAIN list[d] :
           m < n /\ list'[d][i] = list[d][m] /\ list'[d][j] = list[d][n]
    BY <1>10
  <2>2. QED
    BY <1>8, <2>1 DEF Sorted
<1>12. ASSUME NEW d \in Cpus, NEW i \in DOMAIN list'[d]
       PROVE  \E m \in DOMAIN list[d] : list'[d][i] = list[d][m]
  <2>1. CASE d = c
    <3>1. list'[d][i] \in Elems(list[c])
      BY <1>4, <1>5, <2>1 DEF Elems
    <3>2. QED
      BY <2>1, <3>1 DEF Elems
  <2>2. CASE d # c
    BY <1>5, <2>2
  <2>3. QED
    BY <2>1, <2>2
<1>13. \A u \in Timers : pending'[u] => pending[u] /\ u # t
  BY <1>6, <1>7, <1>2
<1>14. QED
  BY <1>7, <1>9, <1>11, <1>12, <1>13, LinkingIsNext DEF t

\* ktimer_start links a timer that is off, keeping the list sorted.
Links(t, c, k, e) ==
    /\ t \in Timers /\ c \in Cpus /\ e \in Nat /\ k \in 1 .. Len(list[c]) + 1
    /\ ~pending[t] /\ IsPlace(list[c], k, e)
    /\ list' = [list EXCEPT ![c] = Added(list[c], k, t)]
    /\ pending' = [pending EXCEPT ![t] = TRUE]
    /\ tcpu' = [tcpu EXCEPT ![t] = c]
    /\ expires' = [expires EXCEPT ![t] = e]

LEMMA LinkInv ==
  ASSUME TimerTypeOK, PendingExact, Sorted, NEW t, NEW c, NEW k, NEW e, Links(t, c, k, e)
  PROVE  /\ list' \in [Cpus -> Seq(Timers)] /\ pending' \in [Timers -> BOOLEAN]
         /\ tcpu' \in [Timers -> Cpus \cup {NoCpu}] /\ expires' \in [Timers -> Nat]
         /\ PendingExact' /\ Sorted'
         /\ \A u \in Timers : pending'[u] => pending[u] \/ u = t
<1> DEFINE s == list[c]
           l == Added(s, k, t)
<1>1. t \in Timers /\ c \in Cpus /\ e \in Nat /\ k \in 1 .. Len(s) + 1 /\ ~pending[t]
  BY DEF Links
<1>2. Linking /\ s \in Seq(Timers) /\ Distinct(s) /\ Elems(s) \subseteq Timers
  <2>1. Linking /\ s \in Seq(Timers)
    BY <1>1, LinkingIs DEF TimerTypeOK
  <2>2. QED
    BY <1>1, <2>1, EmptyList DEF Linking
<1>3. \A d \in Cpus : t \notin Elems(list[d])
  BY <1>1, <1>2 DEF Linking
<1>4. /\ l \in Seq(Timers) /\ Distinct(l) /\ Elems(l) = Elems(s) \cup {t}
      /\ DOMAIN l = 1 .. Len(s) + 1 /\ l[k] = t
      /\ \A i \in 1 .. Len(s) + 1 : /\ i < k => i \in DOMAIN s /\ l[i] = s[i]
                                    /\ k < i => i - 1 \in DOMAIN s /\ l[i] = s[i - 1]
  BY <1>1, <1>2, <1>3, AddedList, SMTT(60), Z3T(60)
<1>5. list'[c] = l /\ \A d \in Cpus : d # c => list'[d] = list[d]
  BY <1>1 DEF Links, TimerTypeOK
<1>6. /\ pending'[t] = TRUE /\ tcpu'[t] = c /\ expires'[t] = e
      /\ \A u \in Timers : u # t => pending'[u] = pending[u] /\ tcpu'[u] = tcpu[u] /\ expires'[u] = expires[u]
  BY <1>1 DEF Links, TimerTypeOK
<1>7. /\ list' \in [Cpus -> Seq(Timers)] /\ pending' \in [Timers -> BOOLEAN]
      /\ tcpu' \in [Timers -> Cpus \cup {NoCpu}] /\ expires' \in [Timers -> Nat]
  BY <1>1, <1>4 DEF Links, TimerTypeOK
<1>8. /\ \A i \in 1 .. k - 1 : expires[s[i]] <= e
      /\ k <= Len(s) => expires[s[k]] > e
  BY DEF Links, IsPlace
<1>9. Len(s) \in Nat /\ DOMAIN s = 1 .. Len(s) /\ \A i \in DOMAIN s : s[i] \in Timers /\ s[i] # t /\ expires[s[i]] \in Nat
  <2>1. Len(s) \in Nat /\ DOMAIN s = 1 .. Len(s)
    BY <1>2, SMTT(60), Z3T(60)
  <2>2. ASSUME NEW i \in DOMAIN s PROVE s[i] \in Timers /\ s[i] # t
    BY <1>1, <1>2, <1>3 DEF Elems
  <2>3. QED
    BY <2>1, <2>2 DEF TimerTypeOK
<1> HIDE DEF s, l
<1>10. Linking'
  <2>1. ASSUME NEW d \in Cpus PROVE Distinct(list'[d])
    BY <1>2, <1>4, <1>5 DEF Linking
  <2>2. ASSUME NEW u \in Timers
        PROVE  /\ pending'[u] => tcpu'[u] # NoCpu
               /\ \A d \in Cpus : u \in Elems(list'[d]) <=> pending'[u] /\ tcpu'[u] = d
    <3>1. CASE u = t
      <4>1. ASSUME NEW d \in Cpus PROVE u \in Elems(list'[d]) <=> d = c
        BY <1>3, <1>4, <1>5, <3>1
      <4>2. c # NoCpu
        BY <1>1, KtimerAssumption
      <4>3. QED
        BY <1>6, <3>1, <4>1, <4>2
    <3>2. CASE u # t
      <4>1. ASSUME NEW d \in Cpus PROVE u \in Elems(list'[d]) <=> u \in Elems(list[d])
        BY <1>4, <1>5, <3>2 DEF s
      <4>2. pending'[u] = pending[u] /\ tcpu'[u] = tcpu[u]
        BY <1>6, <3>2
      <4>3. /\ pending[u] => tcpu[u] # NoCpu
            /\ \A d \in Cpus : u \in Elems(list[d]) <=> pending[u] /\ tcpu[u] = d
        BY <1>2 DEF Linking
      <4>4. QED
        BY <4>1, <4>2, <4>3
    <3>3. QED
      BY <3>1, <3>2
  <2>3. QED
    BY <2>1, <2>2 DEF Linking
<1>11. ASSUME NEW i \in DOMAIN l, NEW j \in DOMAIN l, i < j
       PROVE  expires'[l[i]] <= expires'[l[j]]
  <2>1. i \in 1 .. Len(s) + 1 /\ j \in 1 .. Len(s) + 1
    BY <1>4
  <2>2. \A m, n \in DOMAIN s : m < n => expires[s[m]] <= expires[s[n]]
    BY <1>1 DEF Sorted, s
  <2>3. \A m \in DOMAIN s : expires'[s[m]] = expires[s[m]]
    BY <1>6, <1>9
  <2>4. CASE j < k
    BY <1>1, <1>4, <1>9, <1>11, <2>1, <2>2, <2>3, <2>4, SMTT(60), Z3T(60)
  <2>5. CASE j = k
    <3>1. i < k /\ i \in 1 .. k - 1
      BY <1>1, <1>9, <1>11, <2>1, <2>5, SMTT(60), Z3T(60)
    <3>2. expires'[l[i]] = expires[s[i]] /\ expires'[l[j]] = e
      BY <1>4, <1>6, <2>1, <2>3, <2>5, <3>1
    <3>3. QED
      BY <1>8, <3>1, <3>2
  <2>6. CASE k < j
    <3>1. j - 1 \in DOMAIN s /\ expires'[l[j]] = expires[s[j - 1]] /\ k <= j - 1 /\ k <= Len(s) /\ k \in DOMAIN s
      BY <1>1, <1>4, <1>9, <2>1, <2>3, <2>6, SMTT(60), Z3T(60)
    <3>2. e < expires[s[j - 1]]
      <4>1. e < expires[s[k]] /\ expires[s[k]] \in Nat /\ expires[s[j - 1]] \in Nat
        BY <1>8, <1>9, <3>1, SMTT(60), Z3T(60)
      <4>2. k = j - 1 \/ expires[s[k]] <= expires[s[j - 1]]
        BY <1>1, <1>9, <2>2, <3>1, SMTT(60), Z3T(60)
      <4>3. QED
        BY <1>1, <4>1, <4>2, SMTT(60), Z3T(60)
    <3>3. CASE i = k
      BY <1>1, <1>4, <1>6, <1>9, <3>1, <3>2, <3>3, SMTT(60), Z3T(60)
    <3>4. CASE i < k
      <4>1. i \in DOMAIN s /\ expires'[l[i]] = expires[s[i]] /\ expires[s[i]] <= e
        BY <1>1, <1>4, <1>8, <1>9, <2>1, <2>3, <3>4, SMTT(60), Z3T(60)
      <4>2. QED
        BY <1>1, <1>9, <3>1, <3>2, <4>1, SMTT(60), Z3T(60)
    <3>5. CASE k < i
      <4>1. i - 1 \in DOMAIN s /\ expires'[l[i]] = expires[s[i - 1]] /\ i - 1 < j - 1
        BY <1>1, <1>4, <1>9, <1>11, <2>1, <2>3, <3>5, SMTT(60), Z3T(60)
      <4>2. QED
        BY <2>2, <3>1, <4>1
    <3>6. QED
      BY <1>1, <1>9, <2>1, <3>3, <3>4, <3>5, SMTT(60), Z3T(60)
  <2>7. QED
    BY <1>1, <1>9, <2>1, <2>4, <2>5, <2>6, SMTT(60), Z3T(60)
<1>12. Sorted'
  <2> SUFFICES ASSUME NEW d \in Cpus, NEW i \in DOMAIN list'[d], NEW j \in DOMAIN list'[d], i < j
               PROVE  expires'[list'[d][i]] <= expires'[list'[d][j]]
    BY DEF Sorted
  <2>1. CASE d = c
    BY <1>5, <1>11, <2>1
  <2>2. CASE d # c
    <3>1. list'[d] = list[d]
      BY <1>5, <2>2
    <3>2. list[d][i] \in Elems(list[d]) /\ list[d][j] \in Elems(list[d]) /\ Elems(list[d]) \subseteq Timers
      <4>1. list[d] \in Seq(Timers)
        BY DEF TimerTypeOK
      <4>2. Elems(list[d]) \subseteq Timers
        BY <4>1, EmptyList
      <4>3. QED
        BY <3>1, <4>2 DEF Elems
    <3>3. expires'[list[d][i]] = expires[list[d][i]] /\ expires'[list[d][j]] = expires[list[d][j]]
      BY <1>3, <1>6, <3>2
    <3>4. QED
      BY <3>1, <3>3 DEF Sorted
  <2>3. QED
    BY <2>1, <2>2
<1>13. \A u \in Timers : pending'[u] => pending[u] \/ u = t
  BY <1>6
<1>14. QED
  BY <1>7, <1>10, <1>12, <1>13, LinkingIsNext

\* ktimer_init and ktimer_cancel of a timer that is off.
LEMMA ForgetInv ==
  ASSUME TimerTypeOK, PendingExact, NEW t \in Timers, ~pending[t], list' = list,
         pending' = [pending EXCEPT ![t] = FALSE], tcpu' = [tcpu EXCEPT ![t] = NoCpu]
  PROVE  PendingExact'
<1>1. Linking
  BY LinkingIs
<1>2. /\ pending'[t] = FALSE /\ tcpu'[t] = NoCpu
      /\ \A u \in Timers : u # t => pending'[u] = pending[u] /\ tcpu'[u] = tcpu[u]
  BY DEF TimerTypeOK
<1>3. ASSUME NEW u \in Timers
      PROVE  /\ pending'[u] => tcpu'[u] # NoCpu
             /\ \A d \in Cpus : u \in Elems(list[d]) <=> pending'[u] /\ tcpu'[u] = d
  <2>1. CASE u = t
    BY <1>1, <1>2, <2>1 DEF Linking
  <2>2. CASE u # t
    BY <1>1, <1>2, <2>2 DEF Linking
  <2>3. QED
    BY <2>1, <2>2
<1>4. Linking'
  BY <1>1, <1>3 DEF Linking
<1>5. QED
  BY <1>4, LinkingIsNext

\* ktimer_cancel unlinks a pending timer from the one list it is on.
LEMMA WithoutIs ==
  ASSUME TimerTypeOK, PendingExact, NEW t \in Timers, pending[t]
  PROVE  \E c \in Cpus : \E k \in DOMAIN list[c] :
           /\ c = tcpu[t] /\ list[c][k] = t
           /\ Without(t) = [d \in Cpus |-> IF d = c THEN Deleted(list[c], k) ELSE list[d]]
<1>1. Linking /\ tcpu[t] \in Cpus \cup {NoCpu}
  BY LinkingIs DEF TimerTypeOK
<1>2. tcpu[t] # NoCpu /\ \A d \in Cpus : t \in Elems(list[d]) <=> tcpu[t] = d
  BY <1>1 DEF Linking
<1>3. PICK c \in Cpus : c = tcpu[t]
  BY <1>1, <1>2
<1>4. \A d \in Cpus : t \in On(d) <=> d = c
  BY <1>2, <1>3 DEF On, Elems
<1>5. PICK k \in DOMAIN list[c] : k = Index(list[c], t)
  BY <1>4 DEF On, Index
<1>6. list[c][k] = t
  BY <1>4, <1>5 DEF On, Index
<1>7. ASSUME NEW d \in Cpus
      PROVE  (IF t \in On(d) THEN Deleted(list[d], Index(list[d], t)) ELSE list[d])
                = IF d = c THEN Deleted(list[c], k) ELSE list[d]
  <2>1. CASE d = c
    BY <1>4, <1>5, <2>1
  <2>2. CASE d # c
    BY <1>4, <2>2
  <2>3. QED
    BY <2>1, <2>2
<1>8. Without(t) = [d \in Cpus |-> IF d = c THEN Deleted(list[c], k) ELSE list[d]]
  BY <1>7 DEF Without
<1>9. QED
  BY <1>3, <1>6, <1>8

\* The locked part of ktimer_cancel.
LEMMA CancelLists ==
  ASSUME TimerTypeOK, PendingExact, Sorted, HardwareCovers, NEW t \in Timers,
         list' = IF pending[t] THEN Without(t) ELSE list,
         pending' = [pending EXCEPT ![t] = FALSE], tcpu' = [tcpu EXCEPT ![t] = NoCpu],
         expires' = expires, hw' = hw, next_tick' = next_tick, irq' = irq
  PROVE  /\ list' \in [Cpus -> Seq(Timers)] /\ pending' \in [Timers -> BOOLEAN]
         /\ tcpu' \in [Timers -> Cpus \cup {NoCpu}]
         /\ PendingExact' /\ Sorted' /\ HardwareCovers'
         /\ \A u \in Timers : pending'[u] => pending[u] /\ u # t
<1>1. /\ pending' \in [Timers -> BOOLEAN] /\ tcpu' \in [Timers -> Cpus \cup {NoCpu}]
      /\ \A u \in Timers : u # t => pending'[u] = pending[u] /\ tcpu'[u] = tcpu[u]
      /\ pending'[t] = FALSE
  BY DEF TimerTypeOK
<1>2. CASE pending[t]
  <2>1. PICK c \in Cpus : \E k \in DOMAIN list[c] :
              /\ c = tcpu[t] /\ list[c][k] = t
              /\ Without(t) = [d \in Cpus |-> IF d = c THEN Deleted(list[c], k) ELSE list[d]]
    BY <1>2, WithoutIs
  <2>2. PICK k \in DOMAIN list[c] :
              /\ list[c][k] = t
              /\ Without(t) = [d \in Cpus |-> IF d = c THEN Deleted(list[c], k) ELSE list[d]]
    BY <2>1
  <2>3. Unlinks(c, k)
    BY <1>1, <1>2, <2>2 DEF Unlinks
  <2>4. /\ list' \in [Cpus -> Seq(Timers)] /\ PendingExact' /\ Sorted'
        /\ \A d \in Cpus : \A i \in DOMAIN list'[d] :
              \E m \in DOMAIN list[d] : list'[d][i] = list[d][m]
    BY <2>1, <2>3, UnlinkInv
  <2>5. HardwareCovers'
    <3> SUFFICES ASSUME NEW d \in Cpus, irq[d] = "off"
                 PROVE  hw[d] <= next_tick[d] /\ \A i \in DOMAIN list'[d] : hw[d] <= expires[list'[d][i]]
      BY DEF HardwareCovers
    <3>1. ASSUME NEW i \in DOMAIN list'[d] PROVE hw[d] <= expires[list'[d][i]]
      <4>1. PICK m \in DOMAIN list[d] : list'[d][i] = list[d][m]
        BY <2>4
      <4>2. QED
        BY <4>1 DEF HardwareCovers
    <3>2. QED
      BY <3>1 DEF HardwareCovers
  <2>6. QED
    BY <1>1, <2>4, <2>5
<1>3. CASE ~pending[t]
  <2>1. list' = list
    BY <1>3
  <2>2. PendingExact'
    BY <1>3, <2>1, ForgetInv
  <2>3. Sorted' /\ HardwareCovers'
    BY <2>1 DEF Sorted, HardwareCovers
  <2>4. list' \in [Cpus -> Seq(Timers)]
    BY <2>1 DEF TimerTypeOK
  <2>5. QED
    BY <1>1, <2>2, <2>3, <2>4
<1>4. QED
  BY <1>2, <1>3

-----------------------------------------------------------------------------
\* What a step leaves alone.
LEMMA SameLists ==
  ASSUME PendingExact, Sorted, UNCHANGED <<list, pending, tcpu, expires>>
  PROVE  PendingExact' /\ Sorted'
<1>1. ASSUME NEW c \in Cpus PROVE On(c)' = On(c)
  BY DEF On
<1>2. PendingExact'
  BY <1>1 DEF PendingExact
<1>3. Sorted'
  BY DEF Sorted
<1>4. QED
  BY <1>2, <1>3

LEMMA SameHw ==
  ASSUME HardwareCovers, UNCHANGED <<hw, next_tick, irq, list, expires>>
  PROVE  HardwareCovers'
BY DEF HardwareCovers

LEMMA SameTicks ==
  ASSUME Ticks, UNCHANGED <<next_tick, inow, now, irq>>
  PROVE  Ticks'
BY DEF Ticks

\* The record of a call.
LEMMA CallIs ==
  ASSUME TimerTypeOK, NEW a \in Actors, NEW r \in CallType, call' = [call EXCEPT ![a] = r]
  PROVE  call' \in [Actors -> CallType] /\ call'[a] = r /\ \A b \in Actors : b # a => call'[b] = call[b]
BY DEF TimerTypeOK

LEMMA CallRecords ==
  /\ NoCall \in CallType /\ NoCall.pc = "none" /\ NoCall.then = "none"
  /\ \A c \in Cpus \cup {NoCpu}, n \in {"decide", "insert"}, e \in Nat :
       LET r == Cancelling(c, n, e)
       IN  r \in CallType /\ r.pc = "read" /\ r.cpu = c /\ r.then = n /\ r.exp = e
  /\ \A r \in CallType, l \in Calls :
       LET q == Goes(r, l)
       IN  q \in CallType /\ q.pc = l /\ q.cpu = r.cpu /\ q.then = r.then /\ q.exp = r.exp
<1>1. NoCall \in CallType /\ NoCall.pc = "none" /\ NoCall.then = "none"
  BY SMTT(60), Z3T(60) DEF NoCall, CallType, Calls
<1>2. ASSUME NEW c \in Cpus \cup {NoCpu}, NEW n \in {"decide", "insert"}, NEW e \in Nat
      PROVE  LET r == Cancelling(c, n, e)
             IN  r \in CallType /\ r.pc = "read" /\ r.cpu = c /\ r.then = n /\ r.exp = e
  BY SMTT(60), Z3T(60) DEF Cancelling, CallType, Calls
<1>3. ASSUME NEW r \in CallType, NEW l \in Calls
      PROVE  LET q == Goes(r, l)
             IN  q \in CallType /\ q.pc = l /\ q.cpu = r.cpu /\ q.then = r.then /\ q.exp = r.exp
  BY SMTT(60), Z3T(60) DEF Goes, CallType, Calls
<1>4. QED
  BY <1>1, <1>2, <1>3

\* Timers and CPUs are different actors.
LEMMA ActorsDiffer ==
  /\ \A t \in Timers : t \in Actors /\ t \notin Cpus
  /\ \A c \in Cpus : c \in Actors /\ c \notin Timers
BY KtimerAssumption DEF Actors

\* While the code of an owner runs, no callback is about to restart a timer.
LEMMA NoRestart ==
  ASSUME TimerInv, NEW c \in Online, irq[c] = "off"
  PROVE  c \in Cpus /\ \A d \in Cpus : irq[d] # "off" => only = NoCpu
<1>1. Callbacks /\ only \in Cpus \cup {NoCpu}
  BY DEF TimerInv, TimerTypeOK
<1>2. QED
  BY <1>1 DEF Callbacks, CallbackOK, Online

LEMMA CallbacksKept ==
  ASSUME TimerInv, NEW c \in Online, irq[c] = "off", UNCHANGED <<irq, popped, only>>,
         \A d \in Cpus : call'[d] = call[d],
         \A u \in Timers : interval'[u] => only # NoCpu
  PROVE  Callbacks'
<1>1. /\ \A d \in Cpus : irq[d] # "off" => only = NoCpu
      /\ Callbacks /\ Owners
  BY NoRestart DEF TimerInv
<1> SUFFICES ASSUME NEW d \in Cpus
             PROVE  /\ irq'[d] # "off" => d \in Online'
                    /\ irq'[d] \in {"fn", "call"} => popped'[d] \in Timers
                    /\ call'[d].pc # "none" => irq'[d] = "call" /\ call'[d].then = "insert"
                    /\ irq'[d] = "call" => interval'[popped'[d]]
                    /\ irq'[d] \in {"fn", "call"} /\ interval'[popped'[d]] =>
                         ~Stopped(popped[d])' /\ ~pending'[popped'[d]]
  BY DEF Callbacks, CallbackOK
<1>2. /\ irq[d] # "off" => d \in Online
      /\ irq[d] \in {"fn", "call"} => popped[d] \in Timers
      /\ call[d].pc # "none" => irq[d] = "call" /\ call[d].then = "insert"
      /\ irq[d] = "call" => interval[popped[d]]
  BY <1>1 DEF Callbacks, CallbackOK
<1>3. irq[d] # "call"
  BY <1>1, <1>2 DEF Owners, OwnerOK
<1>4. irq[d] = "fn" => ~interval'[popped[d]]
  BY <1>1, <1>2
<1>5. Online' = Online
  BY DEF Online
<1>6. QED
  BY <1>2, <1>3, <1>4, <1>5

-----------------------------------------------------------------------------
\* An owner whose call is not affected.
LEMMA OwnerSame ==
  ASSUME NEW u, OwnerOK(u), interval'[u] = interval[u], armed'[u] = armed[u],
         pending'[u] => pending[u], call'[u] = call[u], only' = only
  PROVE  OwnerOK(u)'
<1>1. Online' = Online
  BY DEF Online
<1>2. (interval'[u] => armed'[u] /\ only' # NoCpu) /\ (~armed'[u] => ~pending'[u] /\ call'[u].then # "insert")
  BY DEF OwnerOK
<1>3. Stopped(u)' => ~pending'[u]
  BY DEF OwnerOK, Stopped
<1>4. /\ call'[u].pc # "none" => call'[u].cpu \in Online' /\ call'[u].then # "none"
      /\ call'[u].pc = "insert" => call'[u].then = "insert"
  BY <1>1 DEF OwnerOK
<1>5. QED
  BY <1>2, <1>3, <1>4 DEF OwnerOK

\* A step of t's owner leaves the other owners and all callbacks alone.
LEMMA OwnerStep ==
  ASSUME TimerInv, NEW t \in Timers, NEW c \in Online, irq[c] = "off", NEW r \in CallType,
         call' = [call EXCEPT ![t] = r], UNCHANGED <<irq, popped, only>>,
         \A u \in Timers : u # t => /\ interval'[u] = interval[u] /\ armed'[u] = armed[u]
                                    /\ pending'[u] => pending[u],
         call'[t] = r => OwnerOK(t)'
  PROVE  call' \in [Actors -> CallType] /\ Owners' /\ Callbacks'
<1>1. TimerTypeOK /\ Owners /\ t \in Actors
  BY ActorsDiffer DEF TimerInv
<1>2. call' \in [Actors -> CallType] /\ call'[t] = r /\ \A b \in Actors : b # t => call'[b] = call[b]
  BY <1>1, CallIs
<1>3. Owners'
  <2> SUFFICES ASSUME NEW u \in Timers, u # t PROVE OwnerOK(u)'
    BY <1>2 DEF Owners
  <2>1. call'[u] = call[u] /\ OwnerOK(u) /\ only' = only
    BY <1>1, <1>2, ActorsDiffer DEF Owners
  <2>2. interval'[u] = interval[u] /\ armed'[u] = armed[u] /\ (pending'[u] => pending[u])
    OBVIOUS
  <2>3. QED
    BY <2>1, <2>2, OwnerSame
<1>4. \A d \in Cpus : call'[d] = call[d]
  BY <1>2, ActorsDiffer
<1>5. \A u \in Timers : interval'[u] => only # NoCpu
  BY <1>3 DEF Owners, OwnerOK
<1>6. Callbacks'
  BY <1>4, <1>5, CallbacksKept
<1>7. QED
  BY <1>2, <1>3, <1>6

\* The steps of an owner.
LEMMA BeginInv ==
  ASSUME TimerInv, NEW t \in Timers, NEW c \in Online, Begin(t, c), only' = only
  PROVE  TimerInv'
<1> USE DEF dev
<1>1. /\ TimerTypeOK /\ PendingExact /\ Sorted /\ HardwareCovers /\ Ticks /\ OwnerOK(t)
      /\ irq[c] = "off" /\ UNCHANGED <<now, expires, tcpu, pending, list, dev, interval, armed>>
  BY DEF TimerInv, Begin, Owners
<1>2. c \in Cpus
  BY <1>1, NoRestart
<1> DEFINE r == Cancelling(c, "decide", 0)
<1>3. r \in CallType /\ r.pc = "read" /\ r.cpu = c /\ r.then = "decide"
  BY <1>2, CallRecords, SMTT(60), Z3T(60)
<1>4. call' = [call EXCEPT ![t] = r]
  BY DEF Begin
<1> HIDE DEF r
<1>5. call'[t] = r => OwnerOK(t)'
  BY <1>1, <1>3 DEF OwnerOK, Stopped, Online
<1>6. call' \in [Actors -> CallType] /\ Owners' /\ Callbacks'
  BY <1>1, <1>3, <1>4, <1>5, OwnerStep
<1>7. TimerTypeOK'
  BY <1>1, <1>6 DEF TimerTypeOK
<1>8. PendingExact' /\ Sorted' /\ HardwareCovers' /\ Ticks'
  BY <1>1, SameLists, SameHw, SameTicks
<1>9. QED
  BY <1>6, <1>7, <1>8 DEF TimerInv

\* Where an owner's code runs.
LEMMA OwnerAt ==
  ASSUME TimerInv, NEW t \in Timers, NEW l, At(t, l), l # "none"
  PROVE  /\ call[t].cpu \in Online /\ irq[call[t].cpu] = "off" /\ call[t] \in CallType
         /\ call[t].then # "none" /\ call[t].then \in Calls /\ OwnerOK(t) /\ call[t].pc = l
<1>1. TimerTypeOK /\ Owners /\ t \in Actors
  BY ActorsDiffer DEF TimerInv
<1>2. call[t] \in CallType /\ OwnerOK(t)
  BY <1>1 DEF TimerTypeOK, Owners
<1>3. call[t].pc = l /\ irq[call[t].cpu] = "off"
  BY DEF At, Runs
<1>4. call[t].then \in {"none", "decide", "insert"}
  BY <1>2 DEF CallType
<1>5. QED
  BY <1>2, <1>3, <1>4 DEF OwnerOK, Calls

LEMMA DisarmInv ==
  ASSUME TimerInv, NEW t \in Timers, Disarm(t), only' = only
  PROVE  TimerInv'
<1> USE DEF dev
<1>1. /\ TimerTypeOK /\ PendingExact /\ Sorted /\ HardwareCovers /\ Ticks /\ At(t, "decide")
      /\ UNCHANGED <<now, expires, tcpu, pending, list, dev>>
      /\ call' = [call EXCEPT ![t] = NoCall]
      /\ interval' = [interval EXCEPT ![t] = FALSE] /\ armed' = [armed EXCEPT ![t] = FALSE]
  BY DEF TimerInv, Disarm
<1>2. call[t].cpu \in Online /\ irq[call[t].cpu] = "off" /\ OwnerOK(t) /\ call[t].pc = "decide"
  BY <1>1, OwnerAt
<1>3. NoCall \in CallType /\ NoCall.pc = "none" /\ NoCall.then = "none"
  BY CallRecords
<1>4. /\ interval'[t] = FALSE /\ armed'[t] = FALSE
      /\ \A u \in Timers : u # t => interval'[u] = interval[u] /\ armed'[u] = armed[u]
      /\ interval' \in [Timers -> BOOLEAN] /\ armed' \in [Timers -> BOOLEAN]
  BY <1>1 DEF TimerTypeOK
<1>5. call'[t] = NoCall => OwnerOK(t)'
  BY <1>1, <1>2, <1>3, <1>4 DEF OwnerOK, Stopped
<1>6. call' \in [Actors -> CallType] /\ Owners' /\ Callbacks'
  BY <1>1, <1>2, <1>3, <1>4, <1>5, OwnerStep
<1>7. TimerTypeOK'
  BY <1>1, <1>4, <1>6 DEF TimerTypeOK
<1>8. PendingExact' /\ Sorted' /\ HardwareCovers' /\ Ticks'
  BY <1>1, SameLists, SameHw, SameTicks
<1>9. QED
  BY <1>6, <1>7, <1>8 DEF TimerInv

LEMMA ArmInv ==
  ASSUME TimerInv, NEW t \in Timers, NEW e \in Nat, NEW iv \in BOOLEAN, Arm(t, e, iv), only' = only
  PROVE  TimerInv'
<1> USE DEF dev
<1> DEFINE r == Cancelling(call[t].cpu, "insert", e)
<1>1. /\ TimerTypeOK /\ PendingExact /\ Sorted /\ HardwareCovers /\ Ticks /\ At(t, "decide")
      /\ UNCHANGED <<now, expires, list, dev>> /\ (iv => only # NoCpu)
      /\ interval' = [interval EXCEPT ![t] = iv] /\ armed' = [armed EXCEPT ![t] = TRUE]
      /\ pending' = [pending EXCEPT ![t] = FALSE] /\ tcpu' = [tcpu EXCEPT ![t] = NoCpu]
  BY DEF TimerInv, Arm
<1>2. /\ call[t].cpu \in Online /\ irq[call[t].cpu] = "off" /\ OwnerOK(t) /\ call[t].pc = "decide"
      /\ ~pending[t]
  BY <1>1, OwnerAt DEF OwnerOK, Stopped
<1>3. call[t].cpu \in Cpus
  BY <1>2, NoRestart
<1>4. r \in CallType /\ r.pc = "read" /\ r.cpu = call[t].cpu /\ r.then = "insert"
  BY <1>3, CallRecords, SMTT(60), Z3T(60)
<1>5. call' = [call EXCEPT ![t] = r]
  BY <1>1 DEF Arm, TimerTypeOK
<1> HIDE DEF r
<1>6. /\ interval'[t] = iv /\ armed'[t] = TRUE /\ pending'[t] = FALSE /\ tcpu'[t] = NoCpu
      /\ \A u \in Timers : u # t => /\ interval'[u] = interval[u] /\ armed'[u] = armed[u]
                                    /\ pending'[u] = pending[u] /\ tcpu'[u] = tcpu[u]
      /\ interval' \in [Timers -> BOOLEAN] /\ armed' \in [Timers -> BOOLEAN]
      /\ pending' \in [Timers -> BOOLEAN] /\ tcpu' \in [Timers -> Cpus \cup {NoCpu}]
  BY <1>1 DEF TimerTypeOK
<1>7. call'[t] = r => OwnerOK(t)'
  BY <1>1, <1>2, <1>4, <1>6 DEF OwnerOK, Stopped, Online
<1>8. call' \in [Actors -> CallType] /\ Owners' /\ Callbacks'
  <2>1. UNCHANGED <<irq, popped, only>>
    BY <1>1
  <2>2. \A u \in Timers : u # t => /\ interval'[u] = interval[u] /\ armed'[u] = armed[u]
                                   /\ pending'[u] => pending[u]
    BY <1>6
  <2>3. QED
    BY <1>2, <1>4, <1>5, <1>7, <2>1, <2>2, OwnerStep
<1>9. TimerTypeOK'
  <2>1. /\ now' = now /\ expires' = expires /\ list' = list /\ next_tick' = next_tick
        /\ hw' = hw /\ irq' = irq /\ popped' = popped /\ inow' = inow
    BY <1>1
  <2>2. QED
    BY <1>1, <1>6, <1>8, <2>1 DEF TimerTypeOK
<1>10. PendingExact'
  BY <1>1, <1>2, ForgetInv
<1>11. Sorted' /\ HardwareCovers' /\ Ticks'
  BY <1>1, SameHw, SameTicks DEF Sorted
<1>12. QED
  BY <1>8, <1>9, <1>10, <1>11 DEF TimerInv

LEMMA CancelReadOwner ==
  ASSUME TimerInv, NEW t \in Timers, cancel_read(t), only' = only
  PROVE  TimerInv'
<1> USE DEF dev
<1> DEFINE l == IF tcpu[t] = NoCpu THEN call[t].then ELSE "locked"
           r == Goes(call[t], l)
<1>1. /\ TimerTypeOK /\ PendingExact /\ Sorted /\ HardwareCovers /\ Ticks /\ At(t, "read")
      /\ UNCHANGED <<now, expires, tcpu, pending, list, dev, interval, armed>>
  BY DEF TimerInv, cancel_read
<1>2. /\ call[t].cpu \in Online /\ irq[call[t].cpu] = "off" /\ OwnerOK(t) /\ call[t].pc = "read"
      /\ call[t] \in CallType /\ call[t].then \in Calls
  BY <1>1, OwnerAt
<1>3. l \in Calls
  BY <1>2 DEF Calls
<1>4. call' = [call EXCEPT ![t] = r]
  BY <1>1, ActorsDiffer DEF cancel_read, TimerOf, TimerTypeOK
<1>5. tcpu[t] = NoCpu => ~pending[t]
  BY <1>1 DEF PendingExact
<1>6. l = "locked" \/ (l = call[t].then /\ ~pending[t])
  BY <1>5
<1> HIDE DEF l
<1>7. r \in CallType /\ r.pc = l /\ r.cpu = call[t].cpu /\ r.then = call[t].then
  BY <1>2, <1>3, CallRecords, SMTT(60), Z3T(60)
<1> HIDE DEF r
<1>8. call'[t] = r => OwnerOK(t)'
  <2> SUFFICES ASSUME call'[t] = r PROVE OwnerOK(t)'
    OBVIOUS
  <2>1. /\ call'[t].cpu = call[t].cpu /\ call'[t].then = call[t].then
        /\ call'[t].pc = "locked" \/ (call'[t].pc = call[t].then /\ ~pending[t])
    BY <1>6, <1>7
  <2>2. Online' = Online /\ pending' = pending /\ interval' = interval /\ armed' = armed
    BY <1>1 DEF Online
  <2>3. Stopped(t)' => ~pending'[t]
    BY <1>2, <2>1, <2>2 DEF OwnerOK, Stopped
  <2>4. QED
    BY <1>2, <2>1, <2>2, <2>3 DEF OwnerOK
<1>9. call' \in [Actors -> CallType] /\ Owners' /\ Callbacks'
  BY <1>1, <1>2, <1>4, <1>7, <1>8, OwnerStep
<1>10. TimerTypeOK'
  BY <1>1, <1>9 DEF TimerTypeOK
<1>11. PendingExact' /\ Sorted' /\ HardwareCovers' /\ Ticks'
  BY <1>1, SameLists, SameHw, SameTicks
<1>12. QED
  BY <1>9, <1>10, <1>11 DEF TimerInv

LEMMA CancelLockedOwner ==
  ASSUME TimerInv, NEW t \in Timers, cancel_locked(t), only' = only
  PROVE  TimerInv'
<1> USE DEF dev
<1> DEFINE r == Goes(call[t], call[t].then)
<1>1. /\ TimerTypeOK /\ PendingExact /\ Sorted /\ HardwareCovers /\ Ticks /\ At(t, "locked")
      /\ UNCHANGED <<now, expires, dev, interval, armed>>
  BY DEF TimerInv, cancel_locked
<1>2. /\ call[t].cpu \in Online /\ irq[call[t].cpu] = "off" /\ OwnerOK(t) /\ call[t].pc = "locked"
      /\ call[t] \in CallType /\ call[t].then \in Calls /\ call[t].then # "none"
  BY <1>1, OwnerAt
<1>3. /\ list' = IF pending[t] THEN Without(t) ELSE list
      /\ pending' = [pending EXCEPT ![t] = FALSE] /\ tcpu' = [tcpu EXCEPT ![t] = NoCpu]
  BY DEF cancel_locked, TimerOf
<1>4. call' = [call EXCEPT ![t] = r]
  BY <1>1, ActorsDiffer DEF cancel_locked, TimerTypeOK
<1>5. r \in CallType /\ r.pc = call[t].then /\ r.cpu = call[t].cpu /\ r.then = call[t].then
  BY <1>2, CallRecords, SMTT(60), Z3T(60)
<1> HIDE DEF r
<1>6. /\ list' \in [Cpus -> Seq(Timers)] /\ pending' \in [Timers -> BOOLEAN]
      /\ tcpu' \in [Timers -> Cpus \cup {NoCpu}]
      /\ PendingExact' /\ Sorted' /\ HardwareCovers'
      /\ \A u \in Timers : pending'[u] => pending[u] /\ u # t
  BY <1>1, <1>3, CancelLists
<1>7. call'[t] = r => OwnerOK(t)'
  <2> SUFFICES ASSUME call'[t] = r PROVE OwnerOK(t)'
    OBVIOUS
  <2>1. /\ call'[t].cpu = call[t].cpu /\ call'[t].then = call[t].then
        /\ call'[t].pc = call[t].then /\ ~pending'[t]
    BY <1>5, <1>6
  <2>2. Online' = Online /\ interval' = interval /\ armed' = armed
    BY <1>1 DEF Online
  <2>3. QED
    BY <1>2, <2>1, <2>2 DEF OwnerOK
<1>8. call' \in [Actors -> CallType] /\ Owners' /\ Callbacks'
  <2>1. UNCHANGED <<irq, popped, only>>
    BY <1>1
  <2>2. \A u \in Timers : u # t => /\ interval'[u] = interval[u] /\ armed'[u] = armed[u]
                                   /\ pending'[u] => pending[u]
    BY <1>1, <1>6
  <2>3. QED
    BY <1>2, <1>4, <1>5, <1>7, <2>1, <2>2, OwnerStep
<1>9. TimerTypeOK'
  <2>1. /\ now' = now /\ expires' = expires /\ next_tick' = next_tick /\ interval' = interval
        /\ hw' = hw /\ irq' = irq /\ popped' = popped /\ inow' = inow /\ armed' = armed
    BY <1>1
  <2>2. QED
    BY <1>1, <1>6, <1>8, <2>1 DEF TimerTypeOK
<1>10. Ticks'
  BY <1>1, SameTicks
<1>11. QED
  BY <1>6, <1>8, <1>9, <1>10 DEF TimerInv

-----------------------------------------------------------------------------
\* The steps of a callback that restarts its timer, up to the insertion.
LEMMA CallbackStep ==
  ASSUME TimerInv, NEW c \in Cpus, irq[c] = "call", NEW r \in CallType, r.then = "insert",
         call' = [call EXCEPT ![c] = r], UNCHANGED <<irq, popped, only, interval, armed>>,
         \A u \in Timers : pending'[u] => pending[u]
  PROVE  call' \in [Actors -> CallType] /\ Owners' /\ Callbacks'
<1>1. TimerTypeOK /\ Owners /\ Callbacks /\ c \in Actors
  BY ActorsDiffer DEF TimerInv
<1>2. call' \in [Actors -> CallType] /\ call'[c] = r /\ \A b \in Actors : b # c => call'[b] = call[b]
  BY <1>1, CallIs
<1>3. \A u \in Timers : call'[u] = call[u]
  BY <1>2, ActorsDiffer
<1>4. only' = only /\ interval' = interval /\ armed' = armed /\ irq' = irq /\ popped' = popped
  OBVIOUS
<1>5. Owners'
  BY <1>1, <1>3, <1>4, OwnerSame DEF Owners
<1>6. Callbacks'
  <2> SUFFICES ASSUME NEW d \in Cpus
               PROVE  /\ irq[d] # "off" => d \in Online
                      /\ irq[d] \in {"fn", "call"} => popped[d] \in Timers
                      /\ call'[d].pc # "none" => irq[d] = "call" /\ call'[d].then = "insert"
                      /\ irq[d] = "call" => interval[popped[d]]
                      /\ irq[d] \in {"fn", "call"} /\ interval[popped[d]] =>
                           ~Stopped(popped[d])' /\ ~pending'[popped[d]]
    BY <1>4 DEF Callbacks, CallbackOK, Online
  <2>1. /\ irq[d] # "off" => d \in Online
        /\ irq[d] \in {"fn", "call"} => popped[d] \in Timers
        /\ call[d].pc # "none" => irq[d] = "call" /\ call[d].then = "insert"
        /\ irq[d] = "call" => interval[popped[d]]
        /\ irq[d] \in {"fn", "call"} /\ interval[popped[d]] => ~Stopped(popped[d]) /\ ~pending[popped[d]]
    BY <1>1 DEF Callbacks, CallbackOK
  <2>2. popped[d] \in Timers => (Stopped(popped[d])' <=> Stopped(popped[d]))
    BY <1>3, <1>4 DEF Stopped
  <2>3. call'[d].pc # "none" => irq[d] = "call" /\ call'[d].then = "insert"
    <3>1. CASE d = c
      BY <1>2, <3>1
    <3>2. CASE d # c
      BY <1>2, <2>1, <3>2, ActorsDiffer
    <3>3. QED
      BY <3>1, <3>2
  <2>4. QED
    BY <2>1, <2>2, <2>3
<1>7. QED
  BY <1>2, <1>5, <1>6

\* Where a callback is.
LEMMA CallbackAt ==
  ASSUME TimerInv, NEW c \in Cpus, call[c].pc # "none"
  PROVE  /\ irq[c] = "call" /\ c \in Online /\ call[c] \in CallType /\ call[c].then = "insert"
         /\ popped[c] \in Timers /\ TimerOf(c) = popped[c] /\ CpuOf(c) = c
         /\ interval[popped[c]] /\ ~Stopped(popped[c]) /\ ~pending[popped[c]]
<1>1. TimerTypeOK /\ Callbacks /\ c \in Actors /\ c \notin Timers
  BY ActorsDiffer DEF TimerInv
<1>2. irq[c] = "call" /\ call[c].then = "insert"
  BY <1>1 DEF Callbacks, CallbackOK
<1>3. call[c] \in CallType
  BY <1>1 DEF TimerTypeOK
<1>4. /\ c \in Online /\ popped[c] \in Timers /\ interval[popped[c]]
      /\ ~Stopped(popped[c]) /\ ~pending[popped[c]]
  BY <1>1, <1>2 DEF Callbacks, CallbackOK
<1>5. QED
  BY <1>1, <1>2, <1>3, <1>4 DEF TimerOf, CpuOf

LEMMA CancelReadCallback ==
  ASSUME TimerInv, NEW c \in Cpus, cancel_read(c), only' = only
  PROVE  TimerInv'
<1> USE DEF dev
<1> DEFINE l == IF tcpu[TimerOf(c)] = NoCpu THEN call[c].then ELSE "locked"
           r == Goes(call[c], l)
<1>1. /\ TimerTypeOK /\ PendingExact /\ Sorted /\ HardwareCovers /\ Ticks /\ call[c].pc = "read"
      /\ UNCHANGED <<now, expires, tcpu, pending, list, dev, interval, armed>>
  BY DEF TimerInv, cancel_read, At
<1>2. irq[c] = "call" /\ call[c] \in CallType /\ call[c].then = "insert"
  BY <1>1, CallbackAt
<1>3. l \in Calls
  BY <1>2 DEF Calls
<1>4. call' = [call EXCEPT ![c] = r]
  BY <1>1, ActorsDiffer DEF cancel_read, TimerTypeOK
<1> HIDE DEF l
<1>5. r \in CallType /\ r.then = call[c].then
  BY <1>2, <1>3, CallRecords, SMTT(60), Z3T(60)
<1> HIDE DEF r
<1>6. call' \in [Actors -> CallType] /\ Owners' /\ Callbacks'
  <2>1. UNCHANGED <<irq, popped, only, interval, armed>> /\ \A u \in Timers : pending'[u] => pending[u]
    BY <1>1
  <2>2. QED
    BY <1>2, <1>4, <1>5, <2>1, CallbackStep
<1>7. TimerTypeOK'
  BY <1>1, <1>6 DEF TimerTypeOK
<1>8. PendingExact' /\ Sorted' /\ HardwareCovers' /\ Ticks'
  BY <1>1, SameLists, SameHw, SameTicks
<1>9. QED
  BY <1>6, <1>7, <1>8 DEF TimerInv

LEMMA CancelLockedCallback ==
  ASSUME TimerInv, NEW c \in Cpus, cancel_locked(c), only' = only
  PROVE  TimerInv'
<1> USE DEF dev
<1> DEFINE r == Goes(call[c], call[c].then)
<1>1. /\ TimerTypeOK /\ PendingExact /\ Sorted /\ HardwareCovers /\ Ticks /\ call[c].pc = "locked"
      /\ UNCHANGED <<now, expires, dev, interval, armed>>
  BY DEF TimerInv, cancel_locked, At
<1>2. /\ irq[c] = "call" /\ call[c] \in CallType /\ call[c].then = "insert" /\ call[c].then \in Calls
      /\ popped[c] \in Timers /\ TimerOf(c) = popped[c]
  BY <1>1, CallbackAt DEF Calls
<1>3. PICK t \in Timers : t = TimerOf(c)
  BY <1>2
<1>4. /\ list' = IF pending[t] THEN Without(t) ELSE list
      /\ pending' = [pending EXCEPT ![t] = FALSE] /\ tcpu' = [tcpu EXCEPT ![t] = NoCpu]
  BY <1>3 DEF cancel_locked
<1>5. call' = [call EXCEPT ![c] = r]
  BY <1>1, ActorsDiffer DEF cancel_locked, TimerTypeOK
<1>6. r \in CallType /\ r.then = call[c].then
  BY <1>2, CallRecords, SMTT(60), Z3T(60)
<1> HIDE DEF r
<1>7. /\ list' \in [Cpus -> Seq(Timers)] /\ pending' \in [Timers -> BOOLEAN]
      /\ tcpu' \in [Timers -> Cpus \cup {NoCpu}]
      /\ PendingExact' /\ Sorted' /\ HardwareCovers'
      /\ \A u \in Timers : pending'[u] => pending[u] /\ u # t
  BY <1>1, <1>4, CancelLists
<1>8. call' \in [Actors -> CallType] /\ Owners' /\ Callbacks'
  <2>1. UNCHANGED <<irq, popped, only, interval, armed>> /\ \A u \in Timers : pending'[u] => pending[u]
    BY <1>1, <1>7
  <2>2. QED
    BY <1>2, <1>5, <1>6, <2>1, CallbackStep
<1>9. TimerTypeOK'
  <2>1. /\ now' = now /\ expires' = expires /\ next_tick' = next_tick /\ interval' = interval
        /\ hw' = hw /\ irq' = irq /\ popped' = popped /\ inow' = inow /\ armed' = armed
    BY <1>1
  <2>2. QED
    BY <1>1, <1>7, <1>8, <2>1 DEF TimerTypeOK
<1>10. Ticks'
  BY <1>1, SameTicks
<1>11. QED
  BY <1>7, <1>8, <1>9, <1>10 DEF TimerInv

-----------------------------------------------------------------------------
\* ktimer_start programs the register when the timer is the first one.
LEMMA InsertHw ==
  ASSUME TimerTypeOK, PendingExact, HardwareCovers, Sorted',
         NEW t, NEW c, NEW k, NEW e, Links(t, c, k, e), next_tick' = next_tick,
         hw' = IF First(Added(list[c], k, t), t)
                 THEN reprogram(Added(list[c], k, t), expires', c) ELSE hw
  PROVE  /\ hw' \in [Cpus -> Nat]
         /\ \A d \in Cpus : irq[d] = "off" =>
              /\ hw'[d] <= next_tick'[d]
              /\ \A i \in DOMAIN list'[d] : hw'[d] <= expires'[list'[d][i]]
<1> DEFINE s == list[c]
           l == Added(s, k, t)
           h == Least(next_tick[c], e)
<1>1. t \in Timers /\ c \in Cpus /\ e \in Nat /\ k \in 1 .. Len(s) + 1 /\ ~pending[t]
  BY DEF Links
<1>2. s \in Seq(Timers) /\ Distinct(s) /\ Elems(s) \subseteq Timers /\ \A d \in Cpus : t \notin Elems(list[d])
  <2>1. Linking /\ s \in Seq(Timers)
    BY <1>1, LinkingIs DEF TimerTypeOK
  <2>2. QED
    <3>1. Distinct(s) /\ \A d \in Cpus : t \notin Elems(list[d])
      BY <1>1, <2>1 DEF Linking
    <3>2. Elems(s) \subseteq Timers
      BY <2>1, EmptyList
    <3>3. QED
      BY <2>1, <3>1, <3>2
<1>3. /\ l \in Seq(Timers) /\ DOMAIN l = 1 .. Len(s) + 1 /\ l[k] = t
      /\ \A i \in 1 .. Len(s) + 1 : /\ i < k => i \in DOMAIN s /\ l[i] = s[i]
                                    /\ k < i => i - 1 \in DOMAIN s /\ l[i] = s[i - 1]
  BY <1>1, <1>2, AddedList, SMTT(60), Z3T(60)
<1>4. list'[c] = l /\ \A d \in Cpus : d # c => list'[d] = list[d]
  BY <1>1 DEF Links, TimerTypeOK
<1>5. expires'[t] = e /\ \A u \in Timers : u # t => expires'[u] = expires[u]
  BY <1>1 DEF Links, TimerTypeOK
<1>6. Len(s) \in Nat /\ DOMAIN s = 1 .. Len(s) /\ 1 \in DOMAIN l /\ Head(l) = l[1] /\ l # <<>>
  BY <1>2, <1>3, SMTT(60), Z3T(60)
<1>7. ASSUME NEW d \in Cpus, NEW i \in DOMAIN list[d]
      PROVE  list[d][i] \in Timers /\ list[d][i] # t /\ expires'[list[d][i]] = expires[list[d][i]]
  <2>1. list[d] \in Seq(Timers)
    BY DEF TimerTypeOK
  <2>2. Elems(list[d]) \subseteq Timers
    BY <2>1, EmptyList
  <2>3. list[d][i] \in Elems(list[d])
    BY DEF Elems
  <2>4. QED
    BY <1>2, <1>5, <2>2, <2>3
<1>8. h \in Nat /\ h <= next_tick[c] /\ h <= e
  <2>1. next_tick[c] \in Nat
    BY <1>1 DEF TimerTypeOK
  <2>2. QED
    BY <1>1, <2>1, SMTT(60), Z3T(60) DEF Least
<1>9. hw \in [Cpus -> Nat]
  BY DEF TimerTypeOK
<1> HIDE DEF h
<1>10. CASE l[1] = t
  <2>1. hw' = [hw EXCEPT ![c] = h]
    BY <1>5, <1>6, <1>10 DEF First, reprogram, h
  <2>2. hw' \in [Cpus -> Nat] /\ hw'[c] = h /\ \A d \in Cpus : d # c => hw'[d] = hw[d]
    BY <1>1, <1>8, <1>9, <2>1
  <2>3. ASSUME NEW i \in DOMAIN l PROVE h <= expires'[l[i]]
    <3>1. i = 1 \/ 1 < i
      BY <1>3, <1>6, SMTT(60), Z3T(60)
    <3>2. CASE i = 1
      BY <1>5, <1>8, <1>10, <3>2
    <3>3. CASE 1 < i
      <4>1. expires'[l[1]] <= expires'[l[i]]
        BY <1>1, <1>4, <1>6, <3>3 DEF Sorted
      <4>2. expires' \in [Timers -> Nat] /\ l[i] \in Timers
        <5>1. l[i] \in Timers
          BY <1>3, SMTT(60), Z3T(60)
        <5>2. QED
          BY <1>1, <5>1 DEF Links, TimerTypeOK
      <4>3. QED
        BY <1>1, <1>5, <1>8, <1>10, <4>1, <4>2, SMTT(60), Z3T(60)
    <3>4. QED
      BY <3>1, <3>2, <3>3
  <2>4. ASSUME NEW d \in Cpus, irq[d] = "off"
        PROVE  /\ hw'[d] <= next_tick'[d]
               /\ \A i \in DOMAIN list'[d] : hw'[d] <= expires'[list'[d][i]]
    <3>1. CASE d = c
      BY <1>4, <1>8, <2>2, <2>3, <3>1
    <3>2. CASE d # c
      <4>1. list'[d] = list[d] /\ hw'[d] = hw[d]
        BY <1>4, <2>2, <3>2
      <4>2. hw[d] <= next_tick[d] /\ \A i \in DOMAIN list[d] : hw[d] <= expires[list[d][i]]
        BY <2>4 DEF HardwareCovers
      <4>3. ASSUME NEW i \in DOMAIN list[d] PROVE hw[d] <= expires'[list[d][i]]
        BY <1>7, <4>2
      <4>4. QED
        BY <4>1, <4>2, <4>3
    <3>3. QED
      BY <3>1, <3>2
  <2>5. QED
    BY <2>2, <2>4
<1>11. CASE l[1] # t
  <2>1. hw' = hw
    BY <1>6, <1>11 DEF First
  <2>2. 1 \in 1 .. k - 1 /\ 1 \in DOMAIN s
    BY <1>1, <1>3, <1>6, <1>11, SMTT(60), Z3T(60)
  <2>3. expires[s[1]] <= e
    BY <2>2 DEF Links, IsPlace
  <2>4. ASSUME NEW d \in Cpus, irq[d] = "off"
        PROVE  /\ hw'[d] <= next_tick'[d]
               /\ \A i \in DOMAIN list'[d] : hw'[d] <= expires'[list'[d][i]]
    <3>1. hw[d] <= next_tick[d] /\ \A i \in DOMAIN list[d] : hw[d] <= expires[list[d][i]]
      BY <2>4 DEF HardwareCovers
    <3>2. CASE d = c
      <4>1. ASSUME NEW i \in DOMAIN l PROVE hw[c] <= expires'[l[i]]
        <5>1. CASE l[i] = t
          <6>1. hw[c] <= expires[s[1]]
            BY <2>2, <3>1, <3>2
          <6>2. hw[c] \in Nat /\ expires[s[1]] \in Nat
            <7>1. s[1] \in Timers
              BY <1>1, <1>7, <2>2
            <7>2. QED
              BY <1>1, <7>1 DEF TimerTypeOK
          <6>3. QED
            BY <1>1, <1>5, <2>3, <5>1, <6>1, <6>2, SMTT(60), Z3T(60)
        <5>2. CASE l[i] # t
          <6>1. i < k \/ k < i
            BY <1>1, <1>3, <1>6, <5>2, SMTT(60), Z3T(60)
          <6>2. PICK m \in DOMAIN s : l[i] = s[m]
            BY <1>3, <6>1
          <6>3. QED
            BY <1>1, <1>7, <3>1, <3>2, <6>2
        <5>3. QED
          BY <5>1, <5>2
      <4>2. QED
        BY <1>4, <2>1, <3>1, <3>2, <4>1
    <3>3. CASE d # c
      <4>1. list'[d] = list[d]
        BY <1>4, <3>3
      <4>2. ASSUME NEW i \in DOMAIN list[d] PROVE hw[d] <= expires'[list[d][i]]
        BY <1>7, <3>1
      <4>3. QED
        BY <2>1, <3>1, <4>1, <4>2
    <3>4. QED
      BY <3>2, <3>3
  <2>5. QED
    BY <1>9, <2>1, <2>4
<1>12. QED
  BY <1>10, <1>11

\* The locked part of ktimer_start.
LEMMA InsertLists ==
  ASSUME TimerInv, NEW a \in Actors, NEW t \in Timers, NEW c \in Cpus, t = TimerOf(a), c = CpuOf(a),
         call[a] \in CallType, ~pending[t], insert(a)
  PROVE  /\ list' \in [Cpus -> Seq(Timers)] /\ pending' \in [Timers -> BOOLEAN]
         /\ tcpu' \in [Timers -> Cpus \cup {NoCpu}] /\ expires' \in [Timers -> Nat]
         /\ hw' \in [Cpus -> Nat] /\ next_tick' = next_tick
         /\ PendingExact' /\ Sorted'
         /\ \A u \in Timers : pending'[u] => pending[u] \/ u = t
         /\ \A d \in Cpus : irq[d] = "off" =>
              /\ hw'[d] <= next_tick'[d]
              /\ \A i \in DOMAIN list'[d] : hw'[d] <= expires'[list'[d][i]]
<1> DEFINE e == call[a].exp
<1>1. TimerTypeOK /\ PendingExact /\ Sorted /\ HardwareCovers
  BY DEF TimerInv
<1>2. e \in Nat
  BY DEF CallType
<1>3. PICK k \in 1 .. Len(list[c]) + 1 :
           /\ IsPlace(list[c], k, e)
           /\ expires' = [expires EXCEPT ![t] = e]
           /\ tcpu' = [tcpu EXCEPT ![t] = c]
           /\ pending' = [pending EXCEPT ![t] = TRUE]
           /\ list' = [list EXCEPT ![c] = Added(list[c], k, t)]
           /\ next_tick' = next_tick
           /\ hw' = IF First(Added(list[c], k, t), t)
                      THEN reprogram(Added(list[c], k, t), expires', c) ELSE hw
  BY DEF insert
<1> HIDE DEF e
<1>4. Links(t, c, k, e)
  BY <1>2, <1>3 DEF Links
<1>5. /\ list' \in [Cpus -> Seq(Timers)] /\ pending' \in [Timers -> BOOLEAN]
      /\ tcpu' \in [Timers -> Cpus \cup {NoCpu}] /\ expires' \in [Timers -> Nat]
      /\ PendingExact' /\ Sorted'
      /\ \A u \in Timers : pending'[u] => pending[u] \/ u = t
  BY <1>1, <1>4, LinkInv
<1>6. /\ hw' \in [Cpus -> Nat]
      /\ \A d \in Cpus : irq[d] = "off" =>
              /\ hw'[d] <= next_tick'[d]
              /\ \A i \in DOMAIN list'[d] : hw'[d] <= expires'[list'[d][i]]
  BY <1>1, <1>3, <1>4, <1>5, InsertHw
<1>7. QED
  BY <1>3, <1>5, <1>6

LEMMA InsertOwner ==
  ASSUME TimerInv, NEW t \in Timers, insert(t), only' = only
  PROVE  TimerInv'
<1>1. /\ TimerTypeOK /\ Ticks /\ At(t, "insert") /\ irq' = irq
      /\ UNCHANGED <<now, popped, inow, interval, armed>> /\ call' = [call EXCEPT ![t] = NoCall]
  BY ActorsDiffer DEF TimerInv, insert
<1>2. /\ call[t].cpu \in Online /\ irq[call[t].cpu] = "off" /\ OwnerOK(t) /\ call[t].pc = "insert"
      /\ call[t] \in CallType
  BY <1>1, OwnerAt
<1>3. ~pending[t] /\ armed[t] /\ call[t].cpu \in Cpus /\ t = TimerOf(t) /\ call[t].cpu = CpuOf(t) /\ t \in Actors
  <2>1. call[t].cpu \in Cpus /\ t = TimerOf(t) /\ call[t].cpu = CpuOf(t) /\ t \in Actors
    BY <1>2, NoRestart, ActorsDiffer DEF TimerOf, CpuOf
  <2>2. ~pending[t] /\ armed[t]
    BY <1>2 DEF OwnerOK, Stopped
  <2>3. QED
    BY <2>1, <2>2
<1>4. /\ list' \in [Cpus -> Seq(Timers)] /\ pending' \in [Timers -> BOOLEAN]
      /\ tcpu' \in [Timers -> Cpus \cup {NoCpu}] /\ expires' \in [Timers -> Nat]
      /\ hw' \in [Cpus -> Nat] /\ next_tick' = next_tick
      /\ PendingExact' /\ Sorted'
      /\ \A u \in Timers : pending'[u] => pending[u] \/ u = t
      /\ \A d \in Cpus : irq[d] = "off" =>
           /\ hw'[d] <= next_tick'[d]
           /\ \A i \in DOMAIN list'[d] : hw'[d] <= expires'[list'[d][i]]
  BY <1>2, <1>3, InsertLists
<1>5. NoCall \in CallType /\ NoCall.pc = "none" /\ NoCall.then = "none"
  BY CallRecords
<1>6. call'[t] = NoCall => OwnerOK(t)'
  <2> SUFFICES ASSUME call'[t] = NoCall PROVE OwnerOK(t)'
    OBVIOUS
  <2>1. interval' = interval /\ armed' = armed /\ call'[t].pc = "none" /\ call'[t].then = "none"
    BY <1>1, <1>5
  <2>2. ~Stopped(t)'
    BY <2>1 DEF Stopped
  <2>3. QED
    BY <1>2, <1>3, <2>1, <2>2 DEF OwnerOK
<1>7. call' \in [Actors -> CallType] /\ Owners' /\ Callbacks'
  <2>1. UNCHANGED <<irq, popped, only>>
    BY <1>1
  <2>2. \A u \in Timers : u # t => /\ interval'[u] = interval[u] /\ armed'[u] = armed[u]
                                   /\ pending'[u] => pending[u]
    BY <1>1, <1>4
  <2>3. QED
    BY <1>1, <1>2, <1>5, <1>6, <2>1, <2>2, OwnerStep
<1>8. TimerTypeOK'
  <2>1. /\ now' = now /\ interval' = interval /\ irq' = irq /\ popped' = popped
        /\ inow' = inow /\ armed' = armed
    BY <1>1
  <2>2. QED
    BY <1>1, <1>4, <1>7, <2>1 DEF TimerTypeOK
<1>9. Ticks'
  BY <1>1, <1>4, SameTicks
<1>10. HardwareCovers'
  BY <1>1, <1>4 DEF HardwareCovers
<1>11. QED
  BY <1>4, <1>7, <1>8, <1>9, <1>10 DEF TimerInv

LEMMA InsertCallback ==
  ASSUME TimerInv, NEW c \in Cpus, insert(c), only' = only
  PROVE  TimerInv'
<1>1. /\ TimerTypeOK /\ Ticks /\ Owners /\ Callbacks /\ call[c].pc = "insert"
      /\ irq' = [irq EXCEPT ![c] = "loop"]
      /\ UNCHANGED <<now, popped, inow, interval, armed>> /\ call' = [call EXCEPT ![c] = NoCall]
  BY DEF TimerInv, insert, At
<1>2. /\ irq[c] = "call" /\ c \in Online /\ call[c] \in CallType
      /\ popped[c] \in Timers /\ TimerOf(c) = popped[c] /\ CpuOf(c) = c
      /\ interval[popped[c]] /\ ~Stopped(popped[c]) /\ ~pending[popped[c]]
  BY <1>1, CallbackAt
<1>3. PICK t \in Timers : t = popped[c]
  BY <1>2
<1>4. /\ list' \in [Cpus -> Seq(Timers)] /\ pending' \in [Timers -> BOOLEAN]
      /\ tcpu' \in [Timers -> Cpus \cup {NoCpu}] /\ expires' \in [Timers -> Nat]
      /\ hw' \in [Cpus -> Nat] /\ next_tick' = next_tick
      /\ PendingExact' /\ Sorted'
      /\ \A u \in Timers : pending'[u] => pending[u] \/ u = t
      /\ \A d \in Cpus : irq[d] = "off" =>
           /\ hw'[d] <= next_tick'[d]
           /\ \A i \in DOMAIN list'[d] : hw'[d] <= expires'[list'[d][i]]
  BY <1>2, <1>3, ActorsDiffer, InsertLists
<1>5. NoCall \in CallType /\ NoCall.pc = "none" /\ NoCall.then = "none"
  BY CallRecords
<1>6. call' \in [Actors -> CallType] /\ call'[c] = NoCall /\ \A b \in Actors : b # c => call'[b] = call[b]
  BY <1>1, <1>5, CallIs, ActorsDiffer
<1>7. irq'[c] = "loop" /\ irq' \in [Cpus -> {"off", "loop", "fn", "call"}] /\ \A d \in Cpus : d # c => irq'[d] = irq[d]
  BY <1>1 DEF TimerTypeOK
<1>8. now' = now /\ interval' = interval /\ popped' = popped /\ inow' = inow /\ armed' = armed
  BY <1>1
<1>9. \A u \in Timers : call'[u] = call[u]
  BY <1>6, ActorsDiffer
<1>10. TimerTypeOK'
  BY <1>1, <1>4, <1>6, <1>7, <1>8 DEF TimerTypeOK
<1>11. Ticks'
  <2>1. \A d \in Cpus : irq'[d] # "off" <=> irq[d] # "off"
    BY <1>2, <1>7
  <2>2. QED
    BY <1>1, <1>4, <1>8, <2>1 DEF Ticks
<1>12. HardwareCovers'
  <2>1. \A d \in Cpus : irq'[d] = "off" => irq[d] = "off"
    BY <1>7
  <2>2. QED
    BY <1>4, <2>1 DEF HardwareCovers
<1>13. Owners'
  <2> SUFFICES ASSUME NEW u \in Timers PROVE OwnerOK(u)'
    BY DEF Owners
  <2>1. OwnerOK(u)
    BY <1>1 DEF Owners
  <2>2. CASE pending'[u] => pending[u]
    BY <1>8, <1>9, <2>1, <2>2, OwnerSame
  <2>3. CASE ~(pending'[u] => pending[u])
    <3>1. u = t
      BY <1>4, <2>3
    <3>2. armed'[u] /\ ~Stopped(u)'
      BY <1>2, <1>3, <1>8, <1>9, <2>1, <3>1 DEF OwnerOK, Stopped
    <3>3. Online' = Online /\ interval'[u] = interval[u] /\ call'[u] = call[u]
      BY <1>8, <1>9 DEF Online
    <3>4. QED
      BY <2>1, <3>2, <3>3 DEF OwnerOK
  <2>4. QED
    BY <2>2, <2>3
<1>14. Callbacks'
  <2> SUFFICES ASSUME NEW d \in Cpus
               PROVE  /\ irq'[d] # "off" => d \in Online'
                      /\ irq'[d] \in {"fn", "call"} => popped'[d] \in Timers
                      /\ call'[d].pc # "none" => irq'[d] = "call" /\ call'[d].then = "insert"
                      /\ irq'[d] = "call" => interval'[popped'[d]]
                      /\ irq'[d] \in {"fn", "call"} /\ interval'[popped'[d]] =>
                           ~Stopped(popped[d])' /\ ~pending'[popped'[d]]
    BY DEF Callbacks, CallbackOK
  <2>1. Online' = Online
    BY DEF Online
  <2>2. CASE d = c
    BY <1>2, <1>5, <1>6, <1>7, <2>1, <2>2
  <2>3. CASE d # c
    <3>1. irq'[d] = irq[d] /\ call'[d] = call[d]
      BY <1>6, <1>7, <2>3, ActorsDiffer
    <3>2. only # NoCpu
      BY <1>1, <1>2, <1>3 DEF Owners, OwnerOK
    <3>3. irq[d] = "off"
      BY <1>1, <1>2, <2>3, <3>2 DEF Callbacks, CallbackOK, Online, TimerTypeOK
    <3>4. call[d].pc = "none"
      BY <1>1, <3>3 DEF Callbacks, CallbackOK
    <3>5. QED
      BY <3>1, <3>3, <3>4
  <2>4. QED
    BY <2>2, <2>3
<1>15. QED
  BY <1>4, <1>10, <1>11, <1>12, <1>13, <1>14 DEF TimerInv

-----------------------------------------------------------------------------
\* A CPU whose interrupt handler is not affected.
LEMMA CallbackSame ==
  ASSUME NEW d \in Cpus, CallbackOK(d), irq'[d] = irq[d], popped'[d] = popped[d], call'[d] = call[d],
         \A u \in Timers : call'[u] = call[u] /\ (pending'[u] => pending[u]),
         interval' = interval, only' = only
  PROVE  CallbackOK(d)'
<1>1. Online' = Online
  BY DEF Online
<1>2. /\ irq'[d] # "off" => d \in Online'
      /\ irq'[d] \in {"fn", "call"} => popped'[d] \in Timers
      /\ call'[d].pc # "none" => irq'[d] = "call" /\ call'[d].then = "insert"
      /\ irq'[d] = "call" => interval'[popped'[d]]
  BY <1>1 DEF CallbackOK
<1>3. irq'[d] \in {"fn", "call"} /\ interval'[popped'[d]] =>
           ~Stopped(popped[d])' /\ ~pending'[popped'[d]]
  <2> SUFFICES ASSUME irq[d] \in {"fn", "call"}, interval[popped[d]]
               PROVE  ~Stopped(popped[d])' /\ ~pending'[popped[d]]
    OBVIOUS
  <2>1. popped[d] \in Timers /\ ~Stopped(popped[d]) /\ ~pending[popped[d]]
    BY DEF CallbackOK
  <2>2. QED
    BY <2>1 DEF Stopped
<1>4. QED
  BY <1>2, <1>3 DEF CallbackOK

\* The steps of timer_interrupt.
LEMMA InterruptInv ==
  ASSUME TimerInv, NEW c \in Online, interrupt(c), only' = only
  PROVE  TimerInv'
<1>1. /\ TimerTypeOK /\ PendingExact /\ Sorted /\ HardwareCovers /\ Ticks /\ Owners /\ Callbacks
      /\ irq[c] = "off" /\ irq' = [irq EXCEPT ![c] = "loop"] /\ inow' = [inow EXCEPT ![c] = now]
      /\ next_tick' = IF now >= next_tick[c]
                        THEN [next_tick EXCEPT ![c] = TickAfter(c)] ELSE next_tick
      /\ now' = now /\ expires' = expires /\ tcpu' = tcpu /\ pending' = pending /\ list' = list
      /\ hw' = hw /\ popped' = popped /\ call' = call /\ interval' = interval /\ armed' = armed
  BY DEF TimerInv, interrupt
<1>2. c \in Cpus /\ c \in Actors
  BY <1>1, NoRestart, ActorsDiffer
<1>3. /\ irq'[c] = "loop" /\ \A d \in Cpus : d # c => irq'[d] = irq[d]
      /\ irq' \in [Cpus -> {"off", "loop", "fn", "call"}]
      /\ inow'[c] = now /\ \A d \in Cpus : d # c => inow'[d] = inow[d]
      /\ inow' \in [Cpus -> Nat]
  BY <1>1, <1>2 DEF TimerTypeOK
<1>4. now \in Nat /\ next_tick[c] \in Nat /\ TICK_NSEC \in Nat /\ TICK_NSEC # 0
  BY <1>1, <1>2, KtimerAssumption DEF TimerTypeOK
<1>5. /\ \E n \in Nat : next_tick[c] = n * TICK_NSEC
      /\ next_tick[c] <= now + TICK_NSEC
  BY <1>1, <1>2 DEF Ticks
<1>6. /\ next_tick' \in [Cpus -> Nat] /\ \A d \in Cpus : d # c => next_tick'[d] = next_tick[d]
      /\ now < next_tick'[c] /\ next_tick'[c] <= now + TICK_NSEC
      /\ \E n \in Nat : next_tick'[c] = n * TICK_NSEC
  <2>1. CASE now >= next_tick[c]
    <3>1. /\ TickAfter(c) \in Nat /\ now < TickAfter(c) /\ TickAfter(c) <= now + TICK_NSEC
          /\ \E n \in Nat : TickAfter(c) = n * TICK_NSEC
      <4>1. next_tick[c] <= now
        BY <1>4, <2>1, SMTT(60), Z3T(60)
      <4>2. QED
        BY <1>4, <1>5, <4>1, TickSkips DEF TickAfter
    <3>2. next_tick' = [next_tick EXCEPT ![c] = TickAfter(c)]
      BY <1>1, <2>1
    <3>3. /\ next_tick' \in [Cpus -> Nat] /\ next_tick'[c] = TickAfter(c)
          /\ \A d \in Cpus : d # c => next_tick'[d] = next_tick[d]
      BY <1>1, <1>2, <3>1, <3>2 DEF TimerTypeOK
    <3>4. QED
      BY <3>1, <3>3
  <2>2. CASE ~(now >= next_tick[c])
    <3>1. now < next_tick[c]
      BY <1>4, <2>2, SMTT(60), Z3T(60)
    <3>2. next_tick' = next_tick
      BY <1>1, <2>2
    <3>3. QED
      BY <1>1, <1>5, <3>1, <3>2 DEF TimerTypeOK
  <2>3. QED
    BY <2>1, <2>2
<1>7. TimerTypeOK'
  BY <1>1, <1>3, <1>6 DEF TimerTypeOK
<1>8. PendingExact' /\ Sorted'
  BY <1>1, SameLists
<1>9. HardwareCovers'
  <2> SUFFICES ASSUME NEW d \in Cpus, irq'[d] = "off"
               PROVE  hw[d] <= next_tick'[d] /\ \A i \in DOMAIN list[d] : hw[d] <= expires[list[d][i]]
    BY <1>1 DEF HardwareCovers
  <2>1. d # c /\ irq[d] = "off"
    BY <1>3
  <2>2. QED
    BY <1>1, <1>6, <2>1 DEF HardwareCovers
<1>10. Ticks'
  <2> SUFFICES ASSUME NEW d \in Cpus
               PROVE  /\ \E n \in Nat : next_tick'[d] = n * TICK_NSEC
                      /\ inow'[d] <= now /\ next_tick'[d] <= now + TICK_NSEC
                      /\ irq'[d] # "off" => /\ inow'[d] < next_tick'[d]
                                            /\ next_tick'[d] <= inow'[d] + TICK_NSEC
    BY <1>1 DEF Ticks
  <2>1. CASE d = c
    <3>1. now <= now
      BY <1>4, SMTT(60), Z3T(60)
    <3>2. QED
      BY <1>3, <1>6, <2>1, <3>1
  <2>2. CASE d # c
    BY <1>1, <1>3, <1>6, <2>2 DEF Ticks
  <2>3. QED
    BY <2>1, <2>2
<1>11. Owners'
  BY <1>1, OwnerSame DEF Owners
<1>12. Callbacks'
  <2> SUFFICES ASSUME NEW d \in Cpus PROVE CallbackOK(d)'
    BY DEF Callbacks
  <2>1. CallbackOK(d)
    BY <1>1 DEF Callbacks
  <2>2. CASE d = c
    <3>1. call'[d].pc = "none" /\ irq'[d] = "loop" /\ d \in Online'
      BY <1>1, <1>3, <2>1, <2>2 DEF CallbackOK, Online
    <3>2. QED
      BY <3>1 DEF CallbackOK
  <2>3. CASE d # c
    <3>1. irq'[d] = irq[d]
      BY <1>3, <2>3
    <3>2. QED
      BY <1>1, <2>1, <3>1, CallbackSame
  <2>4. QED
    BY <2>2, <2>3
<1>13. QED
  BY <1>7, <1>8, <1>9, <1>10, <1>11, <1>12 DEF TimerInv

LEMMA PopInv ==
  ASSUME TimerInv, NEW c \in Online, pop(c), only' = only
  PROVE  TimerInv'
<1>1. /\ TimerTypeOK /\ PendingExact /\ Sorted /\ HardwareCovers /\ Ticks /\ Owners /\ Callbacks
      /\ irq[c] = "loop" /\ irq' = [irq EXCEPT ![c] = "fn"] /\ list[c] # <<>>
      /\ popped' = [popped EXCEPT ![c] = Head(list[c])]
      /\ list' = Without(Head(list[c])) /\ pending' = [pending EXCEPT ![Head(list[c])] = FALSE]
      /\ now' = now /\ expires' = expires /\ tcpu' = tcpu /\ next_tick' = next_tick /\ inow' = inow
      /\ hw' = hw /\ call' = call /\ interval' = interval /\ armed' = armed
  BY DEF TimerInv, pop, Expired
<1>2. c \in Cpus
  BY <1>1 DEF TimerTypeOK, Online
<1>3. list[c] \in Seq(Timers) /\ Linking
  BY <1>1, <1>2, LinkingIs DEF TimerTypeOK
<1>4. 1 \in DOMAIN list[c] /\ Head(list[c]) = list[c][1] /\ Head(list[c]) \in Timers
  BY <1>1, <1>3, SMTT(60), Z3T(60)
<1>5. PICK t \in Timers : t = Head(list[c])
  BY <1>4
<1>6. t \in Elems(list[c])
  BY <1>4, <1>5 DEF Elems
<1>7. pending[t] /\ tcpu[t] = c
  BY <1>2, <1>3, <1>6 DEF Linking
<1>8. PICK k \in DOMAIN list[c] : /\ list[c][k] = t
           /\ Without(t) = [d \in Cpus |-> IF d = c THEN Deleted(list[c], k) ELSE list[d]]
  <2>1. PICK b \in Cpus : \E k \in DOMAIN list[b] :
           /\ b = tcpu[t] /\ list[b][k] = t
           /\ Without(t) = [d \in Cpus |-> IF d = b THEN Deleted(list[b], k) ELSE list[d]]
    BY <1>1, <1>7, WithoutIs
  <2>2. b = c
    BY <1>7, <2>1
  <2>3. QED
    BY <2>1, <2>2
<1>9. Unlinks(c, k)
  BY <1>1, <1>5, <1>8 DEF Unlinks, TimerTypeOK
<1>10. /\ list' \in [Cpus -> Seq(Timers)] /\ pending' \in [Timers -> BOOLEAN]
       /\ PendingExact' /\ Sorted'
       /\ \A u \in Timers : pending'[u] => pending[u] /\ u # t
       /\ \A d \in Cpus : \A i \in DOMAIN list'[d] :
              \E m \in DOMAIN list[d] : list'[d][i] = list[d][m]
  BY <1>1, <1>2, <1>8, <1>9, UnlinkInv
<1>11. /\ irq'[c] = "fn" /\ \A d \in Cpus : d # c => irq'[d] = irq[d]
       /\ irq' \in [Cpus -> {"off", "loop", "fn", "call"}]
       /\ popped'[c] = t /\ \A d \in Cpus : d # c => popped'[d] = popped[d]
       /\ popped' \in [Cpus -> Timers \cup {NoTimer}]
  BY <1>1, <1>2, <1>5 DEF TimerTypeOK
<1>12. TimerTypeOK'
  BY <1>1, <1>10, <1>11 DEF TimerTypeOK
<1>13. HardwareCovers'
  <2> SUFFICES ASSUME NEW d \in Cpus, irq'[d] = "off"
               PROVE  hw[d] <= next_tick[d] /\ \A i \in DOMAIN list'[d] : hw[d] <= expires[list'[d][i]]
    BY <1>1 DEF HardwareCovers
  <2>1. irq[d] = "off"
    BY <1>11
  <2>2. ASSUME NEW i \in DOMAIN list'[d] PROVE hw[d] <= expires[list'[d][i]]
    <3>1. PICK m \in DOMAIN list[d] : list'[d][i] = list[d][m]
      BY <1>10
    <3>2. QED
      BY <1>1, <2>1, <3>1 DEF HardwareCovers
  <2>3. QED
    BY <1>1, <2>1, <2>2 DEF HardwareCovers
<1>14. Ticks'
  <2>1. \A d \in Cpus : irq'[d] # "off" <=> irq[d] # "off"
    BY <1>1, <1>11
  <2>2. QED
    BY <1>1, <2>1 DEF Ticks
<1>15. Owners'
  BY <1>1, <1>10, OwnerSame DEF Owners
<1>16. Callbacks'
  <2> SUFFICES ASSUME NEW d \in Cpus PROVE CallbackOK(d)'
    BY DEF Callbacks
  <2>1. CallbackOK(d)
    BY <1>1 DEF Callbacks
  <2>2. CASE d = c
    <3>1. call'[d].pc = "none" /\ irq'[d] = "fn" /\ d \in Online' /\ popped'[d] = t
      BY <1>1, <1>11, <2>1, <2>2 DEF CallbackOK, Online
    <3>2. ~Stopped(t)' /\ ~pending'[t]
      BY <1>1, <1>7, <1>10 DEF Owners, OwnerOK, Stopped
    <3>3. ~Stopped(popped[d])' /\ ~pending'[popped'[d]]
      BY <3>1, <3>2 DEF Stopped
    <3>4. QED
      BY <3>1, <3>3 DEF CallbackOK
  <2>3. CASE d # c
    <3>1. irq'[d] = irq[d] /\ popped'[d] = popped[d]
      BY <1>11, <2>3
    <3>2. QED
      BY <1>1, <1>10, <2>1, <3>1, CallbackSame
  <2>4. QED
    BY <2>2, <2>3
<1>17. QED
  BY <1>10, <1>12, <1>13, <1>14, <1>15, <1>16 DEF TimerInv

LEMMA CallbackInv ==
  ASSUME TimerInv, NEW c \in Online, callback(c), only' = only
  PROVE  TimerInv'
<1> DEFINE r == Cancelling(c, "insert", Least(now + 1, MaxTime))
<1>1. /\ TimerTypeOK /\ PendingExact /\ Sorted /\ HardwareCovers /\ Ticks /\ Owners /\ Callbacks
      /\ irq[c] = "fn"
      /\ now' = now /\ expires' = expires /\ tcpu' = tcpu /\ next_tick' = next_tick /\ inow' = inow
      /\ hw' = hw /\ list' = list /\ pending' = pending /\ interval' = interval /\ armed' = armed
      /\ \/ /\ ~interval[popped[c]] /\ irq' = [irq EXCEPT ![c] = "loop"]
            /\ popped' = [popped EXCEPT ![c] = NoTimer] /\ call' = call
         \/ /\ interval[popped[c]] /\ irq' = [irq EXCEPT ![c] = "call"]
            /\ call' = [call EXCEPT ![c] = r] /\ popped' = popped
  BY DEF TimerInv, callback
<1>2. c \in Cpus /\ c \in Actors
  <2>1. c \in Cpus
    BY <1>1 DEF TimerTypeOK, Online
  <2>2. QED
    BY <2>1, ActorsDiffer
<1>3. r \in CallType /\ r.then = "insert"
  <2>1. Least(now + 1, MaxTime) \in Nat
    BY <1>1, KtimerAssumption, SMTT(60), Z3T(60) DEF Least, TimerTypeOK
  <2>2. QED
    BY <1>2, <2>1, CallRecords, SMTT(60), Z3T(60)
<1> HIDE DEF r
<1>4. CallbackOK(c)
  BY <1>1, <1>2 DEF Callbacks
<1>5. /\ irq'[c] # "off" /\ \A d \in Cpus : d # c => irq'[d] = irq[d]
      /\ irq' \in [Cpus -> {"off", "loop", "fn", "call"}]
      /\ popped' \in [Cpus -> Timers \cup {NoTimer}] /\ \A d \in Cpus : d # c => popped'[d] = popped[d]
      /\ call' \in [Actors -> CallType] /\ \A b \in Actors : b # c => call'[b] = call[b]
  <2>1. irq'[c] # "off" /\ (\A d \in Cpus : d # c => irq'[d] = irq[d]) /\ irq' \in [Cpus -> {"off", "loop", "fn", "call"}]
    BY <1>1, <1>2 DEF TimerTypeOK
  <2>2. popped' \in [Cpus -> Timers \cup {NoTimer}] /\ \A d \in Cpus : d # c => popped'[d] = popped[d]
    BY <1>1, <1>2 DEF TimerTypeOK
  <2>3. call' \in [Actors -> CallType] /\ \A b \in Actors : b # c => call'[b] = call[b]
    <3>1. CASE call' = call
      BY <1>1, <3>1 DEF TimerTypeOK
    <3>2. CASE call' = [call EXCEPT ![c] = r]
      BY <1>1, <1>2, <1>3, <3>2, CallIs
    <3>3. QED
      BY <1>1, <3>1, <3>2
  <2>4. QED
    BY <2>1, <2>2, <2>3
<1>6. TimerTypeOK'
  BY <1>1, <1>5 DEF TimerTypeOK
<1>7. PendingExact' /\ Sorted'
  BY <1>1, SameLists
<1>8. \A d \in Cpus : irq'[d] # "off" <=> irq[d] # "off"
  BY <1>1, <1>5
<1>9. HardwareCovers' /\ Ticks'
  BY <1>1, <1>8 DEF HardwareCovers, Ticks
<1>10. \A u \in Timers : call'[u] = call[u]
  BY <1>2, <1>5, ActorsDiffer
<1>11. Owners'
  BY <1>1, <1>10, OwnerSame DEF Owners
<1>12. Callbacks'
  <2> SUFFICES ASSUME NEW d \in Cpus PROVE CallbackOK(d)'
    BY DEF Callbacks
  <2>1. CallbackOK(d)
    BY <1>1 DEF Callbacks
  <2>2. CASE d # c
    <3>1. irq'[d] = irq[d] /\ popped'[d] = popped[d] /\ call'[d] = call[d]
      BY <1>5, <2>2, ActorsDiffer
    <3>2. QED
      BY <1>1, <1>10, <2>1, <3>1, CallbackSame
  <2>3. CASE d = c
    <3>1. CASE ~interval[popped[c]]
      <4>1. irq'[c] = "loop" /\ call'[c].pc = "none" /\ c \in Online'
        BY <1>1, <1>2, <1>4, <3>1 DEF CallbackOK, TimerTypeOK, Online
      <4>2. QED
        BY <2>3, <4>1 DEF CallbackOK
    <3>2. CASE interval[popped[c]]
      <4>1. irq'[c] = "call" /\ call'[c] = r /\ popped' = popped /\ c \in Online'
        <5>1. irq'[c] = "call" /\ popped' = popped /\ c \in Online' /\ call' = [call EXCEPT ![c] = r]
          BY <1>1, <1>2, <3>2 DEF TimerTypeOK, Online
        <5>2. QED
          BY <1>1, <1>2, <1>3, <5>1, CallIs
      <4>2. popped[c] \in Timers /\ ~Stopped(popped[c]) /\ ~pending[popped[c]]
        BY <1>1, <1>4, <3>2 DEF CallbackOK
      <4>3. ~Stopped(popped[c])' /\ ~pending'[popped'[c]] /\ interval'[popped'[c]]
        BY <1>1, <1>10, <3>2, <4>1, <4>2 DEF Stopped
      <4>4. QED
        BY <1>3, <2>3, <4>1, <4>2, <4>3 DEF CallbackOK
    <3>3. QED
      BY <3>1, <3>2
  <2>4. QED
    BY <2>2, <2>3
<1>13. QED
  BY <1>6, <1>7, <1>9, <1>11, <1>12 DEF TimerInv

LEMMA InterruptEndInv ==
  ASSUME TimerInv, NEW c \in Online, interrupt_end(c), only' = only
  PROVE  TimerInv'
<1>1. /\ TimerTypeOK /\ PendingExact /\ Sorted /\ HardwareCovers /\ Ticks /\ Owners /\ Callbacks
      /\ irq[c] = "loop" /\ irq' = [irq EXCEPT ![c] = "off"] /\ next_tick' = next_tick
      /\ hw' = reprogram(list[c], expires, c)
      /\ popped' = [popped EXCEPT ![c] = NoTimer] /\ inow' = [inow EXCEPT ![c] = 0]
      /\ now' = now /\ expires' = expires /\ tcpu' = tcpu /\ pending' = pending /\ list' = list
      /\ call' = call /\ interval' = interval /\ armed' = armed
  BY DEF TimerInv, interrupt_end
<1>2. c \in Cpus
  BY <1>1 DEF TimerTypeOK, Online
<1>3. /\ irq'[c] = "off" /\ \A d \in Cpus : d # c => irq'[d] = irq[d]
      /\ irq' \in [Cpus -> {"off", "loop", "fn", "call"}]
      /\ \A d \in Cpus : d # c => popped'[d] = popped[d]
      /\ popped' \in [Cpus -> Timers \cup {NoTimer}]
  BY <1>1, <1>2 DEF TimerTypeOK
<1>4. 0 \in Nat
  BY SMTT(60), Z3T(60)
<1>5. inow'[c] = 0 /\ (\A d \in Cpus : d # c => inow'[d] = inow[d]) /\ inow' \in [Cpus -> Nat]
  BY <1>1, <1>2, <1>4 DEF TimerTypeOK
<1> DEFINE h == IF list[c] = <<>> THEN next_tick[c] ELSE Least(next_tick[c], expires[Head(list[c])])
<1>6. hw' = [hw EXCEPT ![c] = h]
  BY <1>1 DEF reprogram
<1>7. list[c] \in Seq(Timers) /\ next_tick[c] \in Nat /\ expires \in [Timers -> Nat]
  BY <1>1, <1>2 DEF TimerTypeOK
<1>8. h \in Nat /\ h <= next_tick[c] /\ (list[c] # <<>> => h <= expires[list[c][1]] /\ 1 \in DOMAIN list[c])
  BY <1>7, SMTT(60), Z3T(60) DEF Least
<1> HIDE DEF h
<1>9. hw' \in [Cpus -> Nat] /\ hw'[c] = h /\ \A d \in Cpus : d # c => hw'[d] = hw[d]
  BY <1>1, <1>2, <1>6, <1>8 DEF TimerTypeOK
<1>10. TimerTypeOK'
  BY <1>1, <1>3, <1>5, <1>9 DEF TimerTypeOK
<1>11. PendingExact' /\ Sorted'
  BY <1>1, SameLists
<1>12. ASSUME NEW i \in DOMAIN list[c] PROVE h <= expires[list[c][i]]
  <2>1. list[c] # <<>> /\ (i = 1 \/ 1 < i) /\ list[c][1] \in Timers /\ list[c][i] \in Timers
    BY <1>7, SMTT(60), Z3T(60)
  <2>2. h <= expires[list[c][1]] /\ 1 \in DOMAIN list[c]
    BY <1>8, <2>1
  <2>3. i = 1 \/ expires[list[c][1]] <= expires[list[c][i]]
    BY <1>1, <1>2, <2>1, <2>2 DEF Sorted
  <2>4. expires[list[c][1]] \in Nat /\ expires[list[c][i]] \in Nat
    BY <1>7, <2>1
  <2>5. QED
    BY <1>8, <2>2, <2>3, <2>4, SMTT(60), Z3T(60)
<1>13. HardwareCovers'
  <2> SUFFICES ASSUME NEW d \in Cpus, irq'[d] = "off"
               PROVE  hw'[d] <= next_tick[d] /\ \A i \in DOMAIN list[d] : hw'[d] <= expires[list[d][i]]
    BY <1>1 DEF HardwareCovers
  <2>1. CASE d = c
    BY <1>8, <1>9, <1>12, <2>1
  <2>2. CASE d # c
    BY <1>1, <1>3, <1>9, <2>2 DEF HardwareCovers
  <2>3. QED
    BY <2>1, <2>2
<1>14. Ticks'
  <2> SUFFICES ASSUME NEW d \in Cpus
               PROVE  /\ \E n \in Nat : next_tick[d] = n * TICK_NSEC
                      /\ inow'[d] <= now /\ next_tick[d] <= now + TICK_NSEC
                      /\ irq'[d] # "off" => /\ inow'[d] < next_tick[d]
                                            /\ next_tick[d] <= inow'[d] + TICK_NSEC
    BY <1>1 DEF Ticks
  <2>1. CASE d = c
    <3>1. 0 <= now
      BY <1>1, SMTT(60), Z3T(60) DEF TimerTypeOK
    <3>2. QED
      BY <1>1, <1>2, <1>3, <1>5, <2>1, <3>1 DEF Ticks
  <2>2. CASE d # c
    BY <1>1, <1>3, <1>5, <2>2 DEF Ticks
  <2>3. QED
    BY <2>1, <2>2
<1>15. Owners'
  BY <1>1, OwnerSame DEF Owners
<1>16. Callbacks'
  <2> SUFFICES ASSUME NEW d \in Cpus PROVE CallbackOK(d)'
    BY DEF Callbacks
  <2>1. CallbackOK(d)
    BY <1>1 DEF Callbacks
  <2>2. CASE d = c
    <3>1. call'[d].pc = "none" /\ irq'[d] = "off"
      BY <1>1, <1>3, <2>1, <2>2 DEF CallbackOK
    <3>2. QED
      BY <3>1 DEF CallbackOK
  <2>3. CASE d # c
    <3>1. irq'[d] = irq[d] /\ popped'[d] = popped[d]
      BY <1>3, <2>3
    <3>2. QED
      BY <1>1, <2>1, <3>1, CallbackSame
  <2>4. QED
    BY <2>2, <2>3
<1>17. QED
  BY <1>10, <1>11, <1>13, <1>14, <1>15, <1>16 DEF TimerInv

LEMMA ClockInv ==
  ASSUME TimerInv, Clock, only' = only
  PROVE  TimerInv'
<1> USE DEF dev
<1>1. /\ TimerTypeOK /\ PendingExact /\ Sorted /\ HardwareCovers /\ Ticks /\ Owners /\ Callbacks
      /\ now' = now + 1
      /\ UNCHANGED <<expires, tcpu, pending, list, dev, call, interval, armed>>
  BY DEF TimerInv, Clock
<1>2. now \in Nat /\ now + 1 \in Nat
  BY <1>1, SMTT(60), Z3T(60) DEF TimerTypeOK
<1>3. TimerTypeOK'
  BY <1>1, <1>2 DEF TimerTypeOK
<1>4. PendingExact' /\ Sorted' /\ HardwareCovers'
  BY <1>1, SameLists, SameHw
<1>5. Ticks'
  <2> SUFFICES ASSUME NEW d \in Cpus PROVE inow[d] <= now + 1 /\ next_tick[d] <= now + 1 + TICK_NSEC
    BY <1>1 DEF Ticks
  <2>1. inow[d] <= now /\ next_tick[d] <= now + TICK_NSEC /\ inow[d] \in Nat /\ next_tick[d] \in Nat
    BY <1>1 DEF Ticks, TimerTypeOK
  <2>2. QED
    BY <1>2, <2>1, KtimerAssumption, SMTT(60), Z3T(60)
<1>6. Owners'
  BY <1>1, OwnerSame DEF Owners
<1>7. Callbacks'
  BY <1>1, CallbackSame, ActorsDiffer DEF Callbacks
<1>8. QED
  BY <1>3, <1>4, <1>5, <1>6, <1>7 DEF TimerInv

-----------------------------------------------------------------------------
LEMMA TimerInitInv == TimerInit => TimerInv
<1> SUFFICES ASSUME TimerInit PROVE TimerInv
  OBVIOUS
<1> USE DEF TimerInit
<1>1. TICK_NSEC \in Nat /\ 0 \in Nat /\ 0 <= TICK_NSEC /\ TICK_NSEC <= 0 + TICK_NSEC /\ 1 \in Nat
      /\ TICK_NSEC = 1 * TICK_NSEC /\ 0 <= 0 /\ TICK_NSEC <= TICK_NSEC
  BY KtimerAssumption, SMTT(60), Z3T(60)
<1>2. NoCall \in CallType /\ NoCall.pc = "none" /\ NoCall.then = "none"
  BY CallRecords
<1>3. <<>> \in Seq(Timers) /\ DOMAIN <<>> = {}
  BY SMTT(60), Z3T(60)
<1>4. TimerTypeOK
  BY <1>1, <1>2, <1>3 DEF TimerTypeOK
<1>5. PendingExact /\ Sorted
  BY <1>3, KtimerAssumption DEF PendingExact, Sorted, On
<1>6. HardwareCovers
  BY <1>1, <1>3 DEF HardwareCovers
<1>7. Ticks
  <2> SUFFICES ASSUME NEW c \in Cpus
               PROVE  /\ \E n \in Nat : TICK_NSEC = n * TICK_NSEC
                      /\ 0 <= 0 /\ TICK_NSEC <= 0 + TICK_NSEC
    BY DEF Ticks
  <2>1. QED
    BY <1>1
<1>8. \A a \in Actors : call[a] = NoCall
  OBVIOUS
<1>9. Owners
  BY <1>2, <1>8, ActorsDiffer DEF Owners, OwnerOK, Stopped
<1>10. Callbacks
  BY <1>2, <1>8, ActorsDiffer DEF Callbacks, CallbackOK
<1>11. QED
  BY <1>4, <1>5, <1>6, <1>7, <1>9, <1>10 DEF TimerInv

LEMMA TimerNextInv == TimerInv /\ TimerNext => TimerInv'
<1> SUFFICES ASSUME TimerInv, TimerNext PROVE TimerInv'
  OBVIOUS
<1>1. only' = only
  BY DEF TimerNext
<1>2. CASE Clock
  BY <1>1, <1>2, ClockInv
<1>3. ASSUME NEW t \in Timers, Owner(t) PROVE TimerInv'
  <2>1. ASSUME NEW c \in Online, Begin(t, c) PROVE TimerInv'
    BY <1>1, <2>1, BeginInv
  <2>2. CASE Disarm(t)
    BY <1>1, <2>2, DisarmInv
  <2>3. ASSUME NEW e \in now .. MaxTime, NEW iv \in BOOLEAN, Arm(t, e, iv) PROVE TimerInv'
    <3>1. e \in Nat
      BY KtimerAssumption, SMTT(60), Z3T(60) DEF TimerInv, TimerTypeOK
    <3>2. QED
      BY <1>1, <2>3, <3>1, ArmInv
  <2>4. QED
    BY <1>3, <2>1, <2>2, <2>3 DEF Owner
<1>4. ASSUME NEW t \in Timers, Call(t) PROVE TimerInv'
  BY <1>1, <1>4, CancelReadOwner, CancelLockedOwner, InsertOwner DEF Call
<1>5. ASSUME NEW c \in Cpus, Call(c) PROVE TimerInv'
  BY <1>1, <1>5, CancelReadCallback, CancelLockedCallback, InsertCallback DEF Call
<1>6. ASSUME NEW c \in Online, Interrupt(c) PROVE TimerInv'
  BY <1>1, <1>6, InterruptInv, PopInv, CallbackInv, InterruptEndInv DEF Interrupt
<1>7. QED
  BY <1>2, <1>3, <1>4, <1>5, <1>6 DEF TimerNext, Actors

LEMMA TimerStutter ==
  ASSUME TimerInv, UNCHANGED timer_vars
  PROVE  TimerInv'
<1> USE DEF timer_vars
<1>1. /\ TimerTypeOK /\ PendingExact /\ Sorted /\ HardwareCovers /\ Ticks /\ Owners /\ Callbacks
  BY DEF TimerInv
<1>2. TimerTypeOK'
  BY <1>1 DEF TimerTypeOK
<1>3. PendingExact' /\ Sorted' /\ HardwareCovers' /\ Ticks'
  BY <1>1, SameLists, SameHw, SameTicks
<1>4. Owners'
  BY <1>1, OwnerSame DEF Owners
<1>5. Callbacks'
  BY <1>1, CallbackSame DEF Callbacks
<1>6. QED
  BY <1>2, <1>3, <1>4, <1>5 DEF TimerInv

-----------------------------------------------------------------------------
\* The inductive invariant holds in every state of the timers, whatever the
\* number of CPUs and timers, the period of the tick and the end of the clock.
THEOREM TimerInvariant == TimedSpec => []TimerInv
<1>1. TimedInit => TimerInv
  BY TimerInitInv DEF TimedInit
<1>2. TimerInv /\ [TimedNext]_timed_vars => TimerInv'
  <2> SUFFICES ASSUME TimerInv, [TimedNext]_timed_vars PROVE TimerInv'
    OBVIOUS
  <2>1. CASE TimerNext
    BY <2>1, TimerNextInv
  <2>2. CASE UNCHANGED timer_vars
    BY <2>2, TimerStutter
  <2>3. TimerNext \/ UNCHANGED timer_vars
    BY DEF TimedNext, timed_vars
  <2>4. QED
    BY <2>1, <2>2, <2>3
<1>3. QED
  BY <1>1, <1>2, PTL DEF TimedSpec

\* ktimer_start, ktimer_cancel and timer_interrupt keep the lists exact: a timer
\* is linked once, on the list of the CPU it records, exactly while it is pending;
\* the lists are sorted; what was cancelled stays off; ticks stay on their grid.
THEOREM TimerListsExact == TimedSpec => []ListsExact
<1>1. TimerInv => ListsExact
  <2> SUFFICES ASSUME TimerInv PROVE ListsExact
    OBVIOUS
  <2>1. TimerTypeOK /\ PendingExact /\ Sorted /\ Ticks /\ Owners
    BY DEF TimerInv
  <2>2. DisarmedStaysOff
    BY <2>1 DEF DisarmedStaysOff, PendingExact, Owners, OwnerOK
  <2>3. TickOnGrid
    <3> SUFFICES ASSUME NEW c \in Cpus
                 PROVE  /\ next_tick[c] % TICK_NSEC = 0
                        /\ irq[c] = "loop" => next_tick[c] \in inow[c] + 1 .. inow[c] + TICK_NSEC
      BY DEF TickOnGrid
    <3>1. /\ \E n \in Nat : next_tick[c] = n * TICK_NSEC
          /\ irq[c] # "off" => inow[c] < next_tick[c] /\ next_tick[c] <= inow[c] + TICK_NSEC
      BY <2>1 DEF Ticks
    <3>2. next_tick[c] \in Nat /\ inow[c] \in Nat /\ TICK_NSEC \in Nat /\ TICK_NSEC # 0
      BY <2>1, KtimerAssumption DEF TimerTypeOK
    <3>3. next_tick[c] % TICK_NSEC = 0
      <4>1. PICK n \in Nat : next_tick[c] = n * TICK_NSEC
        BY <3>1
      <4>2. (n * TICK_NSEC) % TICK_NSEC = 0
        BY <3>2, Multiple
      <4>3. QED
        BY <4>1, <4>2
    <3>4. irq[c] = "loop" => next_tick[c] \in inow[c] + 1 .. inow[c] + TICK_NSEC
      BY <3>1, <3>2, SMTT(60), Z3T(60)
    <3>5. QED
      BY <3>3, <3>4
  <2>4. QED
    BY <2>1, <2>2, <2>3 DEF ListsExact
<1>2. QED
  BY <1>1, TimerInvariant, PTL

\* reprogram is called often enough: no timer and no tick is ever overslept.
THEOREM NoTimerOverslept == TimedSpec => []HardwareCovers
<1>1. TimerInv => HardwareCovers
  BY DEF TimerInv
<1>2. QED
  BY <1>1, TimerInvariant, PTL

-----------------------------------------------------------------------------
(* Futexes *)

INSTANCE FiniteSetTheorems

\* The inductive invariant.  A thread inside futex_wait has a key and a bitset
\* that some FUTEX_WAKE matches, and one that was taken off the bucket runs.
FutexTypeOK ==
    /\ word \in [Addrs -> Values]
    /\ bucket \in Seq(Threads)
    /\ key \in [Threads -> Addrs \cup {None}] /\ want \in [Threads -> Values \cup {None}]
    /\ timed \in [Threads -> {"none", "zero", "some"}]
    /\ bitset \in [Threads -> SUBSET Bits]
    /\ woken \in [Threads -> BOOLEAN] /\ moved \in [Threads -> BOOLEAN]
    /\ state \in [Threads -> {"R", "S"}] /\ sig \in [Threads -> BOOLEAN]
    /\ pc \in [Threads -> {"user", "check", "decide", "sleep", "finish"}]
    /\ ret \in [Threads -> {"0", "EAGAIN", "ETIMEDOUT", "EINTR"}]
    /\ owes \in [Threads -> Addrs \cup {None}]

Framed ==
    \A t \in Threads :
        /\ woken[t] => state[t] = "R" /\ pc[t] \in {"decide", "sleep", "finish"}
        /\ pc[t] # "user" => key[t] \in Addrs /\ bitset[t] \in Bitsets

FutexInv == FutexTypeOK /\ LinkedExact /\ NoOversleep /\ Framed

-----------------------------------------------------------------------------
\* What list_del leaves of the bucket is a list of the remaining waiters.
LEMMA ListOf ==
  ASSUME bucket \in Seq(Threads), Distinct(bucket), IsFiniteSet(Threads),
         NEW S, S \subseteq Queued, NEW l \in Lists(S)
  PROVE  l \in Seq(Threads) /\ Elems(l) = S /\ Distinct(l)
<1>1. Queued \subseteq Threads
  BY SMTT(60), Z3T(60) DEF Queued
<1>2. Cardinality(S) \in Nat
  BY <1>1, FS_Subset, FS_CardinalityType, SMTT(60), Z3T(60)
<1>3. l \in [1 .. Cardinality(S) -> S] /\ InOrder(l, S)
  BY DEF Lists
<1>4. l \in [1 .. Cardinality(S) -> Threads]
  BY <1>1, <1>3, SMTT(60), Z3T(60)
<1>5. l \in Seq(Threads)
  BY <1>2, <1>4, SMTT(60), Z3T(60)
<1>6. Elems(l) = S
  BY <1>3 DEF InOrder, Elems
<1>7. ASSUME NEW i \in DOMAIN l, NEW j \in DOMAIN l, i < j PROVE l[i] # l[j]
  <2>1. PICK m \in DOMAIN bucket, n \in DOMAIN bucket :
            m < n /\ bucket[m] = l[i] /\ bucket[n] = l[j]
    BY <1>3, <1>7 DEF InOrder
  <2>2. m # n
    BY <2>1, SMTT(60), Z3T(60)
  <2>3. QED
    BY <2>1, <2>2 DEF Distinct
<1>8. DOMAIN l = 1 .. Cardinality(S)
  BY <1>3
<1>9. Distinct(l)
  <2> SUFFICES ASSUME NEW i \in DOMAIN l, NEW j \in DOMAIN l, i # j PROVE l[i] # l[j]
    BY DEF Distinct
  <2>1. i < j \/ j < i
    BY <1>2, <1>8, SMTT(60), Z3T(60)
  <2>2. QED
    BY <1>7, <2>1
<1>10. QED
  BY <1>5, <1>6, <1>9

\* wake_key and futex_requeue take waiters of the bucket that match ...
LEMMA FirstSome ==
  ASSUME NEW n, NEW S
  PROVE  FirstN(n, S) \subseteq Queued \cap S
BY DEF FirstN, Queued

\* ... and all that match when they may take as many as there are threads.
LEMMA FirstAll ==
  ASSUME bucket \in Seq(Threads), Distinct(bucket), IsFiniteSet(Threads), NEW S
  PROVE  FirstN(Cardinality(Threads), S) = Queued \cap S
<1> DEFINE I == {i \in DOMAIN bucket : bucket[i] \in S}
           J(j) == {k \in I : k <= j}
<1>1. ASSUME NEW j \in I PROVE Cardinality(J(j)) <= Cardinality(Threads)
  <2> DEFINE f == [k \in J(j) |-> bucket[k]]
  <2>1. \A k \in DOMAIN bucket : bucket[k] \in Threads
    BY SMTT(60), Z3T(60)
  <2>2. f \in [J(j) -> Threads]
    BY <2>1
  <2>3. IsInjective(f)
    BY DEF IsInjective, Distinct
  <2>4. f \in Injection(J(j), Threads)
    BY <2>2, <2>3 DEF Injection
  <2> HIDE DEF f, J
  <2>5. QED
    BY <2>4, FS_Injection, SMTT(60), Z3T(60)
<1>2. Queued \cap S \subseteq FirstN(Cardinality(Threads), S)
  BY <1>1 DEF FirstN, Queued
<1>3. QED
  BY <1>2, FirstSome

-----------------------------------------------------------------------------
LEMMA FutexInitInv == FutexInit => FutexInv
<1> SUFFICES ASSUME FutexInit PROVE FutexInv
  OBVIOUS
<1>1. bucket \in Seq(Threads) /\ DOMAIN bucket = {}
  BY SMTT(60), Z3T(60) DEF FutexInit
<1>2. FutexTypeOK
  BY <1>1 DEF FutexInit, FutexTypeOK, MATCH_ANY
<1>3. LinkedExact
  BY <1>1 DEF FutexInit, LinkedExact, Queued
<1>4. NoOversleep
  BY DEF FutexInit, NoOversleep
<1>5. Framed
  BY DEF FutexInit, Framed
<1>6. QED
  BY <1>2, <1>3, <1>4, <1>5 DEF FutexInv

\* The user's store: from then on the thread owes the sleepers a wake-up.
LEMMA StoreInv ==
  ASSUME FutexInv, NEW t \in Threads, NEW a \in Addrs, NEW v \in Values, Store(t, a, v)
  PROVE  FutexInv'
<1>1. /\ word' = [word EXCEPT ![a] = v] /\ owes' = [owes EXCEPT ![t] = a]
      /\ owes[t] = None
      /\ bucket' = bucket /\ key' = key /\ want' = want /\ timed' = timed
      /\ bitset' = bitset /\ moved' = moved /\ woken' = woken /\ state' = state
      /\ sig' = sig /\ pc' = pc /\ ret' = ret
  BY DEF Store, waiter
<1>2. FutexTypeOK /\ LinkedExact /\ NoOversleep /\ Framed
  BY DEF FutexInv
<1>3. FutexTypeOK'
  BY <1>1, <1>2 DEF FutexTypeOK
<1>4. LinkedExact'
  BY <1>1, <1>2 DEF LinkedExact, Queued
<1>5. Framed'
  BY <1>1, <1>2 DEF Framed
<1>6. owes'[t] = a /\ (\A u \in Threads : u # t => owes'[u] = owes[u])
  BY <1>1, <1>2 DEF FutexTypeOK
<1>7. \A x \in Addrs : x # a => word'[x] = word[x]
  BY <1>1, <1>2 DEF FutexTypeOK
<1>8. NoOversleep'
  <2> SUFFICES ASSUME NEW u \in Threads
               PROVE  /\ pc[u] \in {"decide", "sleep"} /\ ~woken[u] /\ ~moved[u]
                             /\ word'[key[u]] # want[u]
                             => \E w \in Threads : owes'[w] = key[u]
                      /\ woken[u] /\ pc[u] = "sleep" => state[u] = "R"
    BY ZenonT(150), <1>1 DEF NoOversleep
  <2>1. woken[u] /\ pc[u] = "sleep" => state[u] = "R"
    BY <1>2 DEF NoOversleep
  <2>2. ASSUME pc[u] \in {"decide", "sleep"}, ~woken[u], ~moved[u], word'[key[u]] # want[u]
        PROVE  \E w \in Threads : owes'[w] = key[u]
    <3>1. key[u] \in Addrs
      BY <1>2, <2>2 DEF Framed
    <3>2. CASE key[u] = a
      BY <1>6, <3>2
    <3>3. CASE key[u] # a
      <4>1. word[key[u]] # want[u]
        BY <1>7, <2>2, <3>1, <3>3
      <4>2. PICK w \in Threads : owes[w] = key[u]
        BY <1>2, <2>2, <4>1 DEF NoOversleep
      <4>3. None \notin Addrs
        BY FutexAssumption
      <4>4. w # t
        BY <1>1, <3>1, <4>2, <4>3
      <4>5. QED
        BY <1>6, <4>2, <4>4
    <3>4. QED
      BY <3>2, <3>3
  <2>3. QED
    BY <2>1, <2>2
<1>9. QED
  BY <1>3, <1>4, <1>5, <1>8 DEF FutexInv

\* A step of one thread that touches no other waiter keeps the invariant if it
\* leaves the thread itself right.
LEMMA OneThread ==
  ASSUME FutexInv, FutexTypeOK', NEW t \in Threads, word' = word, owes' = owes,
         \A u \in Threads : u # t =>
             /\ pc'[u] = pc[u] /\ woken'[u] = woken[u] /\ state'[u] = state[u]
             /\ key'[u] = key[u] /\ want'[u] = want[u] /\ moved'[u] = moved[u]
             /\ bitset'[u] = bitset[u] /\ (u \in Queued' <=> u \in Queued),
         Distinct(bucket'),
         t \in Queued' <=> pc'[t] \in {"decide", "sleep", "finish"} /\ ~woken'[t],
         pc'[t] \in {"decide", "sleep"} /\ ~woken'[t] /\ ~moved'[t] /\ word[key'[t]] # want'[t]
             => \E u \in Threads : owes[u] = key'[t],
         woken'[t] => state'[t] = "R" /\ pc'[t] \in {"decide", "sleep", "finish"},
         pc'[t] # "user" => key'[t] \in Addrs /\ bitset'[t] \in Bitsets
  PROVE  FutexInv'
<1>1. LinkedExact /\ NoOversleep /\ Framed
  BY DEF FutexInv
<1>2. LinkedExact'
  <2>1. ASSUME NEW u \in Threads
        PROVE  u \in Queued' <=> pc'[u] \in {"decide", "sleep", "finish"} /\ ~woken'[u]
    <3>1. CASE u = t
      BY <3>1
    <3>2. CASE u # t
      <4>1. /\ pc'[u] = pc[u] /\ woken'[u] = woken[u]
            /\ (u \in Queued' <=> u \in Queued)
        BY <3>2
      <4>2. QED
        BY <1>1, <4>1 DEF LinkedExact
    <3>3. QED
      BY <3>1, <3>2
  <2>2. \A i, j \in DOMAIN bucket' : bucket'[i] = bucket'[j] => i = j
    BY DEF Distinct
  <2>3. QED
    BY <2>1, <2>2 DEF LinkedExact
<1>3. NoOversleep'
  <2>1. ASSUME NEW u \in Threads
        PROVE  /\ pc'[u] \in {"decide", "sleep"} /\ ~woken'[u] /\ ~moved'[u]
                      /\ word[key'[u]] # want'[u]
                      => \E w \in Threads : owes[w] = key'[u]
               /\ woken'[u] /\ pc'[u] = "sleep" => state'[u] = "R"
    <3>1. CASE u = t
      BY <3>1
    <3>2. CASE u # t
      <4>1. /\ pc'[u] = pc[u] /\ woken'[u] = woken[u] /\ moved'[u] = moved[u]
            /\ key'[u] = key[u] /\ want'[u] = want[u] /\ state'[u] = state[u]
        BY <3>2
      <4>2. /\ pc[u] \in {"decide", "sleep"} /\ ~woken[u] /\ ~moved[u]
                   /\ word[key[u]] # want[u]
                   => \E w \in Threads : owes[w] = key[u]
            /\ woken[u] /\ pc[u] = "sleep" => state[u] = "R"
        BY <1>1 DEF NoOversleep
      <4>3. QED
        BY <4>1, <4>2
    <3>3. QED
      BY <3>1, <3>2
  <2>2. QED
    BY <2>1 DEF NoOversleep
<1>4. Framed'
  <2>1. ASSUME NEW u \in Threads
        PROVE  /\ woken'[u] => state'[u] = "R" /\ pc'[u] \in {"decide", "sleep", "finish"}
               /\ pc'[u] # "user" => key'[u] \in Addrs /\ bitset'[u] \in Bitsets
    <3>1. CASE u = t
      BY <3>1
    <3>2. CASE u # t
      BY <1>1, <3>2 DEF Framed
    <3>3. QED
      BY <3>1, <3>2
  <2>2. QED
    BY <2>1 DEF Framed, Bitsets
<1>5. QED
  BY <1>2, <1>3, <1>4 DEF FutexInv

\* futex_wait begins: nothing is linked yet.
LEMMA WaitInv ==
  ASSUME FutexInv, NEW t \in Threads, NEW a \in Addrs, NEW v \in Values,
         NEW to \in {"none", "zero", "some"}, NEW b \in Bitsets, futex_wait(t, a, v, to, b)
  PROVE  FutexInv'
<1>1. /\ key' = [key EXCEPT ![t] = a] /\ want' = [want EXCEPT ![t] = v]
      /\ timed' = [timed EXCEPT ![t] = to] /\ bitset' = [bitset EXCEPT ![t] = b]
      /\ pc' = [pc EXCEPT ![t] = "check"] /\ pc[t] = "user"
      /\ word' = word /\ bucket' = bucket /\ woken' = woken /\ moved' = moved
      /\ state' = state /\ sig' = sig /\ ret' = ret /\ owes' = owes
  BY DEF futex_wait, Goto
<1>2. FutexTypeOK /\ LinkedExact /\ Framed
  BY DEF FutexInv
<1>3. FutexTypeOK'
  BY <1>1, <1>2 DEF FutexTypeOK, Bitsets
<1>4. pc'[t] = "check" /\ key'[t] = a /\ bitset'[t] = b
  BY <1>1, <1>2 DEF FutexTypeOK
<1>5. Queued' = Queued /\ Distinct(bucket')
  <2>1. bucket' = bucket /\ Distinct(bucket)
    BY <1>1, <1>2 DEF LinkedExact, Distinct
  <2>2. QED
    BY <2>1 DEF Queued
<1>6. ASSUME NEW u \in Threads, u # t
      PROVE  /\ pc'[u] = pc[u] /\ woken'[u] = woken[u] /\ state'[u] = state[u]
             /\ key'[u] = key[u] /\ want'[u] = want[u] /\ moved'[u] = moved[u]
             /\ bitset'[u] = bitset[u] /\ (u \in Queued' <=> u \in Queued)
  BY <1>1, <1>2, <1>5, <1>6 DEF FutexTypeOK
<1>7. ~woken'[t]
  BY <1>1, <1>2 DEF Framed
<1>8. t \notin Queued'
  BY <1>1, <1>2, <1>5 DEF LinkedExact
<1>9. pc'[t] \notin {"decide", "sleep"} /\ pc'[t] \notin {"decide", "sleep", "finish"}
      /\ key'[t] \in Addrs /\ bitset'[t] \in Bitsets /\ word' = word /\ owes' = owes
      /\ Distinct(bucket')
  BY <1>1, <1>4, <1>5
<1>10. QED
  BY <1>3, <1>6, <1>7, <1>8, <1>9, OneThread

\* futex_wait under the lock: the waiter is linked while the word still has the
\* value, or the call ends with -EAGAIN.
LEMMA CheckInv ==
  ASSUME FutexInv, NEW t \in Threads, check(t)
  PROVE  FutexInv'
<1>1. FutexTypeOK /\ LinkedExact /\ Framed /\ pc[t] = "check"
  BY DEF FutexInv, check
<1>2. word' = word /\ sig' = sig /\ owes' = owes
  BY DEF check
<1>3. ~woken[t] /\ t \notin Queued /\ Distinct(bucket)
      /\ key[t] \in Addrs /\ bitset[t] \in Bitsets
  BY <1>1 DEF Framed, LinkedExact, Distinct
<1>4. CASE ValueStill(t)
  <2>1. /\ bucket' = Append(bucket, t) /\ state' = [state EXCEPT ![t] = "S"]
        /\ pc' = [pc EXCEPT ![t] = "decide"] /\ ret' = [ret EXCEPT ![t] = "0"]
        /\ key' = key /\ want' = want /\ timed' = timed /\ bitset' = bitset
        /\ moved' = moved /\ woken' = woken
    BY <1>4 DEF check, Goto, waiter
  <2>2. t \notin Elems(bucket) /\ bucket \in Seq(Threads)
    BY <1>1, <1>3 DEF Queued, Elems, FutexTypeOK
  <2>3. bucket' \in Seq(Threads) /\ Elems(bucket') = Elems(bucket) \cup {t} /\ Distinct(bucket')
    BY <1>3, <2>1, <2>2, AppendList
  <2>4. FutexTypeOK'
    BY <1>1, <1>2, <2>1, <2>3 DEF FutexTypeOK
  <2>5. Queued' = Queued \cup {t}
    BY <2>3 DEF Queued, Elems
  <2>6. pc'[t] = "decide" /\ word[key'[t]] = want'[t] /\ ~woken'[t]
        /\ key'[t] \in Addrs /\ bitset'[t] \in Bitsets
    BY <1>1, <1>3, <1>4, <2>1 DEF FutexTypeOK, ValueStill
  <2>7. ASSUME NEW u \in Threads, u # t
        PROVE  /\ pc'[u] = pc[u] /\ woken'[u] = woken[u] /\ state'[u] = state[u]
               /\ key'[u] = key[u] /\ want'[u] = want[u] /\ moved'[u] = moved[u]
               /\ bitset'[u] = bitset[u] /\ (u \in Queued' <=> u \in Queued)
    BY <1>1, <2>1, <2>5, <2>7 DEF FutexTypeOK
  <2>8. t \in Queued'
    BY <2>5
  <2>9. QED
    BY <1>2, <2>3, <2>4, <2>6, <2>7, <2>8, OneThread
<1>5. CASE ~ValueStill(t)
  <2>1. /\ pc' = [pc EXCEPT ![t] = "user"] /\ ret' = [ret EXCEPT ![t] = "EAGAIN"]
        /\ key' = [key EXCEPT ![t] = None] /\ want' = [want EXCEPT ![t] = None]
        /\ timed' = [timed EXCEPT ![t] = "none"] /\ bitset' = [bitset EXCEPT ![t] = Bits]
        /\ woken' = [woken EXCEPT ![t] = FALSE] /\ moved' = [moved EXCEPT ![t] = FALSE]
        /\ bucket' = bucket /\ state' = state
    BY <1>5 DEF check, Goto, FrameGone, MATCH_ANY
  <2>2. FutexTypeOK'
    BY <1>1, <1>2, <2>1 DEF FutexTypeOK
  <2>3. Queued' = Queued /\ Distinct(bucket') /\ t \notin Queued'
    BY <1>3, <2>1 DEF Queued
  <2>4. pc'[t] = "user" /\ ~woken'[t]
    BY <1>1, <2>1 DEF FutexTypeOK
  <2>5. ASSUME NEW u \in Threads, u # t
        PROVE  /\ pc'[u] = pc[u] /\ woken'[u] = woken[u] /\ state'[u] = state[u]
               /\ key'[u] = key[u] /\ want'[u] = want[u] /\ moved'[u] = moved[u]
               /\ bitset'[u] = bitset[u] /\ (u \in Queued' <=> u \in Queued)
    BY <1>1, <2>1, <2>3, <2>5 DEF FutexTypeOK
  <2>6. QED
    BY <1>2, <2>2, <2>3, <2>4, <2>5, OneThread
<1>6. QED
  BY <1>4, <1>5

\* What finish leaves of the bucket: everybody else.
LEMMA Unlinked ==
  ASSUME FutexInv, NEW t \in Threads, pc[t] = "finish", bucket' \in AfterFinish(t)
  PROVE  /\ bucket' \in Seq(Threads) /\ Distinct(bucket')
         /\ Queued' = Queued \ {t}
<1>1. bucket \in Seq(Threads) /\ Distinct(bucket)
      /\ (t \in Queued <=> ~woken[t]) /\ IsFiniteSet(Threads)
  BY FutexAssumption DEF FutexInv, FutexTypeOK, LinkedExact, Distinct
<1>2. CASE woken[t]
  <2>1. bucket' = bucket
    BY <1>2 DEF AfterFinish
  <2>2. QED
    BY <1>1, <1>2, <2>1 DEF Queued
<1>3. CASE ~woken[t]
  <2>1. bucket' \in Lists(Queued \ {t})
    BY <1>3 DEF AfterFinish
  <2>2. bucket' \in Seq(Threads) /\ Elems(bucket') = Queued \ {t} /\ Distinct(bucket')
    BY <1>1, <2>1, ListOf
  <2>3. Queued' = Elems(bucket')
    BY DEF Queued, Elems
  <2>4. QED
    BY <2>2, <2>3
<1>4. QED
  BY <1>2, <1>3

\* The end of futex_wait.
LEMMA FinishInv ==
  ASSUME FutexInv, NEW t \in Threads, finish(t)
  PROVE  FutexInv'
<1>1. /\ pc[t] = "finish" /\ state' = [state EXCEPT ![t] = "R"]
      /\ bucket' \in AfterFinish(t) /\ ret' = [ret EXCEPT ![t] = Outcome(t)]
      /\ sig' = [sig EXCEPT ![t] = FALSE] /\ word' = word /\ owes' = owes
      /\ pc' = [pc EXCEPT ![t] = "user"]
      /\ key' = [key EXCEPT ![t] = None] /\ want' = [want EXCEPT ![t] = None]
      /\ timed' = [timed EXCEPT ![t] = "none"] /\ bitset' = [bitset EXCEPT ![t] = Bits]
      /\ woken' = [woken EXCEPT ![t] = FALSE] /\ moved' = [moved EXCEPT ![t] = FALSE]
  BY DEF finish, FrameGone, Goto, MATCH_ANY
<1>2. FutexTypeOK
  BY DEF FutexInv
<1>3. bucket' \in Seq(Threads) /\ Distinct(bucket') /\ Queued' = Queued \ {t}
  BY <1>1, Unlinked
<1>4. Outcome(t) \in {"0", "EAGAIN", "ETIMEDOUT", "EINTR"}
  BY <1>2 DEF Outcome, FutexTypeOK
<1>5. FutexTypeOK'
  BY <1>1, <1>2, <1>3, <1>4 DEF FutexTypeOK
<1>6. pc'[t] = "user" /\ ~woken'[t]
  BY <1>1, <1>2 DEF FutexTypeOK
<1>7. ASSUME NEW u \in Threads, u # t
      PROVE  /\ pc'[u] = pc[u] /\ woken'[u] = woken[u] /\ state'[u] = state[u]
             /\ key'[u] = key[u] /\ want'[u] = want[u] /\ moved'[u] = moved[u]
             /\ bitset'[u] = bitset[u] /\ (u \in Queued' <=> u \in Queued)
  BY <1>1, <1>2, <1>3, <1>7 DEF FutexTypeOK
<1>8. t \notin Queued'
  BY <1>3
<1>9. pc'[t] \notin {"decide", "sleep"} /\ pc'[t] \notin {"decide", "sleep", "finish"}
  BY <1>6
<1>10. QED
  BY <1>1, <1>3, <1>5, <1>6, <1>7, <1>8, <1>9, OneThread

\* The steps of a waiter between the comparison and the end, and a signal: they
\* change pc, state, ret and sig of the thread and nothing else.
LEMMA InsideInv ==
  ASSUME FutexInv, FutexTypeOK', NEW t \in Threads,
         word' = word, bucket' = bucket, key' = key, want' = want, bitset' = bitset,
         moved' = moved, woken' = woken, owes' = owes,
         \A u \in Threads : u # t => pc'[u] = pc[u] /\ state'[u] = state[u],
         state'[t] \in {state[t], "R"},
         \/ pc'[t] = pc[t]
         \/ pc[t] \in {"decide", "sleep"} /\ pc'[t] \in {"sleep", "finish"}
  PROVE  FutexInv'
<1>1. LinkedExact /\ NoOversleep /\ Framed
  BY DEF FutexInv
<1>2. Queued' = Queued /\ Distinct(bucket')
  BY ZenonT(150), <1>1 DEF Queued, Distinct, LinkedExact
<1>3. pc'[t] \in {"decide", "sleep", "finish"} <=> pc[t] \in {"decide", "sleep", "finish"}
  OBVIOUS
<1>4. pc'[t] \in {"decide", "sleep"} => pc[t] \in {"decide", "sleep"}
  OBVIOUS
<1>5. pc'[t] # "user" => pc[t] # "user"
  OBVIOUS
<1>6. t \in Queued' <=> pc'[t] \in {"decide", "sleep", "finish"} /\ ~woken'[t]
  BY <1>1, <1>2, <1>3 DEF LinkedExact
<1>7. pc[t] \in {"decide", "sleep"} /\ ~woken[t] /\ ~moved[t] /\ word[key[t]] # want[t]
          => \E u \in Threads : owes[u] = key[t]
  BY <1>1 DEF NoOversleep
<1>8. pc'[t] \in {"decide", "sleep"} /\ ~woken'[t] /\ ~moved'[t] /\ word[key'[t]] # want'[t]
          => \E u \in Threads : owes[u] = key'[t]
  BY <1>4, <1>7
<1>9. woken'[t] => state'[t] = "R" /\ pc'[t] \in {"decide", "sleep", "finish"}
  BY <1>1, <1>3 DEF Framed
<1>10. pc'[t] # "user" => key'[t] \in Addrs /\ bitset'[t] \in Bitsets
  BY <1>1, <1>5 DEF Framed
<1>11. ASSUME NEW u \in Threads, u # t
       PROVE  /\ pc'[u] = pc[u] /\ woken'[u] = woken[u] /\ state'[u] = state[u]
              /\ key'[u] = key[u] /\ want'[u] = want[u] /\ moved'[u] = moved[u]
              /\ bitset'[u] = bitset[u] /\ (u \in Queued' <=> u \in Queued)
  BY <1>2, <1>11
<1>12. QED
  BY <1>2, <1>6, <1>8, <1>9, <1>10, <1>11, OneThread

LEMMA DecideInv ==
  ASSUME FutexInv, NEW t \in Threads, decide(t)
  PROVE  FutexInv'
<1>1. FutexTypeOK
  BY DEF FutexInv
<1> DEFINE l == IF sig[t] \/ timed[t] = "zero" THEN "finish" ELSE "sleep"
           r == IF ~sig[t] /\ timed[t] = "zero" THEN "ETIMEDOUT" ELSE "0"
<1>2. l \in {"sleep", "finish"} /\ r \in {"0", "EAGAIN", "ETIMEDOUT", "EINTR"}
  OBVIOUS
<1>3. /\ pc[t] = "decide" /\ pc' = [pc EXCEPT ![t] = l] /\ ret' = [ret EXCEPT ![t] = r]
      /\ word' = word /\ bucket' = bucket /\ key' = key /\ want' = want /\ timed' = timed
      /\ bitset' = bitset /\ moved' = moved /\ woken' = woken /\ owes' = owes
      /\ state' = state /\ sig' = sig
  BY DEF decide, Goto, waiter
<1> HIDE DEF l, r
<1>4. FutexTypeOK'
  BY <1>1, <1>2, <1>3 DEF FutexTypeOK
<1>5. /\ pc'[t] = l /\ state'[t] = state[t]
      /\ \A u \in Threads : u # t => pc'[u] = pc[u] /\ state'[u] = state[u]
  BY <1>1, <1>3 DEF FutexTypeOK
<1>6. pc[t] \in {"decide", "sleep"} /\ pc'[t] \in {"sleep", "finish"}
  BY <1>2, <1>3, <1>5
<1>7. QED
  BY <1>3, <1>4, <1>5, <1>6, InsideInv

LEMMA ResumeInv ==
  ASSUME FutexInv, NEW t \in Threads, NEW late \in BOOLEAN, Resume(t, late)
  PROVE  FutexInv'
<1>1. FutexTypeOK
  BY DEF FutexInv
<1> DEFINE r == IF late THEN "ETIMEDOUT" ELSE "0"
<1>2. r \in {"0", "EAGAIN", "ETIMEDOUT", "EINTR"}
  OBVIOUS
<1>3. /\ pc[t] = "sleep" /\ pc' = [pc EXCEPT ![t] = "finish"] /\ ret' = [ret EXCEPT ![t] = r]
      /\ word' = word /\ bucket' = bucket /\ key' = key /\ want' = want /\ timed' = timed
      /\ bitset' = bitset /\ moved' = moved /\ woken' = woken /\ owes' = owes
      /\ state' = state /\ sig' = sig
  BY DEF Resume, Goto, waiter
<1> HIDE DEF r
<1>4. FutexTypeOK'
  BY <1>1, <1>2, <1>3 DEF FutexTypeOK
<1>5. /\ pc'[t] = "finish" /\ state'[t] = state[t]
      /\ \A u \in Threads : u # t => pc'[u] = pc[u] /\ state'[u] = state[u]
  BY <1>1, <1>3 DEF FutexTypeOK
<1>6. pc[t] \in {"decide", "sleep"} /\ pc'[t] \in {"sleep", "finish"}
  BY <1>3, <1>5
<1>7. QED
  BY <1>3, <1>4, <1>5, <1>6, InsideInv

\* The timer of the sleep and a signal wake the thread.
LEMMA RunInv ==
  ASSUME FutexInv, NEW t \in Threads, timeout(t) \/ signal(t)
  PROVE  FutexInv'
<1>1. FutexTypeOK
  BY DEF FutexInv
<1>2. /\ pc' = pc /\ state' = [state EXCEPT ![t] = "R"] /\ ret' = ret
      /\ word' = word /\ bucket' = bucket /\ key' = key /\ want' = want /\ timed' = timed
      /\ bitset' = bitset /\ moved' = moved /\ woken' = woken /\ owes' = owes
      /\ (sig' = sig \/ sig' = [sig EXCEPT ![t] = TRUE])
  BY DEF timeout, signal, waiter
<1>3. FutexTypeOK'
  BY <1>1, <1>2 DEF FutexTypeOK
<1>4. /\ pc'[t] = pc[t] /\ state'[t] = "R"
      /\ \A u \in Threads : u # t => pc'[u] = pc[u] /\ state'[u] = state[u]
  BY <1>1, <1>2 DEF FutexTypeOK
<1>5. QED
  BY <1>2, <1>3, <1>4, InsideInv

\* A step that wakes the waiters W and moves the waiters M to a2, after which
\* whoever stays still has somebody who owes the wake-up.
Takes(W, M, a2) ==
    /\ W \subseteq Queued /\ M \subseteq Queued
    /\ bucket' \in Seq(Threads) /\ Distinct(bucket') /\ Queued' = Queued \ W
    /\ woken' = [u \in Threads |-> woken[u] \/ u \in W] /\ state' = RunnableAll(W)
    /\ key' = [u \in Threads |-> IF u \in M THEN a2 ELSE key[u]]
    /\ moved' = [u \in Threads |-> moved[u] \/ u \in M]
    /\ word' = word /\ want' = want /\ timed' = timed /\ bitset' = bitset
    /\ sig' = sig /\ pc' = pc /\ ret' = ret /\ owes' \in [Threads -> Addrs \cup {None}]
    /\ \A x \in Queued : x \notin W /\ x \notin M =>
         ((\E u \in Threads : owes[u] = key[x]) => \E u \in Threads : owes'[u] = key[x])

LEMMA TakenInv ==
  ASSUME FutexInv, NEW W, NEW M, NEW a2 \in Addrs, Takes(W, M, a2)
  PROVE  FutexInv'
<1> USE DEF Takes
<1>1. FutexTypeOK /\ LinkedExact /\ NoOversleep /\ Framed
  BY DEF FutexInv
<1>2. ASSUME NEW u \in Threads
      PROVE  /\ woken'[u] = (woken[u] \/ u \in W)
             /\ state'[u] = IF u \in W THEN "R" ELSE state[u]
             /\ key'[u] = IF u \in M THEN a2 ELSE key[u]
             /\ moved'[u] = (moved[u] \/ u \in M)
  BY DEF RunnableAll
<1>3. FutexTypeOK'
  <2>1. key' \in [Threads -> Addrs \cup {None}]
    BY <1>1 DEF FutexTypeOK
  <2>2. state' \in [Threads -> {"R", "S"}]
    BY <1>1 DEF FutexTypeOK, RunnableAll
  <2>3. woken' \in [Threads -> BOOLEAN] /\ moved' \in [Threads -> BOOLEAN]
    BY <1>1 DEF FutexTypeOK
  <2>4. QED
    BY <1>1, <2>1, <2>2, <2>3 DEF FutexTypeOK
<1>4. LinkedExact'
  <2>1. ASSUME NEW u \in Threads
        PROVE  u \in Queued' <=> pc[u] \in {"decide", "sleep", "finish"} /\ ~woken'[u]
    <3>1. u \in Queued <=> pc[u] \in {"decide", "sleep", "finish"} /\ ~woken[u]
      BY <1>1 DEF LinkedExact
    <3>2. QED
      BY <1>2, <3>1
  <2>2. \A i, j \in DOMAIN bucket' : bucket'[i] = bucket'[j] => i = j
    BY DEF Distinct
  <2>3. QED
    BY <2>1, <2>2 DEF LinkedExact
<1>5. NoOversleep'
  <2>1. ASSUME NEW u \in Threads, woken'[u], pc[u] = "sleep" PROVE state'[u] = "R"
    BY <1>1, <1>2, <2>1 DEF NoOversleep
  <2>2. ASSUME NEW u \in Threads, pc[u] \in {"decide", "sleep"}, ~woken'[u], ~moved'[u],
               word[key'[u]] # want[u]
        PROVE  \E w \in Threads : owes'[w] = key'[u]
    <3>1. u \notin W /\ u \notin M /\ ~woken[u] /\ ~moved[u] /\ key'[u] = key[u]
      BY <1>2, <2>2
    <3>2. \E w \in Threads : owes[w] = key[u]
      BY <1>1, <2>2, <3>1 DEF NoOversleep
    <3>3. u \in Queued
      BY <1>1, <2>2, <3>1 DEF LinkedExact
    <3>4. QED
      BY <3>1, <3>2, <3>3
  <2>3. QED
    BY <2>1, <2>2 DEF NoOversleep
<1>6. Framed'
  <2>1. ASSUME NEW u \in Threads
        PROVE  /\ woken'[u] => state'[u] = "R" /\ pc[u] \in {"decide", "sleep", "finish"}
               /\ pc[u] # "user" => key'[u] \in Addrs /\ bitset[u] \in Bitsets
    <3>1. /\ woken[u] => state[u] = "R" /\ pc[u] \in {"decide", "sleep", "finish"}
          /\ pc[u] # "user" => key[u] \in Addrs /\ bitset[u] \in Bitsets
      BY <1>1 DEF Framed
    <3>2. u \in W => pc[u] \in {"decide", "sleep", "finish"}
      BY <1>1 DEF LinkedExact
    <3>3. QED
      BY <1>2, <3>1, <3>2
  <2>2. QED
    BY <2>1 DEF Framed, Bitsets
<1>7. QED
  BY <1>3, <1>4, <1>5, <1>6 DEF FutexInv

\* FUTEX_WAKE: a thread that owes a wake-up takes every waiter of its word.
LEMMA WakeInv ==
  ASSUME FutexInv, NEW t \in Threads, NEW a \in Addrs, NEW n, NEW b, futex_wake(t, a, n, b)
  PROVE  FutexInv'
<1> DEFINE S == {u \in Threads : key[u] = a /\ bitset[u] \cap b # {}}
           W == FirstN(n, S)
<1>1. FutexTypeOK /\ LinkedExact /\ NoOversleep /\ Framed
  BY DEF FutexInv
<1>2. /\ bucket' \in Lists(Queued \ W)
      /\ woken' = [u \in Threads |-> woken[u] \/ u \in W] /\ state' = RunnableAll(W)
  BY DEF futex_wake, wake_key
<1>3. /\ owes' = [owes EXCEPT ![t] = None] /\ word' = word /\ sig' = sig /\ pc' = pc
      /\ ret' = ret /\ key' = key /\ want' = want /\ timed' = timed /\ bitset' = bitset
      /\ moved' = moved
      /\ (owes[t] # None => a = owes[t] /\ n = Cardinality(Threads) /\ b = Bits)
  BY DEF futex_wake, waiter, MATCH_ANY
<1>4. W \subseteq Queued /\ W \subseteq S
  BY FirstSome
<1>5. bucket \in Seq(Threads) /\ Distinct(bucket) /\ IsFiniteSet(Threads)
  BY <1>1, FutexAssumption DEF FutexTypeOK, LinkedExact, Distinct
<1>6. owes[t] # None => W = Queued \cap S
  BY <1>3, <1>5, FirstAll
<1> HIDE DEF W
<1>7. bucket' \in Seq(Threads) /\ Distinct(bucket') /\ Elems(bucket') = Queued \ W
  BY <1>2, <1>5, ListOf
<1>8. Queued' = Queued \ W
  BY <1>7 DEF Queued, Elems
<1>9. owes' \in [Threads -> Addrs \cup {None}]
      /\ (\A u \in Threads : u # t => owes'[u] = owes[u])
  BY <1>1, <1>3 DEF FutexTypeOK
<1>10. ASSUME NEW x \in Queued, x \notin W, NEW u \in Threads, owes[u] = key[x]
       PROVE  \E w \in Threads : owes'[w] = key[x]
  <2>1. CASE u # t
    BY <1>9, <1>10, <2>1
  <2>2. CASE u = t
    <3>1. x \in Threads
      BY <1>5, <1>10, SMTT(60), Z3T(60) DEF Queued
    <3>2. pc[x] \in {"decide", "sleep", "finish"}
      BY <1>1, <1>10, <3>1 DEF LinkedExact
    <3>3. pc[x] # "user"
      BY <3>2
    <3>4. key[x] \in Addrs /\ bitset[x] \in Bitsets
      BY <1>1, <3>1, <3>3 DEF Framed
    <3>5. owes[t] # None
      BY <1>10, <2>2, <3>4, FutexAssumption
    <3>6. x \in S
      <4>1. bitset[x] \in SUBSET Bits /\ bitset[x] # {} /\ b = Bits
        BY <1>3, <3>4, <3>5 DEF Bitsets
      <4>2. key[x] = a
        BY <1>3, <1>10, <2>2, <3>5
      <4>3. QED
        BY <3>1, <4>1, <4>2
    <3>7. QED
      BY <1>6, <1>10, <3>5, <3>6
  <2>3. QED
    BY <2>1, <2>2
<1> DEFINE M == {}
<1>11. key' = [u \in Threads |-> IF u \in M THEN a ELSE key[u]]
       /\ moved' = [u \in Threads |-> moved[u] \/ u \in M]
  BY <1>1, <1>3 DEF FutexTypeOK
<1>12. M \subseteq Queued
  OBVIOUS
<1> HIDE DEF M, S
<1>13. \A x \in Queued : x \notin W /\ x \notin M =>
           ((\E u \in Threads : owes[u] = key[x]) => \E u \in Threads : owes'[u] = key[x])
  BY <1>10
<1>14. Takes(W, M, a)
  BY <1>2, <1>3, <1>4, <1>7, <1>8, <1>9, <1>11, <1>12, <1>13 DEF Takes
<1>15. QED
  BY <1>14, TakenInv

\* futex_requeue: the moved waiters go to the end of the bucket.
LEMMA RequeueInv ==
  ASSUME FutexInv, NEW t \in Threads, NEW a \in Addrs, NEW a2 \in Addrs, NEW nw, NEW nr,
         futex_requeue(t, a, nw, a2, nr)
  PROVE  FutexInv'
<1> DEFINE S == {u \in Threads : key[u] = a}
           W == FirstN(nw, S)
           M == FirstN(nw + nr, S) \ W
<1>1. FutexTypeOK /\ LinkedExact
  BY DEF FutexInv
<1>2. /\ \E l \in Lists(Queued \ (W \cup M)), m \in Lists(M) : bucket' = l \o m
      /\ woken' = [u \in Threads |-> woken[u] \/ u \in W] /\ state' = RunnableAll(W)
      /\ key' = [u \in Threads |-> IF u \in M THEN a2 ELSE key[u]]
      /\ moved' = [u \in Threads |-> moved[u] \/ u \in M]
      /\ word' = word /\ want' = want /\ timed' = timed /\ bitset' = bitset /\ sig' = sig
      /\ pc' = pc /\ ret' = ret /\ owes' = owes
  BY DEF futex_requeue
<1>3. W \subseteq Queued /\ M \subseteq Queued /\ W \cap M = {}
  BY FirstSome
<1>4. bucket \in Seq(Threads) /\ Distinct(bucket) /\ IsFiniteSet(Threads)
  BY <1>1, FutexAssumption DEF FutexTypeOK, LinkedExact, Distinct
<1> HIDE DEF W, M
<1>5. PICK l \in Lists(Queued \ (W \cup M)), m \in Lists(M) : bucket' = l \o m
  BY <1>2
<1>6. l \in Seq(Threads) /\ Distinct(l) /\ Elems(l) = Queued \ (W \cup M)
  BY <1>4, ListOf
<1>7. m \in Seq(Threads) /\ Distinct(m) /\ Elems(m) = M
  BY <1>3, <1>4, ListOf
<1>8. Elems(l) \cap Elems(m) = {}
  BY <1>6, <1>7
<1>9. bucket' \in Seq(Threads) /\ Distinct(bucket') /\ Elems(bucket') = Elems(l) \cup Elems(m)
  BY ZenonT(150), <1>5, <1>6, <1>7, <1>8, ConcatList
<1>10. Queued' = Queued \ W
  <2>1. Queued' = Elems(bucket')
    BY DEF Queued, Elems
  <2>2. QED
    BY <1>3, <1>6, <1>7, <1>9, <2>1
<1>11. owes' \in [Threads -> Addrs \cup {None}]
  BY <1>1, <1>2 DEF FutexTypeOK
<1>12. Takes(W, M, a2)
  BY <1>2, <1>3, <1>9, <1>10, <1>11 DEF Takes
<1>13. QED
  BY <1>12, TakenInv

LEMMA FutexNextInv == FutexInv /\ FutexNext => FutexInv'
<1> SUFFICES ASSUME FutexInv, FutexNext PROVE FutexInv'
  OBVIOUS
<1>1. Waiters \subseteq Threads /\ Posters \subseteq Threads
      /\ Timeouts \cup {"none"} \subseteq {"none", "zero", "some"}
  BY FutexAssumption
<1>2. CASE \E t \in Waiters, a \in Addrs, v \in Values, to \in Timeouts \cup {"none"},
              b \in Bitsets : futex_wait(t, a, v, to, b)
  BY <1>1, <1>2, WaitInv
<1>3. CASE \E t \in Waiters : Wait(t) \/ signal(t)
  <2>1. PICK t \in Threads : Wait(t) \/ signal(t)
    BY <1>1, <1>3
  <2>2. QED
    BY <2>1, CheckInv, DecideInv, RunInv, ResumeInv, FinishInv DEF Wait
<1>4. CASE \E t \in Posters : Post(t)
  <2>1. PICK t \in Threads : Post(t)
    BY <1>1, <1>4
  <2>2. CASE \E a \in Addrs, v \in Values : Store(t, a, v)
    BY <2>2, StoreInv
  <2>3. CASE \E a \in Addrs, n \in {1, Cardinality(Threads)}, b \in Bitsets :
                futex_wake(t, a, n, b)
    BY <2>3, WakeInv
  <2>4. CASE \E a, a2 \in Addrs, m, n \in 0 .. 1 : futex_requeue(t, a, m, a2, n)
    BY <2>4, RequeueInv
  <2>5. QED
    BY <2>1, <2>2, <2>3, <2>4 DEF Post
<1>5. QED
  BY <1>2, <1>3, <1>4 DEF FutexNext

LEMMA FutexStutter == FutexInv /\ UNCHANGED futex_vars => FutexInv'
<1> SUFFICES ASSUME FutexInv, UNCHANGED futex_vars PROVE FutexInv'
  OBVIOUS
<1>1. /\ word' = word /\ bucket' = bucket /\ key' = key /\ want' = want /\ timed' = timed
      /\ bitset' = bitset /\ moved' = moved /\ woken' = woken /\ state' = state
      /\ sig' = sig /\ pc' = pc /\ ret' = ret /\ owes' = owes
  BY DEF futex_vars, waiter
<1>2. FutexTypeOK' /\ Framed'
  BY <1>1 DEF FutexInv, FutexTypeOK, Framed
<1>3. LinkedExact'
  BY ZenonT(150), <1>1 DEF FutexInv, LinkedExact, Queued
<1>4. NoOversleep'
  BY <1>1 DEF FutexInv, NoOversleep
<1>5. QED
  BY <1>2, <1>3, <1>4 DEF FutexInv

-----------------------------------------------------------------------------
\* The inductive invariant of futexes holds in every state.
THEOREM FutexInvariant == TimedSpec => []FutexInv
<1>1. TimedInit => FutexInv
  BY FutexInitInv DEF TimedInit
<1>2. FutexInv /\ [TimedNext]_timed_vars => FutexInv'
  BY FutexNextInv, FutexStutter DEF TimedNext, timed_vars
<1>3. QED
  BY <1>1, <1>2, PTL DEF TimedSpec

\* futex_wait, wake_key and futex_requeue link a waiter exactly while it waits:
\* once, from the comparison until it is woken or gives up; the bucket never
\* holds a pointer into a stack frame that is gone.
THEOREM WaitersLinked == TimedSpec => []LinkedExact
BY FutexInvariant, PTL DEF FutexInv

\* The comparison under futex_lock loses no wake-up: nobody sleeps on a word whose
\* value has changed unless the FUTEX_WAKE for it is still to come, and nobody
\* sleeps on after wake_key has taken their waiter off.
THEOREM FutexWakesKept == TimedSpec => []NoOversleep
BY FutexInvariant, PTL DEF FutexInv

\* One step of futex_wait's end: success exactly for the waiters that were woken.
LEMMA OutcomeStep ==
  ASSUME FutexInv, FutexNext, NEW t \in Threads, pc[t] = "finish", pc'[t] = "user"
  PROVE  ret'[t] = "0" <=> woken[t]
<1>1. FutexTypeOK
  BY DEF FutexInv
<1>2. Waiters \subseteq Threads /\ Posters \subseteq Threads
  BY FutexAssumption
<1>3. ASSUME NEW u \in Threads, finish(u) PROVE ret'[t] = "0" <=> woken[t]
  <2>1. u = t
    BY <1>1, <1>3 DEF finish, Goto, FutexTypeOK
  <2>2. ret'[t] = Outcome(t)
    BY <1>1, <1>3, <2>1 DEF finish, FutexTypeOK
  <2>3. QED
    BY <2>2 DEF Outcome
<1>4. ASSUME NEW u \in Threads, check(u) \/ decide(u) \/ timeout(u) \/ signal(u) PROVE FALSE
  BY <1>1, <1>4 DEF check, decide, timeout, signal, Goto, FutexTypeOK
<1>5. ASSUME NEW u \in Threads, NEW l \in BOOLEAN, Resume(u, l) PROVE FALSE
  BY <1>1, <1>5 DEF Resume, Goto, FutexTypeOK
<1>6. ASSUME NEW u \in Threads, NEW a, NEW v, NEW to, NEW b, futex_wait(u, a, v, to, b)
      PROVE  FALSE
  BY <1>1, <1>6 DEF futex_wait, Goto, FutexTypeOK
<1>7. ASSUME NEW u \in Threads, Post(u) PROVE FALSE
  BY <1>7 DEF Post, Store, futex_wake, futex_requeue
<1>8. QED
  BY <1>2, <1>3, <1>4, <1>5, <1>6, <1>7 DEF FutexNext, Wait

\* futex_wait returns success exactly when its waiter was taken off the bucket: a
\* wake-up that FUTEX_WAKE has counted is never turned into a timeout or a signal,
\* and no wait reports one that did not happen.
THEOREM WakesCountOnce == TimedSpec => WakeNotSwallowed
<1>1. FutexInv /\ [TimedNext]_timed_vars =>
          [\A t \in Threads : pc[t] = "finish" /\ pc'[t] = "user"
                                  => (ret'[t] = "0" <=> woken[t])]_futex_vars
  <2>1. FutexInv /\ FutexNext => \A t \in Threads : pc[t] = "finish" /\ pc'[t] = "user"
                                     => (ret'[t] = "0" <=> woken[t])
    BY OutcomeStep
  <2>2. [TimedNext]_timed_vars => FutexNext \/ UNCHANGED futex_vars
    BY DEF TimedNext, timed_vars
  <2>3. QED
    BY <2>1, <2>2
<1>2. QED
  BY <1>1, FutexInvariant, PTL DEF TimedSpec, WakeNotSwallowed
=============================================================================
