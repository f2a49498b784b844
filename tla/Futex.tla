------------------------------- MODULE Futex -------------------------------
(***************************************************************************)
(* Futexes (kernel/futex.c).  Every section under futex_lock is one step.  *)
(* All keys share one bucket, the worst hash.  User memory changes at any  *)
(* time; a thread that stores a new value owes the waiters of the word a   *)
(* FUTEX_WAKE, as the users of futexes do.                                 *)
(***************************************************************************)
EXTENDS Integers, Sequences, FiniteSets

CONSTANTS Threads, None,
          Waiters, Posters,   \* threads that call futex_wait; that wake
          Plain,      \* waiters that call FUTEX_WAIT without a timeout; the
                      \* others call FUTEX_WAIT_BITSET with one of
          WaitBitsets,
          Addrs,      \* futex words; an address is its own key
          Values,     \* values of a word
          Timeouts,   \* kinds of timeout: of "none", "zero", "some"
          Bits        \* bits of a bitset

ASSUME FutexAssumption ==
    /\ IsFiniteSet(Threads) /\ None \notin Addrs \cup Values
    /\ Timeouts \subseteq {"none", "zero", "some"}
    /\ Waiters \subseteq Threads /\ Posters \subseteq Threads /\ Plain \subseteq Waiters
    /\ WaitBitsets \subseteq (SUBSET Bits) \ {{}}

VARIABLES
    word,      \* user memory
    bucket,    \* the waiters of the bucket, in order
    key, want, timed, bitset, woken,   \* of each thread's futex_waiter and call
    moved,     \* whether a requeue has moved the waiter
    state,     \* t->state: R or S
    sig,       \* signal_pending_current()
    pc, ret,
    owes       \* the word whose waiters the thread still has to wake

waiter == <<key, want, timed, bitset, moved>>
futex_vars == <<word, bucket, waiter, woken, state, sig, pc, ret, owes>>

MATCH_ANY == Bits
Bitsets == (SUBSET Bits) \ {{}}

FutexInit ==
    /\ word \in [Addrs -> Values]
    /\ bucket = <<>>
    /\ key = [t \in Threads |-> None] /\ want = [t \in Threads |-> None]
    /\ timed = [t \in Threads |-> "none"] /\ bitset = [t \in Threads |-> MATCH_ANY]
    /\ woken = [t \in Threads |-> FALSE] /\ moved = [t \in Threads |-> FALSE]
    /\ state = [t \in Threads |-> "R"] /\ sig = [t \in Threads |-> FALSE]
    /\ pc = [t \in Threads |-> "user"] /\ ret = [t \in Threads |-> "0"]
    /\ owes = [t \in Threads |-> None]

\* The waiter is a local variable of futex_wait: it ends with the call.
FrameGone(t) ==
    /\ key' = [key EXCEPT ![t] = None] /\ want' = [want EXCEPT ![t] = None]
    /\ timed' = [timed EXCEPT ![t] = "none"] /\ bitset' = [bitset EXCEPT ![t] = MATCH_ANY]
    /\ woken' = [woken EXCEPT ![t] = FALSE] /\ moved' = [moved EXCEPT ![t] = FALSE]

Goto(t, l) == pc' = [pc EXCEPT ![t] = l]

\* What waits in the bucket; that l lists the members S of the bucket in its order.
Queued == {bucket[i] : i \in DOMAIN bucket}
InOrder(l, S) ==
    /\ {l[i] : i \in DOMAIN l} = S
    /\ \A i, j \in DOMAIN l : i < j => \E m, n \in DOMAIN bucket :
           m < n /\ bucket[m] = l[i] /\ bucket[n] = l[j]
Lists(S) == {l \in [1 .. Cardinality(S) -> S] : InOrder(l, S)}

\* User code stores to a futex word ...
Store(t, a, v) ==
    /\ pc[t] = "user" /\ owes[t] = None /\ v # word[a]
    /\ word' = [word EXCEPT ![a] = v]
    /\ owes' = [owes EXCEPT ![t] = a]
    /\ UNCHANGED <<bucket, waiter, woken, state, sig, pc, ret>>

\* futex_wait: the caller's arguments become a waiter.
futex_wait(t, a, v, to, b) ==
    /\ pc[t] = "user" /\ owes[t] = None
    /\ key' = [key EXCEPT ![t] = a] /\ want' = [want EXCEPT ![t] = v]
    /\ timed' = [timed EXCEPT ![t] = to] /\ bitset' = [bitset EXCEPT ![t] = b]
    /\ Goto(t, "check")
    /\ UNCHANGED <<word, bucket, woken, moved, state, sig, ret, owes>>

\* Mutant: the value is not compared again under the lock.
ValueStillAny(t) == TRUE
\* futex_wait: the comparison under the lock.
ValueStill(t) == word[key[t]] = want[t]

\* futex_wait: queue the waiter and announce the sleep, or return -EAGAIN.
check(t) ==
    /\ pc[t] = "check"
    /\ \/ /\ ValueStill(t)
          /\ bucket' = Append(bucket, t)
          /\ state' = [state EXCEPT ![t] = "S"]
          /\ Goto(t, "decide")
          /\ ret' = [ret EXCEPT ![t] = "0"]
          /\ UNCHANGED <<waiter, woken>>
       \/ /\ ~ValueStill(t)
          /\ Goto(t, "user")
          /\ ret' = [ret EXCEPT ![t] = "EAGAIN"]
          /\ FrameGone(t)
          /\ UNCHANGED <<bucket, state>>
    /\ UNCHANGED <<word, sig, owes>>

\* futex_wait: a pending signal or a zero timeout skips the sleep.
decide(t) ==
    /\ pc[t] = "decide"
    /\ Goto(t, IF sig[t] \/ timed[t] = "zero" THEN "finish" ELSE "sleep")
    /\ ret' = [ret EXCEPT ![t] = IF ~sig[t] /\ timed[t] = "zero" THEN "ETIMEDOUT" ELSE "0"]
    /\ UNCHANGED <<word, bucket, waiter, woken, state, sig, owes>>

\* The sleep timer runs out.
timeout(t) ==
    /\ pc[t] = "sleep" /\ timed[t] = "some" /\ state[t] = "S"
    /\ state' = [state EXCEPT ![t] = "R"]
    /\ UNCHANGED <<word, bucket, waiter, woken, sig, pc, ret, owes>>

\* schedule or schedule_timeout returns; a late thread finds the time over
\* whatever it was that woke it.
Resume(t, late) ==
    /\ pc[t] = "sleep" /\ state[t] = "R"
    /\ late => timed[t] = "some"
    /\ ret' = [ret EXCEPT ![t] = IF late THEN "ETIMEDOUT" ELSE "0"]
    /\ Goto(t, "finish")
    /\ UNCHANGED <<word, bucket, waiter, woken, state, sig, owes>>

\* Mutant: the outcome of the sleep is final.
OutcomeOfSleep(t) ==
    IF ret[t] # "0" THEN ret[t] ELSE IF sig[t] THEN "EINTR" ELSE "0"
\* futex_wait: a waiter that was taken off the bucket reports success.
Outcome(t) ==
    IF woken[t] THEN "0"
    ELSE IF ret[t] # "0" THEN ret[t]
    ELSE IF sig[t] THEN "EINTR" ELSE "EAGAIN"

\* Mutant: a waiter that nobody woke stays on the bucket.
AfterFinishLinked(t) == {bucket}
\* futex_wait: a waiter that nobody woke unlinks itself.
AfterFinish(t) == IF woken[t] THEN {bucket} ELSE Lists(Queued \ {t})

finish(t) ==
    /\ pc[t] = "finish"
    /\ state' = [state EXCEPT ![t] = "R"]
    /\ bucket' \in AfterFinish(t)
    /\ ret' = [ret EXCEPT ![t] = Outcome(t)]
    /\ sig' = [sig EXCEPT ![t] = FALSE]       \* delivered on the way to user mode
    /\ FrameGone(t)
    /\ Goto(t, "user")
    /\ UNCHANGED <<word, owes>>

\* The first n threads of S that wait in the bucket.
FirstN(n, S) ==
    LET I == {i \in DOMAIN bucket : bucket[i] \in S}
    IN  {bucket[i] : i \in {j \in I : Cardinality({k \in I : k <= j}) <= n}}

\* wake_up_thread on every waiter taken.
RunnableAll(W) == [t \in Threads |-> IF t \in W THEN "R" ELSE state[t]]

\* wake_key: unlink, mark and wake up to n matching waiters.
wake_key(a, n, b) ==
    LET W == FirstN(n, {t \in Threads : key[t] = a /\ bitset[t] \cap b # {}})
    IN  /\ bucket' \in Lists(Queued \ W)
        /\ woken' = [t \in Threads |-> woken[t] \/ t \in W]
        /\ state' = RunnableAll(W)

\* ... and FUTEX_WAKE wakes its waiters.
futex_wake(t, a, n, b) ==
    /\ pc[t] = "user"
    /\ owes[t] # None => a = owes[t] /\ n = Cardinality(Threads) /\ b = MATCH_ANY
    /\ wake_key(a, n, b)
    /\ owes' = [owes EXCEPT ![t] = None]
    /\ UNCHANGED <<word, waiter, sig, pc, ret>>

\* futex_requeue: wake nwake waiters of a and move nreq others to a2; with cmp
\* only if the word still has the value the caller read.
futex_requeue(t, a, nwake, a2, nreq) ==
    /\ pc[t] = "user" /\ owes[t] = None /\ a # a2
    /\ LET OnA == {u \in Threads : key[u] = a}
           W == FirstN(nwake, OnA)
           M == FirstN(nwake + nreq, OnA) \ W
       IN  /\ \E l \in Lists(Queued \ (W \cup M)), m \in Lists(M) : bucket' = l \o m
           /\ woken' = [u \in Threads |-> woken[u] \/ u \in W]
           /\ state' = RunnableAll(W)
           /\ key' = [u \in Threads |-> IF u \in M THEN a2 ELSE key[u]]
           /\ moved' = [u \in Threads |-> moved[u] \/ u \in M]
    /\ UNCHANGED <<word, want, timed, bitset, sig, pc, ret, owes>>

\* A signal for t wakes it from its interruptible sleep.
signal(t) ==
    /\ ~sig[t] /\ pc[t] # "user"
    /\ sig' = [sig EXCEPT ![t] = TRUE]
    /\ state' = [state EXCEPT ![t] = "R"]
    /\ UNCHANGED <<word, bucket, waiter, woken, pc, ret, owes>>

Wait(t) == check(t) \/ decide(t) \/ timeout(t) \/ (\E l \in BOOLEAN : Resume(t, l)) \/ finish(t)

Post(t) ==
    \/ \E a \in Addrs, v \in Values : Store(t, a, v)
    \/ \E a \in Addrs, n \in {1, Cardinality(Threads)}, b \in Bitsets : futex_wake(t, a, n, b)
    \/ \E a, a2 \in Addrs, m, n \in 0 .. 1 : futex_requeue(t, a, m, a2, n)

FutexNext ==
    \/ \E t \in Waiters, a \in Addrs, v \in Values, to \in Timeouts \cup {"none"}, b \in Bitsets :
         /\ IF t \in Plain THEN to = "none" /\ b = MATCH_ANY
                           ELSE to \in Timeouts /\ b \in WaitBitsets
         /\ futex_wait(t, a, v, to, b)
    \/ \E t \in Waiters : Wait(t) \/ signal(t)
    \/ \E t \in Posters : Post(t)

\* The result of a call is of no consequence once the caller has it.
FutexView == <<word, bucket, waiter, woken, state, sig, pc, owes,
               [t \in Threads |-> IF pc[t] = "user" THEN "0" ELSE ret[t]]>>

-----------------------------------------------------------------------------
\* A waiter lives on its thread's stack: it is on the bucket, once, exactly
\* from the comparison until somebody wakes it or it gives up; never when the
\* frame is gone.
LinkedExact ==
    /\ \A t \in Threads :
         t \in Queued <=> pc[t] \in {"decide", "sleep", "finish"} /\ ~woken[t]
    /\ \A i, j \in DOMAIN bucket : bucket[i] = bucket[j] => i = j

\* No futex wake-up is lost: a thread does not sleep on a word that has lost the
\* value it was told to wait for, unless the thread that changed the word has
\* not called FUTEX_WAKE yet (or a requeue has moved the sleeper elsewhere), and
\* a waiter that was taken off the bucket does not sleep on.
NoOversleep ==
    \A t \in Threads :
        /\ pc[t] \in {"decide", "sleep"} /\ ~woken[t] /\ ~moved[t] /\ word[key[t]] # want[t]
               => \E u \in Threads : owes[u] = key[t]
        /\ woken[t] /\ pc[t] = "sleep" => state[t] = "R"

\* Every wake-up that FUTEX_WAKE counts makes exactly one wait return success:
\* a wait returns 0 if and only if it was woken, even when its timeout or a
\* signal arrives at the same moment.
WakeNotSwallowed ==
    [][\A t \in Threads : pc[t] = "finish" /\ pc'[t] = "user" => (ret'[t] = "0" <=> woken[t])]_futex_vars
=============================================================================
