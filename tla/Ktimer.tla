------------------------------- MODULE Ktimer -------------------------------
(***************************************************************************)
(* The per-CPU one-shot timers of kernel/time.c and the way their owners   *)
(* use them: schedule_timeout (init, start, sleep, cancel), setitimer      *)
(* (cancel, then init and start), and callbacks that restart their timer.  *)
(*                                                                         *)
(* A section under a CPU's timer lock is one step.  ktimer_cancel reads    *)
(* t->cpu without a lock, and timer_interrupt drops the lock around every  *)
(* callback, so these are steps of their own.                              *)
(***************************************************************************)
EXTENDS Integers, Sequences, TLC

CONSTANTS Cpus, NoCpu,   \* processors, and t->cpu = -1
          Timers,        \* timers; each has one owner, a thread
          Periodic,      \* timers whose callback may restart them, if there is
                         \* one CPU; with several see setitimer in the README
          TICK_NSEC,     \* distance of scheduler ticks
          MaxTime        \* bound on the clock

ASSUME KtimerAssumption ==
    /\ NoCpu \notin Cpus /\ Cpus \cap Timers = {} /\ Periodic \subseteq Timers
    /\ TICK_NSEC \in Nat \ {0} /\ MaxTime \in Nat

VARIABLES
    now,        \* ktime_ns
    expires, tcpu, pending,   \* t->expires, t->cpu, t->pending
    list,       \* ct->pending, the timers of each CPU in list order
    next_tick,  \* ct->next_tick
    hw,         \* the compare register of each CPU
    irq,        \* where each CPU is in timer_interrupt
    popped,     \* the timer whose callback timer_interrupt runs
    inow,       \* the time read at the start of timer_interrupt
    call,       \* the timer call of each owner, and of each CPU's callback
    interval,   \* whether the callback of t restarts it
    armed,      \* what t's owner asked for last
    only        \* fixed: the CPU of a system with one, or NoCpu: all are online

timer_vars == <<now, expires, tcpu, pending, list, next_tick, hw, irq, popped, inow,
          call, interval, armed, only>>
dev == <<next_tick, hw, irq, popped, inow>>

Times == 0 .. MaxTime
Actors == Timers \cup Cpus
Calls == {"none", "read", "locked", "decide", "insert"}
NoCall == [pc |-> "none", cpu |-> NoCpu, then |-> "none", exp |-> 0]
Cancelling(c, next, e) == [pc |-> "read", cpu |-> c, then |-> next, exp |-> e]
Goes(r, l) == [pc |-> l, cpu |-> r.cpu, then |-> r.then, exp |-> r.exp]
NoTimer == "none"
Online == IF only = NoCpu THEN Cpus ELSE {only}

TimerInit ==
    /\ now = 0
    /\ expires = [t \in Timers |-> 0]
    /\ tcpu = [t \in Timers |-> NoCpu]
    /\ pending = [t \in Timers |-> FALSE]
    /\ list = [c \in Cpus |-> <<>>]
    /\ next_tick = [c \in Cpus |-> TICK_NSEC]
    /\ hw = [c \in Cpus |-> TICK_NSEC]
    /\ irq = [c \in Cpus |-> "off"]
    /\ popped = [c \in Cpus |-> NoTimer]
    /\ inow = [c \in Cpus |-> 0]
    /\ call = [a \in Actors |-> NoCall]
    /\ interval = [t \in Timers |-> FALSE]
    /\ armed = [t \in Timers |-> FALSE]
    /\ only \in Cpus \cup {NoCpu}

Least(a, b) == IF a < b THEN a ELSE b

\* reprogram: the tick or the first timer, whichever comes first.
reprogram(l, e, c) ==
    [hw EXCEPT ![c] = IF l = <<>> THEN next_tick'[c]
                      ELSE Least(next_tick'[c], e[Head(l)])]

\* The timers on c's list.
On(c) == {list[c][i] : i \in DOMAIN list[c]}

\* list_del of the k-th entry; list_add_tail in front of the k-th.
Deleted(l, k) == [i \in 1 .. Len(l) - 1 |-> IF i < k THEN l[i] ELSE l[i + 1]]
Added(l, k, t) ==
    [i \in 1 .. Len(l) + 1 |-> IF i < k THEN l[i] ELSE IF i = k THEN t ELSE l[i - 1]]

\* list_del unlinks the timer from whatever list it is on.
Index(l, t) == CHOOSE k \in DOMAIN l : l[k] = t
Without(t) ==
    [c \in Cpus |-> IF t \in On(c) THEN Deleted(list[c], Index(list[c], t)) ELSE list[c]]

\* ktimer_start stops at the first timer that expires later, or at the end.
IsPlace(l, k, e) ==
    /\ \A i \in 1 .. k - 1 : expires[l[i]] <= e
    /\ k <= Len(l) => expires[l[k]] > e

TimerOf(a) == IF a \in Timers THEN a ELSE popped[a]
CpuOf(a) == IF a \in Timers THEN call[a].cpu ELSE a

\* A callback runs in the interrupt; a thread does not run during one.
Runs(a) == a \in Timers => irq[call[a].cpu] = "off"
At(a, l) == call[a].pc = l /\ Runs(a)

\* The owner calls schedule_timeout, sys_setitimer or ktimer_cancel.
Begin(t, c) ==
    /\ call[t].pc = "none" /\ irq[c] = "off"
    /\ call' = [call EXCEPT ![t] = Cancelling(c, "decide", 0)]
    /\ UNCHANGED <<now, expires, tcpu, pending, list, dev, interval, armed>>

\* ktimer_cancel: read t->cpu; a negative one ends the call.
cancel_read(a) ==
    /\ At(a, "read")
    /\ call' = [call EXCEPT ![a] = Goes(@, IF tcpu[TimerOf(a)] = NoCpu THEN @.then
                                                                      ELSE "locked")]
    /\ UNCHANGED <<now, expires, tcpu, pending, list, dev, interval, armed>>

\* Mutant: a pending timer loses its flag but stays linked.
cancel_locked_keeping(a) ==
    /\ At(a, "locked")
    /\ pending' = [pending EXCEPT ![TimerOf(a)] = FALSE]
    /\ tcpu' = [tcpu EXCEPT ![TimerOf(a)] = NoCpu]
    /\ call' = [call EXCEPT ![a] = Goes(@, @.then)]
    /\ UNCHANGED <<now, expires, list, dev, interval, armed>>
\* ktimer_cancel: under the lock of the CPU that was read.  If the timer has been
\* started elsewhere since, that is the wrong lock; the step is atomic even so.
cancel_locked(a) ==
    /\ At(a, "locked")
    /\ LET t == TimerOf(a)
       IN  /\ list' = IF pending[t] THEN Without(t) ELSE list
           /\ pending' = [pending EXCEPT ![t] = FALSE]
           /\ tcpu' = [tcpu EXCEPT ![t] = NoCpu]
    /\ call' = [call EXCEPT ![a] = Goes(@, @.then)]
    /\ UNCHANGED <<now, expires, dev, interval, armed>>

\* The owner stores the interval and leaves the timer off ...
Disarm(t) ==
    /\ At(t, "decide")
    /\ interval' = [interval EXCEPT ![t] = FALSE]
    /\ armed' = [armed EXCEPT ![t] = FALSE]
    /\ call' = [call EXCEPT ![t] = NoCall]
    /\ UNCHANGED <<now, expires, tcpu, pending, list, dev>>

\* ... or initialises the timer and starts it: ktimer_init, then the ktimer_cancel
\* of ktimer_start.
Arm(t, e, iv) ==
    /\ At(t, "decide")
    /\ iv => t \in Periodic /\ only # NoCpu
    /\ interval' = [interval EXCEPT ![t] = iv]
    /\ armed' = [armed EXCEPT ![t] = TRUE]
    /\ pending' = [pending EXCEPT ![t] = FALSE]
    /\ tcpu' = [tcpu EXCEPT ![t] = NoCpu]
    /\ call' = [call EXCEPT ![t] = Cancelling(@.cpu, "insert", e)]
    /\ UNCHANGED <<now, expires, list, dev>>

\* Mutant: the register is only set by the interrupt.
FirstNever(l, t) == FALSE
\* ktimer_start reprograms when the timer is the first of its CPU.
First(l, t) == Head(l) = t

\* ktimer_start: under the lock of the CPU it runs on.
insert(a) ==
    /\ At(a, "insert")
    /\ \E k \in 1 .. Len(list[CpuOf(a)]) + 1 :
       LET t == TimerOf(a)
           c == CpuOf(a)
           l == Added(list[c], k, t)
       IN  /\ IsPlace(list[c], k, call[a].exp)
           /\ expires' = [expires EXCEPT ![t] = call[a].exp]
           /\ tcpu' = [tcpu EXCEPT ![t] = c]
           /\ pending' = [pending EXCEPT ![t] = TRUE]
           /\ list' = [list EXCEPT ![c] = l]
           /\ next_tick' = next_tick
           /\ hw' = IF First(l, t) THEN reprogram(l, expires', c) ELSE hw
    /\ call' = [call EXCEPT ![a] = NoCall]
    /\ irq' = IF a \in Cpus THEN [irq EXCEPT ![a] = "loop"] ELSE irq
    /\ UNCHANGED <<now, popped, inow, interval, armed>>

\* timer_interrupt: skip missed ticks.
TickAfter(c) ==
    next_tick[c] + ((now - next_tick[c]) \div TICK_NSEC + 1) * TICK_NSEC

\* The compare register matches: timer_interrupt starts and handles the tick.
interrupt(c) ==
    /\ irq[c] = "off" /\ hw[c] <= now
    /\ irq' = [irq EXCEPT ![c] = "loop"]
    /\ inow' = [inow EXCEPT ![c] = now]
    /\ next_tick' = IF now >= next_tick[c]
                      THEN [next_tick EXCEPT ![c] = TickAfter(c)] ELSE next_tick
    /\ UNCHANGED <<now, expires, tcpu, pending, list, hw, popped, call, interval, armed>>

Expired(c) == list[c] # <<>> /\ expires[Head(list[c])] <= inow[c]

\* timer_interrupt: unlink the first expired timer and drop the lock ...
pop(c) ==
    /\ irq[c] = "loop" /\ Expired(c)
    /\ popped' = [popped EXCEPT ![c] = Head(list[c])]
    /\ list' = Without(Head(list[c]))
    /\ pending' = [pending EXCEPT ![Head(list[c])] = FALSE]
    /\ irq' = [irq EXCEPT ![c] = "fn"]
    /\ UNCHANGED <<now, expires, tcpu, next_tick, hw, inow, call, interval, armed>>

\* ... run its callback, which may restart it (alarm_fire) ...
callback(c) ==
    /\ irq[c] = "fn"
    /\ \/ /\ ~interval[popped[c]]
          /\ irq' = [irq EXCEPT ![c] = "loop"]
          /\ popped' = [popped EXCEPT ![c] = NoTimer]
          /\ call' = call
       \/ /\ interval[popped[c]]
          /\ irq' = [irq EXCEPT ![c] = "call"]
          /\ call' = [call EXCEPT ![c] = Cancelling(c, "insert", Least(now + 1, MaxTime))]
          /\ popped' = popped
    /\ UNCHANGED <<now, expires, tcpu, pending, list, next_tick, hw, inow, interval, armed>>

\* ... and at the end of the loop program the next event.
interrupt_end(c) ==
    /\ irq[c] = "loop" /\ ~Expired(c)
    /\ irq' = [irq EXCEPT ![c] = "off"]
    /\ next_tick' = next_tick
    /\ hw' = reprogram(list[c], expires, c)
    /\ popped' = [popped EXCEPT ![c] = NoTimer]
    /\ inow' = [inow EXCEPT ![c] = 0]
    /\ UNCHANGED <<now, expires, tcpu, pending, list, call, interval, armed>>

Clock ==
    /\ now < MaxTime
    /\ now' = now + 1
    /\ UNCHANGED <<expires, tcpu, pending, list, dev, call, interval, armed>>

Owner(t) ==
    \/ \E c \in Online : Begin(t, c)
    \/ Disarm(t)
    \/ \E e \in now .. MaxTime, iv \in BOOLEAN : Arm(t, e, iv)
Call(a) == cancel_read(a) \/ cancel_locked(a) \/ insert(a)
Interrupt(c) == interrupt(c) \/ pop(c) \/ callback(c) \/ interrupt_end(c)

TimerNext ==
    /\ UNCHANGED only
    /\ \/ Clock
       \/ \E t \in Timers : Owner(t)
       \/ \E a \in Actors : Call(a)
       \/ \E c \in Online : Interrupt(c)


\* The expiry of a timer that is not linked is never read.
TimerView == <<now, [t \in Timers |-> IF pending[t] THEN expires[t] ELSE 0], tcpu, pending, list, dev,
               call, interval, armed, only>>

\* CPUs are alike, and so are timers.
TimerSymmetry == Permutations(Cpus) \cup Permutations(Timers)

-----------------------------------------------------------------------------
\* "Each CPU keeps a sorted list of pending ktimers" (time.c): a timer is linked,
\* once, exactly while it is pending, on the list of the CPU it records; starts,
\* cancels and expiries on different CPUs notwithstanding.
PendingExact ==
    /\ \A c \in Cpus : \A i, j \in DOMAIN list[c] : list[c][i] = list[c][j] => i = j
    /\ \A t \in Timers : /\ pending[t] => tcpu[t] # NoCpu
                         /\ \A c \in Cpus : t \in On(c) <=> pending[t] /\ tcpu[t] = c

\* The lists are sorted by expiry.
Sorted ==
    \A c \in Cpus : \A i, j \in DOMAIN list[c] :
        i < j => expires[list[c][i]] <= expires[list[c][j]]

\* No timer and no tick is overslept: outside the interrupt the compare register
\* is never later than the first timer of the CPU or its tick.
HardwareCovers ==
    \A c \in Cpus : irq[c] = "off" =>
        /\ hw[c] <= next_tick[c]
        /\ \A i \in DOMAIN list[c] : hw[c] <= expires[list[c][i]]

\* "skip missed ticks instead of firing a burst" (time.c): after an interrupt
\* the next tick is in the future of that interrupt, by at most one period,
\* and on the grid of the first tick, so ticks do not drift.
TickOnGrid ==
    \A c \in Cpus :
        /\ next_tick[c] % TICK_NSEC = 0
        /\ irq[c] = "loop" => next_tick[c] \in inow[c] + 1 .. inow[c] + TICK_NSEC

\* A timer that its owner has disarmed stays off: no cancelled timer is linked,
\* whatever callback was running when ktimer_cancel returned.
DisarmedStaysOff ==
    \A t \in Timers : ~armed[t] /\ call[t].pc = "none" => \A c \in Cpus : t \notin On(c)

\* The timer lists are exact: linked as flagged, in order, rid of what was
\* cancelled; and so are the ticks beside them.
ListsExact == PendingExact /\ Sorted /\ DisarmedStaysOff /\ TickOnGrid
=============================================================================
