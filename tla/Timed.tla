------------------------------- MODULE Timed -------------------------------
(***************************************************************************)
(* What the kernel does by the clock: the timers of kernel/time.c, or the  *)
(* futex waits of kernel/futex.c with their timeouts.  scope is fixed and  *)
(* says which.                                                             *)
(***************************************************************************)
EXTENDS Ktimer, Futex

VARIABLE scope

timed_vars == <<timer_vars, futex_vars, scope>>

TimedInit ==
    /\ scope \in {"timer", "futex"}
    /\ TimerInit /\ (scope = "futex" => only = NoCpu)
    /\ FutexInit /\ (scope = "timer" => word = [a \in Addrs |-> CHOOSE v \in Values : TRUE])

TimedNext ==
    /\ UNCHANGED scope
    /\ \/ scope = "timer" /\ TimerNext /\ UNCHANGED futex_vars
       \/ scope = "futex" /\ FutexNext /\ UNCHANGED timer_vars

TimedSpec == TimedInit /\ [][TimedNext]_timed_vars

TimedView == <<TimerView, FutexView, scope>>

\* The words and values of futexes are alike too.
TimedSymmetry == TimerSymmetry \cup Permutations(Addrs) \cup Permutations(Values)
=============================================================================
