------------------------------ MODULE AbsSched ------------------------------
(***************************************************************************)
(* What the scheduler promises to the code that sleeps and wakes: the      *)
(* interface of kernel/sched.c without run queues, CPUs or locks.          *)
(* A thread changes its own state while it runs; a wake-up makes a         *)
(* sleeping thread runnable; a thread that is put on a CPU is runnable;    *)
(* the dead stay dead.                                                     *)
(***************************************************************************)
EXTENDS Naturals, FiniteSets

CONSTANTS Threads,  \* every thread that is ever allocated
          NrCpus,   \* how many of them can run at a time
          Boot      \* the thread that runs first

VARIABLES state,    \* R runnable, S, D and T asleep, X dead
          running   \* the threads that are on a CPU

vars == <<state, running>>

Asleep == {"S", "D", "T"}

Init ==
    /\ state = [t \in Threads |-> IF t = Boot THEN "R" ELSE "D"]
    /\ running = {Boot}

\* A running thread announces that it is about to sleep, or exits.
SetState(t, s) ==
    /\ t \in running /\ state[t] # "X"
    /\ state' = [state EXCEPT ![t] = s]
    /\ UNCHANGED running

\* Anyone makes a sleeper runnable.
Wake(t) ==
    /\ state[t] \in Asleep
    /\ state' = [state EXCEPT ![t] = "R"]
    /\ UNCHANGED running

\* A CPU passes from the threads out to the threads in (none or one each).
Switch(out, in) ==
    /\ out \subseteq running /\ in \subseteq Threads \ running
    /\ \A t \in in : state[t] = "R"
    /\ running' = (running \ out) \cup in
    /\ Cardinality(running') <= NrCpus
    /\ UNCHANGED state

OneOrNone == {{}} \cup {{t} : t \in Threads}

Next ==
    \/ \E t \in Threads : Wake(t) \/ \E s \in Asleep \cup {"R", "X"} : SetState(t, s)
    \/ \E out, in \in OneOrNone : Switch(out, in)

Spec == Init /\ [][Next]_vars
=============================================================================
