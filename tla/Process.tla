------------------------------ MODULE Process ------------------------------
(***************************************************************************)
(* Processes, threads and signals: kernel/process.c, kernel/signal.c and   *)
(* the de_thread step of kernel/exec.c.                                    *)
(*                                                                         *)
(* System calls and do_signal run under the big kernel lock, so a step     *)
(* here is what a thread does between two points where it sleeps; where    *)
(* an interrupt may raise a signal in the middle, the thread keeps the     *)
(* lock (bkl) over several steps.  A process has the pid of its first      *)
(* thread.  A system call that a signal interrupts simply ends: the user   *)
(* code may or may not call it again.  Process groups are left out.        *)
(***************************************************************************)
EXTENDS Integers, FiniteSets, Sequences, FiniteSetsExt

CONSTANTS N,      \* threads are 1..N; a new thread gets the next number
          None,   \* no process, no thread
          ThreadSigs, \* what tgkill sends
          Depth,  \* programs change masks only so deep in nested handlers
          Loads   \* what the processes do: the scenarios that are explored

ASSUME ProcessAssumption == N \in Nat /\ N >= 3 /\ None \notin 1 .. N /\ Depth \in Nat

Threads == 1 .. N
Procs == Threads
InitProc == 1

\* Signals by number: dequeue_signal serves the lowest first.
SIGKILL == 9
SIGUSR == 10
SIGALRM == 14
SIGCHLD == 17
SIGCONT == 18
SIGSTOP == 19
Sigs == {SIGKILL, SIGUSR, SIGALRM, SIGCHLD, SIGCONT, SIGSTOP}
KERNEL_ONLY == {SIGKILL, SIGSTOP}
STOPS == {SIGSTOP}

\* default_action.
default_action(s) ==
    CASE s = SIGCHLD -> "ign" [] s = SIGCONT -> "cont" [] s \in STOPS -> "stop" [] OTHER -> "term"

VARIABLES
    load,   \* the scenario, fixed
    th,     \* threads: see NewThread
    pr,     \* processes: see NewProc
    bkl     \* the thread that keeps the big kernel lock between two steps

vars == <<load, th, pr, bkl>>

\* A thread: its process, where it is, its scheduler state, its signal state.
\* arg is the argument of the call it is in, set is sig_waiting; mask is a history
\* variable, the mask its program asked for outside of signal handlers.
NewThread(p, b) ==
    [proc |-> p, pc |-> "exit", st |-> "R", pend |-> {}, blocked |-> b, set |-> {},
     arg |-> None, saved |-> {}, restore |-> FALSE, frames |-> <<>>, mask |-> b]
NoThread == [NewThread(None, {}) EXCEPT !.pc = "none"]

\* A process: its place in the tree, its references, its signal state.
NewProc(up, act) ==
    [st |-> "alive", parent |-> up, kids |-> {}, refs |-> 2, shared |-> {}, act |-> act,
     exiting |-> FALSE, gstop |-> FALSE, stopRep |-> FALSE, contRep |-> FALSE, vfork |-> None]
NoProc == [NewProc(None, [s \in Sigs |-> "dfl"]) EXCEPT !.st = "none", !.refs = 0]

\* The whole state of processes and threads, as the functions below pass it on.
Now == [th |-> th, pr |-> pr]
Becomes(k) == th' = k.th /\ pr' = k.pr

ThreadsOf(k, p) == {t \in Threads : k.th[t].proc = p}

\* try_to_wake_up of the threads of T that are in one of the states S.
WakeAll(k, T, S) ==
    [k EXCEPT !.th = [t \in Threads |->
        IF t \in T /\ k.th[t].st \in S THEN [k.th[t] EXCEPT !.st = "R"] ELSE k.th[t]]]

signal_wake(k, T) == WakeAll(k, T, {"S"})

\* wake_up of the queue child_wait of process p, where wait4 and exec sleep.
wake_child_wait(k, p) ==
    IF p = None THEN k
    ELSE WakeAll(k, {t \in ThreadsOf(k, p) : k.th[t].pc \in {"wait4", "dethread"}}, {"S", "D"})

-----------------------------------------------------------------------------
(* Raising a signal                                                        *)

sig_ignored(k, p, s) ==
    /\ s \notin KERNEL_ONLY
    /\ LET h == k.pr[p].act[s] IN h = "ign" \/ (h = "dfl" /\ default_action(s) = "ign")

\* Is there something for the thread to do before it returns to user mode?
signal_pending(k, t) ==
    LET p == k.th[t].proc
    IN  /\ p # None
        /\ \/ (k.th[t].pend \cup k.pr[p].shared) \ k.th[t].blocked # {}
           \/ k.pr[p].exiting
           \/ k.pr[p].gstop

\* Forget the signals of S that are pending for the process and its threads.
Discard(k, p, S) ==
    [k EXCEPT !.pr[p].shared = @ \ S,
              !.th = [t \in Threads |-> IF k.th[t].proc = p
                                          THEN [k.th[t] EXCEPT !.pend = @ \ S] ELSE k.th[t]]]

\* End a stop: the threads that had stopped go on, the parent hears of it.
Resume(k, p) ==
    wake_child_wait(WakeAll([k EXCEPT !.pr[p].gstop = FALSE, !.pr[p].contRep = FALSE],
                            ThreadsOf(k, p), {"T"}), k.pr[p].parent)

\* Mutant: SIGKILL does not end a stop.
prepare_signal_cont(k, p, s) ==
    IF s # SIGCONT THEN k
    ELSE LET c == Discard(k, p, STOPS) IN IF k.pr[p].gstop THEN Resume(c, p) ELSE c

\* prepare_signal: SIGCONT and SIGKILL end a stop and cancel the stop signals;
\* a stop signal cancels a SIGCONT that nobody has taken yet.
prepare_signal(k, p, s) ==
    CASE s \in {SIGCONT, SIGKILL} ->
           LET c == Discard(k, p, STOPS) IN IF k.pr[p].gstop THEN Resume(c, p) ELSE c
      [] default_action(s) = "stop" -> [k EXCEPT !.pr[p].shared = @ \ {SIGCONT}]
      [] OTHER -> k

\* An ignored signal is kept when a thread of T blocks it or waits for it.
Kept(k, p, T, s) ==
    ~sig_ignored(k, p, s) \/ \E t \in T : s \in k.th[t].blocked \cup k.th[t].set

send_signal_thread(k, t, s) ==
    LET p == k.th[t].proc
        c == prepare_signal(k, p, s)
        q == IF Kept(k, p, {t}, s) THEN [c EXCEPT !.th[t].pend = @ \cup {s}] ELSE c
    IN  IF p = None THEN k ELSE signal_wake(q, {t})

\* send_signal_process wakes the first thread that does not block the signal,
\* and all of them for SIGKILL.
send_signal_process(k, p, s) ==
    LET c == prepare_signal(k, p, s)
        T == ThreadsOf(k, p)
        Open == {t \in T : s \notin k.th[t].blocked}
    IN  IF k.pr[p].st = "zombie" THEN k
        ELSE IF ~Kept(k, p, T, s) THEN c
        ELSE signal_wake([c EXCEPT !.pr[p].shared = @ \cup {s}],
                         IF s = SIGKILL THEN T ELSE IF Open = {} THEN {} ELSE {Min(Open)})

\* SIGKILL for the other threads of t's process.
KillOthers(k, t) ==
    LET O == ThreadsOf(k, k.th[t].proc) \ {t}
    IN  IF O = {} THEN k
        ELSE LET c == prepare_signal(k, k.th[t].proc, SIGKILL)
             IN  signal_wake([c EXCEPT !.th = [u \in Threads |->
                     IF u \in O THEN [c.th[u] EXCEPT !.pend = @ \cup {SIGKILL}] ELSE c.th[u]]], O)

-----------------------------------------------------------------------------
(* Exit                                                                    *)

\* complete(p->vfork_done): the parent of a vfork goes on.
release_vfork(k, p) ==
    IF k.pr[p].vfork = None THEN k
    ELSE [k EXCEPT !.th[k.pr[p].vfork].st = "R", !.pr[p].vfork = None]

\* Mutant: the orphans keep their parent.
AdoptStale(k, p) ==
    [k EXCEPT !.pr = [q \in Procs |->
        CASE q = InitProc -> [k.pr[q] EXCEPT !.kids = @ \cup k.pr[p].kids]
          [] q = p -> [k.pr[q] EXCEPT !.kids = {}]
          [] OTHER -> k.pr[q]]]

\* init adopts the children of p.
Adopt(k, p) ==
    [k EXCEPT !.pr = [q \in Procs |->
        CASE q = InitProc -> [k.pr[q] EXCEPT !.kids = @ \cup k.pr[p].kids]
          [] q = p -> [k.pr[q] EXCEPT !.kids = {}]
          [] q \in k.pr[p].kids -> [k.pr[q] EXCEPT !.parent = InitProc]
          [] OTHER -> k.pr[q]]]

\* Mutant: init is not told that some of them are zombies.
reparent_quietly(k, p) == Adopt(k, p)

\* reparent_children: adoption, and init hears of the zombies.
reparent_children(k, p) ==
    IF \E q \in k.pr[p].kids : k.pr[q].st = "zombie" THEN wake_child_wait(Adopt(k, p), InitProc)
    ELSE Adopt(k, p)

\* Take a zombie off its parent's list and drop the list's reference.
Unlink(k, p) ==
    [k EXCEPT !.pr[k.pr[p].parent].kids = @ \ {p}, !.pr[p].st = "gone", !.pr[p].refs = @ - 1]

\* notify_parent: SIGCHLD, unless it is ignored, and a wake-up for wait4.
notify_parent(k, p) ==
    LET up == k.pr[p].parent
    IN  wake_child_wait(IF k.pr[up].act[SIGCHLD] = "ign" THEN k ELSE send_signal_process(k, up, SIGCHLD), up)

\* exit_process, for the last thread: the process becomes a zombie, or is gone
\* at once when its parent ignores SIGCHLD.
exit_process(k, p) ==
    LET z == [reparent_children(release_vfork(k, p), p) EXCEPT !.pr[p].st = "zombie"]
        up == z.pr[p].parent
    IN  IF z.pr[up].act[SIGCHLD] = "ign" /\ up # InitProc
          THEN wake_child_wait(Unlink(z, p), up)
          ELSE notify_parent(z, p)

\* do_exit of thread t.
do_exit(k, t) ==
    LET p == k.th[t].proc
        c == [k EXCEPT !.th[t] = [NoThread EXCEPT !.pc = "dead", !.st = "X"]]
        e == IF ThreadsOf(c, p) = {} THEN exit_process(c, p)
             ELSE IF k.pr[p].exiting THEN wake_child_wait(c, p) ELSE c
    IN  [e EXCEPT !.pr[p].refs = @ - 1]

\* do_group_exit: condemn the other threads, then exit.
do_group_exit(k, t) ==
    LET p == k.th[t].proc
    IN  do_exit(IF k.pr[p].exiting THEN k ELSE KillOthers([k EXCEPT !.pr[p].exiting = TRUE], t), t)

-----------------------------------------------------------------------------
(* System calls.  A call starts in user mode with the lock free and ends   *)
(* at the exit to user mode.                                               *)

Calls(t, l) == th[t].pc = "user" /\ bkl = None /\ load \in l /\ (load = "mask" => th[t].proc # InitProc)

Me(t) == th[t].proc
At(k, t, pc) == [k EXCEPT !.th[t].pc = pc]
Sleep(k, t, pc, st) == [k EXCEPT !.th[t].pc = pc, !.th[t].st = st]
Fresh == {t \in Threads : th[t].pc = "none"}

\* do_fork with CLONE_THREAD.
clone_thread(t) ==
    /\ Calls(t, {"group", "exec"}) /\ Me(t) # InitProc /\ Fresh # {}
    /\ Becomes(At([Now EXCEPT !.th[Min(Fresh)] = NewThread(Me(t), th[t].blocked),
                              !.pr[Me(t)].refs = @ + 1], t, "exit"))
    /\ UNCHANGED bkl

\* do_fork without it; after vfork the caller sleeps until the child is done.
fork(t, vfork) ==
    /\ Calls(t, {"tree"}) /\ Fresh # {}
    /\ LET c == Min(Fresh)
           k == [Now EXCEPT !.th[c] = NewThread(c, th[t].blocked),
                            !.pr[c] = [NewProc(Me(t), pr[Me(t)].act) EXCEPT !.vfork = IF vfork THEN t ELSE None],
                            !.pr[Me(t)].kids = @ \cup {c}]
       IN  Becomes(IF vfork THEN Sleep(k, t, "vfork", "D") ELSE At(k, t, "exit"))
    /\ UNCHANGED bkl

\* init never exits (the kernel panics if it does).
exit(t) ==
    /\ Calls(t, {"group", "exec", "tree", "jobs"}) /\ Me(t) # InitProc
    /\ Becomes(do_exit(Now, t)) /\ UNCHANGED bkl

exit_group(t) ==
    /\ Calls(t, {"group"}) /\ Me(t) # InitProc
    /\ Becomes(do_group_exit(Now, t)) /\ UNCHANGED bkl

kill(t, p, s) ==
    /\ Calls(t, {"group", "jobs"}) /\ pr[p].st = "alive" /\ ~(p = InitProc /\ s = SIGKILL)
    /\ Becomes(At(send_signal_process(Now, p, s), t, "exit")) /\ UNCHANGED bkl

tgkill(t, u, s) ==
    /\ Calls(t, {"group"}) /\ Me(u) \notin {None, InitProc}
    /\ Becomes(At(send_signal_thread(Now, u, s), t, "exit")) /\ UNCHANGED bkl

\* Children that a wait4 with argument a can report, in one of three ways.
Matching(k, p, a) == {c \in k.pr[p].kids : a.pid \in {None, c}}
Zombies(k, p, a) == {c \in Matching(k, p, a) : k.pr[c].st = "zombie"}
Stopped(k, p, a) ==
    {c \in Matching(k, p, a) : "untraced" \in a.opts /\ k.pr[c].gstop /\ ~k.pr[c].stopRep}
Continued(k, p, a) ==
    {c \in Matching(k, p, a) : "continued" \in a.opts /\ ~k.pr[c].gstop /\ ~k.pr[c].contRep}
Ready(k, p, a) == Zombies(k, p, a) \cup Stopped(k, p, a) \cup Continued(k, p, a)

\* One pass of the loop of do_wait4 and, when it finds nothing, of its wait: report
\* a child (reaping a zombie), fail without children, return to a signal, or sleep.
wait4_pass(t, a) ==
    LET p == Me(t)
        Done(k) == Becomes([k EXCEPT !.th[t].pc = "exit", !.th[t].arg = None])
    IN  \/ \E c \in Zombies(Now, p, a) : Done(Unlink(Now, c))
        \/ \E c \in Stopped(Now, p, a) \ Zombies(Now, p, a) : Done([Now EXCEPT !.pr[c].stopRep = TRUE])
        \/ \E c \in Continued(Now, p, a) \ Zombies(Now, p, a) : Done([Now EXCEPT !.pr[c].contRep = TRUE])
        \/ Matching(Now, p, a) = {} /\ Done(Now)
        \/ /\ Matching(Now, p, a) # {} /\ Ready(Now, p, a) = {}
           /\ \/ signal_pending(Now, t) /\ Done(Now)
              \/ /\ ~signal_pending(Now, t)
                 /\ Becomes(Sleep([Now EXCEPT !.th[t].arg = a], t, "wait4", "S"))

wait4(t, a) ==
    /\ Calls(t, {"tree", "jobs"})
    /\ wait4_pass(t, a) /\ UNCHANGED bkl

\* The sleeper of wait4 is woken: its condition asks for a report or for an empty
\* list; the loop then starts again, a signal ends the call.
wait4_woken(t) ==
    /\ th[t].pc = "wait4" /\ th[t].st = "R" /\ bkl = None
    /\ IF Ready(Now, Me(t), th[t].arg) # {} \/ pr[Me(t)].kids = {}
         THEN wait4_pass(t, th[t].arg)
         ELSE Becomes(IF signal_pending(Now, t) THEN [Now EXCEPT !.th[t].pc = "exit", !.th[t].arg = None]
                      ELSE Sleep(Now, t, "wait4", "S"))
    /\ UNCHANGED bkl

\* The parent of a vfork goes on.
vfork_woken(t) ==
    /\ th[t].pc = "vfork" /\ th[t].st = "R" /\ bkl = None
    /\ Becomes(At(Now, t, "exit")) /\ UNCHANGED bkl

\* execve: reading the program sleeps; only then do the other threads die.  That
\* two threads of a process are in execve at a time is left out.
execve(t) ==
    /\ Calls(t, {"exec", "tree"}) /\ Me(t) # InitProc
    /\ \A u \in ThreadsOf(Now, Me(t)) : th[u].pc \notin {"load", "dethread"}
    /\ Becomes(At(Now, t, "load")) /\ UNCHANGED bkl

\* The new image: handlers are reset, the parent of a vfork is released.
NewImage(k, t) ==
    LET p == k.th[t].proc
    IN  At(release_vfork([k EXCEPT !.pr[p].act = [s \in Sigs |-> IF @[s] = "ign" THEN "ign" ELSE "dfl"]], p),
           t, "exit")

\* de_thread: condemn the other threads and wait until they are gone ...
de_thread(t) ==
    /\ th[t].pc = "load" /\ bkl = None
    /\ Becomes(IF ThreadsOf(Now, Me(t)) = {t} THEN NewImage(Now, t)
               ELSE Sleep(KillOthers([Now EXCEPT !.pr[Me(t)].exiting = TRUE], t), t, "dethread", "D"))
    /\ UNCHANGED bkl

\* ... then become an ordinary process again.
de_thread_woken(t) ==
    /\ th[t].pc = "dethread" /\ th[t].st = "R" /\ bkl = None
    /\ Becomes(IF ThreadsOf(Now, Me(t)) # {t} THEN Sleep(Now, t, "dethread", "D")
               ELSE NewImage([Now EXCEPT !.pr[Me(t)].exiting = FALSE,
                                         !.th[t].pend = @ \ {SIGKILL}], t))
    /\ UNCHANGED bkl

\* sys_rt_sigaction; ignoring a signal discards its pending instances.
sigaction(t, s, h) ==
    /\ Calls(t, {"mask", "tree"}) /\ s \notin KERNEL_ONLY
    /\ LET k == At([Now EXCEPT !.pr[Me(t)].act[s] = h], t, "exit")
       IN  Becomes(IF sig_ignored(k, Me(t), s) THEN Discard(k, Me(t), {s}) ELSE k)
    /\ UNCHANGED bkl

\* sys_rt_sigprocmask with SIG_SETMASK.
sigprocmask(t, S) ==
    /\ Calls(t, {"mask"}) /\ Len(th[t].frames) <= Depth
    /\ Becomes([Now EXCEPT !.th[t].blocked = S \ KERNEL_ONLY, !.th[t].pc = "exit",
                           !.th[t].mask = IF th[t].frames = <<>> THEN S \ KERNEL_ONLY ELSE @])
    /\ UNCHANGED bkl

-----------------------------------------------------------------------------
(* Waiting for signals                                                     *)

\* Go on inside a call that keeps the lock, and end such a call.
Keep(k, t, pc) == Becomes(At(k, t, pc)) /\ bkl' = t
Drop(k, t, pc) == Becomes(At(k, t, pc)) /\ bkl' = None

\* sys_rt_sigsuspend installs its mask ...
sigsuspend(t, S) ==
    /\ Calls(t, {"mask"}) /\ Len(th[t].frames) <= Depth
    /\ Keep([Now EXCEPT !.th[t].saved = th[t].blocked, !.th[t].restore = TRUE,
                        !.th[t].blocked = S \ KERNEL_ONLY], t, "suspend")

\* ... tests for signals, announces that it sleeps ...
suspend_loop(t) ==
    /\ th[t].pc = "suspend" /\ bkl = t
    /\ IF signal_pending(Now, t) THEN Drop(Now, t, "exit")
       ELSE Keep([Now EXCEPT !.th[t].st = "S"], t, "suspend2")

\* ... and tests again before it does.
suspend_sleep(t) ==
    /\ th[t].pc = "suspend2" /\ bkl = t
    /\ IF signal_pending(Now, t) THEN Keep([Now EXCEPT !.th[t].st = "R"], t, "suspend")
       ELSE Drop(Now, t, "suspended")

suspend_woken(t) ==
    /\ th[t].pc = "suspended" /\ th[t].st = "R" /\ bkl = None
    /\ Keep(Now, t, "suspend")

\* sys_rt_sigtimedwait for the signals S, for ever or for some time.
sigtimedwait(t, S, timed) ==
    /\ Calls(t, {"mask"}) /\ Len(th[t].frames) <= Depth
    /\ Keep([Now EXCEPT !.th[t].set = S, !.th[t].saved = th[t].blocked, !.th[t].arg = timed],
            t, "sigwait")

EndWait(t) == Drop([Now EXCEPT !.th[t].set = {}, !.th[t].arg = None, !.th[t].saved = {}], t, "exit")

Awaited(t) == (th[t].pend \cup pr[Me(t)].shared) \cap th[t].set

\* dequeue_signal of s: from the thread's own set, else from the process's.
Dequeue(k, t, s) ==
    IF s \in k.th[t].pend THEN [k EXCEPT !.th[t].pend = @ \ {s}]
    ELSE [k EXCEPT !.pr[k.th[t].proc].shared = @ \ {s}]
Lowest(t, S) == LET own == th[t].pend \cap S IN IF own # {} THEN Min(own) ELSE Min(pr[Me(t)].shared \cap S)

\* Take an awaited signal, or return to another one.
sigwait_loop(t) ==
    /\ th[t].pc = "sigwait" /\ bkl = t
    /\ IF Awaited(t) # {}
         THEN Drop([Dequeue(Now, t, Lowest(t, th[t].set)) EXCEPT
                        !.th[t].set = {}, !.th[t].arg = None, !.th[t].saved = {}], t, "exit")
         ELSE IF signal_pending(Now, t) THEN EndWait(t)
         ELSE Keep(Now, t, "sigwait2")

\* The awaited signals count as unblocked during the sleep; only they are looked
\* at again before it.
sigwait_sleep(t) ==
    /\ th[t].pc = "sigwait2" /\ bkl = t
    /\ \/ Awaited(t) # {} /\ Keep(Now, t, "sigwait")
       \/ Awaited(t) = {} /\ th[t].arg = "timed" /\ EndWait(t)
       \/ /\ Awaited(t) = {}
          /\ Drop([Now EXCEPT !.th[t].st = "S", !.th[t].blocked = @ \ th[t].set], t, "sigwaiting")

sigwait_woken(t) ==
    /\ th[t].pc = "sigwaiting" /\ th[t].st = "R" /\ bkl = None
    /\ Keep([Now EXCEPT !.th[t].blocked = th[t].saved], t, "sigwait")

sleep_timer(t) ==
    /\ th[t].pc = "sigwaiting" /\ th[t].st = "S" /\ th[t].arg = "timed"
    /\ Becomes([Now EXCEPT !.th[t].st = "R"]) /\ UNCHANGED bkl

\* alarm_fire, or the terminal: an interrupt raises a signal.
interrupt_signal(p, s) ==
    /\ load = "mask" /\ pr[p].st = "alive"
    /\ Becomes(send_signal_process(Now, p, s)) /\ UNCHANGED bkl

-----------------------------------------------------------------------------
(* The exit to user mode                                                   *)

\* prepare_exit_to_user: return, or look at the signals first.
to_user(t) ==
    /\ th[t].pc = "exit" /\ ~signal_pending(Now, t) /\ ~th[t].restore
    /\ Becomes(At(Now, t, "user")) /\ UNCHANGED bkl

enter_signal(t) ==
    /\ th[t].pc = "exit" /\ bkl = None
    /\ signal_pending(Now, t) \/ th[t].restore
    /\ Keep(Now, t, "signal")

\* The clock tick, or the interrupt sent by signal_wake, finds a signal.
interrupt(t) ==
    /\ th[t].pc = "user" /\ signal_pending(Now, t)
    /\ Becomes(At(Now, t, "exit")) /\ UNCHANGED bkl

\* process_stop_all: stop the process and tell the parent.
process_stop_all(k, t) ==
    LET p == k.th[t].proc
        up == k.pr[p].parent
        c == signal_wake([k EXCEPT !.pr[p].gstop = TRUE, !.pr[p].stopRep = FALSE], ThreadsOf(k, p) \ {t})
    IN  IF k.pr[p].gstop THEN k
        ELSE wake_child_wait(IF up # None /\ k.pr[up].act[SIGCHLD] # "ign"
                               THEN send_signal_process(c, up, SIGCHLD) ELSE c, up)

\* do_signal: a process that is exiting or stopped takes no signal.
signal_exit(t) ==
    /\ th[t].pc = "signal" /\ bkl = t /\ pr[Me(t)].exiting
    /\ Becomes(do_exit(Now, t)) /\ bkl' = None

signal_stop(t) ==
    /\ th[t].pc = "signal" /\ bkl = t /\ ~pr[Me(t)].exiting /\ pr[Me(t)].gstop
    /\ Drop([Now EXCEPT !.th[t].st = "T"], t, "stopped")

signal_continued(t) ==
    /\ th[t].pc = "stopped" /\ th[t].st = "R" /\ bkl = None
    /\ Keep(Now, t, "signal")

Deliverable(t) == (th[t].pend \cup pr[Me(t)].shared) \ th[t].blocked

\* Mutant: no signal is left, and the mask of sigsuspend stays.
signal_none_forgets(t) ==
    /\ th[t].pc = "signal" /\ bkl = t /\ ~pr[Me(t)].exiting /\ ~pr[Me(t)].gstop
    /\ Deliverable(t) = {}
    /\ Drop([Now EXCEPT !.th[t].restore = FALSE, !.th[t].saved = {}], t, "exit")

\* No signal is left: a mask installed by sigsuspend is taken back.
signal_none(t) ==
    /\ th[t].pc = "signal" /\ bkl = t /\ ~pr[Me(t)].exiting /\ ~pr[Me(t)].gstop
    /\ Deliverable(t) = {}
    /\ Drop(IF th[t].restore
              THEN [Now EXCEPT !.th[t].blocked = th[t].saved, !.th[t].restore = FALSE, !.th[t].saved = {}]
              ELSE Now, t, "exit")

\* One signal: ignored, a stop, the end of the process, or a handler, whose frame
\* remembers the mask to return to.
signal_deliver(t) ==
    /\ th[t].pc = "signal" /\ bkl = t /\ ~pr[Me(t)].exiting /\ ~pr[Me(t)].gstop
    /\ Deliverable(t) # {}
    /\ LET p == Me(t)
           s == Lowest(t, Sigs \ th[t].blocked)
           k == Dequeue(Now, t, s)
           h == pr[p].act[s]
           d == default_action(s)
           Old == IF th[t].restore THEN th[t].saved ELSE th[t].blocked
       IN  CASE h = "ign" \/ (h = "dfl" /\ (d \in {"ign", "cont"} \/ (p = InitProc /\ s # SIGKILL))) ->
                  Keep(k, t, "signal")
             [] h = "dfl" /\ d = "stop" -> Keep(process_stop_all(k, t), t, "signal")
             [] h = "dfl" /\ d = "term" -> Becomes(do_group_exit(k, t)) /\ bkl' = None
             [] h = "fn" -> Drop([k EXCEPT !.th[t].frames = Append(@, Old), !.th[t].restore = FALSE,
                                           !.th[t].saved = {}, !.th[t].blocked = @ \cup {s}], t, "exit")

\* sys_rt_sigreturn.
sigreturn(t) ==
    /\ Calls(t, {"mask"}) /\ th[t].frames # <<>>
    /\ LET f == th[t].frames
       IN  Becomes(At([Now EXCEPT !.th[t].blocked = f[Len(f)] \ KERNEL_ONLY,
                                  !.th[t].frames = SubSeq(f, 1, Len(f) - 1)], t, "exit"))
    /\ UNCHANGED bkl

-----------------------------------------------------------------------------
Alive(p, q) ==
    [NewProc(p, [s \in Sigs |-> IF load = "mask" /\ s = SIGALRM THEN "fn" ELSE "dfl"]) EXCEPT !.kids = q]

\* init and its child 2, and in the job-control scenario 2's child 3.
Init ==
    /\ load \in Loads
    /\ bkl = None
    /\ LET three == load = "jobs"
       IN  /\ th = [t \in Threads |-> IF t <= 2 \/ (three /\ t = 3)
                                       THEN [NewThread(t, {}) EXCEPT !.pc = "user"] ELSE NoThread]
           /\ pr = [p \in Procs |->
                      CASE p = InitProc -> [Alive(None, {2}) EXCEPT !.refs = 1]
                        [] p = 2 -> Alive(InitProc, IF three THEN {3} ELSE {})
                        [] p = 3 /\ three -> Alive(2, {})
                        [] OTHER -> NoProc]

\* What the programs of a scenario ask for.
KillSigs == IF load = "jobs" THEN {SIGSTOP, SIGCONT} ELSE {SIGKILL, SIGSTOP, SIGCONT}
WaitArgs ==
    IF load = "jobs" THEN {[pid |-> None, opts |-> {"untraced", "continued"}]}
    ELSE {[pid |-> p, opts |-> {}] : p \in Procs \cup {None}}
Masks == {{}, {SIGUSR}, {SIGUSR, SIGALRM}}
Actions == {"dfl", "ign"} \cup IF load = "mask" THEN {"fn"} ELSE {}
Caught == IF load = "mask" THEN {SIGUSR, SIGALRM} ELSE {SIGCHLD}

UserCalls(t) ==
    \/ clone_thread(t) \/ exit(t) \/ exit_group(t) \/ execve(t) \/ sigreturn(t)
    \/ \E v \in BOOLEAN : fork(t, v)
    \/ \E p \in Procs, s \in KillSigs : kill(t, p, s)
    \/ \E u \in Threads, s \in ThreadSigs : tgkill(t, u, s)
    \/ \E a \in WaitArgs : wait4(t, a)
    \/ \E s \in Caught, h \in Actions : sigaction(t, s, h)
    \/ \E S \in Masks : sigprocmask(t, S) \/ sigsuspend(t, S)
    \/ \E S \in Masks \ {{}}, d \in {"timed", "ever"} : sigtimedwait(t, S, d)

\* Entering the kernel's critical sections, and what follows inside them.
Enters(t) ==
    \/ wait4_woken(t) \/ vfork_woken(t) \/ de_thread(t) \/ de_thread_woken(t)
    \/ suspend_woken(t) \/ sigwait_woken(t) \/ enter_signal(t) \/ signal_continued(t)

Continues(t) ==
    \/ suspend_loop(t) \/ suspend_sleep(t) \/ sigwait_loop(t) \/ sigwait_sleep(t)
    \/ signal_exit(t) \/ signal_stop(t) \/ signal_none(t) \/ signal_deliver(t)
    \/ to_user(t) \/ interrupt(t)

Next ==
    /\ UNCHANGED load
    /\ \/ \E t \in Threads : UserCalls(t) \/ Enters(t) \/ Continues(t) \/ sleep_timer(t)
       \/ \E s \in {SIGUSR, SIGALRM} : interrupt_signal(2, s)

Spec == Init /\ [][Next]_vars

-----------------------------------------------------------------------------
Listed == {p \in Procs : pr[p].st \in {"alive", "zombie"}}

\* "One reference for the thread, one for the parent's child list": references,
\* child lists and parent links agree through forks, exits, adoption by init,
\* automatic and ordinary reaping; a parent is never a zombie and a process
\* without threads is one.
TreeExact ==
    \A p \in Procs :
        /\ pr[p].refs = Cardinality(ThreadsOf(Now, p)) + (IF p \in Listed \ {InitProc} THEN 1 ELSE 0)
        /\ pr[p].st = "alive" <=> ThreadsOf(Now, p) # {}
        /\ pr[p].kids = {c \in Listed : pr[c].parent = p}
        /\ pr[p].kids # {} => pr[p].st = "alive"

\* Nobody sleeps through what they wait for: a child to report for wait4, the end
\* or the exec of a vfork child, the death of the other threads for exec, a
\* signal for sigsuspend and wait4 (when the thread is the only one that could
\* take it), one of the awaited signals for sigtimedwait.
NoSleeperForgotten ==
    \A t \in Threads :
        /\ th[t].pc = "wait4" /\ th[t].st = "S"
             => Ready(Now, Me(t), th[t].arg) = {} /\ pr[Me(t)].kids # {}
        /\ th[t].pc = "vfork" /\ th[t].st = "D"
             => \E c \in Procs : pr[c].st = "alive" /\ pr[c].vfork = t
        /\ th[t].pc = "dethread" /\ th[t].st = "D" => ThreadsOf(Now, Me(t)) # {t}
        /\ th[t].pc \in {"wait4", "suspended"} /\ th[t].st = "S" /\ ThreadsOf(Now, Me(t)) = {t}
             => ~signal_pending(Now, t)
        /\ th[t].pc = "sigwaiting" /\ th[t].st = "S" => Awaited(t) = {}

\* SIGCONT and SIGKILL reach everybody: a thread sleeps in the stopped state only
\* while its process is stopped, and no thread of a process that SIGKILL was sent
\* to, or that exits as a group, goes on sleeping or stays stopped; so each of
\* them comes to do_signal and goes on, or dies.
KillReachesAll ==
    /\ \A t \in Threads : th[t].st = "T" => pr[Me(t)].gstop
    /\ \A p \in Procs \ {InitProc} : pr[p].exiting \/ SIGKILL \in pr[p].shared
         => \A t \in ThreadsOf(Now, p) : th[t].st \notin {"S", "T"}

\* Outside of signal handlers a program runs with the mask it last asked for,
\* whatever sigsuspend, sigtimedwait and nested handlers did in between.
MaskRestored ==
    \A t \in Threads : th[t].pc = "user" /\ th[t].frames = <<>> => th[t].blocked = th[t].mask

\* Signals do what they must, across stops, handlers and group exits: they reach
\* everybody and leave no mask behind (signal.c).
SignalsKept == KillReachesAll /\ MaskRestored
=============================================================================
