-------------------------------- MODULE Tty --------------------------------
(***************************************************************************)
(* Terminals: the line discipline of drivers/char/tty.c, the master and    *)
(* slave sides of drivers/char/pty.c, sessions, and poll on a terminal.    *)
(*                                                                         *)
(* Input arrives in interrupts, which take t->lock only, so they come      *)
(* between any two steps of the thread that holds the big kernel lock; the *)
(* calls of threads are serialised by that lock up to their sleeps.  Three *)
(* races of the code with an interrupt or a second reader are left out:    *)
(* TCFLSH, a change of mode under a reader, and do_poll between its scan   *)
(* and its sleep.                                                          *)
(* Characters are classes: those with a meaning, and "a" for the others.   *)
(***************************************************************************)
EXTENDS Integers, FiniteSets, FiniteSetsExt

CONSTANTS
    TThreads,      \* threads with the terminal, or the slave, open
    Master,        \* the thread at the master of a pseudo-terminal
    Users,         \* processes of the job control load, with their pids
    TTY_BUF, OBUF, \* sizes of the input ring and of a master's buffer
    TMP,           \* what tty_read and tty_write move at a time, 128 and 256
    TChars,        \* characters that are typed, for each load
    TModes,        \* "canon", or "raw", "poll" and "timed" for VMIN 1, VMIN 0
                   \* and VMIN 0 with VTIME
    TLens,
    TLoads         \* what is exercised: "line", "poll", "pty", "jobs"

VARIABLES
    tty,    \* the ring and its indices, mode, flags, opens, session and pgrp
    pty,    \* p->obuf as a count of bytes, and the master's flags
    tthr,   \* the calls of threads
    holds,  \* the thread that is in the kernel between two steps, or NoThread
    users,  \* pgid, sid and controlling terminal of processes
    tload   \* what the instance exercises; fixed

tty_vars == <<tty, pty, tthr, holds, users, tload>>

NoThread == "nobody"
TIdle == [pc |-> "user", st |-> "R", canon |-> FALSE, len |-> 0, done |-> 0,
          sig |-> FALSE, link |-> "none", timer |-> FALSE, open |-> TRUE, c |-> "a"]

\* What was read or erased is gone from the ring.
Tidy(y) == [y EXCEPT !.ibuf = [i \in 0..TTY_BUF - 1 |->
               IF \E j \in y.itail..y.ihead - 1 : j % TTY_BUF = i THEN @[i] ELSE "none"]]

Tt == [tty |-> tty, pty |-> pty, thr |-> tthr, cpu |-> holds]
TtyBecomes(k) ==
    /\ tty' = Tidy(k.tty) /\ pty' = k.pty /\ tthr' = k.thr /\ holds' = k.cpu
    /\ UNCHANGED users

Everyone == TThreads \cup {Master}

-----------------------------------------------------------------------------
(* Waiting: link is the queue a thread's waiter is on.  Interrupts wake    *)
(* without the kernel lock.                                                *)

TWake(k, q) ==
    [k EXCEPT !.thr = [t \in Everyone |->
        IF k.thr[t].link = q THEN [k.thr[t] EXCEPT !.st = "R"] ELSE k.thr[t]]]

TSleep(k, t, pc, q) ==
    [k EXCEPT !.thr[t].pc = pc, !.thr[t].st = "S", !.thr[t].link = q, !.cpu = NoThread]

TReturn(k, t) == [k EXCEPT !.thr[t] = [TIdle EXCEPT !.open = k.thr[t].open], !.cpu = NoThread]

\* The end of a round of wait_event_interruptible whose condition is false.
TWait(k, t, pc, q) == IF k.thr[t].sig THEN TReturn(k, t) ELSE TSleep(k, t, pc, q)

\* kill_pgrp of the foreground group, which is all threads with the terminal.
TSignal(k) ==
    [k EXCEPT !.thr = [t \in Everyone |->
        IF t \in TThreads /\ k.thr[t].pc # "user"
        THEN [k.thr[t] EXCEPT !.sig = TRUE, !.st = "R"] ELSE k.thr[t]]]

-----------------------------------------------------------------------------
(* Input. *)

ibuf_count(y) == y.ihead - y.itail
Canon(y) == y.mode = "canon"
CharAt(y, i) == y.ibuf[i % TTY_BUF]

\* The indices run freely; a ring that all three have passed is taken off.
Rebase(y) ==
    IF y.itail >= TTY_BUF /\ y.ihead >= TTY_BUF /\ y.iend >= TTY_BUF
    THEN [y EXCEPT !.itail = @ - TTY_BUF, !.ihead = @ - TTY_BUF, !.iend = @ - TTY_BUF]
    ELSE y

Emptied(y) == [y EXCEPT !.ihead = 0, !.itail = 0, !.iend = 0,
                        !.ibuf = [i \in 0..TTY_BUF - 1 |-> "none"]]

\* Output of n bytes: what does not fit in a master's buffer is dropped.
pty_write(k, n) ==
    IF tload # "pty" THEN k
    ELSE TWake([k EXCEPT !.pty.out = IF @ + n > OBUF THEN OBUF ELSE @ + n], "mwait")

EchoLen(c) == CASE c = "nl" -> 2 [] c \in {"int", "eof"} -> 2 [] OTHER -> 1
echo_char(k, c) == pty_write(k, EchoLen(c))

Last(y) == CharAt(y, y.ihead - 1)
\* Mutant: erasing goes on into the lines that were entered.
erase_one_any(k) ==
    IF k.tty.ihead = k.tty.itail THEN k ELSE pty_write([k EXCEPT !.tty.ihead = @ - 1], 3)
erase_one(k) ==
    IF k.tty.ihead = k.tty.iend THEN k ELSE pty_write([k EXCEPT !.tty.ihead = @ - 1], 3)

\* VKILL and VWERASE: erase back to the index e.
EraseTo(k, e) == IF k.tty.ihead = e THEN k
                 ELSE pty_write([k EXCEPT !.tty.ihead = e], 3)
Before(y, S) ==    \* the places from which on there are only characters of S
    {i \in y.iend..y.ihead : \A j \in i..y.ihead - 1 : CharAt(y, j) \in S}
WordStart(y) ==
    LET w == Min(Before(y, {"sp"}))
    IN  Min({i \in y.iend..w : \A j \in i..w - 1 : CharAt(y, j) # "sp"})

tty_signal(k) == TWake(TSignal([k EXCEPT !.tty = Emptied(@)]), "read_wait")

Stored(k, c) ==
    LET y == Rebase([k.tty EXCEPT !.ibuf[k.tty.ihead % TTY_BUF] = c, !.ihead = @ + 1,
                                  !.lnext = FALSE])
        k1 == [k EXCEPT !.tty = y]
        ready == [k1 EXCEPT !.tty.iend = y.ihead]
    IN  IF ibuf_count(k.tty) >= TTY_BUF - 1 THEN [k EXCEPT !.tty.lnext = FALSE]
        ELSE IF ~Canon(y) THEN TWake(echo_char(ready, c), "read_wait")
        ELSE IF c = "nl" THEN TWake(echo_char(ready, c), "read_wait")
        ELSE IF c = "eof" THEN TWake(ready, "read_wait")
        ELSE echo_char(k1, c)

input_char(k, c) ==
    IF k.tty.lnext THEN Stored(k, IF c \in {"nl", "eof", "sp"} THEN c ELSE "a")
    ELSE IF c = "int" THEN tty_signal(echo_char(k, c))
    ELSE IF Canon(k.tty) /\ c = "erase" THEN erase_one(k)
    ELSE IF Canon(k.tty) /\ c = "kill" THEN EraseTo(k, k.tty.iend)
    ELSE IF Canon(k.tty) /\ c = "werase" THEN EraseTo(k, WordStart(k.tty))
    ELSE IF Canon(k.tty) /\ c = "lnext" THEN [k EXCEPT !.tty.lnext = TRUE]
    ELSE Stored(k, IF c \in {"nl", "eof", "sp"} THEN c ELSE "a")

\* The interrupt of the UART: a received character.
tty_receive(c) ==
    /\ tload \in {"line", "poll"}
    /\ TtyBecomes(input_char(Tt, c))

-----------------------------------------------------------------------------
(* Reading. *)

can_read(y) ==
    \/ y.hangup
    \/ IF Canon(y) THEN y.iend # y.itail ELSE ibuf_count(y) >= 1

Chunk(o) == IF o.len - o.done < TMP THEN o.len - o.done ELSE TMP
TCalls(t) == holds = NoThread /\ tthr[t].pc = "user" /\ tthr[t].open

\* The first part of tty_read: to a sleep, to a return or to the loop.
read_begin(k, t) ==
    LET y == k.tty
        go == [k EXCEPT !.thr[t].pc = "chunk", !.thr[t].link = "none", !.cpu = t]
    IN  IF ~k.thr[t].canon /\ y.mode = "timed" /\ ibuf_count(y) = 0 /\ k.thr[t].pc = "user"
        THEN TWait([k EXCEPT !.thr[t].timer = TRUE], t, "twait", "read_wait")
        ELSE IF y.mode \in {"poll", "timed"} \/ can_read(y) THEN go
        ELSE TWait(k, t, "rwait", "read_wait")

tty_read(t, len) ==
    /\ TCalls(t)
    /\ \E k \in {[Tt EXCEPT !.thr[t].canon = Canon(tty), !.thr[t].len = len]} :
          TtyBecomes(read_begin(k, t))

tty_read_nonblock(t) ==
    /\ TCalls(t) /\ tty.mode \in {"canon", "raw"} /\ ~can_read(tty)
    /\ TtyBecomes(Tt)      \* -EAGAIN

\* Woken in the wait for can_read, or in that of VTIME.
tread_woken(t) ==
    /\ holds = NoThread /\ tthr[t].pc \in {"rwait", "twait"} /\ tthr[t].st = "R"
    /\ LET k == Tt
           y == tty
           go == [k EXCEPT !.thr[t].pc = "chunk", !.thr[t].link = "none", !.cpu = t]
           ready == IF tthr[t].pc = "rwait" THEN can_read(y)
                    ELSE ibuf_count(y) > 0 \/ y.hangup
       IN  TtyBecomes(IF ready THEN go
                      ELSE IF tthr[t].pc = "twait" /\ ~tthr[t].timer /\ ~tthr[t].sig THEN go
                      ELSE TWait(k, t, tthr[t].pc, "read_wait"))

vtime_expires(t) ==
    /\ tthr[t].pc \in {"twait", "poll"} /\ tthr[t].timer
    /\ TtyBecomes([Tt EXCEPT !.thr[t].timer = FALSE, !.thr[t].st = "R"])

\* How far the inner loop goes, and whether it ends at the end of a line.
Limit(y, canon) == IF canon THEN y.iend ELSE y.ihead
LineEnds(y, canon, m) ==
    {i \in 0..m - 1 : canon /\ CharAt(y, y.itail + i) \in {"nl", "eof"}}

read_loop(t) ==
    /\ holds = t /\ tthr[t].pc = "chunk"
    /\ LET k == Tt
           y == tty
           o == tthr[t]
           avail == Limit(y, o.canon) - y.itail
           room == Chunk(o)
           \* itail # limit: a limit behind itail does not stop the loop
           m == IF avail >= 0 /\ avail < room THEN avail ELSE room
           ends == LineEnds(y, o.canon, m)
           taken == IF ends = {} THEN m ELSE Min(ends) + 1
           eof == ends # {} /\ CharAt(y, y.itail + Min(ends)) = "eof"
           n == IF eof THEN taken - 1 ELSE taken
           k1 == [k EXCEPT !.tty.itail = @ + taken, !.thr[t].done = @ + n]
       IN  TtyBecomes(IF taken = 0 \/ ends # {} \/ o.done + n = o.len
                      THEN [k1 EXCEPT !.thr[t].pc = "finish"] ELSE k1)

read_finish(t) ==
    /\ holds = t /\ tthr[t].pc = "finish"
    /\ TtyBecomes(TReturn([Tt EXCEPT
           !.tty = Rebase([@ EXCEPT !.iend = IF @ < tty.itail THEN tty.itail ELSE @])], t))

-----------------------------------------------------------------------------
(* Modes and flushing. *)

Reading == \E t \in TThreads : tthr[t].pc \in {"rwait", "twait", "chunk", "finish"}

\* TCSETS, TCSETSW; with flush, TCSETSF.
tty_set(t, mode, flush) ==
    /\ TCalls(t) /\ mode # tty.mode /\ ~Reading
    /\ LET y == IF flush THEN Emptied(tty) ELSE tty
           was == Canon(tty) /\ mode # "canon"
       IN  TtyBecomes(TWake([Tt EXCEPT
              !.tty = [y EXCEPT !.mode = mode, !.iend = IF was THEN y.ihead ELSE @]], "read_wait"))

\* TCFLSH, when no interrupt comes between its three stores.
tty_flush(t) == TCalls(t) /\ TtyBecomes([Tt EXCEPT !.tty = Emptied(@)])

-----------------------------------------------------------------------------
(* poll on a terminal: the scan links a waiter and sets the thread's state *)
(* and the thread sleeps, with no interrupt in between.                    *)

tty_poll(y) == can_read(y) \/ (~Canon(y) /\ ibuf_count(y) > 0)

PollScan(k, t) ==
    IF tty_poll(k.tty) \/ k.thr[t].sig THEN TReturn(k, t)
    ELSE TSleep(k, t, "poll", "read_wait")

do_poll(t, timed) ==
    /\ TCalls(t)
    /\ \E k \in {[Tt EXCEPT !.thr[t].timer = timed]} : TtyBecomes(PollScan(k, t))

\* Woken, by input or by its timer: do_poll scans again.
poll_again(t) ==
    /\ holds = NoThread /\ tthr[t].pc = "poll" /\ tthr[t].st = "R"
    /\ TtyBecomes(PollScan(Tt, t))

-----------------------------------------------------------------------------
(* Pseudo-terminals. *)

slave_gone(k) == k.pty.slave_opened /\ k.tty.opens = 0
tty_input_room(y) == TTY_BUF - 1 - ibuf_count(y)
write_room(k) == OBUF - k.pty.out

\* Mutant: a line end takes one byte.
RoomForPlain(k, n) == write_room(k) >= n
RoomFor(k, n) == write_room(k) >= 2 * n
\* Output of a thread at the slave: a line end takes two bytes.
Written(k, t, n) ==
    LET bytes == IF k.thr[t].c = "nl" THEN 2 * n ELSE n
    IN  [pty_write([k EXCEPT !.pty.lost = @ \/ write_room(k) < bytes], bytes) EXCEPT
            !.thr[t].done = @ + n, !.thr[t].pc = "write", !.thr[t].link = "none", !.cpu = t]

\* One round of tty_write.
write_round(k, t) ==
    LET o == k.thr[t]
    IN  IF o.done = o.len \/ k.tty.hangup THEN TReturn(k, t)
        ELSE IF ~RoomFor(k, Chunk(o)) THEN TWait(k, t, "wwait", "write_wait")
        ELSE Written(k, t, Chunk(o))

tty_write(t, len, c) ==
    /\ TCalls(t)
    /\ \E k \in {[Tt EXCEPT !.thr[t].len = len, !.thr[t].c = c]} : TtyBecomes(write_round(k, t))

write_again(t) ==
    /\ holds = t /\ tthr[t].pc = "write"
    /\ TtyBecomes(write_round(Tt, t))

twrite_woken(t) ==
    /\ holds = NoThread /\ tthr[t].pc = "wwait" /\ tthr[t].st = "R"
    /\ TtyBecomes(IF tty.hangup \/ RoomFor(Tt, Chunk(tthr[t]))
                  THEN write_round([Tt EXCEPT !.thr[t].link = "none"], t)
                  ELSE TWait(Tt, t, "wwait", "write_wait"))

\* The master reads: to a return or a sleep.
master_read(k, len) ==
    IF k.pty.out > 0
    THEN TReturn(TWake([k EXCEPT !.pty.out = IF @ > len THEN @ - len ELSE 0], "write_wait"), Master)
    ELSE IF slave_gone(k) THEN TReturn(k, Master)
    ELSE TWait(k, Master, "mwait", "mwait")

ptm_read(len) ==
    /\ TCalls(Master)
    /\ \E k \in {[Tt EXCEPT !.thr[Master].len = len]} : TtyBecomes(master_read(k, len))

ptm_woken ==
    /\ holds = NoThread /\ tthr[Master].pc = "mwait" /\ tthr[Master].st = "R"
    /\ TtyBecomes(master_read(Tt, tthr[Master].len))

\* The master types a character, or naps while the slave's ring is full.
master_write(k) ==
    IF tty_input_room(k.tty) = 0
    THEN [k EXCEPT !.thr[Master].pc = "mnap", !.cpu = NoThread]
    ELSE TReturn(input_char(k, k.thr[Master].c), Master)

ptm_write(c) ==
    /\ TCalls(Master)
    /\ \E k \in {[Tt EXCEPT !.thr[Master].c = c]} : TtyBecomes(master_write(k))

nap_over(intr) ==
    /\ holds = NoThread /\ tthr[Master].pc = "mnap"
    /\ TtyBecomes(IF intr THEN TReturn(Tt, Master) ELSE master_write(Tt))

pty_destroy(k) == [k EXCEPT !.pty.live = FALSE]

tty_hangup(k) ==
    TWake(TWake(TSignal([k EXCEPT !.tty.hangup = TRUE]), "read_wait"), "write_wait")

ptm_release ==
    /\ TCalls(Master)
    /\ LET k == [tty_hangup([Tt EXCEPT !.pty.master_open = FALSE]) EXCEPT !.thr[Master].open = FALSE]
       IN  TtyBecomes(IF tty.opens = 0 THEN pty_destroy(k) ELSE k)

ptmx_open ==
    /\ holds = NoThread /\ ~pty.live /\ ~tthr[Master].open
    /\ TtyBecomes([Tt EXCEPT
           !.pty = [out |-> 0, live |-> TRUE, master_open |-> TRUE, locked |-> TRUE,
                    slave_opened |-> FALSE, lost |-> FALSE],
           !.tty = [Emptied(@) EXCEPT !.mode = "canon", !.lnext = FALSE, !.hangup = FALSE],
           !.thr[Master].open = TRUE])

unlockpt == TCalls(Master) /\ pty.locked /\ TtyBecomes([Tt EXCEPT !.pty.locked = FALSE])

pts_open(t) ==
    /\ holds = NoThread /\ tthr[t].pc = "user" /\ ~tthr[t].open
    /\ pty.live /\ pty.master_open /\ ~pty.locked
    /\ TtyBecomes([Tt EXCEPT !.pty.slave_opened = TRUE, !.tty.opens = @ + 1,
                             !.tty.hangup = FALSE, !.thr[t].open = TRUE])

\* Mutant: the last close of the slave wakes nobody.
pts_release_quiet(t) ==
    /\ TCalls(t)
    /\ LET k == [Tt EXCEPT !.tty.opens = @ - 1, !.thr[t].open = FALSE]
       IN  TtyBecomes(IF k.tty.opens # 0 THEN k
                      ELSE IF pty.master_open THEN k ELSE pty_destroy(k))

pts_release(t) ==
    /\ TCalls(t)
    /\ LET k == [Tt EXCEPT !.tty.opens = @ - 1, !.thr[t].open = FALSE]
       IN  TtyBecomes(IF k.tty.opens # 0 THEN k
                      ELSE IF pty.master_open THEN TWake(k, "mwait")
                      ELSE pty_destroy(TWake(k, "mwait")))

-----------------------------------------------------------------------------
(* Sessions and job control.  A user is named by its pid. *)

JobsChange(u, y) == users' = u /\ tty' = y /\ UNCHANGED <<pty, tthr, holds>>
Leader(p) == users[p].sid = p
Acquired(p) == [tty EXCEPT !.session = users[p].sid, !.pgrp = users[p].pgid]

tty_open_common(p) ==
    /\ users[p].live
    /\ IF Leader(p) /\ ~users[p].tty /\ tty.session = 0
       THEN JobsChange([users EXCEPT ![p].tty = TRUE], Acquired(p))
       ELSE JobsChange(users, tty)

TIOCSCTTY(p) ==
    /\ users[p].live /\ Leader(p) /\ ~users[p].tty
    /\ tty.session \in {0, users[p].sid}
    /\ JobsChange([users EXCEPT ![p].tty = TRUE], Acquired(p))

TIOCNOTTY(p) ==
    /\ users[p].live /\ users[p].tty
    /\ JobsChange([users EXCEPT ![p].tty = FALSE],
                  IF Leader(p) THEN [tty EXCEPT !.session = 0, !.pgrp = 0] ELSE tty)

TIOCSPGRP(p, pg) ==
    /\ users[p].live /\ users[p].tty /\ tty.session = users[p].sid
    /\ \E q \in Users : users[q].live /\ users[q].pgid = pg /\ users[q].sid = users[p].sid
    /\ JobsChange(users, [tty EXCEPT !.pgrp = pg])

sys_setsid(p) ==
    /\ users[p].live /\ \A q \in Users : users[q].live => users[q].pgid # p
    /\ JobsChange([users EXCEPT ![p].sid = p, ![p].pgid = p, ![p].tty = FALSE], tty)

sys_setpgid(p, q, pg) ==
    /\ users[p].live /\ users[q].live /\ (p = q \/ users[q].parent = p)
    /\ ~Leader(q) /\ users[q].sid = users[p].sid
    /\ pg # q => \E r \in Users : users[r].live /\ users[r].pgid = pg /\ users[r].sid = users[p].sid
    /\ JobsChange([users EXCEPT ![q].pgid = pg], tty)

\* fork: the child inherits group, session and terminal.
fork_user(p, q) ==
    /\ users[p].live /\ ~users[q].live
    /\ \A r \in Users : users[r].live => users[r].pgid # q /\ users[r].sid # q
    /\ JobsChange([users EXCEPT ![q] = [users[p] EXCEPT !.parent = p]], tty)

\* Mutant: the terminal keeps the session of a leader that has exited.
exit_leader_keeps(p) ==
    /\ users[p].live
    /\ JobsChange([users EXCEPT ![p].live = FALSE, ![p].tty = FALSE], tty)

\* exit_process: the exit of a session leader hangs up its terminal.
exit_user(p) ==
    /\ users[p].live
    /\ JobsChange([users EXCEPT ![p].live = FALSE, ![p].tty = FALSE],
                  IF users[p].tty /\ Leader(p) THEN [tty EXCEPT !.session = 0, !.pgrp = 0] ELSE tty)

-----------------------------------------------------------------------------

ReadStep(t) ==
    \/ tread_woken(t) \/ vtime_expires(t) \/ read_loop(t) \/ read_finish(t)

LineNext ==
    \/ \E c \in TChars[tload] : tty_receive(c)
    \/ \E t \in TThreads :
          \/ ReadStep(t) \/ tty_read_nonblock(t) \/ tty_flush(t)
          \/ \E len \in TLens : tty_read(t, len)
          \/ \E m \in TModes, f \in BOOLEAN : tty_set(t, m, f)

TtyPollNext ==
    \/ \E c \in TChars[tload] : tty_receive(c)
    \/ \E t \in TThreads :
          \/ ReadStep(t) \/ poll_again(t)
          \/ tty_read(t, 1)
          \/ \E timed \in BOOLEAN : do_poll(t, timed)

PtyNext ==
    \/ \E t \in TThreads :
          \/ ReadStep(t) \/ write_again(t) \/ twrite_woken(t)
          \/ pts_open(t) \/ pts_release(t)
          \/ tty_read(t, 1)
          \/ \E len \in TLens, c \in {"a", "nl"} : tty_write(t, len, c)
    \/ \E len \in TLens : ptm_read(len)
    \/ ptm_woken \/ ptm_release \/ ptmx_open \/ unlockpt
    \/ \E c \in TChars[tload] : ptm_write(c)
    \/ \E intr \in BOOLEAN : nap_over(intr)

JobsNext ==
    \E p \in Users :
        \/ tty_open_common(p) \/ TIOCSCTTY(p) \/ TIOCNOTTY(p) \/ sys_setsid(p) \/ exit_user(p)
        \/ \E q \in Users : TIOCSPGRP(p, q) \/ fork_user(p, q)
                            \/ \E g \in Users : sys_setpgid(p, q, g)

TtyNext ==
    /\ UNCHANGED tload
    /\ \/ tload = "line" /\ LineNext
       \/ tload = "poll" /\ TtyPollNext
       \/ tload = "pty" /\ PtyNext
       \/ tload = "jobs" /\ JobsNext

TtyInit ==
    /\ tload \in TLoads
    /\ tty = [ibuf |-> [i \in 0..TTY_BUF - 1 |-> "none"], ihead |-> 0, itail |-> 0, iend |-> 0,
              mode |-> "canon", lnext |-> FALSE, hangup |-> FALSE, opens |-> 0,
              session |-> 0, pgrp |-> 0]
    /\ pty = [out |-> 0, live |-> FALSE, master_open |-> FALSE, locked |-> TRUE,
              slave_opened |-> FALSE, lost |-> FALSE]
    /\ tthr = [t \in Everyone |-> [TIdle EXCEPT !.open = tload # "pty" /\ t # Master]]
    /\ holds = NoThread
    /\ LET first == Min(Users)
       IN  users = [p \in Users |-> [live |-> p = first, pgid |-> p, sid |-> p, tty |-> FALSE,
                                     parent |-> first]]

-----------------------------------------------------------------------------
(* Properties. *)

\* The indices of the input ring keep their order and never span more than it
\* holds, whatever is typed, erased, flushed, read and switched in whatever
\* order (input_char, erase_one, tty_signal, tty_read, TCSETS, TCFLSH).
LineExact ==
    /\ tty.itail <= tty.iend /\ tty.iend <= tty.ihead
    /\ ibuf_count(tty) <= TTY_BUF - 1
    /\ \A i \in tty.itail..tty.ihead - 1 : CharAt(tty, i) # "none"

\* A pseudo-terminal exists exactly while one of its sides is open, and what a
\* thread writes to the slave is never dropped for lack of room (tty_write
\* asks write_room for two bytes per byte; only echo may be lost).
PtyExact ==
    /\ tload = "pty" =>
          /\ tty.opens = Cardinality({t \in TThreads : tthr[t].open})
          /\ pty.live <=> pty.master_open \/ tty.opens > 0
    /\ ~pty.lost

\* The terminal belongs to a session whose leader is alive and has it as its
\* controlling terminal, and has a foreground group only with a session
\* (tty_open_common, TIOCSCTTY, TIOCNOTTY, sys_setsid, exit_process).
SessionExact ==
    /\ tty.session # 0 => LET p == tty.session
                          IN  users[p].live /\ users[p].sid = p /\ users[p].tty
    /\ (tty.session = 0) <=> (tty.pgrp = 0)

TtyExact == LineExact /\ PtyExact /\ SessionExact

\* A thread asleep on a terminal has reason to: there is nothing it could read
\* in the mode the terminal has now, no room for its output, no output for
\* the master while the slave is open, nothing to report to poll; and no
\* signal or hang-up has come for it (the wake-ups of input_char,
\* tty_signal, TCSETS, tty_hangup, ptm_read, pty_write and pts_release).
TtySleepersBlocked ==
    holds = NoThread => \A t \in Everyone : tthr[t].st = "S" =>
        /\ ~tthr[t].sig
        /\ CASE tthr[t].pc = "rwait" -> ~can_read(tty)
             [] tthr[t].pc = "twait" -> ibuf_count(tty) = 0 /\ ~tty.hangup /\ tthr[t].timer
             [] tthr[t].pc = "poll" -> ~tty_poll(tty)
             [] tthr[t].pc = "wwait" -> ~tty.hangup /\ ~RoomFor(Tt, Chunk(tthr[t]))
             [] tthr[t].pc = "mwait" -> pty.out = 0 /\ ~slave_gone(Tt)
=============================================================================
