------------------------------ MODULE Channel ------------------------------
(***************************************************************************)
(* IPC channels (kernel/channel.c): a pair of endpoints with a message     *)
(* queue each way, bounded in messages and bytes.  Messages carry files.   *)
(*                                                                         *)
(* System calls run under the big kernel lock and interrupts do not touch  *)
(* channels, so a call is one step up to the point where it sleeps or      *)
(* returns.  Functions of the code that change the channel are functions   *)
(* on the record ch.                                                       *)
(***************************************************************************)
EXTENDS Integers, Sequences, FiniteSets, SequencesExt, TLC

CONSTANTS Threads, Files, None,
          CHAN_MAX_QUEUED, CHAN_MAX_BYTES,
          Lens,            \* lengths of messages
          NonBlock,        \* sides opened with O_NONBLOCK
          FilesToClosed,   \* whether files are sent where they cannot be queued
          MaxFds           \* bound: descriptors of one passed file

Sides == {0, 1}
Peer(s) == 1 - s

ASSUME ChannelAssumption ==
    /\ None \notin Files /\ NonBlock \subseteq Sides
    /\ CHAN_MAX_QUEUED \in Nat \ {0} /\ CHAN_MAX_BYTES \in Nat
    /\ Lens \subseteq 0 .. CHAN_MAX_BYTES /\ MaxFds \in Nat

VARIABLES
    ch,     \* the channel: q, nq, bytes, closed, refs; eref and fref are the
            \* reference counts of its two end files and of the passed files;
            \* sent is what was accepted from each side and not yet delivered
    fd,     \* whether user space holds a descriptor of each end
    ffd,    \* number of descriptors of each passed file
    pc,     \* user, sendwait or recvwait
    op,     \* the call of each thread
    st,     \* t->state: R or S
    sig     \* signal_pending_current()

vars == <<ch, fd, ffd, pc, op, st, sig>>

NoOp == [side |-> 0, len |-> 0, file |-> None, timed |-> FALSE]

\* chan_create_pair and sys_olux_channel.
Init ==
    /\ ch = [q |-> [s \in Sides |-> <<>>], nq |-> [s \in Sides |-> 0],
             bytes |-> [s \in Sides |-> 0], closed |-> [s \in Sides |-> FALSE],
             refs |-> 2, eref |-> [s \in Sides |-> 1], fref |-> [x \in Files |-> 1],
             sent |-> [s \in Sides |-> 0]]
    /\ fd = [s \in Sides |-> TRUE] /\ ffd = [x \in Files |-> 1]
    /\ pc = [t \in Threads |-> "user"] /\ op = [t \in Threads |-> NoOp]
    /\ st = [t \in Threads |-> "R"] /\ sig = [t \in Threads |-> FALSE]

Carrying(q, x) == {i \in DOMAIN q : q[i].file = x}

\* file_put and file_get of a passed file.
Dropped(c, x, n) == IF x = None THEN c ELSE [c EXCEPT !.fref[x] = @ - n]

\* Mutant: the messages are dropped but not the files they carry.
chan_release_leaky(c, s) ==
    [c EXCEPT !.closed[s] = TRUE, !.q[s] = <<>>, !.nq[s] = 0, !.bytes[s] = 0, !.refs = @ - 1,
              !.sent[Peer(s)] = 0]
\* Mutant: the byte count of the dropped queue is kept.
chan_release_bytes(c, s) ==
    [c EXCEPT !.closed[s] = TRUE, !.q[s] = <<>>, !.nq[s] = 0, !.refs = @ - 1, !.sent[Peer(s)] = 0,
              !.fref = [x \in Files |-> @[x] - Cardinality(Carrying(c.q[s], x))]]
\* chan_release: the last reference to an end is gone; its queue is dropped.
chan_release(c, s) ==
    [c EXCEPT !.closed[s] = TRUE, !.q[s] = <<>>, !.nq[s] = 0, !.bytes[s] = 0,
              !.refs = @ - 1, !.sent[Peer(s)] = 0,
              !.fref = [x \in Files |-> @[x] - Cardinality(Carrying(c.q[s], x))]]

\* file_put on an end.
PutEnd(c, s) ==
    LET d == [c EXCEPT !.eref[s] = @ - 1]
    IN  IF d.eref[s] = 0 THEN chan_release(d, s) ELSE d

\* The sides whose waiters chan_release wakes when s is put.
ReleaseWakes(c, s) == IF c.eref[s] = 1 THEN {Peer(s)} ELSE {}

\* wake_up of the wait queues of the sides W, with t itself running.
Woken(W, t) ==
    [u \in Threads |-> IF u = t \/ (pc[u] # "user" /\ op[u].side \in W) THEN "R" ELSE st[u]]

\* Whether a message of this length fits the queue of side s.
Room(c, s, len) == c.nq[s] < CHAN_MAX_QUEUED /\ c.bytes[s] + len <= CHAN_MAX_BYTES

\* The call of t on side s ends: the end is put, and W is woken besides.
Return(t, c, s, W) ==
    /\ ch' = PutEnd(c, s)
    /\ st' = Woken(W \cup ReleaseWakes(c, s), t)
    /\ pc' = [pc EXCEPT ![t] = "user"]
    /\ op' = [op EXCEPT ![t] = NoOp]
    /\ sig' = [sig EXCEPT ![t] = FALSE]

\* The call sleeps on wq[o.side]; a pending signal ends it instead.
Sleep(t, c, o, l) ==
    /\ ch' = c
    /\ st' = [st EXCEPT ![t] = "S"]
    /\ pc' = [pc EXCEPT ![t] = l]
    /\ op' = [op EXCEPT ![t] = o]
    /\ UNCHANGED sig

\* chan_send on -EPIPE frees the message with its files, and the caller,
\* sys_olux_msg_send, puts the files of every failed send once more.
EpipePuts == 2

\* Messages are numbered from the next one to be delivered.
Renumbered(q) == [i \in DOMAIN q |-> [q[i] EXCEPT !.id = @ - 1]]

\* list_add_tail.
Enqueued(q, m) == Append(q, m)

\* chan_send: one round of its loop.
SendRound(t, c, o) ==
    LET s == o.side
        p == Peer(s)
    IN  \/ /\ c.closed[p]
           /\ Return(t, Dropped(c, o.file, EpipePuts), s, {})
        \/ /\ ~c.closed[p] /\ Room(c, p, o.len)
           /\ Return(t, [c EXCEPT !.q[p] = Enqueued(@, [id |-> c.sent[s] + 1, len |-> o.len,
                                                        file |-> o.file]),
                                  !.sent[s] = @ + 1,
                                  !.nq[p] = @ + 1, !.bytes[p] = @ + o.len], s, {p})
        \/ /\ ~c.closed[p] /\ ~Room(c, p, o.len) /\ s \notin NonBlock /\ ~sig[t]
           /\ Sleep(t, c, o, "sendwait")
        \/ /\ ~c.closed[p] /\ ~Room(c, p, o.len)       \* -EAGAIN or -ERESTARTSYS
           /\ s \in NonBlock \/ sig[t]
           /\ Return(t, Dropped(c, o.file, 1), s, {})

\* sys_olux_msg_send: fget of the end and of the passed file, then chan_send.
olux_msg_send(t, s, len, x) ==
    /\ pc[t] = "user" /\ fd[s]
    /\ x # None => /\ ffd[x] > 0 /\ ch.fref[x] > 0
                   /\ FilesToClosed \/ (~ch.closed[Peer(s)] /\ Room(ch, Peer(s), len))
    /\ SendRound(t, Dropped([ch EXCEPT !.eref[s] = @ + 1], x, -1),
                 [NoOp EXCEPT !.side = s, !.len = len, !.file = x])
    /\ UNCHANGED <<fd, ffd>>

\* wait_event_interruptible of chan_send goes round.
send_resume(t) ==
    /\ pc[t] = "sendwait" /\ st[t] = "R"
    /\ SendRound(t, ch, op[t])
    /\ UNCHANGED <<fd, ffd>>

\* Mutant: the receiver does not wake the sender that waits for room.
RecvWakesNone(s) == {}
\* chan_recv wakes the other side after taking a message.
RecvWakes(s) == {Peer(s)}

\* chan_recv: one round of its loop; the message's file is installed as a new
\* descriptor if the table has room (inst).
RecvRound(t, c, o, inst) ==
    LET s == o.side
        ends == s \in NonBlock \/ (sig[t] /\ ~o.timed)
    IN  \/ /\ c.nq[s] > 0 /\ Head(c.q[s]).len > o.len
           /\ Return(t, c, s, {})           \* -EMSGSIZE, the message stays
           /\ UNCHANGED ffd
        \/ /\ c.nq[s] > 0 /\ Head(c.q[s]).len <= o.len
           /\ LET m == Head(c.q[s])
                  d == [c EXCEPT !.q[s] = Renumbered(Tail(@)), !.sent[Peer(s)] = @ - 1,
                                    !.nq[s] = @ - 1, !.bytes[s] = @ - m.len]
                  keep == m.file # None /\ inst
              IN  /\ Return(t, IF keep THEN d ELSE Dropped(d, m.file, 1), s, RecvWakes(s))
                  /\ ffd' = IF keep THEN [ffd EXCEPT ![m.file] = @ + 1] ELSE ffd
                  /\ keep => ffd[m.file] < MaxFds
        \/ /\ c.nq[s] = 0 /\ (c.closed[Peer(s)] \/ ends)
           /\ Return(t, c, s, {})           \* end of stream, -EAGAIN, -ERESTARTSYS
           /\ UNCHANGED ffd
        \/ /\ c.nq[s] = 0 /\ ~c.closed[Peer(s)] /\ ~ends
           /\ Sleep(t, c, o, "recvwait")
           /\ UNCHANGED ffd

\* sys_olux_msg_recv, and chan_recv_kernel, whose wait has a timeout and is not
\* interruptible; len is the room in the caller's buffer.
olux_msg_recv(t, s, len, timed, inst) ==
    /\ pc[t] = "user" /\ fd[s]
    /\ RecvRound(t, [ch EXCEPT !.eref[s] = @ + 1],
                 [NoOp EXCEPT !.side = s, !.len = len, !.timed = timed], inst)
    /\ UNCHANGED fd

recv_resume(t, inst) ==
    /\ pc[t] = "recvwait" /\ st[t] = "R"
    /\ RecvRound(t, ch, op[t], inst)
    /\ UNCHANGED fd

\* chan_recv: the deadline passes with nothing to receive: -ETIMEDOUT.
recv_timeout(t) ==
    /\ pc[t] = "recvwait" /\ op[t].timed
    /\ ch.nq[op[t].side] = 0 /\ ~ch.closed[Peer(op[t].side)]
    /\ Return(t, ch, op[t].side, {})
    /\ UNCHANGED <<fd, ffd>>

\* close of an end, or the death of the process that has it.
close(t, s) ==
    /\ pc[t] = "user" /\ fd[s]
    /\ fd' = [fd EXCEPT ![s] = FALSE]
    /\ Return(t, ch, s, {})
    /\ UNCHANGED ffd

\* close of a descriptor of a passed file.
close_file(t, x) ==
    /\ pc[t] = "user" /\ ffd[x] > 0 /\ ch.fref[x] > 0
    /\ ffd' = [ffd EXCEPT ![x] = @ - 1]
    /\ ch' = Dropped(ch, x, 1)
    /\ UNCHANGED <<fd, pc, op, st, sig>>

\* A signal for t, which ends an interruptible wait.
signal(t) ==
    /\ pc[t] # "user" /\ ~sig[t]
    /\ sig' = [sig EXCEPT ![t] = TRUE]
    /\ st' = IF op[t].timed THEN st ELSE [st EXCEPT ![t] = "R"]
    /\ UNCHANGED <<ch, fd, ffd, pc, op>>

Resume(t) == send_resume(t) \/ (\E i \in BOOLEAN : recv_resume(t, i)) \/ recv_timeout(t)

Next ==
    \E t \in Threads :
        \/ \E s \in Sides, len \in Lens, x \in Files \cup {None} : olux_msg_send(t, s, len, x)
        \/ \E s \in Sides, len \in Lens, timed, i \in BOOLEAN :
             olux_msg_recv(t, s, len, timed, i)
        \/ \E s \in Sides : close(t, s)
        \/ \E x \in Files : close_file(t, x)
        \/ Resume(t) \/ signal(t)

Spec == Init /\ [][Next]_vars

\* Threads are alike.
Symmetry == Permutations(Threads)

-----------------------------------------------------------------------------
Sleeping(t) == pc[t] # "user" /\ st[t] = "S"
InCall(s) == {t \in Threads : pc[t] # "user" /\ op[t].side = s}
Sending(x) == {t \in Threads : pc[t] = "sendwait" /\ op[t].file = x}
Holders(x) ==
    ffd[x] + Cardinality(Sending(x)) + Cardinality(Carrying(ch.q[0], x))
           + Cardinality(Carrying(ch.q[1], x))

SumLen(q) == FoldLeft(LAMBDA n, m : n + m.len, 0, q)

\* Messages arrive once, in order and without gaps: what is queued for an open
\* end is exactly what was accepted from its peer and not yet delivered.  The
\* counters by which room is judged, which sends, receives and the release of an
\* end each update on their own, equal the queue and respect its limits.  An end
\* is released exactly when neither a descriptor nor a call refers to it, and
\* the channel lives as long as one of its ends.
QueuesExact ==
    /\ \A s \in Sides :
         /\ ~ch.closed[s] => Len(ch.q[s]) = ch.sent[Peer(s)]
         /\ \A i \in DOMAIN ch.q[s] : ch.q[s][i].id = i
         /\ ch.nq[s] = Len(ch.q[s]) /\ ch.nq[s] <= CHAN_MAX_QUEUED
         /\ ch.bytes[s] = SumLen(ch.q[s]) /\ ch.bytes[s] <= CHAN_MAX_BYTES
         /\ ch.eref[s] = Cardinality(InCall(s)) + IF fd[s] THEN 1 ELSE 0
         /\ ch.closed[s] <=> ch.eref[s] = 0
    /\ ch.refs = Cardinality({s \in Sides : ~ch.closed[s]})

\* Nobody sleeps who could go on: a sender asleep has no room and an open peer,
\* a receiver asleep has an empty queue and an open peer.
SleepersBlocked ==
    \A t \in Threads : Sleeping(t) =>
        LET s == op[t].side
        IN  /\ ~ch.closed[Peer(s)]
            /\ pc[t] = "sendwait" => ~Room(ch, Peer(s), op[t].len)
            /\ pc[t] = "recvwait" => ch.nq[s] = 0

\* Every descriptor and every message that carries a file holds one reference
\* to it: chan_send "takes ownership of `files`" (channel.c).
FilesExact == \A x \in Files : ch.fref[x] = Holders(x)
=============================================================================
