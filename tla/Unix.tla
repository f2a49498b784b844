-------------------------------- MODULE Unix --------------------------------
(***************************************************************************)
(* AF_UNIX sockets (net/unix.c) under the calls of net/socket.c.           *)
(*                                                                         *)
(* All state is under one mutex and the big kernel lock, so a step is what *)
(* a call does from one sleep to the next.  Addresses are abstract names.  *)
(* Left out, because the code goes wrong there: closing a listener while a *)
(* connect naps on its full backlog, connecting a datagram socket to       *)
(* itself, a stream message of no bytes that carries descriptors, shutting *)
(* down a datagram socket, other calls on a socket whose connect naps, and *)
(* poll for room on a datagram socket.                                     *)
(***************************************************************************)
EXTENDS Integers, Sequences, FiniteSets, FiniteSetsExt, Functions

CONSTANTS
    USocks,          \* memory for sockets, positive numbers
    UThreads,
    UAddrs,
    RCVBUF,          \* s->rcvbuf
    CHUNK,           \* what one chunk of a stream holds, 65536
    BACKLOG,
    ULoads,          \* for each load its types, calls, sockets and lengths
    MaxWaiting       \* passed descriptors that are queued at a time

VARIABLES
    so,      \* struct usock with its socket
    uthr,    \* calls in progress
    pf,      \* references of the file whose descriptor is passed around
    sload    \* which load runs; fixed

unix_vars == <<so, uthr, pf, sload>>

FreeSock == [st |-> "free", type |-> "none", open |-> FALSE, refs |-> 0, peer |-> 0, rq |-> <<>>,
             shut_rd |-> FALSE, shut_wr |-> FALSE, gone |-> FALSE, backlog |-> <<>>,
             addr |-> "none", bound |-> FALSE]
UReady == [pc |-> "user", st |-> "R", s |-> 0, to |-> 0, a |-> "none", n |-> 0, done |-> 0, fd |-> FALSE, all |-> FALSE]

Sk == [so |-> so, thr |-> uthr, pf |-> pf]
UnixBecomes(k) == so' = k.so /\ uthr' = k.thr /\ pf' = k.pf /\ UNCHANGED sload

RqBytes(rq) == FoldFunction(LAMBDA c, x : c.n + x, 0, rq)
Waking(k, s) == [k EXCEPT !.thr = [t \in UThreads |->
                    IF k.thr[t].s = s /\ k.thr[t].st = "S" THEN [k.thr[t] EXCEPT !.st = "R"] ELSE k.thr[t]]]
wake(k, s) == IF s = 0 THEN k ELSE Waking(k, s)

uput(k, s) == [k EXCEPT !.so[s] = IF @.refs = 1 THEN FreeSock ELSE [@ EXCEPT !.refs = @ - 1]]
flush_rq(k, s) ==
    [k EXCEPT !.so[s].rq = <<>>, !.pf = @ - Cardinality({i \in DOMAIN k.so[s].rq : k.so[s].rq[i].fd})]

-----------------------------------------------------------------------------
(* Connections                                                             *)

\* Mutant: a stream's peer is not told.
UnpairSilent(k, s, p) == [k EXCEPT !.so[p].peer = 0]

\* What closing s does to its peer p.
Unpair(k, s, p) ==
    IF k.so[s].type # "dgram" THEN wake([k EXCEPT !.so[p].peer = 0, !.so[p].gone = TRUE], p)
    ELSE uput(wake(IF k.so[p].peer = s THEN uput([k EXCEPT !.so[p].peer = 0], s) ELSE k, p), p)

ReleaseSelf(k, s) ==
    LET p == k.so[s].peer
        Parted == IF p = 0 THEN k ELSE Unpair(k, s, p)
    IN uput(flush_rq([Parted EXCEPT !.so[s].peer = 0, !.so[s].open = FALSE], s), s)

RECURSIVE u_release(_, _)
u_release(k, s) ==
    IF k.so[s].backlog # <<>>
    THEN u_release(u_release([k EXCEPT !.so[s].st = "closed", !.so[s].bound = FALSE,
                                       !.so[s].backlog = Tail(@)], Head(k.so[s].backlog)), s)
    ELSE ReleaseSelf([k EXCEPT !.so[s].st = "closed", !.so[s].bound = FALSE], s)

Users(k, s) == {t \in UThreads : k.thr[t].s = s}

\* file_put at the end of a call, and what a message still owns.
Leaves(k, s) == IF k.so[s].open \/ Users(k, s) # {} THEN k ELSE u_release(k, s)
UReturn(k, t) ==
    Leaves([k EXCEPT !.thr[t] = UReady, !.pf = IF k.thr[t].fd THEN @ - 1 ELSE @], k.thr[t].s)

USleep(k, t, pc) == [k EXCEPT !.thr[t].pc = pc, !.thr[t].st = "S"]

Opened == {s \in USocks : so[s].open}
Spare == {s \in ULoads[sload].socks : so[s].st = "free"}
NewSock(type) == [FreeSock EXCEPT !.st = "unconn", !.type = type, !.open = TRUE, !.refs = 1]

sys_socket(type) ==
    /\ Spare # {}
    /\ UnixBecomes([Sk EXCEPT !.so[Min(Spare)] = NewSock(type)])

\* The peers of a pair of datagram sockets hold references on each other.
unix_socketpair(k, a, b, type) ==
    LET End(p) == [NewSock(type) EXCEPT !.st = "conn", !.peer = p, !.refs = IF type = "dgram" THEN 2 ELSE 1]
    IN [k EXCEPT !.so[a] = End(b), !.so[b] = End(a)]
sys_socketpair(type) ==
    /\ Cardinality(Spare) > 1
    /\ \E a \in {Min(Spare)} : \E b \in {Min(Spare \ {a})} : UnixBecomes(unix_socketpair(Sk, a, b, type))

\* Not while a connect naps on s: see above.
close_socket(s) ==
    /\ so[s].open /\ \A t \in UThreads : uthr[t].to # s
    /\ UnixBecomes(Leaves([Sk EXCEPT !.so[s].open = FALSE], s))

find_bound(a) == {s \in USocks : so[s].bound /\ so[s].addr = a}

u_bind(k, s, a) ==
    IF k.so[s].addr # "none" \/ find_bound(a) # {} THEN k ELSE [k EXCEPT !.so[s].addr = a, !.so[s].bound = TRUE]
sys_bind(s, a) == so[s].open /\ UnixBecomes(u_bind(Sk, s, a))

u_listen(k, s) ==
    IF k.so[s].type = "dgram" \/ k.so[s].addr = "none" \/ k.so[s].st # "unconn" THEN k
    ELSE [k EXCEPT !.so[s].st = "listen"]
sys_listen(s) == so[s].open /\ UnixBecomes(u_listen(Sk, s))

\* The server's side is made by the client and waits in the backlog.
u_connect(k, t, s, x) ==
    LET free == {e \in ULoads[sload].socks : k.so[e].st = "free"}
        e == Min(free)
    IN IF k.so[x].st # "listen" \/ k.so[s].st = "conn" THEN UReturn(k, t)
       ELSE IF Len(k.so[x].backlog) >= BACKLOG THEN [USleep(k, t, "nap") EXCEPT !.thr[t].to = x]
       ELSE IF free = {} THEN UReturn(k, t)
       ELSE UReturn(wake([k EXCEPT !.so[s].peer = e, !.so[s].st = "conn",
                !.so[e] = [NewSock(k.so[s].type) EXCEPT !.open = FALSE, !.st = "conn", !.peer = s, !.addr = k.so[x].addr],
                !.so[x].backlog = Append(@, e)], x), t)

u_connect_dgram(k, s, x) ==
    [IF k.so[s].peer = 0 THEN k ELSE uput(k, k.so[s].peer) EXCEPT !.so[s].peer = x, !.so[x].refs = @ + 1]

\* No other call on a socket whose connect naps: see above.
Calling(t, s) == uthr[t].pc = "user" /\ so[s].open /\ \A o \in Users(Sk, s) : uthr[o].pc # "nap"
Begin(t, s, n, fd) ==
    [Sk EXCEPT !.thr[t] = [UReady EXCEPT !.s = s, !.n = n, !.fd = fd], !.pf = IF fd THEN @ + 1 ELSE @]

\* One thread at a time connects a socket.
sys_connect(t, s, a) ==
    /\ Calling(t, s) /\ Users(Sk, s) = {}
    /\ \E x \in find_bound(a) : so[x].type = so[s].type /\ x # s
         /\ UnixBecomes(IF so[s].type = "dgram" THEN u_connect_dgram(Sk, s, x)
                        ELSE u_connect(Begin(t, s, 0, FALSE), t, s, x))

u_dissolve(s) ==
    /\ so[s].open /\ so[s].type = "dgram" /\ so[s].peer # 0
    /\ UnixBecomes([uput(Sk, so[s].peer) EXCEPT !.so[s].peer = 0])

nap_ends(t) ==
    /\ uthr[t].pc = "nap"
    /\ UnixBecomes(u_connect([Sk EXCEPT !.thr[t].st = "R", !.thr[t].to = 0], t, uthr[t].s, uthr[t].to))

u_accept(k, t, s) ==
    IF k.so[s].backlog # <<>>
    THEN UReturn([k EXCEPT !.so[s].backlog = Tail(@), !.so[Head(k.so[s].backlog)].open = TRUE], t)
    ELSE USleep(k, t, "accept")
sys_accept4(t, s) == Calling(t, s) /\ so[s].st = "listen" /\ UnixBecomes(u_accept(Begin(t, s, 0, FALSE), t, s))

u_shutdown(k, s, how) ==
    IF k.so[s].st # "conn" THEN k
    ELSE wake(wake([k EXCEPT !.so[s].shut_rd = @ \/ how # "wr", !.so[s].shut_wr = @ \/ how # "rd"], s), k.so[s].peer)
sys_shutdown(s, how) ==
    /\ so[s].open /\ so[s].type # "dgram"
    /\ UnixBecomes(u_shutdown(Sk, s, how))

-----------------------------------------------------------------------------
(* Data                                                                    *)

HasRoom(k, p) == p # 0 /\ RqBytes(k.so[p].rq) < RCVBUF
SendWaits(k, u) == ~(u.gone \/ u.peer = 0 \/ u.shut_wr \/ HasRoom(k, u.peer))
EndOfFile(k, u) ==
    \/ u.shut_rd \/ u.gone \/ (u.peer # 0 /\ k.so[u.peer].shut_wr)
    \/ u.type = "stream" /\ u.st \notin {"conn", "unconn"}
RecvWaits(k, u) == u.rq = <<>> /\ ~(u.shut_rd \/ u.gone \/ (u.peer # 0 /\ k.so[u.peer].shut_wr))

Queued(k, t, p, n) ==
    wake([k EXCEPT !.so[p].rq = Append(@, [n |-> n, fd |-> k.thr[t].fd]), !.thr[t].fd = FALSE,
                   !.thr[t].n = @ - n], p)

RECURSIVE send_stream(_, _)
send_stream(k, t) ==
    LET u == k.so[k.thr[t].s]
        n == IF u.type = "stream" THEN Min({CHUNK, k.thr[t].n}) ELSE k.thr[t].n
    IN IF u.shut_wr \/ u.gone \/ u.peer = 0 THEN UReturn(k, t)
       ELSE IF k.so[u.peer].shut_rd THEN UReturn(k, t)
       ELSE IF ~HasRoom(k, u.peer) THEN USleep(k, t, "send")
       ELSE IF n = k.thr[t].n THEN UReturn(Queued(k, t, u.peer, n), t)
       ELSE send_stream(Queued(k, t, u.peer, n), t)

\* Where a datagram goes: found by name, or the connected peer; 0 for nowhere.
Target(s, a) ==
    IF a = "none" THEN so[s].peer
    ELSE Max({x \in find_bound(a) : so[x].type = "dgram"} \cup {0})

send_dgram(k, t, x, n) ==
    IF x = 0 \/ k.so[x].st = "closed" \/ k.so[x].shut_rd THEN UReturn(k, t)
    ELSE IF RqBytes(k.so[x].rq) + n > RCVBUF /\ k.so[x].rq # <<>> THEN USleep(k, t, "dnap")
    ELSE UReturn(Queued(k, t, x, n), t)

\* Mutant: only the reader of a stream tells its writer.
WakeWriterStream(k, u) == IF u.type = "stream" THEN wake(k, u.peer) ELSE k
WakeWriter(k, u) == wake(k, u.peer)

\* Take n bytes of the first chunk, or all of it from a socket of records.
Took(k, t, s, n) ==
    LET c == Head(k.so[s].rq)
        whole == k.so[s].type # "stream" \/ n = c.n
    IN WakeWriter([k EXCEPT !.so[s].rq = IF whole THEN Tail(@) ELSE <<[c EXCEPT !.n = @ - n, !.fd = FALSE]>> \o Tail(@),
                      !.thr[t].fd = @ \/ c.fd, !.thr[t].done = @ + n], k.so[s])

RECURSIVE u_recvmsg(_, _)
u_recvmsg(k, t) ==
    LET s == k.thr[t].s
        u == k.so[s]
        o == k.thr[t]
        n == Min({Head(u.rq).n, o.n - o.done})
    IN IF u.rq = <<>>
       THEN IF EndOfFile(k, u) \/ (o.done > 0 /\ ~o.all) \/ (u.type # "dgram" /\ u.st = "unconn")
            THEN UReturn(k, t) ELSE USleep(k, t, "recv")
       ELSE IF u.type = "stream" /\ o.done > 0 /\ Head(u.rq).fd THEN UReturn(k, t)
       ELSE IF u.type # "stream" \/ o.done + n = o.n THEN UReturn(Took(k, t, s, n), t)
       ELSE u_recvmsg(Took(k, t, s, n), t)

sys_sendmsg(t, s, n, fd) ==
    /\ Calling(t, s) /\ so[s].type # "dgram" /\ (fd => pf < MaxWaiting)
    /\ UnixBecomes(send_stream(Begin(t, s, n, fd), t))
sys_sendto(t, s, n, fd, a) ==
    /\ Calling(t, s) /\ so[s].type = "dgram" /\ (fd => pf < MaxWaiting)
    /\ UnixBecomes(send_dgram([Begin(t, s, n, fd) EXCEPT !.thr[t].a = a], t, Target(s, a), n))
sys_recvmsg(t, s, n, all) ==
    /\ Calling(t, s)
    /\ UnixBecomes(u_recvmsg([Begin(t, s, n, FALSE) EXCEPT !.thr[t].all = all], t))

\* u_poll: POLLIN, or POLLOUT of a stream.
Readable(k, u) ==
    IF u.st = "listen" THEN u.backlog # <<>>
    ELSE u.rq # <<>> \/ u.shut_rd \/ u.gone \/ (u.peer # 0 /\ k.so[u.peer].shut_wr)
Writable(k, u) ==
    u.st = "conn" /\ ((~u.shut_wr /\ HasRoom(k, u.peer)) \/ u.gone \/ (u.shut_rd /\ u.shut_wr))
Polls(k, t) ==
    LET u == k.so[k.thr[t].s]
    IN IF (IF k.thr[t].all THEN Writable(k, u) ELSE Readable(k, u)) THEN UReturn(k, t) ELSE USleep(k, t, "poll")
u_poll(t, s, out) ==
    /\ Calling(t, s) /\ (out => so[s].type # "dgram")
    /\ UnixBecomes(Polls([Begin(t, s, 0, FALSE) EXCEPT !.thr[t].all = out], t))

\* A wake-up: the wait goes on unless its condition has come true.
uwoken(t) ==
    LET u == so[uthr[t].s]
        k == [Sk EXCEPT !.thr[t].st = "R"]
    IN /\ uthr[t].st = "R"
       /\ \/ uthr[t].pc = "send" /\ UnixBecomes(IF SendWaits(Sk, u) THEN USleep(k, t, "send") ELSE send_stream(k, t))
          \/ uthr[t].pc = "recv" /\ UnixBecomes(IF RecvWaits(Sk, u) THEN USleep(k, t, "recv") ELSE u_recvmsg(k, t))
          \/ uthr[t].pc = "accept" /\ UnixBecomes(u_accept(k, t, uthr[t].s))
          \/ uthr[t].pc = "poll" /\ UnixBecomes(Polls(k, t))

\* A datagram sender naps while its receiver's queue is full.
dnap_ends(t) ==
    /\ uthr[t].pc = "dnap"
    /\ UnixBecomes(send_dgram([Sk EXCEPT !.thr[t].st = "R"], t, Target(uthr[t].s, uthr[t].a), uthr[t].n))

\* A signal or the socket's timeout ends a wait.
uinterrupted(t) ==
    /\ uthr[t].pc # "user" /\ uthr[t].st = "S"
    /\ UnixBecomes(UReturn(Sk, t))

-----------------------------------------------------------------------------
UnixInit ==
    /\ so = [s \in USocks |-> FreeSock] /\ uthr = [t \in UThreads |-> UReady]
    /\ pf = 0 /\ sload \in DOMAIN ULoads

Does(call) == call \in ULoads[sload].calls
Types == ULoads[sload].types

UnixNext ==
    \/ \E type \in Types :
         \/ Does("socket") /\ sys_socket(type)
         \/ Does("pair") /\ sys_socketpair(type)
    \/ \E s \in USocks :
         \/ close_socket(s)
         \/ Does("listen") /\ sys_listen(s)
         \/ Does("dissolve") /\ u_dissolve(s)
         \/ \E a \in UAddrs : Does("bind") /\ sys_bind(s, a)
         \/ \E how \in {"rd", "wr", "rdwr"} : Does("shutdown") /\ sys_shutdown(s, how)
    \/ \E t \in UThreads :
         \/ nap_ends(t) \/ dnap_ends(t) \/ uwoken(t) \/ uinterrupted(t)
         \/ \E s \in USocks :
              \/ Does("listen") /\ sys_accept4(t, s)
              \/ \E out \in BOOLEAN : Does("poll") /\ u_poll(t, s, out)
              \/ \E a \in UAddrs : Does("connect") /\ sys_connect(t, s, a)
              \/ \E n \in ULoads[sload].lens, fd \in BOOLEAN :
                   \/ Does("send") /\ sys_sendmsg(t, s, n, fd)
                   \/ \E a \in UAddrs \cup {"none"} : Does("sendto") /\ sys_sendto(t, s, n, fd, a)
              \/ \E n \in ULoads[sload].lens, all \in BOOLEAN : Does("recv") /\ sys_recvmsg(t, s, n, all)

UnixSpec == UnixInit /\ [][UnixNext]_unix_vars

-----------------------------------------------------------------------------
Waits(s) == {x \in USocks : \E i \in DOMAIN so[x].backlog : so[x].backlog[i] = s}
Pointing(s) == {x \in USocks : so[x].peer = s}
CarriedIn(s) == Cardinality({i \in DOMAIN so[s].rq : so[s].rq[i].fd})

(***************************************************************************)
(* The references of unix.c are exact: a socket's memory is held by its    *)
(* descriptor, a call, a listener's backlog or the datagram sockets that   *)
(* point at it, and by nothing else; a peer is never freed memory; the two *)
(* ends of a stream point at each other until one goes, and the other then *)
(* knows; and a descriptor passed in a message is referenced by a queue or *)
(* by a call, however close, shutdown and signals come in between.         *)
(***************************************************************************)
UnixExact ==
    /\ \A s \in USocks : so[s].st # "free" =>
         /\ so[s].refs = (IF so[s].open \/ Users(Sk, s) # {} \/ Waits(s) # {} THEN 1 ELSE 0)
                          + (IF so[s].type = "dgram" THEN Cardinality(Pointing(s)) ELSE 0)
         /\ so[s].refs > 0 /\ Cardinality(Waits(s)) <= 1
         /\ so[s].peer # 0 => so[so[s].peer].st # "free" /\ so[so[s].peer].type = so[s].type
         /\ so[s].type # "dgram" /\ so[s].st = "conn" => (so[s].gone <=> so[s].peer = 0)
         /\ so[s].type # "dgram" /\ so[s].peer # 0 => so[so[s].peer].peer = s
         /\ so[s].st = "closed" => so[s].rq = <<>> /\ ~so[s].bound
    /\ \A a \in UAddrs : Cardinality(find_bound(a)) <= 1
    /\ pf = MapThenSumSet(CarriedIn, USocks) + Cardinality({t \in UThreads : uthr[t].fd})

(***************************************************************************)
(* No wake-up of unix.c is lost: a call asleep in send, receive, accept or *)
(* poll is one that would still have to wait.  And poll is honest: on a    *)
(* socket it reports ready, the call would not sleep.                      *)
(***************************************************************************)
UnixSleepersBlocked ==
    /\ \A t \in UThreads : uthr[t].st = "S" =>
         \E u \in {so[uthr[t].s]} :
            CASE uthr[t].pc = "send" -> SendWaits(Sk, u)
              [] uthr[t].pc = "recv" -> RecvWaits(Sk, u)
              [] uthr[t].pc = "accept" -> u.backlog = <<>>
              [] uthr[t].pc = "poll" -> ~(IF uthr[t].all THEN Writable(Sk, u) ELSE Readable(Sk, u))
              [] OTHER -> TRUE
    /\ \A s \in Opened : so[s].st # "listen" =>
         /\ Readable(Sk, so[s]) => so[s].rq # <<>> \/ EndOfFile(Sk, so[s])
         /\ so[s].type # "dgram" /\ Writable(Sk, so[s]) => ~SendWaits(Sk, so[s])
=============================================================================
