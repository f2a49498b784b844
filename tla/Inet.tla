-------------------------------- MODULE Inet --------------------------------
(***************************************************************************)
(* AF_INET sockets (net/inet.c) on lwIP's raw API.                         *)
(*                                                                         *)
(* lwIP is external: pcbs holds its connections as the callbacks and calls *)
(* of inet.c see them.  Callbacks and the sections of a call under         *)
(* net_lock are one step each; a call gives up the lock when it sleeps.    *)
(* Left out: lwIP frees a connection in TIME_WAIT without a callback, so   *)
(* the socket of one that was shut down for writing first and is kept open *)
(* for two minutes afterwards points at freed memory.                      *)
(***************************************************************************)
EXTENDS Integers, Sequences, FiniteSets, FiniteSetsExt

CONSTANTS
    ISocks,          \* memory for struct isock with its socket, positive numbers
    Pcbs,            \* memory of lwIP for connections, positive numbers
    IThreads,
    SNDBUF,          \* segments a connection's send queue holds
    WINDOW,          \* segments lwIP delivers before they are read
    DGRAMS,          \* datagrams that fit s->rcvbuf
    IBACKLOG,
    MAXTRIES,        \* attempts at closing without memory, 60
    ILoads           \* for each load its types, calls, sockets and connections

VARIABLES
    isk,     \* struct isock
    pcbs,    \* struct tcp_pcb and udp_pcb
    ithr,    \* calls in progress
    iload    \* which load runs; fixed

inet_vars == <<isk, pcbs, ithr, iload>>

NoIsk == [st |-> "free", type |-> "none", open |-> FALSE, pcb |-> 0, rx |-> 0, eof |-> FALSE,
          shut_rd |-> FALSE, shut_wr |-> FALSE, err |-> FALSE, acc |-> <<>>, dgq |-> 0]
NoPcb == [st |-> "free", arg |-> 0, buf |-> 0]
IReady == [pc |-> "user", st |-> "R", s |-> 0, n |-> 0, done |-> 0, all |-> FALSE]

Ik == [sk |-> isk, pcb |-> pcbs, thr |-> ithr]
InetBecomes(k) == isk' = k.sk /\ pcbs' = k.pcb /\ ithr' = k.thr /\ UNCHANGED iload

WakeSock(k, s) == [k EXCEPT !.thr = [t \in IThreads |->
                    IF k.thr[t].s = s /\ k.thr[t].st = "S" THEN [k.thr[t] EXCEPT !.st = "R"] ELSE k.thr[t]]]

-----------------------------------------------------------------------------
(* Callbacks of lwIP                                                       *)

tcp_recv_cb(k, p, last) ==
    LET s == k.pcb[p].arg
    IN IF s = 0 THEN k
       ELSE WakeSock(IF last THEN [k EXCEPT !.sk[s].eof = TRUE]
                     ELSE IF k.sk[s].shut_rd THEN k ELSE [k EXCEPT !.sk[s].rx = @ + 1], s)

\* Mutant: nobody is told.
tcp_sent_cb_quiet(k, p) == k
tcp_sent_cb(k, p) == IF k.pcb[p].arg = 0 THEN k ELSE WakeSock(k, k.pcb[p].arg)

\* Mutant: the socket keeps its connection.
tcp_err_cb_kept(k, s) ==
    IF s = 0 THEN k ELSE WakeSock([k EXCEPT !.sk[s].err = TRUE, !.sk[s].st = "closed", !.sk[s].eof = TRUE], s)

\* The connection is freed already.
tcp_err_cb(k, s) ==
    IF s = 0 THEN k
    ELSE WakeSock([k EXCEPT !.sk[s].pcb = 0, !.sk[s].err = TRUE, !.sk[s].st = "closed", !.sk[s].eof = TRUE], s)

tcp_connected_cb(k, p) ==
    LET s == k.pcb[p].arg
    IN IF s = 0 THEN k ELSE WakeSock([k EXCEPT !.sk[s].st = "connected"], s)

FreeIsks(k) == {s \in ILoads[iload].socks : k.sk[s].st = "free"}

\* A connection n has come in on the listener l.
tcp_accept_cb(k, l, n) ==
    LET s == k.pcb[l].arg
        e == Min(FreeIsks(k))
    IN IF s = 0 THEN k
       ELSE IF Len(k.sk[s].acc) >= IBACKLOG \/ FreeIsks(k) = {} THEN k
       ELSE WakeSock([k EXCEPT !.sk[e] = [NoIsk EXCEPT !.st = "connected", !.type = "tcp", !.pcb = n],
                               !.pcb[n] = [st |-> "est", arg |-> e, buf |-> 0], !.sk[s].acc = Append(@, e)], s)

udp_recv_cb(k, p) ==
    LET s == k.pcb[p].arg
    IN IF s = 0 THEN k
       ELSE IF k.sk[s].shut_rd \/ k.sk[s].dgq >= DGRAMS THEN k ELSE WakeSock([k EXCEPT !.sk[s].dgq = @ + 1], s)

\* tcp_close failed before: the poll timer tries again, and gives up at last.
close_retry(k, p, fails) ==
    IF ~fails THEN [k EXCEPT !.pcb[p].st = "closing"]
    ELSE IF k.pcb[p].buf + 1 > MAXTRIES THEN [k EXCEPT !.pcb[p] = NoPcb] ELSE [k EXCEPT !.pcb[p].buf = @ + 1]

-----------------------------------------------------------------------------
(* What lwIP does on its own                                               *)

Open == {"est", "fin", "wait", "last"}       \* wait: the peer has closed, fin: we have, last: both
Gone(k, p) == tcp_err_cb([k EXCEPT !.pcb[p] = NoPcb], k.pcb[p].arg)

lwip_tcp(p) ==
    \/ pcbs[p].st = "syn" /\ InetBecomes(tcp_connected_cb([Ik EXCEPT !.pcb[p].st = "est"], p))
    \/ pcbs[p].st \in Open \cup {"syn"} /\ InetBecomes(Gone(Ik, p))
    \/ pcbs[p].st \in {"est", "fin"} /\ (pcbs[p].arg # 0 => isk[pcbs[p].arg].rx < WINDOW)
       /\ InetBecomes(tcp_recv_cb(Ik, p, FALSE))
    \/ pcbs[p].st \in {"est", "fin"}
       /\ InetBecomes(tcp_recv_cb([Ik EXCEPT !.pcb[p].st = IF @ = "est" THEN "wait" ELSE "timewait"], p, TRUE))
    \/ pcbs[p].st \in Open /\ pcbs[p].buf > 0 /\ InetBecomes(tcp_sent_cb([Ik EXCEPT !.pcb[p].buf = @ - 1], p))
    \/ pcbs[p].st = "closing" /\ InetBecomes([Ik EXCEPT !.pcb[p] = NoPcb])
    \/ pcbs[p].st = "retry" /\ \E fails \in BOOLEAN : InetBecomes(close_retry(Ik, p, fails))
    \/ /\ pcbs[p].st = "listen" /\ \E q \in ILoads[iload].pcbs : pcbs[q].st = "free"
       /\ InetBecomes(tcp_accept_cb(Ik, p, Min({q \in ILoads[iload].pcbs : pcbs[q].st = "free"})))

lwip_udp(p) == pcbs[p].st = "udp" /\ InetBecomes(udp_recv_cb(Ik, p))

-----------------------------------------------------------------------------
(* Calls                                                                   *)

InCallOn(k, s) == {t \in IThreads : k.thr[t].s = s}

\* tcp_arg(pcb, NULL), and no callbacks any more.
Detach(k, p) == [k EXCEPT !.pcb[p].arg = 0]

Closing(k, p, how) ==
    CASE how = "abort" -> [k EXCEPT !.pcb[p] = NoPcb]
      [] how = "close" -> [k EXCEPT !.pcb[p] = IF @.st \in Open \cup {"timewait"} THEN [@ EXCEPT !.st = "closing", !.buf = 0] ELSE NoPcb]
      [] how = "retry" -> [k EXCEPT !.pcb[p].st = "retry", !.pcb[p].buf = 0]

ReleasePcb(k, s, how) ==
    LET p == k.sk[s].pcb
    IN IF p = 0 THEN k
       ELSE IF k.sk[s].type = "udp" THEN [k EXCEPT !.pcb[p] = NoPcb]
       ELSE IF k.sk[s].st = "connected" /\ k.sk[s].rx > 0 THEN Closing(Detach(k, p), p, "abort")
       ELSE Closing(Detach(k, p), p, IF k.pcb[p].st \in Open THEN how ELSE "close")

RECURSIVE in_release(_, _, _)
in_release(k, s, how) ==
    IF k.sk[s].acc # <<>>
    THEN in_release(in_release([k EXCEPT !.sk[s].acc = Tail(@)], Head(k.sk[s].acc), how), s, how)
    ELSE [ReleasePcb(k, s, how) EXCEPT !.sk[s] = NoIsk]

PutSock(k, s, how) == IF k.sk[s].open \/ InCallOn(k, s) # {} THEN k ELSE in_release(k, s, how)
IReturn(k, t) == PutSock([k EXCEPT !.thr[t] = IReady], k.thr[t].s, "close")
IWait(k, t, pc) == [k EXCEPT !.thr[t].pc = pc, !.thr[t].st = "S"]

in_close(s, how) == isk[s].open /\ InetBecomes(PutSock([Ik EXCEPT !.sk[s].open = FALSE], s, how))

in_create(type) ==
    /\ FreeIsks(Ik) # {} /\ \E q \in ILoads[iload].pcbs : pcbs[q].st = "free"
    /\ \E s \in {Min(FreeIsks(Ik))}, p \in {Min({q \in ILoads[iload].pcbs : pcbs[q].st = "free"})} :
         InetBecomes([Ik EXCEPT !.sk[s] = [NoIsk EXCEPT !.st = "closed", !.type = type, !.open = TRUE, !.pcb = p],
                                !.pcb[p] = [NoPcb EXCEPT !.st = IF type = "udp" THEN "udp" ELSE "closed", !.arg = s]])

in_bind(s) ==
    /\ isk[s].open /\ isk[s].type = "tcp" /\ isk[s].pcb # 0 /\ isk[s].st = "closed"
    /\ InetBecomes([Ik EXCEPT !.sk[s].st = "bound"])

\* lwIP replaces the connection by a smaller one for listening.
in_listen(s) ==
    /\ isk[s].open /\ isk[s].type = "tcp" /\ isk[s].st \in {"closed", "bound"} /\ isk[s].pcb # 0
    /\ InetBecomes([Ik EXCEPT !.sk[s].st = "listen", !.pcb[isk[s].pcb].st = "listen"])

ICalling(t, s) == ithr[t].pc = "user" /\ isk[s].open
IBegin(t, s, n, all) == [Ik EXCEPT !.thr[t] = [IReady EXCEPT !.s = s, !.n = n, !.all = all]]

in_accept(k, t, s) ==
    IF k.sk[s].st # "listen" THEN IReturn(k, t)
    ELSE IF k.sk[s].acc # <<>>
    THEN IReturn([k EXCEPT !.sk[s].acc = Tail(@), !.sk[Head(k.sk[s].acc)].open = TRUE], t)
    ELSE IWait(k, t, "accept")

in_connect(t, s) ==
    /\ ICalling(t, s) /\ isk[s].type = "tcp" /\ isk[s].st \in {"closed", "bound"} /\ isk[s].pcb # 0
    /\ InetBecomes(IWait([IBegin(t, s, 0, FALSE) EXCEPT !.sk[s].err = FALSE, !.sk[s].st = "connecting",
                             !.pcb[isk[s].pcb].st = "syn"], t, "connect"))

SendFails(u) == u.err \/ u.st # "connected" \/ u.shut_wr \/ u.pcb = 0
IRoom(k, u) == k.pcb[u.pcb].buf < SNDBUF
TcpSendWaits(k, u) == ~(u.err \/ u.st # "connected" \/ u.pcb = 0) /\ ~IRoom(k, u)

RECURSIVE tcp_send(_, _)
tcp_send(k, t) ==
    LET u == k.sk[k.thr[t].s]
    IN IF SendFails(u) \/ k.thr[t].done = k.thr[t].n THEN IReturn(k, t)
       ELSE IF IRoom(k, u) THEN tcp_send([k EXCEPT !.pcb[u.pcb].buf = @ + 1, !.thr[t].done = @ + 1], t)
       ELSE IWait(k, t, "send")

TcpRecvWaits(u) == ~(u.rx > 0 \/ u.eof \/ u.err \/ u.shut_rd)

RECURSIVE tcp_recvmsg(_, _)
tcp_recvmsg(k, t) ==
    LET s == k.thr[t].s
        u == k.sk[s]
        o == k.thr[t]
        over == u.eof \/ u.shut_rd
    IN IF o.done = o.n THEN IReturn(k, t)
       ELSE IF u.rx > 0 THEN tcp_recvmsg([k EXCEPT !.sk[s].rx = @ - 1, !.thr[t].done = @ + 1], t)
       ELSE IF o.done > 0 /\ (~o.all \/ over \/ u.err) THEN IReturn(k, t)
       ELSE IF u.err /\ o.done = 0 THEN IReturn([k EXCEPT !.sk[s].err = FALSE], t)
       ELSE IF over \/ u.st \in {"bound", "listen"} THEN IReturn(k, t)
       ELSE IWait(k, t, "recv")

DgramWaits(u) == u.dgq = 0 /\ ~u.shut_rd
dgram_recv(k, t) ==
    LET s == k.thr[t].s
    IN IF k.sk[s].dgq > 0 THEN IReturn([k EXCEPT !.sk[s].dgq = @ - 1], t)
       ELSE IF k.sk[s].shut_rd THEN IReturn(k, t) ELSE IWait(k, t, "drecv")

in_sendmsg(t, s, n) == ICalling(t, s) /\ isk[s].type = "tcp" /\ InetBecomes(tcp_send(IBegin(t, s, n, FALSE), t))
in_recvmsg(t, s, n, all) ==
    /\ ICalling(t, s)
    /\ InetBecomes(IF isk[s].type = "tcp" THEN tcp_recvmsg(IBegin(t, s, n, all), t)
                   ELSE dgram_recv(IBegin(t, s, n, all), t))

Shutting(k, s, how) ==
    LET p == k.sk[s].pcb
        flags == [k EXCEPT !.sk[s].shut_rd = @ \/ how # "wr", !.sk[s].shut_wr = @ \/ how # "rd"]
    IN IF k.sk[s].st # "connected" \/ p = 0 THEN flags
       ELSE [flags EXCEPT !.pcb[p].st = IF how = "rd" THEN @ ELSE CASE @ = "est" -> "fin" [] @ = "wait" -> "last" [] OTHER -> @,
                          !.sk[s].rx = IF how = "wr" THEN @ ELSE 0]
in_shutdown(s, how) ==
    /\ isk[s].open /\ (isk[s].type = "tcp" => isk[s].st \in {"connected", "listen"})
    /\ InetBecomes(WakeSock(Shutting(Ik, s, how), s))

\* in_poll, for reading and for writing.
CanRead(u) ==
    CASE u.type = "udp" -> u.dgq > 0 \/ u.shut_rd
      [] u.st = "listen" -> u.acc # <<>>
      [] OTHER -> u.rx > 0 \/ u.eof \/ u.shut_rd
CanWrite(k, u) ==
    \/ u.type = "udp"
    \/ u.st = "connected" /\ ~u.shut_wr /\ u.pcb # 0 /\ IRoom(k, u)
    \/ u.st = "closed" /\ (u.err \/ u.eof)
    \/ u.eof /\ u.shut_wr
in_poll(k, t) ==
    LET u == k.sk[k.thr[t].s]
    IN IF (IF k.thr[t].all THEN CanWrite(k, u) ELSE CanRead(u)) \/ u.err THEN IReturn(k, t) ELSE IWait(k, t, "poll")

iwoken(t) ==
    LET u == isk[ithr[t].s]
        k == [Ik EXCEPT !.thr[t].st = "R"]
    IN /\ ithr[t].st = "R"
       /\ \/ ithr[t].pc = "accept" /\ InetBecomes(in_accept(k, t, ithr[t].s))
          \/ ithr[t].pc = "connect" /\ InetBecomes(IF u.st = "connecting" THEN IWait(k, t, "connect") ELSE IReturn(k, t))
          \/ ithr[t].pc = "send" /\ InetBecomes(IF TcpSendWaits(k, u) THEN IWait(k, t, "send") ELSE tcp_send(k, t))
          \/ ithr[t].pc = "recv" /\ InetBecomes(IF TcpRecvWaits(u) THEN IWait(k, t, "recv") ELSE tcp_recvmsg(k, t))
          \/ ithr[t].pc = "drecv" /\ InetBecomes(dgram_recv(k, t))
          \/ ithr[t].pc = "poll" /\ InetBecomes(in_poll(k, t))

\* A signal or the socket's timeout.
iinterrupted(t) == ithr[t].st = "S" /\ InetBecomes(IReturn(Ik, t))

-----------------------------------------------------------------------------
InetInit ==
    /\ isk = [s \in ISocks |-> NoIsk] /\ pcbs = [p \in Pcbs |-> NoPcb]
    /\ ithr = [t \in IThreads |-> IReady] /\ iload \in DOMAIN ILoads

Called(call) == call \in ILoads[iload].calls

InetNext ==
    \/ \E p \in Pcbs : lwip_tcp(p) \/ lwip_udp(p)
    \/ \E type \in ILoads[iload].types : in_create(type)
    \/ \E s \in ISocks :
         \/ \E how \in {"close", "retry"} : in_close(s, how)
         \/ Called("listen") /\ (in_bind(s) \/ in_listen(s))
         \/ \E how \in {"rd", "wr", "rdwr"} : Called("shutdown") /\ in_shutdown(s, how)
    \/ \E t \in IThreads :
         \/ iwoken(t) \/ iinterrupted(t)
         \/ \E s \in ISocks :
              \/ Called("listen") /\ ICalling(t, s) /\ InetBecomes(in_accept(IBegin(t, s, 0, FALSE), t, s))
              \/ Called("connect") /\ in_connect(t, s)
              \/ Called("send") /\ in_sendmsg(t, s, SNDBUF + 1)
              \/ \E all \in BOOLEAN : Called("recv") /\ in_recvmsg(t, s, 2, all)
              \/ \E out \in BOOLEAN : Called("poll") /\ ICalling(t, s) /\ InetBecomes(in_poll(IBegin(t, s, 0, out), t))

InetSpec == InetInit /\ [][InetNext]_inet_vars

-----------------------------------------------------------------------------
(***************************************************************************)
(* inet.c and lwIP agree on who owns what, however closes, resets and      *)
(* incoming connections cross: a connection's argument is a live socket    *)
(* that points back at it, a socket never points at a freed connection,    *)
(* one without a socket is on its way out, and a socket belongs to a       *)
(* descriptor, a call or the queue of one listener.                        *)
(***************************************************************************)
InetExact ==
    /\ \A p \in Pcbs :
         /\ pcbs[p].arg # 0 => isk[pcbs[p].arg].st # "free" /\ isk[pcbs[p].arg].pcb = p
         /\ pcbs[p].st \notin {"free", "closing", "retry"} => pcbs[p].arg # 0
    /\ \A s \in ISocks : isk[s].st # "free" =>
         /\ isk[s].pcb # 0 => pcbs[isk[s].pcb].st # "free" /\ pcbs[isk[s].pcb].arg = s
         /\ isk[s].st \in {"bound", "connecting", "connected", "listen"} => isk[s].pcb # 0
         /\ isk[s].st = "listen" <=> (isk[s].pcb # 0 /\ pcbs[isk[s].pcb].st = "listen")
         /\ Cardinality({l \in ISocks : \E i \in DOMAIN isk[l].acc : isk[l].acc[i] = s})
              = (IF isk[s].open \/ InCallOn(Ik, s) # {} THEN 0 ELSE 1)

(***************************************************************************)
(* No wake-up of inet.c is lost: a call asleep is one that would still     *)
(* have to wait, whatever callback or call of another thread came last;    *)
(* and on a socket in_poll reports ready, the call would not sleep.        *)
(***************************************************************************)
InetSleepersBlocked ==
    /\ \A t \in IThreads : ithr[t].st = "S" =>
         \E u \in {isk[ithr[t].s]} :
            CASE ithr[t].pc = "accept" -> u.acc = <<>> /\ u.st = "listen"
              [] ithr[t].pc = "connect" -> u.st = "connecting"
              [] ithr[t].pc = "send" -> TcpSendWaits(Ik, u)
              [] ithr[t].pc = "recv" -> TcpRecvWaits(u)
              [] ithr[t].pc = "drecv" -> DgramWaits(u)
              [] ithr[t].pc = "poll" -> ~(IF ithr[t].all THEN CanWrite(Ik, u) ELSE CanRead(u))
    /\ \A s \in ISocks : isk[s].open /\ isk[s].type = "tcp" /\ isk[s].st # "listen" =>
         /\ CanRead(isk[s]) => ~TcpRecvWaits(isk[s])
         /\ CanWrite(Ik, isk[s]) => SendFails(isk[s]) \/ IRoom(Ik, isk[s])
=============================================================================
