------------------------------- MODULE Userfs -------------------------------
(***************************************************************************)
(* userfs: files kept by a server process.  The kernel sends one request   *)
(* at a time over the mount's channel and waits for the matching reply, at *)
(* most UFS_TIMEOUT; the server (user/lib/ufs_server.c) may be slow or be  *)
(* killed at any point, and init starts another that attaches to the mount.*)
(*                                                                         *)
(* The served tree is one directory; a file is its size.  Numbers are not  *)
(* given out again.  A restarted server greets with the same root.         *)
(***************************************************************************)
EXTENDS Integers, Sequences, FiniteSets

CONSTANTS
    Clients,              \* positive numbers
    UNames, Inos,
    UChunks,              \* requests that one long write takes
    UOps,                 \* calls that each client makes
    MaxSize,              \* bound on sizes
    IdMod,                \* request numbers wrap at 2^32; only equality matters
    MaxDeaths, MaxStalls  \* servers killed; requests the server sits on

VARIABLES
    sb,      \* struct ufs_sb: chan, dead, id
    ulock,   \* s->lock: the client, or Nobody
    clients, \* the calls in progress and the open files
    icache,  \* icache[i]: the kernel's inode of number i: ref, size
    msgs,    \* the mount's channel: req, rep
    server,  \* st, chan, req
    disk,    \* what the server keeps: names and sizes
    unsure,  \* inodes a call on which failed: their size may be old
    spent    \* deaths and stalls so far; whether a live server timed out

ufs_vars == <<sb, ulock, clients, icache, msgs, server, disk, unsure, spent>>

Nobody == 0

ASSUME UfsAssumption == IsFiniteSet(Clients) /\ Nobody \notin Clients /\ 0 \notin Inos

Caller(pc, op, n, left, f, off) ==
    [pc |-> pc, op |-> op, n |-> n, left |-> left, f |-> f, off |-> off]
UIdle(f) == Caller("user", "none", "", 0, f, 0)   \* with file f open, or 0
Req(id, op, n, i, off) == [id |-> id, op |-> op, n |-> n, i |-> i, off |-> off]
Rep(id, ok, i, size) == [id |-> id, ok |-> ok, i |-> i, size |-> size]
NoReq == Req(0, "none", "", 0, 0)
InoObj(ref, size) == [ref |-> ref, size |-> size]
NoInoObj == InoObj(0, 0)
Mount(chan, dead, id) == [chan |-> chan, dead |-> dead, id |-> id]
Server(st, chan, req) == [st |-> st, chan |-> chan, req |-> req]
Msgs(req, rep) == [req |-> req, rep |-> rep]
Tree(dir, size, given) == [dir |-> dir, size |-> size, given |-> given]

PeerClosed == server.st \in {"down", "attach"} \/ server.chan # sb.chan

(***************************************************************************)
(* The kernel's inodes                                                     *)
(***************************************************************************)
apply_attr(ic, i, size) == [ic EXCEPT ![i] = InoObj(ic[i].ref, size)]
ufs_iget(ic, i, size) == [ic EXCEPT ![i] = InoObj(ic[i].ref + 1, size)]
ufs_iput(ic, i) == [ic EXCEPT ![i] = IF ic[i].ref = 1 THEN NoInoObj ELSE InoObj(ic[i].ref - 1, ic[i].size)]

(***************************************************************************)
(* Clients                                                                 *)
(***************************************************************************)
\* A call begins; a write past its chunk takes the lock again for the next.
Call(c, op, n) ==
    /\ clients[c].pc = "user"
    /\ op \in {"lookup", "create", "unlink"} \/ clients[c].f # 0
    /\ op \in {"lookup", "create"} => clients[c].f = 0
    /\ clients' = [clients EXCEPT ![c] =
           Caller("lock", op, n, IF op = "write" THEN UChunks ELSE 1, clients[c].f,
                  IF op = "write" THEN icache[clients[c].f].size ELSE 0)]
    /\ UNCHANGED <<sb, ulock, icache, msgs, server, disk, unsure, spent>>

ufs_close(c) ==
    /\ clients[c].pc = "user" /\ clients[c].f # 0
    /\ clients' = [clients EXCEPT ![c] = UIdle(0)]
    /\ icache' = ufs_iput(icache, clients[c].f)
    /\ unsure' = {i \in unsure : icache'[i].ref > 0}
    /\ UNCHANGED <<sb, ulock, msgs, server, disk, spent>>

\* The call fails with -EIO.
Fail(c, s) ==
    /\ clients' = [clients EXCEPT ![c] = UIdle(clients[c].f)]
    /\ sb' = s
    /\ ulock' = Nobody
    /\ UNCHANGED <<icache, server, disk>>

NextId == (sb.id + 1) % IdMod

\* begin and the first half of ufs_call.
begin(c) ==
    /\ clients[c].pc = "lock" /\ ulock = Nobody
    /\ IF sb.dead
       THEN Fail(c, sb) /\ UNCHANGED <<msgs, unsure>>
       ELSE IF PeerClosed
       THEN Fail(c, Mount(sb.chan, TRUE, NextId)) /\ UNCHANGED <<msgs, unsure>>
       ELSE LET o == clients[c]
            IN  /\ ulock' = c
                /\ sb' = Mount(sb.chan, sb.dead, NextId)
                /\ msgs' = Msgs(Append(msgs.req, Req(NextId, o.op, o.n, o.f, o.off)), msgs.rep)
                /\ clients' = [clients EXCEPT ![c] = Caller("wait", o.op, o.n, o.left, o.f, o.off)]
                /\ UNCHANGED <<icache, server, disk, unsure>>
    /\ UNCHANGED spent

\* Mutant: the inode keeps the size it had.
AnsweredNoAttr(c, r) ==
    LET o == clients[c]
        got == o.op \in {"lookup", "create"} /\ r.ok
    IN /\ clients' = [clients EXCEPT ![c] = UIdle(IF got THEN r.i ELSE o.f)]
       /\ icache' = IF got THEN ufs_iget(icache, r.i, r.size) ELSE icache
       /\ UNCHANGED unsure

\* What a reply does to the caller and to the kernel's inodes.
Answered(c, r) ==
    LET o == clients[c]
        more == o.op = "write" /\ o.left > 1
        got == o.op \in {"lookup", "create"} /\ r.ok
    IN /\ clients' = [clients EXCEPT ![c] =
              IF r.ok /\ more THEN Caller("lock", o.op, o.n, o.left - 1, o.f, o.off + 1)
              ELSE UIdle(IF got THEN r.i ELSE o.f)]
       /\ icache' = IF got THEN ufs_iget(icache, r.i, r.size)
                    ELSE IF r.ok /\ o.op # "unlink" THEN apply_attr(icache, o.f, r.size)
                    ELSE icache
       /\ unsure' = IF r.ok /\ o.op # "unlink" THEN unsure \ {r.i} ELSE unsure

\* A reply with another number is dropped and the wait goes on.
ufs_reply(c) ==
    /\ clients[c].pc = "wait" /\ msgs.rep # <<>>
    /\ msgs' = Msgs(msgs.req, Tail(msgs.rep))
    /\ IF Head(msgs.rep).id # sb.id THEN UNCHANGED <<clients, icache, ulock, unsure>>
       ELSE Answered(c, Head(msgs.rep)) /\ ulock' = Nobody
    /\ UNCHANGED <<sb, server, disk, spent>>

GivesUp(c) == PeerClosed \/ server.st = "stalled"

\* No reply, and the server's end is closed or UFS_TIMEOUT has passed.
ufs_dead(c) ==
    /\ clients[c].pc = "wait" /\ msgs.rep = <<>> /\ GivesUp(c)
    /\ Fail(c, Mount(sb.chan, TRUE, sb.id))
    /\ unsure' = unsure \cup ({clients[c].f} \ {0})
    /\ spent' = [spent EXCEPT !.live = @ \/ ~PeerClosed]
    /\ UNCHANGED msgs

(***************************************************************************)
(* The server                                                              *)
(***************************************************************************)
\* ufs_serve: a channel with the greeting in it, then mount with "attach".
ufs_serve ==
    /\ server.st = "down"
    /\ server' = Server("attach", 1 - sb.chan, NoReq)
    /\ UNCHANGED <<sb, ulock, clients, icache, msgs, disk, unsure, spent>>

\* Mutant: a mount that no call has found dead is not taken over.
AttachableDead == sb.dead
Attachable == sb.dead \/ PeerClosed

ufs_attach ==
    /\ server.st = "attach" /\ ulock = Nobody
    /\ IF Attachable
       THEN /\ sb' = Mount(server.chan, FALSE, sb.id)
            /\ server' = Server("serve", server.chan, server.req)
            /\ msgs' = Msgs(<<>>, <<>>)
       ELSE server' = Server("down", server.chan, server.req) /\ UNCHANGED <<sb, msgs>>
    /\ UNCHANGED <<ulock, clients, icache, disk, unsure, spent>>

olux_msg_recv ==
    /\ server.st = "serve" /\ msgs.req # <<>>
    /\ server' = Server("handle", server.chan, Head(msgs.req))
    /\ msgs' = Msgs(Tail(msgs.req), msgs.rep)
    /\ UNCHANGED <<sb, ulock, clients, icache, disk, unsure, spent>>

\* handle: the request's effect on the tree, and the reply to send.
Replies(i, d) ==
    /\ server' = Server("reply", server.chan, Rep(server.req.id, TRUE, i, d.size[i]))
    /\ disk' = d
Refuses ==
    /\ server' = Server("reply", server.chan, Rep(server.req.id, FALSE, 0, 0))
    /\ disk' = disk
NewIno == CHOOSE i \in Inos \ disk.given : TRUE
WithName(n, i, given) == Tree([disk.dir EXCEPT ![n] = i], disk.size, given)
WithSize(i, size) == Tree(disk.dir, [disk.size EXCEPT ![i] = size], disk.given)

op_lookup(q) ==
    IF disk.dir[q.n] = 0 THEN Refuses ELSE Replies(disk.dir[q.n], disk)
op_create(q) ==
    IF disk.dir[q.n] # 0 \/ Inos \subseteq disk.given THEN Refuses
    ELSE Replies(NewIno, WithName(q.n, NewIno, disk.given \cup {NewIno}))
op_unlink(q) ==
    IF disk.dir[q.n] = 0 THEN Refuses ELSE Replies(disk.dir[q.n], WithName(q.n, 0, disk.given))
op_write(q) ==
    IF q.off >= MaxSize THEN Refuses
    ELSE Replies(q.i, WithSize(q.i, IF q.off >= disk.size[q.i] THEN q.off + 1 ELSE disk.size[q.i]))
op_setattr(q) == Replies(q.i, WithSize(q.i, 0))

handle ==
    /\ server.st = "handle"
    /\ \/ server.req.op = "lookup" /\ op_lookup(server.req)
       \/ server.req.op = "create" /\ op_create(server.req)
       \/ server.req.op = "unlink" /\ op_unlink(server.req)
       \/ server.req.op = "write" /\ op_write(server.req)
       \/ server.req.op = "setattr" /\ op_setattr(server.req)
    /\ UNCHANGED <<sb, ulock, clients, icache, msgs, unsure, spent>>

olux_msg_send ==
    /\ server.st = "reply"
    /\ msgs' = Msgs(msgs.req, Append(msgs.rep, server.req))
    /\ server' = Server("serve", server.chan, NoReq)
    /\ UNCHANGED <<sb, ulock, clients, icache, disk, unsure, spent>>

\* The server sits on a request for longer than UFS_TIMEOUT, or comes back.
Stalls ==
    /\ server.st = "handle" /\ spent.stalls < MaxStalls
    /\ server' = Server("stalled", server.chan, server.req)
    /\ spent' = [spent EXCEPT !.stalls = @ + 1]
    /\ UNCHANGED <<sb, ulock, clients, icache, msgs, disk, unsure>>
Resumes ==
    /\ server.st = "stalled" /\ sb.dead
    /\ server' = Server("handle", server.chan, server.req)
    /\ UNCHANGED <<sb, ulock, clients, icache, msgs, disk, unsure, spent>>

Dies ==
    /\ server.st # "down" /\ spent.deaths < MaxDeaths
    /\ server' = Server("down", server.chan, NoReq)
    /\ spent' = [spent EXCEPT !.deaths = @ + 1]
    /\ UNCHANGED <<sb, ulock, clients, icache, msgs, disk, unsure>>

UfsInit ==
    /\ sb = Mount(0, FALSE, 0) /\ ulock = Nobody
    /\ clients = [c \in Clients |-> UIdle(0)]
    /\ icache = [i \in Inos |-> NoInoObj]
    /\ msgs = Msgs(<<>>, <<>>)
    /\ server = Server("serve", 0, NoReq)
    /\ disk = Tree([n \in UNames |-> 0], [i \in Inos |-> 0], {})
    /\ unsure = {} /\ spent = [deaths |-> 0, stalls |-> 0, live |-> FALSE]

ClientStep(c) == begin(c) \/ ufs_reply(c) \/ ufs_dead(c)
ServerStep == ufs_serve \/ ufs_attach \/ olux_msg_recv \/ handle \/ olux_msg_send

UfsNext ==
    \/ \E c \in Clients : ClientStep(c) \/ ufs_close(c) \/ \E op \in UOps[c], n \in UNames : Call(c, op, n)
    \/ ServerStep \/ Stalls \/ Resumes \/ Dies

UfsSpec == UfsInit /\ [][UfsNext]_ufs_vars

\* The kernel runs its threads and its mutex is fair; a server that is not
\* stalled runs, and init starts another for one that died.
UfsFairness == (\A c \in Clients : SF_ufs_vars(ClientStep(c))) /\ WF_ufs_vars(ServerStep)

(***************************************************************************)
(* Properties                                                              *)
(***************************************************************************)
\* Between calls the size the kernel has of an open file is the server's, even
\* across servers, unless a call on that file failed since the last answer; an
\* inode is cached exactly as long as files are open on it (apply_attr,
\* ufs_iget, ufs_evict, ufs_attach).
UfsExact ==
    /\ \A i \in Inos : icache[i].ref = Cardinality({c \in Clients : clients[c].f = i})
    /\ ulock = Nobody =>
         \A i \in Inos \ unsure : icache[i].ref > 0 => icache[i].size = disk.size[i]

\* Every call on the mount returns, whether the server answers, stalls or dies,
\* and after a death the mount is served again ("operations fail with -EIO
\* until a restarted server re-attaches"), unless a server that still lives was
\* given up (ufs_call, ufs_attach).
UfsLive ==
    /\ \A c \in Clients : clients[c].pc # "user" ~> clients[c].pc = "user"
    /\ <>[]((server.st \in {"serve", "handle", "reply"} /\ server.chan = sb.chan /\ ~sb.dead) \/ spent.live)

=============================================================================
