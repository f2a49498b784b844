-------------------------------- MODULE Ipc --------------------------------
(***************************************************************************)
(* How processes talk to each other: the channels of kernel/channel.c; or  *)
(* pipes, FIFOs, eventfds and poll; or local sockets; or TCP and UDP       *)
(* sockets.  scope is fixed and says which.                                *)
(***************************************************************************)
EXTENDS Channel, Pipe, Unix, Inet

CONSTANTS w1, w2, u1,   \* the threads of the pipes ...
          parent, child \* ... and their processes

VARIABLE scope

MCProcOf == [t \in PThreads |-> IF t = u1 THEN child ELSE parent]

\* In "pipe" w1 and w2 write, w2 and u1 read; otherwise there is one reader and
\* one writer.
MCRLens ==
    [l \in PLoads |-> [t \in PThreads |->
        CASE l = "pipe" -> IF t = w1 THEN {} ELSE {2}
          [] l = "fault" -> IF t = w2 THEN {1, 2} ELSE {}
          [] OTHER -> IF t = w1 THEN {2} ELSE {}]]
MCWLens ==
    [l \in PLoads |-> [t \in PThreads |->
        CASE l = "pipe" -> IF t = w1 THEN {3} ELSE IF t = w2 THEN {2} ELSE {}
          [] l = "fault" -> IF t = w1 THEN {3} ELSE {}
          [] OTHER -> IF t = w2 THEN {2} ELSE {}]]

\* Connections being made; a stream; records; datagrams.
MCULoads ==
    [stream |-> [types |-> {"stream"}, calls |-> {"socket", "bind", "listen", "connect"}, socks |-> {1, 2, 3, 4}, lens |-> {}],
     data   |-> [types |-> {"stream"}, calls |-> {"pair", "send", "recv"}, socks |-> {1, 2}, lens |-> {3}],
     record |-> [types |-> {"seq"}, calls |-> {"pair", "send", "recv", "shutdown", "poll"}, socks |-> {1, 2}, lens |-> {2}],
     dgram  |-> [types |-> {"dgram"}, calls |-> {"socket", "bind", "connect", "dissolve", "sendto", "recv"},
                 socks |-> {1, 2, 3}, lens |-> {2}]]
MCILoads ==
    [listen |-> [types |-> {"tcp"}, calls |-> {"listen"}, socks |-> {1, 2}, pcbs |-> {1, 2}],
     data   |-> [types |-> {"tcp"}, calls |-> {"connect", "send", "recv", "shutdown", "poll"}, socks |-> {1}, pcbs |-> {1}],
     udp    |-> [types |-> {"udp"}, calls |-> {"recv", "shutdown", "poll"}, socks |-> {1}, pcbs |-> {1}]]

ipc_vars == <<vars, pipe_vars, unix_vars, inet_vars, scope>>

\* A part that is not used has its first load.
IpcInit ==
    /\ scope \in {"channel", "pipe", "unix", "inet"}
    /\ Init /\ PipeInit /\ UnixInit /\ InetInit
    /\ scope # "pipe" => pload = CHOOSE l \in PLoads : TRUE
    /\ scope # "unix" => sload = "data"
    /\ scope # "inet" => iload = "data"

IpcNext ==
    /\ UNCHANGED scope
    /\ \/ scope = "channel" /\ Next /\ UNCHANGED <<pipe_vars, unix_vars, inet_vars>>
       \/ scope = "pipe" /\ PipeNext /\ UNCHANGED <<vars, unix_vars, inet_vars>>
       \/ scope = "unix" /\ UnixNext /\ UNCHANGED <<vars, pipe_vars, inet_vars>>
       \/ scope = "inet" /\ InetNext /\ UNCHANGED <<vars, pipe_vars, unix_vars>>

IpcSpec == IpcInit /\ [][IpcNext]_ipc_vars

(***************************************************************************)
(* Channels keep count: see QueuesExact and FilesExact of Channel.         *)
(***************************************************************************)
ChannelsExact == scope = "channel" => QueuesExact /\ FilesExact

(***************************************************************************)
(* Files, descriptors and pipes keep count, and writes of up to PIPE_BUF   *)
(* bytes are whole: see EndsExact and WritesWhole of Pipe.                 *)
(***************************************************************************)
PipesExact == scope = "pipe" => EndsExact /\ WritesWhole

(***************************************************************************)
(* Sockets keep count, of each other, of what is queued and of lwIP's      *)
(* connections: see UnixExact of Unix and InetExact of Inet.               *)
(***************************************************************************)
SocketsExact == (scope = "unix" => UnixExact) /\ (scope = "inet" => InetExact)

(***************************************************************************)
(* Whoever sleeps in a call has nothing to do there: on no channel, pipe,  *)
(* FIFO, eventfd, local or Internet socket, and in no poll, does a thread  *)
(* sleep while what it waits for is the case (wait_event, wake_up and the  *)
(* callbacks of each).                                                     *)
(***************************************************************************)
NobodySleepsInVain ==
    /\ scope = "channel" => SleepersBlocked
    /\ scope = "pipe" => PipeSleepersBlocked
    /\ scope = "unix" => UnixSleepersBlocked
    /\ scope = "inet" => InetSleepersBlocked
=============================================================================
