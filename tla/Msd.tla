-------------------------------- MODULE Msd --------------------------------
(***************************************************************************)
(* USB mass storage, drivers/usb/storage.c: SCSI commands over the         *)
(* bulk-only transport.  A command is three transfers, each of which may   *)
(* stall or fail, before or after the device has got it.  Calls come one   *)
(* at a time (io_lock).  A chunk of MAX_XFER bytes is one block here.      *)
(***************************************************************************)
EXTENDS Integers

CONSTANTS
    NBlocks,      \* chunks on the medium
    ATTEMPTS,     \* tries of a command, 3
    READY_TRIES,  \* TEST UNIT READY commands of a probe, 20
    Faults        \* a bound: transfers of a call that fail

VARIABLES
    msd,      \* struct msd and the call under way
    bot,      \* the device's side of the transport
    medium    \* what is on the medium

msd_vars == <<msd, bot, medium>>

NoCmd == [want |-> "cbw", cmd |-> "none", tag |-> 0, blk |-> 1, ok |-> TRUE, halt |-> FALSE]

Data(c) == c \in {"read", "write", "inq", "sense", "cap"}
MsdBecomes(m, b) == msd' = m /\ bot' = b /\ UNCHANGED medium

-----------------------------------------------------------------------------
(* scsi: pc is the transfer under way, "cbw", "data", "csw" or "csw2"      *)

\* A command begins with a new tag (two are enough to tell them apart).
Scsi(m, cmd) == [m EXCEPT !.pc = "cbw", !.cmd = cmd, !.tag = 1 - @]

StageAfter(c) == IF Data(c) THEN "data" ELSE "csw"

\* The command block arrives: a device that waits for one takes it, one that
\* does not stalls.  The device may refuse the command.
SendCbw ==
    /\ msd.pc = "cbw" /\ ~msd.gone
    /\ \/ /\ bot.want = "cbw" /\ ~bot.halt
          /\ \E ok \in BOOLEAN : MsdBecomes([msd EXCEPT !.pc = StageAfter(msd.cmd)],
               [want |-> StageAfter(msd.cmd), cmd |-> msd.cmd, tag |-> msd.tag, blk |-> msd.blk, ok |-> ok, halt |-> FALSE])
       \/ /\ bot.want # "cbw" \/ bot.halt
          /\ MsdBecomes([msd EXCEPT !.pc = "recover"], [bot EXCEPT !.halt = TRUE])

\* The data stage: data moves, or the device stalls what it refused; the stall
\* is cleared and the status still read.
DataStage ==
    /\ msd.pc = "data" /\ ~msd.gone /\ bot.want = "data"
    /\ LET b == [bot EXCEPT !.want = "csw"] IN
       \/ /\ ~bot.ok /\ MsdBecomes([msd EXCEPT !.pc = "csw"], b)
       \/ /\ bot.cmd = "read" /\ bot.ok
          /\ MsdBecomes([msd EXCEPT !.pc = "csw", !.buf = medium[bot.blk]], b)
       \/ /\ bot.cmd = "write" /\ msd' = [msd EXCEPT !.pc = "csw"] /\ bot' = b
          /\ medium' = [medium EXCEPT ![bot.blk] = IF bot.ok THEN msd.buf ELSE @]
       \/ /\ bot.cmd \notin {"read", "write"} /\ bot.ok /\ MsdBecomes([msd EXCEPT !.pc = "csw"], b)

\* A status that names the command and is not a phase error is the answer.
Accepts(m, b) == b.tag = m.tag

Answer(m, ok) == [m EXCEPT !.pc = "done", !.res = IF ok THEN 0 ELSE 1]

\* The status stage, tried once more after a stall.
ReadCsw ==
    /\ msd.pc \in {"csw", "csw2"} /\ ~msd.gone
    /\ \/ /\ bot.want = "csw"
          /\ MsdBecomes(IF Accepts(msd, bot) THEN Answer(msd, bot.ok) ELSE [msd EXCEPT !.pc = "recover"],
                        [bot EXCEPT !.want = "cbw"])
       \/ /\ bot.want = "csw" /\ msd.faults > 0                  \* a stall
          /\ MsdBecomes([msd EXCEPT !.faults = @ - 1, !.pc = IF msd.pc = "csw" THEN "csw2" ELSE "recover"], bot)
       \/ /\ bot.want # "csw" /\ MsdBecomes([msd EXCEPT !.pc = "recover"], [bot EXCEPT !.halt = TRUE])

\* Any failed transfer of a command ends it; only a stalled data stage does not.
AfterFailureLax(pc) == IF pc = "data" THEN "csw" ELSE "recover"
AfterFailure(pc) == "recover"

\* A transfer fails: it never reached the device, or the device went on.
TransferFails ==
    /\ msd.pc \in {"cbw", "data", "csw", "csw2"} /\ msd.faults > 0
    /\ LET m == [msd EXCEPT !.pc = AfterFailure(@), !.faults = @ - 1] IN
       \/ MsdBecomes(m, bot)
       \/ /\ msd.pc = "cbw" /\ bot.want = "cbw" /\ ~bot.halt
          /\ MsdBecomes(m, [want |-> StageAfter(msd.cmd), cmd |-> msd.cmd, tag |-> msd.tag, blk |-> msd.blk,
                            ok |-> TRUE, halt |-> FALSE])
       \/ /\ msd.pc = "data" /\ bot.want = "data" /\ MsdBecomes(m, [bot EXCEPT !.want = "csw"])
       \/ /\ msd.pc \in {"csw", "csw2"} /\ bot.want = "csw" /\ MsdBecomes(m, [bot EXCEPT !.want = "cbw"])

\* The reset makes the device wait for a command again, unless it fails too.
reset_recovery ==
    /\ msd.pc = "recover"
    /\ \/ MsdBecomes([msd EXCEPT !.pc = "done", !.res = -1], NoCmd)
       \/ msd.faults > 0 /\ MsdBecomes([msd EXCEPT !.pc = "done", !.res = -1, !.faults = @ - 1], bot)

\* The device is unplugged: what is under way fails, and so does all that follows.
Gone ==
    \/ ~msd.gone /\ MsdBecomes([msd EXCEPT !.gone = TRUE], bot)
    \/ msd.gone /\ msd.pc \in {"cbw", "data", "csw", "csw2"} /\ MsdBecomes([msd EXCEPT !.pc = "done", !.res = -2], bot)

-----------------------------------------------------------------------------
(* Calls                                                                   *)

Done(m, r) == [m EXCEPT !.pc = "ret", !.ret = r]

\* The command of an attempt; a write fills the buffer each time.
Attempt(m) ==
    IF m.op = "read" THEN Scsi(m, "read") ELSE Scsi([m EXCEPT !.buf = m.val], "write")

\* Three attempts at each chunk; a check condition asks for the sense first.
\* Whatever failed, the caller sees EIO.
Retry(m) == IF m.attempt + 1 < ATTEMPTS THEN Attempt([m EXCEPT !.attempt = @ + 1]) ELSE Done(m, -1)
Chunk(m) ==
    LET right == medium[m.blk] = IF m.op = "read" THEN m.buf ELSE m.val
        n == [m EXCEPT !.left = @ - 1, !.bad = @ \/ ~right]
    IN IF n.left = 0 THEN Done(n, 0) ELSE Attempt([n EXCEPT !.blk = @ + 1, !.attempt = 0])
msd_rw(m) ==
    IF m.cmd = "sense" THEN Retry(m)
    ELSE IF m.res = 0 THEN Chunk(m)
    ELSE IF m.res = -2 THEN Done(m, -1)
    ELSE IF m.res = 1 THEN Scsi(m, "sense")
    ELSE Retry(m)

msd_flush(m) == Done(m, IF m.res < 0 THEN -1 ELSE 0)

\* The probe: inquiry, waiting for the medium, and its capacity.
msd_probe(m) ==
    CASE m.cmd = "inq" -> IF m.res < 0 THEN Done(m, -1) ELSE Scsi(m, "tur")
      [] m.cmd = "tur" -> IF m.res = 1 THEN Scsi(m, "sense") ELSE Scsi(m, "cap")
      [] m.cmd = "sense" -> IF m.attempt + 1 < READY_TRIES THEN Scsi([m EXCEPT !.attempt = @ + 1], "tur")
                            ELSE Scsi(m, "cap")
      [] OTHER -> [Done(m, IF m.res = 0 THEN 0 ELSE -1) EXCEPT !.disk = m.res = 0]

GoesOn ==
    /\ msd.pc = "done"
    /\ MsdBecomes(CASE msd.op = "probe" -> msd_probe(msd)
                    [] msd.op = "flush" -> msd_flush(msd)
                    [] OTHER -> msd_rw(msd), bot)

Fresh(m, op) == [m EXCEPT !.op = op, !.blk = 1, !.attempt = 0, !.faults = Faults]
Call ==
    /\ msd.pc = "idle"
    /\ \/ ~msd.disk /\ MsdBecomes(Scsi(Fresh(msd, "probe"), "inq"), bot)
       \/ msd.disk /\ MsdBecomes(Scsi(Fresh(msd, "flush"), "flush"), bot)
       \/ /\ msd.disk
          /\ \E op \in {"read", "write"}, n \in 1..NBlocks, v \in {0, 1} :
               /\ op = "read" => v = 0
               /\ MsdBecomes(Attempt([Fresh(msd, op) EXCEPT !.left = n, !.val = v]), bot)
Return == msd.pc = "ret" /\ MsdBecomes([msd EXCEPT !.pc = "idle", !.op = "none", !.ret = 0, !.res = 0,
                                                   !.cmd = "none", !.val = 0, !.left = 0, !.attempt = 0, !.faults = 0], bot)

MsdInit ==
    /\ msd = [pc |-> "idle", op |-> "none", cmd |-> "none", tag |-> 0, blk |-> 1, left |-> 0, val |-> 0,
              attempt |-> 0, res |-> 0, ret |-> 0, buf |-> 0, bad |-> FALSE, faults |-> 0, gone |-> FALSE, disk |-> FALSE]
    /\ bot = NoCmd /\ medium = [b \in 1..NBlocks |-> 0]

MsdNext == SendCbw \/ DataStage \/ ReadCsw \/ TransferFails \/ reset_recovery \/ Gone \/ GoesOn \/ Call \/ Return

MsdSpec == MsdInit /\ [][MsdNext]_msd_vars

-----------------------------------------------------------------------------
(* Properties                                                              *)

(***************************************************************************)
(* Whatever stalls, fails and is retried on the way, a chunk that counts   *)
(* as read holds what the medium holds and one that counts as written is   *)
(* on the medium: a status is never taken for another command's (scsi,     *)
(* msd_rw, reset_recovery).                                                *)
(***************************************************************************)
DiskExact == ~msd.bad
=============================================================================
