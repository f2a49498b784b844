------------------------------ MODULE VirtioBlk ------------------------------
(***************************************************************************)
(* Requests of drivers/virtio/virtio_blk.c over the virtqueue, with the    *)
(* completion of kernel/wait.c they wait on.                               *)
(*                                                                         *)
(* A disk has ONE request header, one status byte and one completion; the  *)
(* io_lock of the block layer lets one thread at a time use them.  The     *)
(* completion's queue therefore holds that thread or nobody.  The device   *)
(* reads the header and writes the status in memory, whenever it gets to   *)
(* the chain.  setting says whether the 30 s of a request may run out, and *)
(* whether the interrupt is taken on the CPU of the thread, where the      *)
(* handler runs to its end, or on another one.                             *)
(***************************************************************************)
EXTENDS Virtqueue

CONSTANTS Threads,   \* threads that issue requests
          None,      \* nobody
          Settings   \* the settings to look at

ASSUME BlkAssumption ==
    None \notin Threads /\ Settings \subseteq {"up", "smp", "slow"}

VARIABLES
    io_lock,   \* d->io_lock, the thread inside ops->rw or ops->flush
    pc,        \* where that thread is in vblk_submit
    req,       \* v->req: the operation in the shared header
    status,    \* *v->status
    done,      \* v->done.done
    wl,        \* v->done.wq.lock: free, held by the handler, or ahead: the
               \* owner counter has overtaken next and no ticket is served
    waiter,    \* is the thread on the queue of the completion?
    state,     \* its scheduler state
    irq,       \* the interrupt handler: idle, or a step of vblk_done
    line,      \* the interrupt line of the device
    result,    \* what the last request returned
    mine,      \* head of the chain of the current request
    served,    \* the device has carried out the current request
    setting    \* fixed: "up", one CPU; "smp", the handler runs on another CPU;
               \* "slow", that, and the device may take longer than 30 s

blk_vars == <<io_lock, pc, req, status, done, wl, waiter, state, irq, line,
              result, mine, served>>
vars == <<vq_vars, blk_vars, setting>>

Timeouts == setting = "slow"
OneCpu == setting = "up"

\* Reads and writes use three descriptors, flushes have no data buffer.
Ops == {"rw", "flush"}
Descriptors(op) == IF op = "rw" THEN 3 ELSE 2
Vblk == "v"   \* the token: every chain of the disk carries the same one

Init ==
    /\ VqInit
    /\ io_lock = None /\ pc = "idle" /\ req = "flush" /\ status = "ff"
    /\ done = 0 /\ wl = "free" /\ waiter = FALSE /\ state = "R" /\ irq = "idle" /\ line = FALSE
    /\ result = "none" /\ mine = None /\ served = FALSE
    /\ setting \in Settings

\* vblk_rw and vblk_flush, called with io_lock: fill in header and status.
Fill(t, op) ==
    /\ io_lock = None
    /\ io_lock' = t /\ req' = op /\ status' = "ff"
    /\ served' = FALSE /\ mine' = None /\ result' = "none"
    /\ pc' = "init"
    /\ UNCHANGED <<vq_vars, wl, done, waiter, state, irq, line>>

\* init_completion: nothing completed, an empty queue, a fresh lock.
init_completion ==
    /\ pc = "init"
    /\ done' = 0 /\ waiter' = FALSE /\ wl' = "free"
    /\ pc' = "add"
    /\ UNCHANGED <<vq_vars, io_lock, req, status, state, irq, line, result, mine, served>>

\* Give the lock back with result r.
Return(r) == result' = r /\ io_lock' = None /\ pc' = "idle"

\* virtqueue_add and virtqueue_kick; a full ring fails the request.
Add ==
    /\ pc = "add"
    /\ \/ /\ virtqueue_add(Descriptors(req), Vblk)
          /\ mine' = free_head
          /\ pc' = "prepare"
          /\ UNCHANGED <<io_lock, result>>
       \/ /\ ~Room(Descriptors(req))
          /\ Return("ENOSPC")
          /\ UNCHANGED <<vq_vars, mine>>
    /\ UNCHANGED <<wl, req, status, done, waiter, state, irq, line, served>>

\* wait_for_completion_timeout: prepare_to_wait ...
Prepare ==
    /\ pc = "prepare" /\ wl = "free"
    /\ waiter' = TRUE /\ state' = "D"
    /\ pc' = "consume"
    /\ UNCHANGED <<vq_vars, wl, io_lock, req, status, done, irq, line, result, mine, served>>

\* Mutant: the completion is looked at once.
ConsumeOnce ==
    /\ pc = "consume" /\ wl = "free"
    /\ done' = 0 /\ pc' = "finish"
    /\ UNCHANGED <<vq_vars, wl, io_lock, req, status, waiter, state, irq, line, result, mine, served>>

\* ... try_consume, or look at the clock ...
Consume ==
    /\ pc = "consume" /\ wl = "free"
    /\ \/ done > 0 /\ done' = done - 1 /\ pc' = "finish"
       \/ done = 0 /\ done' = done /\ pc' = "sleep"
       \/ Timeouts /\ done = 0 /\ done' = done /\ pc' = "expired"
    /\ UNCHANGED <<vq_vars, wl, io_lock, req, status, waiter, state, irq, line, result, mine, served>>

\* ... schedule_timeout: until a wake-up, or the timer ...
Sleep ==
    /\ pc = "sleep"
    /\ state = "R" \/ Timeouts
    /\ state' = "R"
    /\ pc' = "prepare"
    /\ UNCHANGED <<vq_vars, wl, io_lock, req, status, done, waiter, irq, line, result, mine, served>>

\* Mutant: the status byte is not looked at.
ResultBlind == IF pc = "expired" THEN "ETIMEDOUT" ELSE "0"
\* The result of a request that has waited.
Result ==
    CASE pc = "expired" -> "ETIMEDOUT"
      [] pc = "finish" /\ status = "ok" -> "0"
      [] OTHER -> "EIO"

\* ... finish_wait, and the result of the request.
Finish ==
    /\ pc \in {"finish", "expired"} /\ wl = "free"
    /\ waiter' = FALSE /\ state' = "R"
    /\ Return(Result)
    /\ UNCHANGED <<vq_vars, wl, req, status, done, irq, line, mine, served>>

\* The device carries out a chain: it reads the header and, for a chain of the
\* current request or for a flush, does what the request asks; it writes the
\* status, which is bad when the medium is.
DevDo(h, st) ==
    /\ h \in taken
    /\ status' = st
    /\ served' = (served \/ (st = "ok" /\ (h = mine \/ req = "flush")))
    /\ line' = TRUE
    /\ DevUse(h)
    /\ UNCHANGED <<wl, io_lock, pc, req, done, waiter, state, irq, result, mine>>

Fetch == DevTake /\ UNCHANGED blk_vars

\* virtio_irq: acknowledge, then call vblk_done.
virtio_irq ==
    /\ irq = "idle" /\ line
    /\ line' = FALSE /\ irq' = "drain"
    /\ UNCHANGED <<vq_vars, wl, io_lock, pc, req, status, done, waiter, state, result, mine, served>>

\* vblk_done: the next used chain, until there is none.
Drain ==
    /\ irq = "drain"
    /\ IF HasUsed THEN virtqueue_get /\ irq' = "done"
                  ELSE irq' = "idle" /\ UNCHANGED vq_vars
    /\ UNCHANGED <<wl, io_lock, pc, req, status, done, waiter, state, line, result, mine, served>>

\* complete: count ...
complete ==
    /\ irq = "done" /\ wl = "free"
    /\ done' = done + 1
    /\ irq' = "wake"
    /\ UNCHANGED <<vq_vars, wl, io_lock, pc, req, status, waiter, state, line, result, mine, served>>

\* Mutant: nobody is woken.
WokenState_none == state
\* The state of the thread on the completion's queue after wake_up_one.
WokenState == IF waiter THEN "R" ELSE state

\* ... and wake_up_one: lock the queue and wake who is on it ...
wake_up_one ==
    /\ irq = "wake" /\ wl = "free"
    /\ wl' = "held" /\ state' = WokenState
    /\ irq' = "unlock"
    /\ UNCHANGED <<vq_vars, io_lock, pc, req, status, done, waiter, line, result, mine, served>>

\* Mutant: one used chain per interrupt.
AfterWakeIdle == "idle"
\* vblk_done goes round its loop.
AfterWake == "drain"

\* ... then unlock: owner advances even if the counters have been zeroed.
wake_unlock ==
    /\ irq = "unlock"
    /\ wl' = IF wl = "held" THEN "free" ELSE "ahead"
    /\ irq' = AfterWake
    /\ UNCHANGED <<vq_vars, io_lock, pc, req, status, done, waiter, state, line, result, mine, served>>

\* The thread of a one-CPU system waits for the handler to return.
Running == OneCpu => irq = "idle"

Submit == init_completion \/ Add \/ Prepare \/ Consume \/ Sleep \/ Finish
Interrupt == virtio_irq \/ Drain \/ complete \/ wake_up_one \/ wake_unlock
Device == Fetch \/ \E h \in Descs, st \in {"ok", "err"} : DevDo(h, st)

Next ==
    /\ UNCHANGED setting
    /\ \/ Running /\ \E t \in Threads, op \in Ops : Fill(t, op)
       \/ Running /\ Submit
       \/ Interrupt
       \/ Device

Spec == Init /\ [][Next]_vars

BlkView == <<VqView, blk_vars, setting>>

-----------------------------------------------------------------------------
\* "Synchronous transfer of `count` sectors; may sleep. Returns 0 or -errno."
\* (blkdev.h): a request that returns 0 has been carried out by the device.
Synchronous == result = "0" => served

\* So it is when the device answers in time; and between such requests the device
\* holds no chain of the disk: nothing is left that could read the shared header,
\* write the status or use a caller's buffer.
AnsweredInTime ==
    ~Timeouts => Synchronous /\ (pc = "idle" => DOMAIN live = {})

\* No completion and no interrupt is lost: the thread sleeps only while the count
\* of the completion is zero or the wake-up of complete() is still to come, and a
\* used chain is being drained, or the line is up.
NothingLost ==
    /\ pc = "sleep" /\ state = "D" /\ done > 0 => irq = "wake"
    /\ HasUsed => line \/ irq # "idle"

\* With one CPU nobody waits for anybody for ever: while a request is under way
\* its thread, the interrupt handler or the device has a step to take.
NotStuck ==
    OneCpu /\ pc # "idle" => ENABLED ((Running /\ Submit) \/ Interrupt \/ Device)
=============================================================================
