-------------------------------- MODULE Xhci --------------------------------
(***************************************************************************)
(* The rings of drivers/usb/xhci.c: commands, synchronous transfers and    *)
(* polled interrupt endpoints of one device, the controller at the other   *)
(* end of the rings, and the interrupt handler between them.  A bus        *)
(* address is the index of a TRB in its ring.  Ring 0 is the command ring; *)
(* the others are endpoints, named by device context index: 1 is control,  *)
(* an odd one IN, an even one OUT, and IntEp is polled.                    *)
(***************************************************************************)
EXTENDS Integers, Sequences, FiniteSets, SequencesExt

CONSTANTS
    RING_TRBS,     \* entries of each ring, the link TRB included; 256 for all
    XThreads,      \* threads that transfer
    XLoads,        \* the loads: which endpoints each thread uses (a class driver
                   \* has its own), and which one is polled, 0 for none,
                   \* the control transfers' lengths, which rings may stop being
                   \* served, unplugging, and the size of the event ring
    Signals        \* signals interrupt the waits

VARIABLES
    ring,    \* every ring with the controller's side of it
    xep,     \* struct xep
    evt,     \* the event ring, both sides
    cmd,     \* cmd_lock, cmd_done, cmd_cc, cmd_trb
    dev,     \* d->lock, udev.gone, the slot, the bounce buffer, dead rings
    xthr,    \* the threads
    xload    \* the load; fixed

xhci_vars == <<ring, xep, evt, cmd, dev, xthr, xload>>

Uses == XLoads[xload].uses
IntEp == XLoads[xload].int
EVT_TRBS == XLoads[xload].evt    \* entries of the event ring, 256
Eps == (UNION {Uses[t] : t \in XThreads}) \cup ({IntEp} \ {0})
Rings == Eps \cup {0}
Link(e) == RING_TRBS[e] - 1
EvtIdx == 0..(EVT_TRBS - 1)
LEN == 2                      \* bytes of a data stage
In(e) == e % 2 = 1
NoTrb == [ty |-> "none", own |-> "none", cyc |-> 0, arg |-> 0]
NoEvent == [ty |-> "none", e |-> 0, i |-> 0, cc |-> "ok", res |-> 0, own |-> "none", cyc |-> 0]

Xk == [ring |-> ring, ep |-> xep, evt |-> evt, cmd |-> cmd, dev |-> dev, thr |-> xthr]
XhciBecomes(k) ==
    /\ ring' = k.ring /\ xep' = k.ep /\ evt' = k.evt /\ cmd' = k.cmd /\ dev' = k.dev /\ xthr' = k.thr
    /\ UNCHANGED xload

-----------------------------------------------------------------------------
(* Rings                                                                   *)

ring_init(e) ==
    [t |-> [i \in 0..Link(e) |-> NoTrb], link |-> Link(e), enq |-> 0, cycle |-> 1, deq |-> 0, ccs |-> 1, st |-> "run"]

\* A ring is full when the next entry still waits for the controller; the
\* driver never looks.  The link TRB is handed over when the entry before it is
\* used, and the producer's cycle changes.
ring_push(r, trb) ==
    LET s == [r EXCEPT !.t[r.enq] = [trb EXCEPT !.cyc = r.cycle]] IN
    IF r.enq + 1 = r.link
    THEN [s EXCEPT !.t[r.link].cyc = r.cycle, !.enq = 0, !.cycle = 1 - r.cycle]
    ELSE [s EXCEPT !.enq = r.enq + 1]

\* The doorbell starts an endpoint that was stopped.
doorbell(k, e) == [k EXCEPT !.ring[e].st = IF @ = "stop" THEN "run" ELSE @]

Trb(ty, own) == [NoTrb EXCEPT !.ty = ty, !.own = own]

-----------------------------------------------------------------------------
(* The controller                                                          *)

\* The controller follows the link it has been handed and looks at the entry
\* of its dequeue pointer.
Followed(r) ==
    IF r.deq = r.link /\ r.t[r.link].cyc = r.ccs THEN [r EXCEPT !.deq = 0, !.ccs = 1 - @] ELSE r
Ready(r) == r.st = "run" /\ r.deq # r.link /\ r.t[r.deq].cyc = r.ccs /\ r.t[r.deq].ty # "none"

EvtFull(v) == (v.enq + 1) % EVT_TRBS = v.erdp

\* An event is written with the producer's cycle; the interrupt is raised
\* unless the handler is still busy with the last one.
Post(k, ev) ==
    LET v == k.evt IN
    [k EXCEPT !.evt = [v EXCEPT !.t[v.enq] = [ev EXCEPT !.cyc = v.pcyc], !.enq = (v.enq + 1) % EVT_TRBS,
                                !.pcyc = IF v.enq + 1 = EVT_TRBS THEN 1 - @ ELSE @,
                                !.ip = @ \/ ~v.ehb, !.ehb = TRUE]]

\* What has been served is not looked at again, except for its cycle.
Spent(trb) == [NoTrb EXCEPT !.cyc = trb.cyc]
Consumed(k, e) ==
    [k EXCEPT !.ring[e] = Followed([k.ring[e] EXCEPT !.t[k.ring[e].deq] = Spent(@), !.deq = @ + 1])]
XferEvent(r, e, cc, res) ==
    [NoEvent EXCEPT !.ty = "xfer", !.e = e, !.i = r.deq, !.cc = cc, !.res = res, !.own = r.t[r.deq].own]

\* Data moves between the device and the bounce buffer.  bad: what an OUT
\* transfer sent was not what its owner had put there.
Moves(k, e, own, n) ==
    LET mine == own \in XThreads IN
    IF own = "int" THEN k
    ELSE IF In(e) THEN [k EXCEPT !.dev.bounce = own, !.dev.moved = IF mine THEN n ELSE @]
    ELSE [k EXCEPT !.dev.moved = IF mine THEN n ELSE @, !.dev.bad = @ \/ (mine /\ dev.bounce # own)]

\* One transfer TRB: it completes, comes up short, or fails and halts the
\* endpoint (a stall or an error; the caller is told which).  Setup and data stages raise no event unless short or failed.
Serve(e) ==
    LET r == ring[e]
        trb == r.t[r.deq]
    IN
    /\ e # 0 /\ Ready(r) /\ e \notin dev.dead /\ ~EvtFull(evt)
    /\ \/ /\ trb.ty = "setup" /\ XhciBecomes(Consumed(Xk, e))
       \/ /\ trb.ty = "data" /\ XhciBecomes(Consumed(Moves(Xk, e, trb.own, LEN), e))
       \/ /\ trb.ty = "status" /\ XhciBecomes(Post(Consumed(Xk, e), XferEvent(r, e, "ok", 0)))
       \/ /\ trb.ty = "normal"
          /\ XhciBecomes(Post(Consumed(Moves(Xk, e, trb.own, LEN), e), XferEvent(r, e, "ok", 0)))
       \/ /\ trb.ty \in {"data", "normal"} /\ In(e)
          /\ XhciBecomes(Post(Consumed(Moves(Xk, e, trb.own, LEN - 1), e), XferEvent(r, e, "short", 1)))
       \/ /\ trb.ty # "setup"
          /\ XhciBecomes(Post([Xk EXCEPT !.ring[e].st = "halt"], XferEvent(r, e, "failed", LEN)))

\* A command.  Reset Endpoint wants a halted endpoint and Set TR Dequeue a
\* stopped one.
Execute ==
    LET c == ring[0].t[ring[0].deq]
        e == c.arg
        ok == ring[e].st = IF c.ty = "reset" THEN "halt" ELSE "stop"
        k == Consumed(Xk, 0)
        done == IF ~ok THEN k
                ELSE IF c.ty = "reset" THEN [k EXCEPT !.ring[e].st = "stop"]
                ELSE [k EXCEPT !.ring[e].deq = c.own.deq, !.ring[e].ccs = c.own.ccs,
                               !.ring[e].t = [i \in 0..Link(e) |-> IF ring[e].enq = c.own.deq THEN Spent(@[i]) ELSE @[i]]]
    IN /\ Ready(ring[0]) /\ 0 \notin dev.dead /\ ~EvtFull(evt)
       /\ XhciBecomes(Post(done, [NoEvent EXCEPT !.ty = "cmd", !.i = ring[0].deq, !.cc = IF ok THEN "ok" ELSE "error"]))

\* The device stops serving an endpoint for good; the controller dies; the
\* device is pulled out.
Dies(e) ==
    /\ e \in XLoads[xload].dies \ dev.dead
    /\ XhciBecomes([Xk EXCEPT !.dev.dead = @ \cup (IF e = 0 THEN Rings ELSE {e})])
Pulled ==
    /\ XLoads[xload].unplug /\ ~(Eps \subseteq dev.dead)
    /\ XhciBecomes([Xk EXCEPT !.dev.dead = @ \cup Eps])

-----------------------------------------------------------------------------
(* Events, in interrupt context                                            *)

\* IntEp: the callback takes the report and the transfer is queued again.
IntReport(k, ev) ==
    IF ev.cc \in {"ok", "short"}
    THEN IF k.dev.gone THEN k
         ELSE doorbell([k EXCEPT !.ring[IntEp] = ring_push(@, Trb("normal", "int"))], IntEp)
    ELSE [k EXCEPT !.ep[IntEp].failed = TRUE]

\* Any short event ends the transfer, also that of a data stage.
handle_transfer_early(k, ev) ==
    IF ~k.dev.slot THEN k
    ELSE IF k.ep[ev.e].cb THEN IntReport(k, ev)
    ELSE [k EXCEPT !.ep[ev.e].residual = ev.res, !.ep[ev.e].cc = ev.cc, !.ep[ev.e].done = TRUE]

\* A transfer ends with the event of the TRB it waits for, or with any failure;
\* the short data stage of a control transfer comes before its end.
handle_transfer(k, ev) ==
    LET e == ev.e
        p == k.ep[e]
        over == ev.i = p.wait_trb \/ ev.cc \notin {"ok", "short"}
        res == IF ev.cc = "short" \/ p.residual = 0 THEN ev.res ELSE p.residual
    IN IF ~k.dev.slot THEN k
       ELSE IF p.cb THEN IntReport(k, ev)
       ELSE IF over THEN [k EXCEPT !.ep[e].residual = res, !.ep[e].cc = ev.cc, !.ep[e].done = TRUE]
       ELSE IF ev.cc = "short" THEN [k EXCEPT !.ep[e].residual = ev.res, !.ep[e].cc = ev.cc]
       ELSE k

Handle(k, ev) ==
    IF ev.ty = "xfer" THEN handle_transfer(k, ev)
    ELSE IF ev.i = k.cmd.trb THEN [k EXCEPT !.cmd.cc = ev.cc, !.cmd.done = TRUE] ELSE k

\* The cycle is not changed at the end of the ring.
AdvanceFlat(v) == [v EXCEPT !.deq = (@ + 1) % EVT_TRBS]

\* The consumer's index and cycle.
Advance(v) ==
    IF v.deq + 1 = EVT_TRBS THEN [v EXCEPT !.deq = 0, !.cycle = 1 - @] ELSE [v EXCEPT !.deq = @ + 1]

\* The handler acknowledges the interrupt, takes events as long as their cycle
\* is its own and then tells the controller how far it came; an event written
\* meanwhile raises the interrupt again.
xhci_irq ==
    \/ /\ evt.ip \/ evt.irq
       /\ evt.t[evt.deq].cyc = evt.cycle
       /\ XhciBecomes([Handle(Xk, evt.t[evt.deq]) EXCEPT
                        !.evt = Advance([@ EXCEPT !.t[evt.deq] = [NoEvent EXCEPT !.cyc = evt.cycle],
                                                  !.ip = FALSE, !.irq = TRUE])])
    \/ /\ evt.ip \/ evt.irq
       /\ evt.t[evt.deq].cyc # evt.cycle
       /\ XhciBecomes([Xk EXCEPT !.evt.irq = FALSE, !.evt.erdp = evt.deq,
                                 !.evt.ehb = evt.deq # evt.enq, !.evt.ip = evt.deq # evt.enq])

-----------------------------------------------------------------------------
(* Commands and transfers                                                  *)

Goto(k, t, pc) == [k EXCEPT !.thr[t].pc = pc]

\* reset_endpoint sends two commands; thr[t].todo holds those left.
SendCommand(t) ==
    LET e == xthr[t].e
        ty == Head(xthr[t].todo)
        trb == [NoTrb EXCEPT !.ty = ty, !.arg = e,
                  !.own = IF ty = "deq" THEN [deq |-> ring[e].enq, ccs |-> ring[e].cycle] ELSE "none"]
    IN /\ xthr[t].pc = "reset" /\ xthr[t].todo # <<>> /\ cmd.lock = "none"
       /\ XhciBecomes(Goto([Xk EXCEPT !.cmd.lock = t, !.cmd.done = FALSE, !.cmd.trb = ring[0].enq,
                                      !.ring[0] = ring_push(@, trb)], t, "cmd"))

\* Handled: no event is on its way.
Handled == evt.deq = evt.enq /\ ~evt.irq

\* command() returns: answered, timed out or interrupted.  Its result is not used.
CommandReturns(t) ==
    /\ xthr[t].pc = "cmd" /\ (cmd.done \/ Signals \/ (0 \in dev.dead /\ Handled))
    /\ XhciBecomes(Goto([Xk EXCEPT !.cmd.lock = "none", !.thr[t].todo = Tail(@)], t, "reset"))

begin_xfer(p) == [p EXCEPT !.done = FALSE, !.cc = "none", !.residual = 0]

\* xhci_control and xhci_bulk: the transfer is queued under the spinlock, after
\* the endpoint has been prepared without it.
BeginXfer(k, t, e, len) ==
    [k EXCEPT !.dev.lock = t, !.dev.bounce = IF In(e) THEN @ ELSE t, !.dev.moved = 0,
              !.ep[e] = begin_xfer(@), !.thr[t] = [@ EXCEPT !.pc = "push", !.e = e, !.len = len]]

Stages(t, e, len) ==
    IF e # 1 THEN <<Trb("normal", t)>>
    ELSE <<Trb("setup", t)>> \o (IF len > 0 THEN <<Trb("data", t)>> ELSE <<>>) \o <<Trb("status", t)>>

\* wait_trb is the last stage's.
PushXfer(k, t) ==
    LET e == k.thr[t].e
        trbs == Stages(t, e, k.thr[t].len)
        last == FoldLeft(ring_push, k.ring[e], Front(trbs)).enq
    IN Goto(doorbell([k EXCEPT !.ring[e] = FoldLeft(ring_push, @, trbs), !.ep[e].wait_trb = last], e), t, "wait")

EndPosted(e) ==
    \E i \in EvtIdx : LET v == evt.t[i] IN
        /\ v.ty = "xfer" /\ v.e = e /\ v.own \in XThreads
        /\ v.i = xep[e].wait_trb \/ v.cc \notin {"ok", "short"}

\* The wait runs out when the ring is not served, or just as the end is on its way.
TimesOut(e) == \/ (e \in dev.dead \/ ring[e].st # "run") /\ Handled
               \/ EndPosted(e)
               \/ Signals

Returned(k, t, r) == [k EXCEPT !.thr[t].pc = "ret", !.thr[t].r = r]
Recover(k, t, r) == [k EXCEPT !.thr[t].pc = "reset", !.thr[t].todo = <<"reset", "deq">>, !.thr[t].r = r]

wait_xfer(k, t) ==
    LET e == k.thr[t].e
        p == k.ep[e]
        left == IF p.residual < k.thr[t].len THEN p.residual ELSE k.thr[t].len
    IN IF k.dev.gone THEN Returned(k, t, -1)
       ELSE IF ~p.done \/ p.cc \notin {"ok", "short"} THEN Recover(k, t, -1)
       ELSE Returned(k, t, k.thr[t].len - left)

\* The mutex is released; nobody reads done and cc until they are set again.  What is left of the transfer, in the rings or among
\* the events, belongs to nobody.
Disowned(own, t) == IF own = t THEN "old" ELSE own
Leave(k, t) ==
    [k EXCEPT !.dev.lock = "none", !.thr[t] = [@ EXCEPT !.pc = "idle", !.r = 0, !.clear = FALSE],
              !.ep[k.thr[t].e] = [@ EXCEPT !.done = FALSE, !.cc = "none"], !.dev.moved = 0,
              !.ring = [e \in Rings |-> [k.ring[e] EXCEPT !.t = [i \in 0..Link(e) |->
                            [k.ring[e].t[i] EXCEPT !.own = Disowned(@, t)]]]],
              !.evt.t = [i \in EvtIdx |-> [k.evt.t[i] EXCEPT !.own = Disowned(@, t)]]]

\* A bulk transfer may still begin when the device has gone; usb_control refuses.
\* A bound: none begins on a ring that is dead, where it could only time out.
xhci_control(t) ==
    /\ xthr[t].pc = "idle" /\ dev.lock = "none" /\ ~dev.gone /\ 1 \in Uses[t] \ dev.dead
    /\ \E len \in XLoads[xload].lens : XhciBecomes(BeginXfer(Xk, t, 1, len))
xhci_bulk(t) ==
    /\ xthr[t].pc = "idle" /\ dev.lock = "none"
    /\ \E e \in Uses[t] \ ({1} \cup dev.dead) : XhciBecomes(BeginXfer(Xk, t, e, LEN))

\* The endpoint is reset without the mutex; the control transfer follows.
xhci_clear_halt(t) ==
    \/ /\ xthr[t].pc = "idle" /\ 1 \in Uses[t]
       /\ \E e \in Uses[t] \ {1} :
            XhciBecomes([Recover(Xk, t, 0) EXCEPT !.thr[t].clear = TRUE, !.thr[t].e = e])
    \/ /\ xthr[t].pc = "reset" /\ xthr[t].todo = <<>> /\ xthr[t].clear
       /\ IF dev.gone THEN XhciBecomes([Xk EXCEPT !.thr[t] = [@ EXCEPT !.pc = "idle", !.clear = FALSE]])
          ELSE dev.lock = "none" /\ XhciBecomes([BeginXfer(Xk, t, 1, 0) EXCEPT !.thr[t].clear = FALSE])

\* The rest of a transfer.
Transfer(t) ==
    \/ xthr[t].pc = "push" /\ XhciBecomes(PushXfer(Xk, t))
    \/ /\ xthr[t].pc = "wait"
       /\ xep[xthr[t].e].done \/ dev.gone \/ TimesOut(xthr[t].e)
       /\ XhciBecomes(wait_xfer(Xk, t))
    \/ xthr[t].pc = "reset" /\ xthr[t].todo = <<>> /\ ~xthr[t].clear /\ XhciBecomes(Returned(Xk, t, xthr[t].r))
    \/ xthr[t].pc = "ret" /\ XhciBecomes(Leave(Xk, t))

xhci_intr_start ==
    /\ IntEp # 0 /\ ~xep[IntEp].cb /\ ~dev.gone
    /\ XhciBecomes(doorbell([Xk EXCEPT !.ep[IntEp].cb = TRUE,
                                       !.ring[IntEp] = ring_push(@, Trb("normal", "int"))], IntEp))

\* detach: the waiters are told, the drivers go, and then the slot.
xhci_detach ==
    \/ XLoads[xload].unplug /\ Eps \subseteq dev.dead /\ ~dev.gone /\ XhciBecomes([Xk EXCEPT !.dev.gone = TRUE])
    \/ dev.gone /\ dev.slot /\ XhciBecomes([Xk EXCEPT !.dev.slot = FALSE])

XhciInit ==
    /\ xload \in DOMAIN XLoads
    /\ ring = [e \in Rings |-> ring_init(e)]
    /\ xep = [e \in Eps |-> [done |-> FALSE, cc |-> "none", residual |-> 0, wait_trb |-> -1,
                             cb |-> FALSE, failed |-> FALSE]]
    /\ evt = [t |-> [i \in EvtIdx |-> NoEvent], deq |-> 0, cycle |-> 1, erdp |-> 0,
              enq |-> 0, pcyc |-> 1, ip |-> FALSE, ehb |-> FALSE, irq |-> FALSE]
    /\ cmd = [lock |-> "none", done |-> FALSE, cc |-> "none", trb |-> -1]
    /\ dev = [lock |-> "none", gone |-> FALSE, slot |-> TRUE, bounce |-> "none", moved |-> 0,
              bad |-> FALSE, dead |-> {}]
    /\ xthr = [t \in XThreads |-> [pc |-> "idle", e |-> 1, len |-> 0, todo |-> <<>>, r |-> 0, clear |-> FALSE]]

XhciNext ==
    \/ \E e \in Rings : Serve(e) \/ Dies(e)
    \/ Execute \/ xhci_irq \/ xhci_intr_start \/ Pulled \/ xhci_detach
    \/ \E t \in XThreads :
         \/ xhci_control(t) \/ xhci_bulk(t) \/ xhci_clear_halt(t) \/ Transfer(t)
         \/ SendCommand(t) \/ CommandReturns(t)

XhciSpec == XhciInit /\ [][XhciNext]_xhci_vars

-----------------------------------------------------------------------------
(* Properties                                                              *)

(***************************************************************************)
(* A transfer that returns a length was carried out by the device: the     *)
(* length is that of the data moved for it, what it read is in the bounce  *)
(* buffer when it copies it, and what an OUT transfer sent was its own     *)
(* (xhci_control, xhci_bulk, wait_xfer, handle_transfer).                  *)
(***************************************************************************)
TransfersOwn ==
    /\ ~dev.bad
    /\ \A t \in XThreads : LET u == xthr[t] IN
         u.pc = "ret" /\ u.r >= 0 =>
            /\ u.len > 0 => u.r = dev.moved
            /\ u.r > 0 /\ In(u.e) => dev.bounce = t

(***************************************************************************)
(* Nothing on the rings is left lying: an event the handler has not seen   *)
(* has the interrupt raised, and a polled endpoint that has not failed     *)
(* keeps one transfer queued or one report on its way, until the device    *)
(* goes (xhci_irq, handle_transfer).                                       *)
(***************************************************************************)
RingsServed ==
    /\ evt.deq # evt.enq => evt.ip \/ evt.irq
    /\ IntEp # 0 /\ xep[IntEp].cb /\ ~xep[IntEp].failed /\ ~dev.gone =>
         LET r == ring[IntEp]
             queued == {i \in 0..(Link(IntEp) - 1) : r.t[i].ty # "none"
                          /\ r.t[i].cyc = (IF i >= r.deq THEN r.ccs ELSE 1 - r.ccs)}
             posted == {i \in EvtIdx : evt.t[i].ty = "xfer" /\ evt.t[i].e = IntEp
                          /\ evt.t[i].cyc = (IF i >= evt.deq THEN evt.cycle ELSE 1 - evt.cycle)}
         IN IF posted = {} THEN r.deq = r.link \/ Cardinality(queued) = 1 ELSE Cardinality(posted) = 1
=============================================================================
