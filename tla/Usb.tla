-------------------------------- MODULE Usb --------------------------------
(***************************************************************************)
(* The USB tree: root ports (usbd, xhci.c), hubs (hubd, hub.c), the core   *)
(* (usb.c), and devices plugged and unplugged at any time.  A socket is a  *)
(* place to plug in: a root port or a port of a hub.                       *)
(***************************************************************************)
EXTENDS Integers, Sequences, FiniteSets, SequencesExt

CONSTANTS
    RootPorts, HubPorts,
    Gadgets,        \* what can be plugged in
    Kind,           \* "hub", "hid" or "disk" for each
    Fits,           \* the sockets each is ever put in
    Slots,          \* the controller's device slots
    UDevs,          \* device structures
    TIERS,          \* hubs above a device, at most; 5
    MaxRecords,     \* a bound: hubs that went and are still on the list
    Replug          \* a root port may be replugged before usbd has looked

VARIABLES
    plug,     \* what is in each socket
    csc,      \* sockets with their connection-change bit set
    pev,      \* port_events
    udev,     \* struct usb_device with its struct xdev and, of a hub, struct hub
    ports,    \* x->ports
    slots,    \* x->slots
    hwslot,   \* slots enabled in the controller
    hubs,     \* the list of hubs, with their gone flags
    topo,     \* the holder of topology_lock
    worker    \* usbd and hubd

usb_vars == <<plug, csc, pev, udev, ports, slots, hwslot, hubs, topo, worker>>

None0 == "none"
HubGadgets == {g \in Gadgets : Kind[g] = "hub"}
Sockets == {<<"root", p>> : p \in RootPorts} \cup (HubGadgets \X HubPorts)
IsRoot(s) == s[1] = "root"
NoDev == [st |-> "free", g |-> None0, at |-> <<>>, parent |-> 0, depth |-> 0, slot |-> 0, drv |-> "none",
          child |-> [p \in HubPorts |-> 0]]
Idle == [pc |-> "wait", s |-> <<>>, seen |-> FALSE, chg |-> FALSE, d |-> 0, i |-> 0, p |-> 0, doomed |-> <<>>]

Uk == [plug |-> plug, csc |-> csc, pev |-> pev, dev |-> udev, ports |-> ports, slots |-> slots, hw |-> hwslot,
       hubs |-> hubs, topo |-> topo, w |-> worker]
UsbBecomes(k) ==
    /\ plug' = k.plug /\ csc' = k.csc /\ pev' = k.pev /\ udev' = k.dev /\ ports' = k.ports /\ slots' = k.slots
    /\ hwslot' = k.hw /\ hubs' = k.hubs /\ topo' = k.topo /\ worker' = k.w

-----------------------------------------------------------------------------
(* The wires                                                               *)

\* A hub works when it is plugged in (hubs are in root ports).
Powered(s) == IsRoot(s) \/ \E p \in RootPorts : plug[<<"root", p>>] = s[1]
Connected(s) == plug[s] # None0 /\ Powered(s)

\* The device of a structure is still there, not unplugged since it got its address.
Alive(d) == udev[d].st = "live" /\ Powered(udev[d].at) /\ plug[udev[d].at] = udev[d].g

\* A root port reports its change bit's edge with an event (EV_PORT), a hub keeps
\* it for hubd, which its status-change endpoint only makes look earlier.
Changed(k, s) ==
    IF IsRoot(s) THEN [k EXCEPT !.csc = @ \cup {s}, !.pev = IF s \in csc THEN @ ELSE @ \cup {s[2]}]
    ELSE [k EXCEPT !.csc = @ \cup {s}]

\* A structure whose device was pulled out belongs to no gadget any more.
Orphaned(k, gs) == [k EXCEPT !.dev = [d \in UDevs |-> IF @[d].g \in gs THEN [@[d] EXCEPT !.g = "pulled"] ELSE @[d]]]

Plug(g, s) ==
    /\ \A q \in Sockets : plug[q] # g
    /\ plug[s] = None0 /\ s \in Fits[g]
    /\ Kind[g] = "hub" => Len(hubs) < MaxRecords
    /\ IsRoot(s) => Replug \/ (ports[s[2]] = 0 /\ s \notin csc /\ s[2] \notin pev /\ worker["usbd"].s # s)
    /\ UsbBecomes(Changed([Uk EXCEPT !.plug[s] = g], s))

\* What is behind a hub loses its power with it.
Unplug(s) ==
    /\ plug[s] # None0
    /\ LET g == plug[s]
           below == {q \in Sockets : q[1] = g}
       IN UsbBecomes(Changed(Orphaned([Uk EXCEPT !.plug[s] = None0, !.csc = @ \ below],
                                      ({g} \cup {plug[q] : q \in below}) \ {None0}), s))

-----------------------------------------------------------------------------
(* Devices: attach, the core and detach; the worker holds topology_lock    *)

Attached(k, s, parent, d, n) ==
    [k EXCEPT !.hw = @ \cup {n}, !.slots[n] = d,
              !.dev[d] = [NoDev EXCEPT !.st = "live", !.g = plug[s], !.at = s, !.parent = parent, !.slot = n,
                                       !.depth = IF parent = 0 THEN 0 ELSE udev[parent].depth + 1]]

\* usb_new_device: descriptors, configuration and a driver for the interface, if
\* the device is there to the end.  A hub joins the list.
usb_new_device(k, d, drv) ==
    IF drv = "hub" THEN [k EXCEPT !.dev[d].drv = drv, !.hubs = Append(@, [d |-> d, gone |-> FALSE])]
    ELSE [k EXCEPT !.dev[d].drv = drv]
Bound(d) == IF Alive(d) THEN Kind[udev[d].g] ELSE "none"

\* usb_disconnect and the end of detach: the drivers let go, a hub's record is
\* marked, the slot is emptied and disabled.
usb_disconnect(k, d) ==
    [k EXCEPT !.hubs = [i \in DOMAIN @ |-> IF @[i].d = d THEN [@[i] EXCEPT !.gone = TRUE] ELSE @[i]]]
Detached(k, d) ==
    [usb_disconnect(k, d) EXCEPT !.slots[k.dev[d].slot] = 0, !.hw = @ \ {k.dev[d].slot}, !.dev[d] = NoDev]

\* The device goes before what hangs on it.
detach_top(w) ==
    LET d == Head(worker[w].doomed) IN
    /\ worker[w].pc = "detach" /\ worker[w].doomed # <<>>
    /\ UsbBecomes([Detached(Uk, d) EXCEPT !.w[w].doomed = Tail(@)])

\* A hub removes its children first; doomed is the path of calls.
detach(w) ==
    LET d == Head(worker[w].doomed)
        held == {p \in HubPorts : udev[d].child[p] # 0}
    IN /\ worker[w].pc = "detach" /\ worker[w].doomed # <<>>
       /\ IF udev[d].drv = "hub" /\ held # {}
          THEN LET p == CHOOSE p \in held : \A q \in held : p <= q IN
               UsbBecomes([Uk EXCEPT !.dev[d].child[p] = 0, !.w[w].doomed = <<udev[d].child[p]>> \o @,
                                     !.dev[udev[d].child[p]].st = "gone"])
          ELSE UsbBecomes([Detached(Uk, d) EXCEPT !.w[w].doomed = Tail(@)])

WGoto(k, w, pc) == [k EXCEPT !.w[w].pc = pc]
Removing(k, w, d) == [k EXCEPT !.dev[d].st = "gone", !.w[w].doomed = <<d>>, !.w[w].pc = "detach"]

Here(w) == worker[w].s

\* usbd lets the lock go after a port; hubd goes on to the next port of its pass.
Finished(k, w) ==
    IF w = "usbd" THEN [k EXCEPT !.topo = None0, !.w[w] = Idle]
    ELSE [k EXCEPT !.w[w] = [Idle EXCEPT !.pc = "pass", !.i = k.w[w].i, !.p = k.w[w].p + 1]]
Linked(k, w, d) ==
    IF w = "usbd" THEN [k EXCEPT !.ports[Here(w)[2]] = d]
    ELSE [k EXCEPT !.dev[hubs[worker[w].i].d].child[Here(w)[2]] = d]

\* port_connect and child_add: debounced, still there, and reset; a root port
\* reports the end of its reset like any change.
Debounced(w) ==
    /\ worker[w].pc = "debounce"
    /\ UsbBecomes(IF ~Connected(Here(w)) THEN Finished(Uk, w)
                  ELSE WGoto([Uk EXCEPT !.pev = IF IsRoot(Here(w)) THEN @ \cup {Here(w)[2]} ELSE @], w, "attach"))

Lowest(S) == CHOOSE n \in S : \A m \in S : n <= m

\* An address for what is in the socket.  Fails without a slot or a structure,
\* too deep in the tree, or when the device does not answer; the slot is given
\* back then.  A device that cannot be set up is kept.
attach(w) ==
    LET parent == IF w = "usbd" THEN 0 ELSE hubs[worker[w].i].d
        free == {d \in UDevs : udev[d].st = "free"}
        left == Slots \ hwslot
    IN /\ worker[w].pc = "attach"
       /\ UsbBecomes(IF /\ free # {} /\ left # {} /\ Connected(Here(w))
                        /\ parent # 0 => udev[parent].depth < TIERS
                     THEN LET d == Lowest(free) IN
                          WGoto([Linked(Attached(Uk, Here(w), parent, d, Lowest(left)), w, d) EXCEPT !.w[w].d = d],
                                w, "setup")
                     ELSE Finished(Uk, w))

Setup(w) ==
    /\ worker[w].pc = "setup"
    /\ UsbBecomes(Finished(usb_new_device(Uk, worker[w].d, Bound(worker[w].d)), w))

\* After a removal hubd looks whether something else is there.
Removed(w) ==
    /\ worker[w].pc = "detach" /\ worker[w].doomed = <<>>
    /\ UsbBecomes(IF worker[w].seen THEN WGoto(Uk, w, "debounce") ELSE Finished(Uk, w))

-----------------------------------------------------------------------------
(* usbd                                                                    *)

\* The port's event is taken, its register read and its changes acknowledged.
usbd_looks ==
    \/ /\ worker["usbd"].pc = "wait"
       /\ \E p \in pev : LET s == <<"root", p>> IN
            UsbBecomes([Uk EXCEPT !.pev = @ \ {p}, !.w["usbd"] = [Idle EXCEPT
                !.pc = "ack", !.s = s, !.seen = Connected(s), !.chg = s \in csc]])
    \/ /\ worker["usbd"].pc = "ack"
       /\ UsbBecomes(WGoto([Uk EXCEPT !.csc = IF worker["usbd"].chg THEN @ \ {Here("usbd")} ELSE @], "usbd", "lock"))

usbd_acts ==
    /\ worker["usbd"].pc = "lock" /\ topo = None0
    /\ LET seen == worker["usbd"].seen
           p == Here("usbd")[2]
           k == [Uk EXCEPT !.topo = "usbd"]
       IN UsbBecomes(IF seen /\ ports[p] = 0 THEN WGoto(k, "usbd", "debounce")
                     ELSE IF ~seen /\ ports[p] # 0 THEN Removing([k EXCEPT !.ports[p] = 0], "usbd", ports[p])
                     ELSE Finished(k, "usbd"))

-----------------------------------------------------------------------------
(* hubd                                                                    *)

\* Kicked, or once a second.
hubd_starts ==
    \/ /\ worker["hubd"].pc = "wait" /\ hubs # <<>>
       /\ UsbBecomes(WGoto(Uk, "hubd", "lock"))
    \/ /\ worker["hubd"].pc = "lock" /\ topo = None0
       /\ UsbBecomes([Uk EXCEPT !.topo = "hubd", !.w["hubd"] = [Idle EXCEPT !.pc = "pass", !.i = 1, !.p = 1]])

\* Every port of every hub, those found during the pass included; then the hubs
\* that have gone leave the list.
hubd ==
    LET i == worker["hubd"].i
        p == worker["hubd"].p
        s == <<udev[hubs[i].d].g, p>>
    IN /\ worker["hubd"].pc = "pass"
       /\ UsbBecomes(
            IF i > Len(hubs)
            THEN [Uk EXCEPT !.topo = None0, !.w["hubd"] = Idle, !.hubs = SelectSeq(hubs, LAMBDA h : ~h.gone)]
            ELSE IF p \notin HubPorts \/ hubs[i].gone THEN [Uk EXCEPT !.w["hubd"].i = i + 1, !.w["hubd"].p = 1]
            ELSE IF ~Alive(hubs[i].d) THEN Finished(Uk, "hubd")    \* port_status fails
            ELSE [Uk EXCEPT !.w["hubd"] = [@ EXCEPT !.pc = "clear", !.s = s, !.seen = Connected(s), !.chg = s \in csc]])

Stale(seen, chg) == ~seen
Outdated(seen, chg) == ~seen \/ chg         \* gone, or replaced

\* The rest of port_event.
port_event ==
    LET w == worker["hubd"]
        h == hubs[w.i].d
        c == udev[h].child[w.p]
        k == [Uk EXCEPT !.csc = IF w.chg THEN @ \ {w.s} ELSE @]
    IN /\ w.pc = "clear"
       /\ UsbBecomes(IF c # 0 /\ Outdated(w.seen, w.chg) THEN Removing([k EXCEPT !.dev[h].child[w.p] = 0], "hubd", c)
                     ELSE IF w.seen /\ c = 0 THEN WGoto(k, "hubd", "debounce")
                     ELSE Finished(k, "hubd"))

-----------------------------------------------------------------------------
UsbInit ==
    /\ plug = [s \in Sockets |-> None0] /\ csc = {} /\ pev = {}
    /\ udev = [d \in UDevs |-> NoDev] /\ ports = [p \in RootPorts |-> 0]
    /\ slots = [n \in Slots |-> 0] /\ hwslot = {} /\ hubs = <<>>
    /\ topo = None0 /\ worker = [w \in {"usbd", "hubd"} |-> Idle]

UsbNext ==
    \/ \E s \in Sockets : Unplug(s) \/ \E g \in Gadgets : Plug(g, s)
    \/ usbd_looks \/ usbd_acts \/ hubd_starts \/ hubd \/ port_event
    \/ \E w \in {"usbd", "hubd"} : Debounced(w) \/ attach(w) \/ Setup(w) \/ detach(w) \/ Removed(w)

UsbSpec == UsbInit /\ [][UsbNext]_usb_vars

-----------------------------------------------------------------------------
(* Properties                                                              *)

(***************************************************************************)
(* While nobody changes the tree, it is one: every device hangs on exactly *)
(* one port, a child's parent is a hub that is there, the slots of the     *)
(* driver and of the controller are those of the devices, and the list has *)
(* one live record for each hub (attach, detach, usb_new_device, hubd).    *)
(***************************************************************************)
TreeIsTree ==
    LET live == {d \in UDevs : udev[d].st # "free"} IN
    topo = None0 =>
        /\ \A d \in live :
             /\ udev[d].st = "live" /\ slots[udev[d].slot] = d
             /\ Cardinality({p \in RootPorts : ports[p] = d})
                  + Cardinality({e \in live \X HubPorts : udev[e[1]].child[e[2]] = d}) = 1
             /\ \A p \in HubPorts : udev[d].child[p] # 0 =>
                  /\ udev[d].drv = "hub" /\ udev[d].child[p] \in live
                  /\ udev[udev[d].child[p]].parent = d
             /\ Cardinality({i \in DOMAIN hubs : hubs[i].d = d /\ ~hubs[i].gone})
                  = IF udev[d].drv = "hub" THEN 1 ELSE 0
        /\ hwslot = {udev[d].slot : d \in live}
        /\ \A n \in Slots : slots[n] # 0 => n \in hwslot
        /\ \A p \in RootPorts : ports[p] # 0 => ports[p] \in live

(***************************************************************************)
(* No plugging or unplugging is missed: a root port whose device is not    *)
(* the one in it has an event pending or is being looked at, and a hub     *)
(* port that holds another device than its child still has its change bit, *)
(* so the next pass replaces it (usbd, port_event).                        *)
(***************************************************************************)
ChangesSeen ==
    /\ \A p \in RootPorts : LET s == <<"root", p>> IN
         \/ p \in pev \/ worker["usbd"].s = s
         \/ IF plug[s] = None0 THEN ports[p] = 0 ELSE ports[p] # 0 /\ Alive(ports[p])
    /\ \A d \in UDevs, p \in HubPorts : LET s == <<udev[d].g, p>> IN
         /\ udev[d].drv = "hub" /\ Alive(d) /\ worker["hubd"].s # s
         /\ udev[d].child[p] # 0 /\ Connected(s) /\ ~Alive(udev[d].child[p])
         => s \in csc
=============================================================================
