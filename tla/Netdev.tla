------------------------------- MODULE Netdev -------------------------------
(***************************************************************************)
(* Network devices: net/netdev.c with its thread netd, and the drivers     *)
(* drivers/net/virtio_net.c ("virtio") and drivers/net/bcmgenet.c          *)
(* ("genet").  netd holds the stack lock while it polls; interrupts and    *)
(* the hardware come in between any two of its steps.  Interface calls     *)
(* take the stack lock, so they come in only while netd does not hold it.  *)
(***************************************************************************)
EXTENDS Integers, FiniteSets

CONSTANTS
    Nics,            \* the devices, in the order they register
    Driver,          \* "virtio" or "genet" for each
    Boards,          \* the sets of devices a machine may have
    RXRING,          \* frames a receive ring holds
    BUDGET,          \* frames a poll takes, 64
    TXRING,          \* descriptors of a transmit ring
    TXIDX            \* the indices of genet's rings count modulo this, 2^16

ASSUME NetdevAssumption ==
    /\ Nics \subseteq Nat \ {0} /\ Boards \subseteq SUBSET Nics
    /\ Driver \in [Nics -> {"virtio", "genet"}]
    /\ RXRING \in Nat /\ BUDGET \in Nat \ {0} /\ TXRING \in Nat \ {0}
    /\ TXIDX \in Nat /\ \E k \in 1..TXIDX : TXIDX = k * TXRING

VARIABLES
    nic,     \* struct net_device with its driver's state and hardware
    netd,    \* the thread: pc, whether it sleeps, and the device it polls
    work,    \* netd_work
    fitted   \* the devices this machine has; fixed

nd_vars == <<nic, netd, work, fitted>>

NewNic ==
    [on |-> FALSE, reg |-> FALSE, ring |-> 0, stat |-> FALSE, masked |-> TRUE, pending |-> FALSE,
     short |-> FALSE, phy |-> FALSE, link |-> FALSE, netif |-> FALSE, check |-> FALSE, up |-> FALSE, dhcp |-> FALSE,
     prod |-> 0, cons |-> 0, slots |-> [i \in 0..(TXRING - 1) |-> "free"]]

-----------------------------------------------------------------------------
(* Interrupts and hardware                                                 *)

net_kick(n) == work' = TRUE /\ netd' = [netd EXCEPT !.st = IF @ = "S" THEN "R" ELSE @] /\ nic' = n
netdev_schedule(n, d) == net_kick([n EXCEPT ![d].pending = TRUE])

\* A probe empties the rings and ends with the device running and its interrupt
\* enabled, before it is registered.  The link is known at once, or found by
\* link_tick.
Probed(d, link) ==
    /\ ~nic[d].on
    /\ nic' = [nic EXCEPT ![d].on = TRUE, ![d].masked = FALSE, ![d].link = link] /\ UNCHANGED <<netd, work>>
virtio_net_probe(d) == Driver[d] = "virtio" /\ \E link \in BOOLEAN : Probed(d, link)
genet_probe(d) == Driver[d] = "genet" /\ Probed(d, FALSE)

Unlocked == netd.pc = "wait"

netdev_register(d) ==
    /\ Unlocked /\ nic[d].on /\ ~nic[d].reg
    /\ \A e \in fitted : e < d => nic[e].reg
    /\ nic' = [nic EXCEPT ![d].reg = TRUE, ![d].up = TRUE, ![d].netif = nic[d].link]
    /\ UNCHANGED <<netd, work>>

frame_arrives(d) ==
    /\ nic[d].on /\ nic[d].ring < RXRING
    /\ nic' = [nic EXCEPT ![d].ring = @ + 1, ![d].stat = TRUE] /\ UNCHANGED <<netd, work>>

vnet_rx_irq(d) ==
    /\ Driver[d] = "virtio" /\ nic[d].stat
    /\ netdev_schedule([nic EXCEPT ![d].stat = FALSE], d)

\* The receive interrupt stays masked until netd has drained the ring.
genet_irq(d) ==
    /\ Driver[d] = "genet" /\ nic[d].stat /\ ~nic[d].masked
    /\ netdev_schedule([nic EXCEPT ![d].stat = FALSE, ![d].masked = TRUE], d)

link_tick(d) ==
    /\ Driver[d] = "genet" /\ nic[d].reg /\ ~nic[d].check
    /\ netdev_schedule([nic EXCEPT ![d].check = TRUE], d)

cable(d) ==
    /\ Driver[d] = "genet"
    /\ nic' = [nic EXCEPT ![d].phy = ~@] /\ UNCHANGED <<netd, work>>

-----------------------------------------------------------------------------
(* netd                                                                    *)

Reg == {d \in Nics : nic[d].reg}
After(d) == {e \in Reg : e > d}
First(S) == IF S = {} THEN {0} ELSE {e \in S : \A x \in S : e <= x}

\* wait_event_interruptible_timeout: woken, or after 20 ms.
netd_wakes ==
    /\ netd.pc = "wait"
    /\ \E e \in First(Reg) : netd' = [pc |-> "dev", st |-> "R", d |-> e, n |-> 0]
    /\ work' = FALSE /\ UNCHANGED nic

netd_device ==
    /\ netd.pc = "dev" /\ netd.d # 0 /\ UNCHANGED work
    /\ IF nic[netd.d].pending
       THEN nic' = [nic EXCEPT ![netd.d].pending = FALSE] /\ netd' = [netd EXCEPT !.pc = "poll"]
       ELSE nic' = nic /\ \E e \in First(After(netd.d)) : netd' = [netd EXCEPT !.d = e]

\* Program the MAC and the interface for the link the PHY has.
update_link(n, d) ==
    IF ~n[d].check THEN n
    ELSE [n EXCEPT ![d].check = FALSE, ![d].link = n[d].phy, ![d].netif = n[d].phy]

MinOf(a, b) == IF a < b THEN a ELSE b

\* The frames the poll finds when it begins.
poll_begins ==
    /\ netd.pc = "poll" /\ UNCHANGED work
    /\ nic' = IF Driver[netd.d] = "genet" THEN update_link(nic, netd.d) ELSE nic
    /\ netd' = [netd EXCEPT !.pc = "taking", !.n = MinOf(nic[netd.d].ring, BUDGET)]

\* netdev_rx hands each frame to the stack, or drops it if the interface is down.
Taken(n, d, m) == [n EXCEPT ![d].ring = @ - m]

\* Mutant: the interrupt is enabled again only when a poll finds nothing.
UnmaskedEmpty(d, m) == IF Driver[d] = "genet" /\ m = 0 THEN FALSE ELSE nic[d].masked
Unmasked(d, m) == IF Driver[d] = "genet" /\ m < BUDGET THEN FALSE ELSE nic[d].masked

\* genet takes the frames it has found; virtio looks again after each frame, and
\* takes what arrives meanwhile too.
PollTakes(d) == IF Driver[d] = "genet" THEN {netd.n} ELSE netd.n..MinOf(nic[d].ring, BUDGET)

poll_ends ==
    /\ netd.pc = "taking"
    /\ \E d \in {netd.d} : \E m \in PollTakes(d), e \in First(After(d)) :
         /\ nic' = [Taken(nic, d, m) EXCEPT ![d].masked = Unmasked(d, m), ![d].short = m >= BUDGET]
         /\ work' = (work \/ m >= BUDGET)
         /\ netd' = [netd EXCEPT !.pc = "dev", !.d = e, !.n = 0]

netd_sleeps ==
    /\ netd.pc = "dev" /\ netd.d = 0
    /\ netd' = [netd EXCEPT !.pc = "wait", !.st = IF work THEN "R" ELSE "S"] /\ UNCHANGED <<nic, work>>

-----------------------------------------------------------------------------
(* Sending, by any call under the stack lock                               *)

InFlight(n) == (n.prod - n.cons) % TXIDX

genet_xmit(d) ==
    /\ Driver[d] = "genet" /\ nic[d].link /\ InFlight(nic[d]) < TXRING - 1
    /\ nic' = [nic EXCEPT ![d].slots[nic[d].prod % TXRING] = "owned", ![d].prod = (@ + 1) % TXIDX]

\* reclaim_tx, then the first buffer that is free.
Reclaimed(n) == [i \in DOMAIN n.slots |-> IF n.slots[i] = "used" THEN "free" ELSE n.slots[i]]
vnet_xmit(d) ==
    /\ Driver[d] = "virtio"
    /\ \E s \in {Reclaimed(nic[d])} :
         IF \A i \in DOMAIN s : s[i] # "free" THEN nic' = [nic EXCEPT ![d].slots = s]
         ELSE \E i \in {CHOOSE j \in DOMAIN s : s[j] = "free" /\ \A x \in DOMAIN s : s[x] = "free" => j <= x} :
                nic' = [nic EXCEPT ![d].slots = [s EXCEPT ![i] = "owned"]]

linkoutput(d) == Unlocked /\ nic[d].reg /\ UNCHANGED <<netd, work>> /\ (genet_xmit(d) \/ vnet_xmit(d))

\* The hardware has sent a frame: genet in order, virtio in any.
frame_sent(d) ==
    /\ UNCHANGED <<netd, work>>
    /\ \/ /\ Driver[d] = "genet" /\ nic[d].prod # nic[d].cons
          /\ nic' = [nic EXCEPT ![d].slots[nic[d].cons % TXRING] = "free", ![d].cons = (@ + 1) % TXIDX]
       \/ /\ Driver[d] = "virtio"
          /\ \E i \in DOMAIN nic[d].slots :
               nic[d].slots[i] = "owned" /\ nic' = [nic EXCEPT ![d].slots[i] = "used"]

-----------------------------------------------------------------------------
(* Interface calls                                                         *)

\* dhcp_release_and_stop and netif_set_down.
if_down(d) == nic' = [nic EXCEPT ![d].up = FALSE, ![d].dhcp = FALSE]
if_up(d) == nic' = [nic EXCEPT ![d].up = TRUE]
if_addr(d) == nic' = [nic EXCEPT ![d].dhcp = FALSE]
if_dhcp(d) == nic' = [nic EXCEPT ![d].up = TRUE, ![d].dhcp = TRUE]

ifreq_ioctl(d) ==
    /\ Unlocked /\ nic[d].reg /\ UNCHANGED <<netd, work>>
    /\ if_down(d) \/ if_up(d) \/ if_addr(d) \/ if_dhcp(d)

-----------------------------------------------------------------------------
NetdevInit ==
    /\ nic = [d \in Nics |-> NewNic]
    /\ netd = [pc |-> "wait", st |-> "S", d |-> 0, n |-> 0] /\ work = FALSE /\ fitted \in Boards

NetdevStep ==
    \/ \E d \in fitted :
         \/ virtio_net_probe(d) \/ genet_probe(d) \/ netdev_register(d) \/ frame_arrives(d) \/ vnet_rx_irq(d) \/ genet_irq(d) \/ link_tick(d)
         \/ cable(d) \/ linkoutput(d) \/ frame_sent(d) \/ ifreq_ioctl(d)
    \/ netd_wakes \/ netd_device \/ poll_begins \/ poll_ends \/ netd_sleeps

NetdevNext == NetdevStep /\ UNCHANGED fitted

NetdevSpec == NetdevInit /\ [][NetdevNext]_nd_vars

-----------------------------------------------------------------------------
Coming(d) ==
    \/ nic[d].stat /\ (Driver[d] = "genet" => ~nic[d].masked)
    \/ nic[d].pending
    \/ netd.d = d /\ netd.pc \in {"poll", "taking"}

(***************************************************************************)
(* No received frame is stranded: while a ring holds frames, an interrupt  *)
(* is due, the device is marked for netd, or netd is polling it - unless   *)
(* the last poll ended on its budget (see FramesFetched).  The interface   *)
(* has the link state the driver last set, DHCP never runs on one that is  *)
(* down, and no transmit buffer is written while the hardware owns it.     *)
(***************************************************************************)
NetdevExact ==
    /\ \A d \in Reg : nic[d].ring > 0 => Coming(d) \/ nic[d].short
    /\ \A d \in Reg : nic[d].netif = nic[d].link /\ (nic[d].dhcp => nic[d].up)
    /\ \A d \in Nics : Driver[d] = "genet" =>
         /\ InFlight(nic[d]) < TXRING
         /\ Cardinality({i \in DOMAIN nic[d].slots : nic[d].slots[i] = "owned"}) = InFlight(nic[d])

(***************************************************************************)
(* A ring that holds frames is always on its way to being polled, as       *)
(* netd's "more to do" says of a poll that ends on its budget.             *)
(***************************************************************************)
FramesFetched == \A d \in Reg : nic[d].ring > 0 => Coming(d)
=============================================================================
