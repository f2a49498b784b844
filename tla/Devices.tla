------------------------------ MODULE Devices ------------------------------
(***************************************************************************)
(* The drivers side by side: network devices with their thread, the USB    *)
(* host controller, the tree of USB devices, USB disks, and keyboards.     *)
(* scope is fixed and says which.                                          *)
(***************************************************************************)
EXTENDS Netdev, Xhci, Usb, Msd, Input

CONSTANT d1    \* the thread that uses the USB device

VARIABLE scope

DevDriver == [d \in Nics |-> IF d = 1 THEN "virtio" ELSE "genet"]

\* An odd endpoint reads.  The command ring is as short as it can be.
DevTrbs == [e \in 0..5 |-> CASE e = 0 -> 2 [] e = 1 -> 4 [] OTHER -> 3]
XLoad(eps, int, lens, dies, unplug, size) ==
    [uses |-> [t \in XThreads |-> eps], int |-> int, lens |-> lens, dies |-> dies, unplug |-> unplug, evt |-> size]
DevXLoads ==
    [disk |-> XLoad({2, 3}, 0, {}, {}, FALSE, 2),
     bulk |-> XLoad({3}, 0, {}, {3}, TRUE, 3),
     ctl  |-> XLoad({1}, 0, {0, LEN}, {0}, FALSE, 2),
     halt |-> XLoad({1, 3}, 0, {0}, {}, FALSE, 2),
     poll |-> XLoad({3}, 5, {}, {}, FALSE, 3),
     intr |-> XLoad({}, 5, {}, {}, TRUE, 2)]

\* A hub for the first root port; a keyboard for the second or the hub.
DevKind == [g \in Gadgets |-> IF g = "h" THEN "hub" ELSE "hid"]
DevFits == [g \in Gadgets |-> IF g = "h" THEN {<<"root", 1>>} ELSE {<<"root", 2>>, <<"h", 1>>}]

devices_vars == <<nd_vars, xhci_vars, usb_vars, msd_vars, input_vars, scope>>

\* A part that is not used has its first load.
DevicesInit ==
    /\ scope \in {"net", "xhci", "usb", "msd", "input"}
    /\ NetdevInit /\ XhciInit /\ UsbInit /\ MsdInit /\ InputInit
    /\ scope # "xhci" => xload = "disk"
    /\ scope # "net" => fitted = CHOOSE b \in Boards : TRUE

DevicesNext ==
    /\ UNCHANGED scope
    /\ \/ scope = "net" /\ NetdevNext /\ UNCHANGED <<xhci_vars, usb_vars, msd_vars, input_vars>>
       \/ scope = "xhci" /\ XhciNext /\ UNCHANGED <<nd_vars, usb_vars, msd_vars, input_vars>>
       \/ scope = "usb" /\ UsbNext /\ UNCHANGED <<nd_vars, xhci_vars, msd_vars, input_vars>>
       \/ scope = "msd" /\ MsdNext /\ UNCHANGED <<nd_vars, xhci_vars, usb_vars, input_vars>>
       \/ scope = "input" /\ InputNext /\ UNCHANGED <<nd_vars, xhci_vars, usb_vars, msd_vars>>

DevicesSpec == DevicesInit /\ [][DevicesNext]_devices_vars

(***************************************************************************)
(* USB: a transfer returns with its own result, no ring is left unserved,  *)
(* the devices form a tree, and every change of a port is noticed (xhci.c, *)
(* usb.c, hub.c; TransfersOwn and RingsServed of Xhci, TreeIsTree and      *)
(* ChangesSeen of Usb).                                                    *)
(***************************************************************************)
UsbExact == TransfersOwn /\ RingsServed /\ TreeIsTree /\ ChangesSeen
=============================================================================
