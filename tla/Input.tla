------------------------------- MODULE Input -------------------------------
(***************************************************************************)
(* A USB keyboard (drivers/usb/hid.c) and the evdev files that read it     *)
(* (drivers/input/evdev.c).  Reports come in interrupts, the key repeat in *)
(* timer interrupts of any CPU.  Time is left out: an armed timer may fire.*)
(***************************************************************************)
EXTENDS Integers, Sequences, FiniteSets, SequencesExt

CONSTANTS
    Keys, Mods,    \* keys that type and repeat; modifiers
    Clients,       \* open files
    QLEN           \* events a file's queue holds, 256

VARIABLES
    hid,      \* struct hid: keys down, repeat key, its timer, the timer's handler
    input,    \* struct input_dev: registered, gone, who grabbed it
    client    \* struct client, its reader, and what it makes of the events

input_vars == <<hid, input, client>>

Closed == [open |-> FALSE, q |-> <<>>, pc |-> "out", down |-> {}, lost |-> FALSE]
InputBecomes(h, i, c) == hid' = h /\ input' = i /\ client' = c

-----------------------------------------------------------------------------
(* Events                                                                  *)

\* The events of one report reach every file, or the one that has grabbed the
\* device.  A full queue drops what comes; the report's end wakes the readers.
\* What the events mean to a file that has lost one is not followed.
Key(k, v) == [key |-> k, val |-> v]
Lost(c) == [c EXCEPT !.lost = TRUE, !.down = {}, !.q = [i \in DOMAIN @ |-> Key("syn", 0)]]
Put(c, e) == IF Len(c.q) < QLEN
             THEN [c EXCEPT !.q = Append(@, IF c.lost THEN Key("syn", 0) ELSE e)]
             ELSE Lost(c)
input_event(c, events) ==
    [f \in Clients |->
        IF ~c[f].open THEN c[f]
        ELSE IF input.grab \notin {"none", f} THEN Lost(c[f])
        ELSE FoldLeft(Put, c[f], events)]
Woken(c) == [f \in Clients |-> [c[f] EXCEPT !.pc = IF @ = "asleep" THEN "awake" ELSE @]]
input_sync(c) == Woken(input_event(c, <<Key("syn", 0)>>))

Each(S, v) == SetToSeq({Key(k, v) : k \in S})

-----------------------------------------------------------------------------
(* The keyboard                                                            *)

\* A report lists the keys that are down; the driver sends the differences,
\* modifiers first, then releases, then presses, and repeats the last key
\* pressed.  A mouse's buttons are modifiers.
ReleasedKept(prev, now) == IF now = {} THEN {} ELSE prev \ now
Released(prev, now) == prev \ now

keyboard_report(now) ==
    LET up == Released(hid.prev, now)
        pressed == now \ hid.prev
        typed == SetToSeq(pressed \cap Keys)
        kept == IF hid.rep \in up THEN "none" ELSE hid.rep
    IN /\ input.reg /\ ~input.gone
       /\ InputBecomes([hid EXCEPT !.prev = now, !.rep = IF typed = <<>> THEN kept ELSE Last(typed),
                                   !.armed = @ \/ typed # <<>>],
                       input, input_sync(input_event(client, Each(up \cap Mods, 0) \o Each(pressed \cap Mods, 1)
                                                          \o Each(up \cap Keys, 0) \o Each(pressed \cap Keys, 1))))

\* The handler looks at the repeat key, types it and arms the timer again; a
\* report may come in between on another CPU.
repeat_fn ==
    \/ hid.armed /\ ~hid.firing
       /\ InputBecomes([hid EXCEPT !.armed = FALSE, !.firing = hid.rep # "none" /\ ~input.gone], input, client)
    \/ hid.firing /\ InputBecomes([hid EXCEPT !.firing = FALSE, !.armed = TRUE], input, client)

hid_probe ==
    /\ ~input.reg /\ ~input.gone
    /\ InputBecomes(hid, [input EXCEPT !.reg = TRUE], client)

\* Unplugged: no more repeats, the readers are told.
hid_disconnect ==
    /\ input.reg /\ ~input.gone
    /\ InputBecomes([hid EXCEPT !.rep = "none", !.armed = FALSE], [input EXCEPT !.gone = TRUE, !.reg = FALSE], Woken(client))

-----------------------------------------------------------------------------
(* /dev/input/eventN                                                       *)

evdev_open(f) ==
    /\ ~client[f].open /\ input.reg
    /\ InputBecomes(hid, input, [client EXCEPT ![f] = [Closed EXCEPT !.open = TRUE, !.down = hid.prev]])
evdev_release(f) ==
    /\ client[f].open /\ client[f].pc = "out"
    /\ InputBecomes(hid, [input EXCEPT !.grab = IF @ = f THEN "none" ELSE @], [client EXCEPT ![f] = Closed])

\* EVIOCGRAB: only one file, and only the owner lets go.
evdev_ioctl(f) ==
    /\ client[f].open /\ client[f].pc = "out"
    /\ \/ input.grab = "none" /\ InputBecomes(hid, [input EXCEPT !.grab = f], client)
       \/ input.grab = f /\ InputBecomes(hid, [input EXCEPT !.grab = "none"], client)

Believes(down, e) == IF e.val = 1 THEN down \cup {e.key} ELSE down \ {e.key}
Believed(c) == FoldLeft(Believes, c.down, c.q)

\* A read takes what is there, or sleeps until there is something or the device
\* has gone.
Reads(f, n) ==
    [client EXCEPT ![f] = [@ EXCEPT !.down = FoldLeft(Believes, @, SubSeq(client[f].q, 1, n)),
                                    !.q = SubSeq(@, n + 1, Len(@)), !.pc = "out"]]
evdev_read(f) ==
    /\ client[f].open /\ client[f].pc # "asleep"
    /\ IF client[f].q # <<>>
       THEN \E n \in 1..Len(client[f].q) : InputBecomes(hid, input, Reads(f, n))
       ELSE \/ input.gone /\ InputBecomes(hid, input, [client EXCEPT ![f].pc = "out"])
            \/ ~input.gone /\ InputBecomes(hid, input, [client EXCEPT ![f].pc = "asleep"])
Interrupted(f) == client[f].pc = "asleep" /\ InputBecomes(hid, input, [client EXCEPT ![f].pc = "out"])

InputInit ==
    /\ hid = [prev |-> {}, rep |-> "none", armed |-> FALSE, firing |-> FALSE]
    /\ input = [reg |-> FALSE, gone |-> FALSE, grab |-> "none"]
    /\ client = [f \in Clients |-> Closed]

InputNext ==
    \/ \E now \in SUBSET (Keys \cup Mods) : keyboard_report(now)
    \/ repeat_fn \/ hid_probe \/ hid_disconnect
    \/ \E f \in Clients : evdev_open(f) \/ evdev_release(f) \/ evdev_ioctl(f) \/ evdev_read(f) \/ Interrupted(f)

InputSpec == InputInit /\ [][InputNext]_input_vars

-----------------------------------------------------------------------------
(* Properties                                                              *)

(***************************************************************************)
(* A reader that has lost no event knows the keyboard: applying what is in *)
(* its queue to what it has read gives the keys that are down.  A reader   *)
(* sleeps only with nothing to read and the device there.  The key that    *)
(* repeats is down and its timer runs (keyboard_report, input_event,       *)
(* evdev_read, repeat_fn, input_unregister).                               *)
(***************************************************************************)
InputExact ==
    /\ \A f \in Clients : LET c == client[f] IN
         /\ c.open /\ ~c.lost => Believed(c) = hid.prev
         /\ c.pc = "asleep" => c.q = <<>> /\ ~input.gone
    /\ hid.rep # "none" => hid.rep \in hid.prev /\ (hid.armed \/ hid.firing)
=============================================================================
