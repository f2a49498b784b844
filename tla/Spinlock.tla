------------------------------ MODULE Spinlock ------------------------------
(***************************************************************************)
(* The ticket spinlock of kernel/spinlock.c.                               *)
(*                                                                         *)
(* A lock is the pair of counters owner and next, both W values wide (u16  *)
(* in the code, W = 2^16), and the debugging field cpu.  spin_lock takes   *)
(* the ticket next and waits in WFE until owner shows it; spin_trylock     *)
(* compares and swaps the whole 32-bit word; spin_unlock advances owner    *)
(* and issues SEV.  Every atomic access of the code is one step here.      *)
(***************************************************************************)
EXTENDS Integers, FiniteSets

CONSTANTS Cpus,   \* the CPUs that contend for the lock
          NoCpu,  \* the value -1 of l->cpu
          W       \* number of values of a ticket counter

\* NR_CPUS is 8 and the counters are 16 bits wide, so tickets never run out.
ASSUME TicketAssumption ==
    /\ IsFiniteSet(Cpus)
    /\ NoCpu \notin Cpus
    /\ W \in Nat
    /\ Cardinality(Cpus) < W

VARIABLES
    serving,    \* l->owner: the ticket being served
    next,     \* l->next: the next ticket to hand out
    lcpu,     \* l->cpu: the holder, or NoCpu
    lpc,       \* where each CPU is in the lock functions
    ticket,   \* the ticket of spin_lock, or the word read by spin_trylock
    event     \* the event register of each CPU, set by SEV and consumed by WFE

spin_vars == <<serving, next, lcpu, lpc, ticket, event>>

Tickets == 0 .. W - 1
SpinPCs == {"out", "check", "wfe", "got", "cas", "in", "store", "sev"}

\* u16 arithmetic: the counter after x.
Inc(x) == IF x = W - 1 THEN 0 ELSE x + 1

\* How many increments lead from ticket a to ticket b.
Dist(a, b) == IF b >= a THEN b - a ELSE b - a + W

\* spin_lock_init.
SpinInit ==
    /\ serving = 0 /\ next = 0 /\ lcpu = NoCpu
    /\ lpc = [c \in Cpus |-> "out"]
    /\ ticket = [c \in Cpus |-> 0]
    /\ event = [c \in Cpus |-> FALSE]

SpinGoto(c, l) == lpc' = [lpc EXCEPT ![c] = l]

\* spin_lock: fetch-and-add on next.
TakeTicket(c) ==
    /\ lpc[c] = "out"
    /\ ticket' = [ticket EXCEPT ![c] = next]
    /\ next' = Inc(next)
    /\ SpinGoto(c, "check")
    /\ UNCHANGED <<serving, lcpu, event>>

\* Mutant: the ticket after the one being served may enter.
CheckOwnerLoose(c) ==
    /\ lpc[c] = "check"
    /\ SpinGoto(c, IF Dist(serving, ticket[c]) <= 1 THEN "got" ELSE "wfe")
    /\ UNCHANGED <<serving, next, lcpu, ticket, event>>

\* spin_lock: the loop condition, an acquire load of owner.
CheckOwner(c) ==
    /\ lpc[c] = "check"
    /\ SpinGoto(c, IF serving = ticket[c] THEN "got" ELSE "wfe")
    /\ UNCHANGED <<serving, next, lcpu, ticket, event>>

\* Mutant: the loop waits on without another look at owner.
WaitForEventOnly(c) ==
    /\ lpc[c] = "wfe"
    /\ event' = [event EXCEPT ![c] = FALSE]
    /\ UNCHANGED <<serving, next, lcpu, lpc, ticket>>

\* The WFE instruction: returns once the event register is set, and clears it.
WaitForEvent(c) ==
    /\ lpc[c] = "wfe"
    /\ event[c]
    /\ event' = [event EXCEPT ![c] = FALSE]
    /\ SpinGoto(c, "check")
    /\ UNCHANGED <<serving, next, lcpu, ticket>>

\* spin_lock and spin_trylock: record the holder and return.
RecordHolder(c) ==
    /\ lpc[c] = "got"
    /\ lcpu' = c
    /\ SpinGoto(c, "in")
    /\ UNCHANGED <<serving, next, ticket, event>>

\* spin_trylock: read the word; a held lock makes it fail at once (a stutter).
TryRead(c) ==
    /\ lpc[c] = "out"
    /\ serving = next
    /\ ticket' = [ticket EXCEPT ![c] = next]
    /\ SpinGoto(c, "cas")
    /\ UNCHANGED <<serving, next, lcpu, event>>

\* Mutant: the compare-and-swap looks at one half of the word.
TryCasHalf(c) ==
    /\ lpc[c] = "cas"
    /\ IF serving = ticket[c]
         THEN next' = Inc(next) /\ SpinGoto(c, "got")
         ELSE next' = next /\ SpinGoto(c, "out")
    /\ UNCHANGED <<serving, lcpu, ticket, event>>

\* spin_trylock: compare-and-swap of both counters; on failure return false.
TryCas(c) ==
    /\ lpc[c] = "cas"
    /\ IF serving = ticket[c] /\ next = ticket[c]
         THEN next' = Inc(ticket[c]) /\ SpinGoto(c, "got")
         ELSE next' = next /\ SpinGoto(c, "out")
    /\ UNCHANGED <<serving, lcpu, ticket, event>>

\* spin_unlock: forget the holder ...
ForgetHolder(c) ==
    /\ lpc[c] = "in"
    /\ lcpu' = NoCpu
    /\ SpinGoto(c, "store")
    /\ UNCHANGED <<serving, next, ticket, event>>

\* ... then release-store the next owner ...
StoreOwner(c) ==
    /\ lpc[c] = "store"
    /\ serving' = Inc(serving)
    /\ SpinGoto(c, "sev")
    /\ UNCHANGED <<next, lcpu, ticket, event>>

\* Mutant: spin_unlock without SEV.
SendNoEvent(c) ==
    /\ lpc[c] = "sev"
    /\ SpinGoto(c, "out")
    /\ UNCHANGED <<serving, next, lcpu, ticket, event>>

\* ... and wake every CPU that waits in WFE.
SendEvent(c) ==
    /\ lpc[c] = "sev"
    /\ event' = [d \in Cpus |-> TRUE]
    /\ SpinGoto(c, "out")
    /\ UNCHANGED <<serving, next, lcpu, ticket>>

SpinLock(c) == TakeTicket(c) \/ CheckOwner(c) \/ WaitForEvent(c) \/ RecordHolder(c)
TryLock(c) == TryRead(c) \/ TryCas(c)
SpinUnlock(c) == ForgetHolder(c) \/ StoreOwner(c) \/ SendEvent(c)

SpinNext == \E c \in Cpus : SpinLock(c) \/ TryLock(c) \/ SpinUnlock(c)

\* A CPU inside a lock function keeps executing; nobody has to call one.
SpinFairness ==
    \A c \in Cpus :
        WF_spin_vars(CheckOwner(c) \/ WaitForEvent(c) \/ RecordHolder(c) \/ SpinUnlock(c))

SpinSpec == SpinInit /\ [][SpinNext]_spin_vars /\ SpinFairness

-----------------------------------------------------------------------------
\* CPUs that hold the lock, and CPUs that hold a ticket and wait.
Holders == {c \in Cpus : lpc[c] \in {"got", "in", "store"}}
Waiting == {c \in Cpus : lpc[c] \in {"check", "wfe"}}

\* The variables have their types: counters stay within the W values of a u16.
SpinTypeOK ==
    /\ serving \in Tickets /\ next \in Tickets
    /\ lcpu \in Cpus \cup {NoCpu}
    /\ lpc \in [Cpus -> SpinPCs]
    /\ ticket \in [Cpus -> Tickets]
    /\ event \in [Cpus -> BOOLEAN]

\* At most one CPU is between the acquisition of spin_lock or spin_trylock and
\* the owner store of spin_unlock, whatever the mixture of lockers and
\* trylockers and however often the 16-bit counters wrap.
MutualExclusion == \A c, d \in Holders : c = d

\* The debugging field names exactly the CPU that holds the lock: a CPU that is
\* handed the lock never has its name erased by the previous holder.
HolderRecorded ==
    /\ lcpu # NoCpu => lpc[lcpu] = "in"
    /\ \A c \in Cpus : lpc[c] = "in" => lcpu = c

\* Nobody oversleeps: a CPU that sits in WFE although its ticket is being served
\* has a pending event, or the SEV of the unlocker is still to come.
NoLostEvent ==
    \A c \in Cpus : lpc[c] = "wfe" /\ serving = ticket[c]
        => event[c] \/ \E d \in Cpus : lpc[d] = "sev"

\* "Fair ticket spinlock" (spinlock.h): of two CPUs that wait, the one with the
\* later ticket is never the next to get the lock.
FirstComeFirstServed ==
    [][\A c, d \in Waiting :
         Dist(serving, ticket[c]) < Dist(serving, ticket[d]) => lpc'[d] # "got"]_spin_vars

\* Every spin_lock that has drawn a ticket returns.
EveryLockReturns == \A c \in Cpus : lpc[c] = "check" ~> lpc[c] = "in"
=============================================================================
