------------------------------ MODULE Virtqueue ------------------------------
(***************************************************************************)
(* The split virtqueue of drivers/virtio/virtio_mmio.c.                    *)
(*                                                                         *)
(* A descriptor table of Num entries holds the free list and the chains    *)
(* handed to the device, both threaded through next.  The driver publishes *)
(* the head of a chain in the avail ring and the device returns it in the  *)
(* used ring, in any order.  The ring indices are u16 counters with W      *)
(* values.  virtqueue_add and virtqueue_get run under vq->lock, hence each *)
(* is one step; the device is external.                                    *)
(***************************************************************************)
EXTENDS Integers, FiniteSets

CONSTANTS Num,     \* vq->num, the size of the queue
          W,       \* number of values of a ring index
          Tokens,  \* what a driver may pass as the token of a chain
          Sizes    \* lengths of the chains the drivers build

\* A queue size divides the range of its indices (both are powers of two).
ASSUME RingAssumption ==
    /\ Num \in Nat \ {0}
    /\ W \in Nat /\ W % Num = 0 /\ W > Num
    /\ Sizes \subseteq Nat

VARIABLES
    desc,        \* vq->desc: next and the flag VRING_DESC_F_NEXT
    free_head,   \* vq->free_head
    num_free,    \* vq->num_free
    tokens,      \* vq->tokens, by head of chain
    avail,       \* the avail ring and its index
    used,        \* the used ring and its index
    last_used,   \* vq->last_used
    dev_idx,     \* the device's own index into the avail ring
    taken,       \* heads of the chains the device works on
    live         \* the chains handed over and not returned: what they are

vq_vars == <<desc, free_head, num_free, tokens, avail, used, last_used,
             dev_idx, taken, live>>

Descs == 0 .. Num - 1
Inc(i) == (i + 1) % W
NoToken == "NULL"

\* virtio_setup_vq: all descriptors on the free list; the last next is Num.
VqInit ==
    /\ desc = [i \in Descs |-> [next |-> i + 1, more |-> FALSE]]
    /\ free_head = 0 /\ num_free = Num
    /\ tokens = [i \in Descs |-> NoToken]
    /\ avail = [ring |-> [i \in Descs |-> 0], idx |-> 0]
    /\ used = [ring |-> [i \in Descs |-> 0], idx |-> 0]
    /\ last_used = 0 /\ dev_idx = 0 /\ taken = {}
    /\ live = [i \in {} |-> 0]

\* The descriptors met on the way from i: element k is k links away.
Walk(i, n) ==
    LET w[k \in 0 .. n] == IF k = 0 THEN i ELSE desc[w[k - 1]].next IN w

\* virtqueue_add: is there room?  Otherwise it returns -ENOSPC.
Room(n) == num_free >= n /\ n > 0

\* Write the slot at the index of a ring, then advance the index.
Push(r, head) == [ring |-> [r.ring EXCEPT ![r.idx % Num] = head], idx |-> Inc(r.idx)]

\* virtqueue_add: cut n descriptors from the free list and publish the chain.
virtqueue_add(n, token) ==
    LET w == Walk(free_head, n)
        chain == {w[k] : k \in 0 .. n - 1}
    IN  /\ Room(n)
        /\ desc' = [i \in Descs |->
               CASE i = w[n - 1] -> [next |-> 0, more |-> FALSE]
                 [] i \in chain \ {w[n - 1]} -> [desc[i] EXCEPT !.more = TRUE]
                 [] OTHER -> desc[i]]
        /\ free_head' = w[n]
        /\ num_free' = num_free - n
        /\ tokens' = [tokens EXCEPT ![free_head] = token]
        /\ avail' = Push(avail, free_head)
        /\ live' = [h \in DOMAIN live \cup {free_head} |->
               IF h = free_head THEN [token |-> token, chain |-> chain] ELSE live[h]]
        /\ UNCHANGED <<used, last_used, dev_idx, taken>>

\* The number of descriptors of the chain at head i, and its last descriptor.
ChainLen(i) == CHOOSE n \in 1 .. Num :
    LET w == Walk(i, n - 1)
    IN  ~desc[w[n - 1]].more /\ \A k \in 0 .. n - 2 : desc[w[k]].more

\* Something is in the used ring, and its head.
HasUsed == last_used # used.idx
UsedId == used.ring[last_used % Num]

\* Mutant: the link is left as virtqueue_add wrote it.
NewLinkLost(id) == 0
\* What the last descriptor of a returned chain links to.
NewLink(id) == free_head

\* virtqueue_get: prepend the chain of the next used element to the free list;
\* the token it returns is tokens[UsedId].
virtqueue_get ==
    /\ HasUsed
    /\ LET id == UsedId
           last == Walk(id, ChainLen(id) - 1)[ChainLen(id) - 1]
       IN  /\ desc' = [desc EXCEPT ![last].next = NewLink(id)]
           /\ free_head' = id
           /\ num_free' = num_free + ChainLen(id)
           /\ live' = [h \in DOMAIN live \ {id} |-> live[h]]
    /\ last_used' = Inc(last_used)
    /\ UNCHANGED <<tokens, avail, used, dev_idx, taken>>

\* The device fetches the next chain.
DevTake ==
    /\ dev_idx # avail.idx
    /\ taken' = taken \cup {avail.ring[dev_idx % Num]}
    /\ dev_idx' = Inc(dev_idx)
    /\ UNCHANGED <<desc, free_head, num_free, tokens, avail, used, last_used, live>>

\* The device returns a chain; it works on several and finishes in any order.
DevUse(h) ==
    /\ h \in taken
    /\ taken' = taken \ {h}
    /\ used' = Push(used, h)
    /\ UNCHANGED <<desc, free_head, num_free, tokens, avail, last_used, dev_idx, live>>

-----------------------------------------------------------------------------
\* The ring positions from a up to b.
Between(a, b) == {i \in 0 .. W - 1 : (i - a + W) % W < (b - a + W) % W}

\* What is still to be read: consumed ring slots and the tokens of free heads
\* are written again before anybody reads them.
VqView ==
    <<desc, free_head, num_free, [h \in DOMAIN live |-> tokens[h]],
      [i \in Between(dev_idx, avail.idx) |-> avail.ring[i % Num]], avail.idx,
      [i \in Between(last_used, used.idx) |-> used.ring[i % Num]], used.idx,
      taken, live>>

\* Every descriptor is either on the free list or in exactly one chain that has
\* not been returned: the walk of virtqueue_add over the free list never meets
\* a descriptor the device may still use, nor the end of the list.
OneOwner ==
    LET w == Walk(free_head, IF num_free = 0 THEN 0 ELSE num_free - 1)
        free == IF num_free = 0 THEN {} ELSE {w[k] : k \in 0 .. num_free - 1}
    IN  /\ free \subseteq Descs
        /\ Cardinality(free) = num_free
        /\ \A h \in DOMAIN live :
               /\ live[h].chain \cap free = {}
               /\ \A g \in DOMAIN live \ {h} : live[g].chain \cap live[h].chain = {}
        /\ num_free + Cardinality(UNION {live[h].chain : h \in DOMAIN live}) = Num

\* The chain the device sees, and later virtqueue_get walks, is the one that
\* was added, and the token kept for it is still the one of its driver.
ChainsIntact ==
    \A h \in DOMAIN live :
        /\ tokens[h] = live[h].token
        /\ LET w == Walk(h, ChainLen(h) - 1)
           IN  {w[k] : k \in 0 .. ChainLen(h) - 1} = live[h].chain

\* A chain that was added and not yet returned by virtqueue_get is in exactly
\* one place: the avail ring, the device or the used ring.  No ring is overrun,
\* whatever the order of completion and however often the indices wrap.
EachChainOnce ==
    LET a == [i \in Between(dev_idx, avail.idx) |-> avail.ring[i % Num]]
        u == [i \in Between(last_used, used.idx) |-> used.ring[i % Num]]
        as == {a[i] : i \in DOMAIN a}
        us == {u[i] : i \in DOMAIN u}
    IN  /\ Cardinality(DOMAIN a) = Cardinality(as)
        /\ Cardinality(DOMAIN u) = Cardinality(us)
        /\ as \cap us = {} /\ taken \cap (as \cup us) = {}
        /\ as \cup taken \cup us = DOMAIN live

\* The queue survives completions in any order and wrapping indices.
QueueIntact == OneOwner /\ ChainsIntact /\ EachChainOnce
=============================================================================
