--------------------------- MODULE VmallocProofs ---------------------------
(***************************************************************************)
(* The kernel's virtual areas for any number of CPUs, pages and sizes:     *)
(* areas never overlap, guard pages are never mapped, what a caller got    *)
(* stays mapped, and no frame is lost or mapped twice.                     *)
(*                                                                         *)
(* The invariant gives every area that is being mapped or torn down to one *)
(* call, and says how far that call has come: which of its pages are       *)
(* mapped.  A page outside that is mapped belongs to an area.              *)
(***************************************************************************)
EXTENDS Vmalloc, TLAPS

\* Leaves that name no prover go to Zenon; those that need arithmetic, records
\* or function updates name SMT.  They name Z3 too: tlapm allows itself 5 seconds
\* to encode a leaf, overruns them now and then, and then tries the next name.
USE ZenonT(40)

-----------------------------------------------------------------------------
AreaType == [start : Nat, size : Nat \ {0}, owns : BOOLEAN]
CallType == [op : {"none", "map", "unwind", "free"}, start : Nat, off : Nat, at : Nat]

VmTypeOK ==
    /\ areas \in Seq(AreaType)
    /\ kpt \in [KAddrs -> Frames \cup {Device, Unmapped}]
    /\ pool \in SUBSET Frames
    /\ vcall \in [VCpus -> CallType]

Areas == {areas[i] : i \in DOMAIN areas}
End(r) == r.start + r.size

\* The list is sorted, its areas are apart and within bounds.
Ordered ==
    /\ \A i, j \in DOMAIN areas : i < j => End(areas[i]) <= areas[j].start
    /\ \A i \in DOMAIN areas : End(areas[i]) <= VMALLOC_END

Clear(r, s) == End(r) <= s.start \/ End(s) <= r.start
Spread == \A r, s \in Areas : r # s => Clear(r, s)

\* The pages of an area, without its guard.
Inside(r, a) == r.start < a /\ a < End(r)

Covered == \A a \in KAddrs : kpt[a] # Unmapped => \E r \in Areas : Inside(r, a)
PageOf(r) == (IF r.owns THEN Frames ELSE {Device}) \cup {Unmapped}
Kinds == \A r \in Areas, a \in KAddrs : Inside(r, a) => kpt[a] \in PageOf(r)

\* How far a call has come with its area.
Progress(v, r, a) ==
    /\ v.op = "map" => (kpt[a] # Unmapped <=> a <= v.start + v.off)
    /\ v.op = "unwind" => (kpt[a] # Unmapped <=> v.start + v.at < a /\ a <= v.start + v.off)
    /\ v.op = "free" => (a <= v.start + v.off => kpt[a] = Unmapped)
Works(v, r) ==
    /\ r.start = v.start /\ v.off < r.size
    /\ v.op = "unwind" => r.owns /\ v.at <= v.off
    /\ \A a \in KAddrs : Inside(r, a) => Progress(v, r, a)
Busy(c) == vcall[c].op # "none"
CallOK(c) == Busy(c) => \E r \in Areas : Works(vcall[c], r)
Calls == \A c \in VCpus : CallOK(c)

\* What a caller holds is mapped.
Fills(x, r) ==
    /\ r.start = x.start /\ DOMAIN x.got = 1 .. r.size - 1
    /\ \A i \in DOMAIN x.got : kpt[x.start + i] = x.got[i] /\ x.got[i] # Unmapped
HeldOK(x) == \E r \in Areas : Fills(x, r)
Held == \A x \in mapped : HeldOK(x)

\* An area is in one call or with one holder.
Apart ==
    /\ \A c, d \in VCpus : c # d /\ Busy(c) /\ Busy(d) => vcall[c].start # vcall[d].start
    /\ \A c \in VCpus, x \in mapped : Busy(c) => vcall[c].start # x.start
    /\ \A x, y \in mapped : x.start = y.start => x = y

\* Frames are in the pool or mapped, once.
Conserved ==
    /\ \A a \in KAddrs : kpt[a] \in Frames => kpt[a] \notin pool
    /\ \A a, b \in KAddrs : kpt[a] \in Frames /\ kpt[a] = kpt[b] => a = b
    /\ \A p \in Frames \ pool : \E a \in KAddrs : kpt[a] = p

VmInv == VmTypeOK /\ Ordered /\ Covered /\ Kinds /\ Calls /\ Held /\ Apart /\ Conserved

-----------------------------------------------------------------------------
(* The list *)

LEMMA AreaTypes ==
  ASSUME VmTypeOK
  PROVE  /\ Len(areas) \in Nat /\ DOMAIN areas = 1 .. Len(areas)
         /\ \A r \in Areas : r \in AreaType
         /\ \A r \in Areas : r.start \in Nat /\ r.size \in Nat /\ r.size > 0 /\ r.owns \in BOOLEAN
<1>1. Len(areas) \in Nat /\ DOMAIN areas = 1 .. Len(areas)
  BY SMTT(60), Z3T(60) DEF VmTypeOK
<1>2. \A i \in DOMAIN areas : areas[i] \in AreaType
  BY SMTT(60), Z3T(60) DEF VmTypeOK
<1>3. \A r \in AreaType : r.start \in Nat /\ r.size \in Nat /\ r.size > 0 /\ r.owns \in BOOLEAN
  BY SMTT(60), Z3T(60) DEF AreaType
<1>4. QED
  BY <1>1, <1>2, <1>3 DEF Areas

\* Distinct areas are apart.
LEMMA SpreadAreas ==
  ASSUME VmTypeOK, Ordered
  PROVE  Spread
<1> SUFFICES ASSUME NEW i \in DOMAIN areas, NEW j \in DOMAIN areas, areas[i] # areas[j]
             PROVE  Clear(areas[i], areas[j])
  BY DEF Spread, Areas
<1>1. i < j \/ j < i
  BY AreaTypes, SMTT(60), Z3T(60)
<1>2. QED
  BY <1>1 DEF Clear, Ordered

\* An address inside one area is in no other, and guards none.
LEMMA Elsewhere ==
  ASSUME VmTypeOK, Ordered, NEW r \in Areas, NEW s \in Areas, r # s, NEW a \in KAddrs, Inside(r, a)
  PROVE  ~Inside(s, a) /\ a # s.start
<1>1. Clear(r, s)
  BY SpreadAreas DEF Spread
<1>2. r.start \in Nat /\ r.size \in Nat /\ s.start \in Nat /\ s.size \in Nat /\ r.size > 0 /\ s.size > 0
  BY AreaTypes
<1>3. a \in Int
  BY SMTT(60), Z3T(60), VmallocAssumption DEF KAddrs
<1>4. QED
  BY <1>1, <1>2, <1>3, SMTT(60), Z3T(60) DEF Clear, Inside, End

\* va_lookup finds the area: no other starts there.
LEMMA Lookup ==
  ASSUME VmTypeOK, Ordered, NEW r \in Areas
  PROVE  /\ Place(r.start) \in DOMAIN areas /\ Area(r.start) = r /\ PagesOf(r.start) = r.size - 1
         /\ \A s \in Areas : s.start = r.start => s = r
<1>1. \A s \in Areas : s.start = r.start => s = r
  <2> SUFFICES ASSUME NEW s \in Areas, s.start = r.start, s # r PROVE FALSE
    OBVIOUS
  <2>1. Clear(r, s)
    BY SpreadAreas DEF Spread
  <2>2. r.start \in Nat /\ r.size \in Nat /\ s.start \in Nat /\ s.size \in Nat /\ r.size > 0 /\ s.size > 0
    BY AreaTypes
  <2>3. QED
    BY <2>1, <2>2, SMTT(60), Z3T(60) DEF Clear, End
<1>2. \E k \in DOMAIN areas : areas[k].start = r.start
  BY DEF Areas
<1>3. Place(r.start) \in DOMAIN areas /\ areas[Place(r.start)].start = r.start
  BY <1>2 DEF Place
<1>4. Area(r.start) = r
  BY <1>1, <1>3 DEF Area, Areas
<1>5. QED
  BY <1>1, <1>3, <1>4 DEF PagesOf

\* va_alloc links an area into a gap.
LEMMA LinkArea ==
  ASSUME VmTypeOK, Ordered, NEW k \in 1 .. Len(areas) + 1, NEW n \in Nat \ {0}, NEW o \in BOOLEAN,
         Gap(k, n + 1), AreaEnd(k - 1) + n + 1 <= VMALLOC_END,
         NEW r, r = [start |-> AreaEnd(k - 1), size |-> n + 1, owns |-> o],
         areas' = Linked(k, r)
  PROVE  /\ areas' \in Seq(AreaType) /\ Ordered' /\ Areas' = Areas \cup {r}
         /\ r \in AreaType /\ r.start = AreaEnd(k - 1) /\ r.size = n + 1
         /\ \A s \in Areas : Clear(r, s)
         /\ r \notin Areas
<1>1. /\ Len(areas) \in Nat /\ DOMAIN areas = 1 .. Len(areas)
      /\ \A i \in DOMAIN areas : areas[i] \in AreaType /\ areas[i].start \in Nat /\ areas[i].size \in Nat
                                 /\ areas[i].size > 0
  BY AreaTypes DEF Areas
<1>2. AreaEnd(k - 1) \in Nat
  <2>1. CASE k = 1
    BY <2>1, SMTT(60), Z3T(60) DEF AreaEnd
  <2>2. CASE k # 1
    <3>1. k - 1 \in DOMAIN areas /\ k - 1 # 0
      BY <1>1, <2>2, SMTT(60), Z3T(60)
    <3>2. areas[k - 1].start + areas[k - 1].size \in Nat
      BY <1>1, <3>1, SMTT(60), Z3T(60)
    <3>3. QED
      BY <3>1, <3>2 DEF AreaEnd
  <2>3. QED
    BY <2>1, <2>2
<1>3. r \in AreaType /\ r.start = AreaEnd(k - 1) /\ r.size = n + 1 /\ n + 1 \in Nat /\ r.size > 0
  <2>1. n + 1 \in Nat \ {0} /\ n + 1 > 0
    BY SMTT(60), Z3T(60)
  <2>2. r.start = AreaEnd(k - 1) /\ r.size = n + 1 /\ r \in AreaType
    BY <1>2, <2>1 DEF AreaType
  <2>3. QED
    BY <2>1, <2>2
<1> DEFINE l == Linked(k, r)
<1>4. DOMAIN l = 1 .. Len(areas) + 1 /\ l = [i \in 1 .. Len(areas) + 1 |-> l[i]]
  BY DEF Linked
<1>5. l[k] = r
  BY SMTT(60), Z3T(60) DEF Linked
<1>6. ASSUME NEW i \in 1 .. Len(areas) + 1
      PROVE  /\ i < k => i \in DOMAIN areas /\ l[i] = areas[i]
             /\ k < i => i - 1 \in DOMAIN areas /\ l[i] = areas[i - 1]
  BY <1>1, SMTT(60), Z3T(60) DEF Linked
<1>7. \A i \in 1 .. Len(areas) + 1 : i = k \/ i < k \/ k < i
  BY <1>1, SMTT(60), Z3T(60)
<1>8. \A m \in DOMAIN areas : (m < k /\ l[m] = areas[m] /\ m \in DOMAIN l)
                               \/ (k <= m /\ l[m + 1] = areas[m] /\ m + 1 \in DOMAIN l)
  BY <1>1, SMTT(60), Z3T(60) DEF Linked
<1>9. areas' = l
  OBVIOUS
<1> HIDE DEF l
<1>10. l \in Seq(AreaType)
  <2>1. \A i \in 1 .. Len(areas) + 1 : l[i] \in AreaType
    BY <1>1, <1>3, <1>5, <1>6, <1>7
  <2>2. Len(areas) + 1 \in Nat
    BY <1>1, SMTT(60), Z3T(60)
  <2>3. QED
    BY <1>4, <2>1, <2>2, SMTT(60), Z3T(60)
<1>11. \A i \in DOMAIN areas : i < k => End(areas[i]) <= r.start
  <2> SUFFICES ASSUME NEW i \in DOMAIN areas, i < k PROVE End(areas[i]) <= r.start
    OBVIOUS
  <2>1. k - 1 \in DOMAIN areas /\ (i = k - 1 \/ i < k - 1) /\ k - 1 # 0
    BY <1>1, SMTT(60), Z3T(60)
  <2>2. AreaEnd(k - 1) = End(areas[k - 1])
    BY <2>1 DEF AreaEnd, End
  <2>3. CASE i = k - 1
    BY <1>1, <1>2, <1>3, <2>2, <2>3, SMTT(60), Z3T(60)
  <2>4. CASE i < k - 1
    <3>1. End(areas[i]) <= areas[k - 1].start
      BY <2>1, <2>4 DEF Ordered
    <3>2. /\ areas[i].start \in Nat /\ areas[i].size \in Nat
          /\ areas[k - 1].start \in Nat /\ areas[k - 1].size \in Nat
      BY <1>1, <2>1
    <3>3. QED
      BY <1>3, <2>2, <3>1, <3>2, SMTT(60), Z3T(60) DEF End
  <2>5. QED
    BY <2>1, <2>3, <2>4
<1>12. \A i \in DOMAIN areas : k <= i => End(r) <= areas[i].start
  <2> SUFFICES ASSUME NEW i \in DOMAIN areas, k <= i PROVE End(r) <= areas[i].start
    OBVIOUS
  <2>1. k \in DOMAIN areas /\ k <= Len(areas) /\ (i = k \/ k < i)
    BY <1>1, SMTT(60), Z3T(60)
  <2>2. End(r) = AreaEnd(k - 1) + (n + 1)
    BY <1>3 DEF End
  <2>3. End(r) <= areas[k].start
    BY <2>1, <2>2 DEF Gap
  <2>4. CASE i = k
    BY <2>3, <2>4
  <2>5. CASE k < i
    <3>1. End(areas[k]) <= areas[i].start
      BY <2>1, <2>5 DEF Ordered
    <3>2. /\ areas[i].start \in Nat /\ areas[k].start \in Nat /\ areas[k].size \in Nat
      BY <1>1, <2>1
    <3>3. End(r) \in Nat
      BY <1>2, <1>3, <2>2, SMTT(60), Z3T(60)
    <3>4. QED
      BY <2>3, <3>1, <3>2, <3>3, SMTT(60), Z3T(60) DEF End
  <2>6. QED
    BY <2>1, <2>4, <2>5
<1>13. \A i, j \in DOMAIN l : i < j => End(l[i]) <= l[j].start
  <2> SUFFICES ASSUME NEW i \in DOMAIN l, NEW j \in DOMAIN l, i < j PROVE End(l[i]) <= l[j].start
    OBVIOUS
  <2>1. i \in 1 .. Len(areas) + 1 /\ j \in 1 .. Len(areas) + 1
    BY <1>4
  <2>2. CASE i < k /\ j < k
    <3>1. i \in DOMAIN areas /\ j \in DOMAIN areas /\ l[i] = areas[i] /\ l[j] = areas[j]
      BY <1>6, <2>1, <2>2
    <3>2. QED
      BY <3>1 DEF Ordered
  <2>3. CASE i < k /\ j = k
    <3>1. i \in DOMAIN areas /\ l[i] = areas[i]
      BY <1>6, <2>1, <2>3
    <3>2. QED
      BY <1>5, <1>11, <2>3, <3>1
  <2>4. CASE i < k /\ k < j
    <3>1. i \in DOMAIN areas /\ l[i] = areas[i] /\ j - 1 \in DOMAIN areas /\ l[j] = areas[j - 1]
      BY <1>6, <2>1, <2>4
    <3>2. i < j - 1
      BY <2>1, <2>4, <1>1, SMTT(60), Z3T(60)
    <3>3. QED
      BY <3>1, <3>2 DEF Ordered
  <2>5. CASE i = k
    <3>1. k < j
      BY <2>5
    <3>2. j - 1 \in DOMAIN areas /\ l[j] = areas[j - 1]
      BY <1>6, <2>1, <3>1
    <3>3. k <= j - 1
      BY <1>1, <2>1, <3>1, SMTT(60), Z3T(60)
    <3>4. QED
      BY <1>5, <1>12, <2>5, <3>2, <3>3
  <2>6. CASE k < i
    <3>1. k < j
      BY <1>1, <2>1, <2>6, SMTT(60), Z3T(60)
    <3>2. /\ i - 1 \in DOMAIN areas /\ l[i] = areas[i - 1]
          /\ j - 1 \in DOMAIN areas /\ l[j] = areas[j - 1]
      BY <1>6, <2>1, <2>6, <3>1
    <3>3. i - 1 < j - 1
      BY <1>1, <2>1, SMTT(60), Z3T(60)
    <3>4. QED
      BY <3>2, <3>3 DEF Ordered
  <2>7. QED
    BY <1>7, <2>1, <2>2, <2>3, <2>4, <2>5, <2>6
<1>14. \A i \in DOMAIN l : End(l[i]) <= VMALLOC_END
  <2>1. End(r) <= VMALLOC_END
    BY <1>2, <1>3, SMTT(60), Z3T(60) DEF End
  <2>2. QED
    BY <1>4, <1>5, <1>6, <1>7, <2>1 DEF Ordered
<1>15. {l[i] : i \in DOMAIN l} = Areas \cup {r}
  <2>1. ASSUME NEW i \in DOMAIN l PROVE l[i] \in Areas \cup {r}
    BY <1>4, <1>5, <1>6, <1>7 DEF Areas
  <2>2. ASSUME NEW m \in DOMAIN areas PROVE \E i \in DOMAIN l : l[i] = areas[m]
    BY <1>8
  <2>3. k \in DOMAIN l
    BY <1>4
  <2>4. QED
    BY <1>5, <2>1, <2>2, <2>3 DEF Areas
<1>16. \A m \in DOMAIN areas : Clear(r, areas[m])
  <2>1. \A m \in DOMAIN areas : m < k \/ k <= m
    BY <1>8
  <2>2. QED
    BY <1>11, <1>12, <2>1 DEF Clear
<1>17. r \notin Areas
  <2> SUFFICES ASSUME NEW m \in DOMAIN areas, r = areas[m] PROVE FALSE
    BY DEF Areas
  <2>1. Clear(r, r)
    BY <1>16
  <2>2. QED
    BY <1>2, <1>3, <2>1, SMTT(60), Z3T(60) DEF Clear, End
<1>18. Ordered'
  BY <1>9, <1>13, <1>14 DEF Ordered
<1>19. Areas' = Areas \cup {r}
  BY <1>9, <1>15 DEF Areas
<1>20. \A s \in Areas : Clear(r, s)
  BY <1>16 DEF Areas
<1>21. QED
  BY <1>3, <1>9, <1>10, <1>17, <1>18, <1>19, <1>20

\* va_remove takes out one area.
LEMMA UnlinkArea ==
  ASSUME VmTypeOK, Ordered, NEW r \in Areas, areas' = Unlinked(Place(r.start))
  PROVE  areas' \in Seq(AreaType) /\ Ordered' /\ Areas' = Areas \ {r}
<1>1. /\ Len(areas) \in Nat /\ DOMAIN areas = 1 .. Len(areas)
      /\ \A i \in DOMAIN areas : areas[i] \in AreaType
  BY AreaTypes DEF Areas
<1>2. PICK k \in DOMAIN areas : k = Place(r.start) /\ areas[k] = r
  BY Lookup DEF Area
<1> DEFINE l == Unlinked(k)
<1>3. DOMAIN l = 1 .. Len(areas) - 1 /\ l = [i \in 1 .. Len(areas) - 1 |-> l[i]]
  BY DEF Unlinked
<1>4. ASSUME NEW i \in 1 .. Len(areas) - 1
      PROVE  \E m \in DOMAIN areas : l[i] = areas[m] /\ m # k /\ m = IF i < k THEN i ELSE i + 1
  BY <1>1, <1>2, SMTT(60), Z3T(60) DEF Unlinked
<1>5. ASSUME NEW m \in DOMAIN areas, m # k
      PROVE  \E i \in 1 .. Len(areas) - 1 : l[i] = areas[m]
  <2>1. CASE m < k
    <3>1. m \in 1 .. Len(areas) - 1
      BY <1>1, <1>2, <2>1, SMTT(60), Z3T(60)
    <3>2. QED
      BY <2>1, <3>1 DEF Unlinked
  <2>2. CASE ~(m < k)
    <3>1. m - 1 \in 1 .. Len(areas) - 1 /\ ~(m - 1 < k) /\ m - 1 + 1 = m
      BY <1>1, <1>2, <1>5, <2>2, SMTT(60), Z3T(60)
    <3>2. l[m - 1] = areas[m - 1 + 1]
      BY <3>1 DEF Unlinked
    <3>3. QED
      BY <3>1, <3>2
  <2>3. QED
    BY <2>1, <2>2
<1>6. areas' = l
  BY <1>2
<1> HIDE DEF l
<1>7. l \in Seq(AreaType)
  <2>1. \A i \in 1 .. Len(areas) - 1 : l[i] \in AreaType
    BY <1>1, <1>4
  <2>2. Len(areas) - 1 \in Nat
    BY <1>1, SMTT(60), Z3T(60)
  <2>3. QED
    BY <1>3, <2>1, <2>2, SMTT(60), Z3T(60)
<1>8. \A i, j \in DOMAIN l : i < j => End(l[i]) <= l[j].start
  <2> SUFFICES ASSUME NEW i \in DOMAIN l, NEW j \in DOMAIN l, i < j PROVE End(l[i]) <= l[j].start
    OBVIOUS
  <2>1. PICK m \in DOMAIN areas : l[i] = areas[m] /\ m = IF i < k THEN i ELSE i + 1
    BY <1>3, <1>4
  <2>2. PICK n \in DOMAIN areas : l[j] = areas[n] /\ n = IF j < k THEN j ELSE j + 1
    BY <1>3, <1>4
  <2>3. m < n
    BY <1>1, <1>3, <2>1, <2>2, SMTT(60), Z3T(60)
  <2>4. QED
    BY <2>1, <2>2, <2>3 DEF Ordered
<1>9. \A i \in DOMAIN l : End(l[i]) <= VMALLOC_END
  BY <1>3, <1>4 DEF Ordered
<1>10. {l[i] : i \in DOMAIN l} = Areas \ {r}
  <2>1. ASSUME NEW i \in DOMAIN l PROVE l[i] \in Areas \ {r}
    <3>1. PICK m \in DOMAIN areas : l[i] = areas[m] /\ m # k
      BY <1>3, <1>4
    <3>2. areas[m] # areas[k]
      <4>1. m < k \/ k < m
        BY <1>1, <3>1, SMTT(60), Z3T(60)
      <4>2. /\ areas[m].start \in Nat /\ areas[m].size \in Nat /\ areas[m].size > 0
            /\ areas[k].start \in Nat /\ areas[k].size \in Nat /\ areas[k].size > 0
        BY AreaTypes DEF Areas
      <4>3. Clear(areas[m], areas[k])
        BY <4>1 DEF Ordered, Clear
      <4>4. QED
        BY <4>2, <4>3, SMTT(60), Z3T(60) DEF Clear, End
    <3>3. QED
      BY <1>2, <3>1, <3>2 DEF Areas
  <2>2. ASSUME NEW s \in Areas, s # r PROVE \E i \in DOMAIN l : l[i] = s
    <3>1. PICK m \in DOMAIN areas : s = areas[m]
      BY DEF Areas
    <3>2. m # k
      BY <1>2, <2>2, <3>1
    <3>3. QED
      BY <1>3, <1>5, <3>1, <3>2
  <2>3. QED
    BY <2>1, <2>2
<1>11. Ordered' /\ Areas' = Areas \ {r}
  BY <1>6, <1>8, <1>9, <1>10 DEF Ordered, Areas
<1>12. QED
  BY <1>6, <1>7, <1>11

\* The k-th page of an area is an address, inside the area.
LEMMA Page ==
  ASSUME VmTypeOK, Ordered, NEW r \in Areas, NEW i \in 1 .. r.size - 1
  PROVE  r.start + i \in KAddrs /\ Inside(r, r.start + i)
<1>1. r.start \in Nat /\ r.size \in Nat
  BY AreaTypes
<1>2. End(r) <= VMALLOC_END
  BY DEF Ordered, Areas
<1>3. QED
  BY <1>1, <1>2, VmallocAssumption, SMTT(60), Z3T(60) DEF End, Inside, KAddrs

\* The fields of a call.
LEMMA CallFields ==
  ASSUME VmTypeOK, NEW c \in VCpus
  PROVE  /\ vcall[c].op \in {"none", "map", "unwind", "free"}
         /\ vcall[c].start \in Nat /\ vcall[c].off \in Nat /\ vcall[c].at \in Nat
<1>1. vcall[c] \in CallType
  BY DEF VmTypeOK
<1>2. QED
  BY <1>1 DEF CallType

-----------------------------------------------------------------------------
(* One page of an area changes *)

\* A call changes the entry of an address inside its area to p.
Pokes(c, r, a, p) ==
    /\ c \in VCpus /\ Busy(c) /\ r \in Areas /\ r.start = vcall[c].start
    /\ a \in KAddrs /\ Inside(r, a) /\ p \in PageOf(r)
    /\ kpt' = [kpt EXCEPT ![a] = p]
    /\ areas' = areas /\ mapped' = mapped
    /\ \A d \in VCpus \ {c} : vcall'[d] = vcall[d]

LEMMA PokeEntry ==
  ASSUME VmTypeOK, NEW c, NEW r, NEW a, NEW p, Pokes(c, r, a, p)
  PROVE  /\ kpt' \in [KAddrs -> Frames \cup {Device, Unmapped}]
         /\ kpt'[a] = p /\ \A b \in KAddrs : b # a => kpt'[b] = kpt[b]
         /\ Areas' = Areas
<1>1. p \in Frames \cup {Device, Unmapped}
  BY DEF Pokes, PageOf
<1>2. kpt' = [kpt EXCEPT ![a] = p] /\ a \in KAddrs /\ areas' = areas
  BY DEF Pokes
<1>3. QED
  BY <1>1, <1>2 DEF VmTypeOK, Areas

\* Other calls do not notice.
LEMMA PokeCalls ==
  ASSUME VmInv, NEW c, NEW r, NEW a, NEW p, Pokes(c, r, a, p),
         NEW d \in VCpus \ {c}
  PROVE  CallOK(d)'
<1> SUFFICES ASSUME Busy(d)' PROVE \E s \in Areas' : Works(vcall[d], s)'
  BY DEF CallOK
<1>1. VmTypeOK /\ Ordered /\ Apart /\ CallOK(d)
  BY DEF VmInv, Calls
<1>2. vcall'[d] = vcall[d] /\ Busy(d) /\ Busy(c) /\ c \in VCpus
  BY DEF Pokes, Busy
<1>3. PICK s \in Areas : Works(vcall[d], s)
  BY <1>1, <1>2 DEF CallOK
<1>4. r \in Areas /\ r.start = vcall[c].start /\ a \in KAddrs /\ Inside(r, a)
  BY DEF Pokes
<1>5. s.start # r.start
  BY <1>1, <1>2, <1>3, <1>4 DEF Apart, Works
<1>6. ~Inside(s, a)
  BY <1>1, <1>4, <1>5, Elsewhere
<1>7. \A b \in KAddrs : Inside(s, b) => kpt'[b] = kpt[b]
  BY <1>1, <1>6, PokeEntry
<1>8. Areas' = Areas
  BY <1>1, PokeEntry
<1>9. Works(vcall[d], s)'
  <2>1. ASSUME NEW b \in KAddrs, Inside(s, b) PROVE Progress(vcall[d], s, b)'
    <3>1. Progress(vcall[d], s, b)
      BY <1>3, <2>1 DEF Works
    <3>2. kpt'[b] = kpt[b]
      BY <1>7, <2>1
    <3>3. QED
      BY <1>2, <3>1, <3>2 DEF Progress
  <2>2. QED
    BY <1>2, <1>3, <2>1 DEF Works
<1>10. QED
  BY <1>8, <1>9

\* Neither do holders.
LEMMA PokeHeld ==
  ASSUME VmInv, NEW c, NEW r, NEW a, NEW p, Pokes(c, r, a, p), NEW x \in mapped
  PROVE  HeldOK(x)'
<1>1. VmTypeOK /\ Ordered /\ Apart /\ HeldOK(x)
  BY DEF VmInv, Held
<1>2. PICK s \in Areas : Fills(x, s)
  BY <1>1 DEF HeldOK
<1>3. r \in Areas /\ r.start = vcall[c].start /\ a \in KAddrs /\ Inside(r, a) /\ Busy(c) /\ c \in VCpus
  BY DEF Pokes
<1>4. s.start # r.start
  BY <1>1, <1>2, <1>3 DEF Apart, Fills
<1>5. ~Inside(s, a)
  BY <1>1, <1>3, <1>4, Elsewhere
<1>6. ASSUME NEW i \in DOMAIN x.got PROVE kpt'[x.start + i] = kpt[x.start + i]
  <2>1. i \in 1 .. s.size - 1 /\ x.start = s.start
    BY <1>2 DEF Fills
  <2>2. x.start + i \in KAddrs /\ Inside(s, x.start + i)
    BY <1>1, <2>1, Page
  <2>3. x.start + i # a
    BY <1>5, <2>2
  <2>4. QED
    BY <1>1, <2>2, <2>3, PokeEntry
<1>7. Areas' = Areas
  BY <1>1, PokeEntry
<1>8. Fills(x, s)'
  BY <1>2, <1>6 DEF Fills
<1>9. QED
  BY <1>7, <1>8 DEF HeldOK

LEMMA PokeKinds ==
  ASSUME VmInv, NEW c, NEW r, NEW a, NEW p, Pokes(c, r, a, p)
  PROVE  Ordered' /\ Covered' /\ Kinds'
<1>1. VmTypeOK /\ Ordered /\ Covered /\ Kinds
  BY DEF VmInv
<1>2. r \in Areas /\ a \in KAddrs /\ Inside(r, a) /\ p \in PageOf(r) /\ areas' = areas
  BY DEF Pokes
<1>3. /\ kpt'[a] = p /\ \A b \in KAddrs : b # a => kpt'[b] = kpt[b]
      /\ Areas' = Areas
  BY <1>1, PokeEntry
<1>4. Ordered'
  BY <1>1, <1>2 DEF Ordered
<1>5. Covered'
  BY <1>1, <1>2, <1>3 DEF Covered
<1>6. ASSUME NEW s \in Areas, NEW b \in KAddrs, Inside(s, b) PROVE kpt'[b] \in PageOf(s)
  <2>1. CASE b = a
    <3>1. s = r
      BY <1>1, <1>2, <1>6, <2>1, Elsewhere
    <3>2. QED
      BY <1>2, <1>3, <2>1, <3>1
  <2>2. CASE b # a
    BY <1>1, <1>3, <1>6, <2>2 DEF Kinds
  <2>3. QED
    BY <2>1, <2>2
<1>7. Kinds'
  BY <1>3, <1>6 DEF Kinds
<1>8. QED
  BY <1>4, <1>5, <1>7

\* A call that goes on with its area, or returns, disturbs nobody.
LEMMA ApartKept ==
  ASSUME Apart, mapped' \subseteq mapped,
         \A d \in VCpus : Busy(d)' => Busy(d) /\ vcall'[d].start = vcall[d].start
  PROVE  Apart'
<1>1. \A c, d \in VCpus : c # d /\ Busy(c)' /\ Busy(d)' => vcall'[c].start # vcall'[d].start
  BY DEF Apart
<1>2. \A c \in VCpus, x \in mapped' : Busy(c)' => vcall'[c].start # x.start
  BY DEF Apart
<1>3. \A x, y \in mapped' : x.start = y.start => x = y
  BY DEF Apart
<1>4. QED
  BY <1>1, <1>2, <1>3 DEF Apart

-----------------------------------------------------------------------------
(* Frames *)

LEMMA FrameTaken ==
  ASSUME VmTypeOK, Conserved, NEW a \in KAddrs, NEW p \in pool, kpt[a] = Unmapped,
         kpt' = [kpt EXCEPT ![a] = p], pool' = pool \ {p}
  PROVE  Conserved'
<1>1. kpt'[a] = p /\ p \in Frames /\ \A b \in KAddrs : b # a => kpt'[b] = kpt[b]
  BY DEF VmTypeOK
<1>2. Unmapped \notin Frames
  BY VmallocAssumption
<1>3. ASSUME NEW b \in KAddrs, kpt'[b] \in Frames PROVE kpt'[b] \notin pool'
  <2>1. CASE b = a
    BY <1>1, <2>1, SMTT(60), Z3T(60)
  <2>2. CASE b # a
    <3>1. kpt'[b] = kpt[b]
      BY <1>1, <2>2
    <3>2. kpt[b] \notin pool
      BY <1>3, <3>1 DEF Conserved
    <3>3. QED
      BY <3>1, <3>2, SMTT(60), Z3T(60)
  <2>3. QED
    BY <2>1, <2>2
<1>4. ASSUME NEW b \in KAddrs, NEW d \in KAddrs, kpt'[b] \in Frames, kpt'[b] = kpt'[d] PROVE b = d
  <2>1. ASSUME NEW e \in KAddrs, e # a PROVE kpt'[e] # p
    <3>1. kpt'[e] = kpt[e]
      BY <1>1, <2>1
    <3>2. kpt[e] # p
      BY <1>1 DEF Conserved
    <3>3. QED
      BY <3>1, <3>2
  <2>2. CASE b = a \/ d = a
    BY <1>1, <1>4, <2>1, <2>2
  <2>3. CASE b # a /\ d # a
    <3>1. kpt'[b] = kpt[b] /\ kpt'[d] = kpt[d]
      BY <1>1, <2>3
    <3>2. QED
      BY <1>4, <3>1 DEF Conserved
  <2>4. QED
    BY <2>2, <2>3
<1>5. \A q \in Frames \ pool' : \E b \in KAddrs : kpt'[b] = q
  <2> SUFFICES ASSUME NEW q \in Frames, q \notin pool' PROVE \E b \in KAddrs : kpt'[b] = q
    OBVIOUS
  <2>1. CASE q = p
    BY <1>1, <2>1
  <2>2. CASE q # p
    <3>1. PICK b \in KAddrs : kpt[b] = q
      BY <2>2 DEF Conserved
    <3>2. b # a
      BY <1>2, <3>1
    <3>3. QED
      BY <1>1, <3>1, <3>2
  <2>3. QED
    BY <2>1, <2>2
<1>6. QED
  BY <1>3, <1>4, <1>5 DEF Conserved

LEMMA FrameGiven ==
  ASSUME VmTypeOK, Conserved, NEW a \in KAddrs, kpt[a] \in Frames,
         kpt' = [kpt EXCEPT ![a] = Unmapped], pool' = pool \cup {kpt[a]}
  PROVE  Conserved'
<1>1. kpt'[a] = Unmapped /\ \A b \in KAddrs : b # a => kpt'[b] = kpt[b]
  BY DEF VmTypeOK
<1>2. Unmapped \notin Frames
  BY VmallocAssumption
<1>3. ASSUME NEW b \in KAddrs, kpt'[b] \in Frames PROVE kpt'[b] \notin pool'
  <2>1. b # a
    BY <1>1, <1>2, <1>3
  <2>2. kpt'[b] = kpt[b]
    BY <1>1, <2>1
  <2>3. kpt[b] \notin pool /\ kpt[b] # kpt[a]
    BY <1>3, <2>1, <2>2 DEF Conserved
  <2>4. QED
    BY <2>2, <2>3, SMTT(60), Z3T(60)
<1>4. \A b, d \in KAddrs : kpt'[b] \in Frames /\ kpt'[b] = kpt'[d] => b = d
  BY ZenonT(150), <1>1, <1>2 DEF Conserved
<1>5. \A q \in Frames \ pool' : \E b \in KAddrs : kpt'[b] = q
  <2> SUFFICES ASSUME NEW q \in Frames, q \notin pool' PROVE \E b \in KAddrs : kpt'[b] = q
    OBVIOUS
  <2>1. PICK b \in KAddrs : kpt[b] = q
    BY DEF Conserved
  <2>2. b # a
    BY <2>1
  <2>3. QED
    BY <1>1, <2>1, <2>2
<1>6. QED
  BY <1>3, <1>4, <1>5 DEF Conserved

\* An entry without a frame is replaced by another one.
LEMMA FramesKept ==
  ASSUME VmTypeOK, Conserved, NEW a \in KAddrs, NEW p, p \notin Frames, kpt[a] \notin Frames,
         kpt' = [kpt EXCEPT ![a] = p], pool' = pool
  PROVE  Conserved'
<1>1. kpt'[a] = p /\ \A b \in KAddrs : b # a => kpt'[b] = kpt[b]
  BY DEF VmTypeOK
<1>2. ASSUME NEW b \in KAddrs, kpt'[b] \in Frames PROVE kpt'[b] \notin pool'
  <2>1. kpt'[b] = kpt[b]
    BY <1>1, <1>2
  <2>2. QED
    BY <1>2, <2>1, SMTT(60), Z3T(60) DEF Conserved
<1>3. \A b, d \in KAddrs : kpt'[b] \in Frames /\ kpt'[b] = kpt'[d] => b = d
  BY <1>1 DEF Conserved
<1>4. \A q \in Frames \ pool' : \E b \in KAddrs : kpt'[b] = q
  BY <1>1 DEF Conserved
<1>5. QED
  BY <1>2, <1>3, <1>4 DEF Conserved

-----------------------------------------------------------------------------
(* The steps that change one page *)

LEMMA PokeStep ==
  ASSUME VmInv, NEW c, NEW r, NEW a, NEW p, Pokes(c, r, a, p),
         vcall' \in [VCpus -> CallType], pool' \in SUBSET Frames, Conserved',
         vcall'[c].op = vcall[c].op, vcall'[c].start = vcall[c].start, Works(vcall[c], r)'
  PROVE  VmInv'
<1>1. VmTypeOK /\ Apart
  BY DEF VmInv
<1>2. areas' = areas /\ mapped' = mapped /\ r \in Areas /\ c \in VCpus
      /\ \A d \in VCpus \ {c} : vcall'[d] = vcall[d]
  BY DEF Pokes
<1>3. kpt' \in [KAddrs -> Frames \cup {Device, Unmapped}] /\ Areas' = Areas
  BY <1>1, PokeEntry
<1>4. VmTypeOK'
  BY <1>1, <1>2, <1>3 DEF VmTypeOK
<1>5. Ordered' /\ Covered' /\ Kinds'
  BY PokeKinds
<1>6. CallOK(c)'
  BY <1>2, <1>3 DEF CallOK
<1>7. Calls'
  BY <1>2, <1>6, PokeCalls DEF Calls
<1>8. Held'
  BY <1>2, PokeHeld DEF Held
<1>9. \A d \in VCpus : Busy(d)' => Busy(d) /\ vcall'[d].start = vcall[d].start
  BY <1>2 DEF Busy
<1>10. Apart'
  BY <1>1, <1>2, <1>9, ApartKept
<1>11. QED
  BY <1>4, <1>5, <1>7, <1>8, <1>10 DEF VmInv

\* The page behind the first o pages of an area.
LEMMA NextPage ==
  ASSUME VmTypeOK, Ordered, NEW r \in Areas, NEW o \in Nat, o < r.size - 1
  PROVE  /\ r.start + 1 + o \in KAddrs /\ Inside(r, r.start + 1 + o)
         /\ r.start + 1 + o \in Nat /\ o + 1 < r.size
<1>1. r.start \in Nat /\ r.size \in Nat
  BY AreaTypes
<1>2. o + 1 \in 1 .. r.size - 1 /\ r.start + (o + 1) = r.start + 1 + o
  BY <1>1, SMTT(60), Z3T(60)
<1>3. r.start + (o + 1) \in KAddrs /\ Inside(r, r.start + (o + 1))
  BY <1>2, Page
<1>4. r.start + 1 + o \in Nat /\ o + 1 < r.size
  BY <1>1, SMTT(60), Z3T(60)
<1>5. QED
  BY <1>2, <1>3, <1>4

LEMMA KAddrNat ==
  KAddrs \subseteq Nat
  BY VmallocAssumption, SMTT(60), Z3T(60) DEF KAddrs

\* vmap_pages, ioremap_prot: the next page.
LEMMA MapPageStep ==
  ASSUME VmInv, NEW c \in VCpus, map_page(c)
  PROVE  VmInv'
<1>1. VmTypeOK /\ Ordered /\ Conserved /\ CallOK(c) /\ Kinds
  BY DEF VmInv, Calls
<1>2. vcall[c].op = "map" /\ Busy(c)
  BY DEF map_page, Busy
<1>3. PICK r \in Areas : Works(vcall[c], r)
  BY <1>1, <1>2 DEF CallOK
<1> DEFINE o == vcall[c].off
           a == r.start + 1 + o
<1>4. r.start = vcall[c].start /\ o \in Nat /\ vcall[c].start \in Nat /\ vcall[c].at \in Nat
  BY <1>1, <1>3, CallFields DEF Works
<1>5. Area(vcall[c].start) = r /\ PagesOf(vcall[c].start) = r.size - 1
  BY <1>1, <1>4, Lookup
<1>6. o < r.size - 1
  BY <1>5 DEF map_page
<1>7. a \in KAddrs /\ Inside(r, a) /\ a \in Nat /\ o + 1 < r.size
  BY <1>1, <1>4, <1>6, NextPage
<1>8. kpt[a] = Unmapped
  <2>1. kpt[a] # Unmapped <=> a <= vcall[c].start + o
    BY <1>2, <1>3, <1>7 DEF Works, Progress
  <2>2. ~(a <= vcall[c].start + o)
    BY <1>4, SMTT(60), Z3T(60)
  <2>3. QED
    BY <2>1, <2>2
<1>9. PICK p : /\ p # Unmapped /\ p \in PageOf(r) /\ kpt' = [kpt EXCEPT ![a] = p]
               /\ pool' \in SUBSET Frames /\ Conserved'
  <2>1. CASE r.owns
    <3>1. PICK p \in pool : kpt' = [kpt EXCEPT ![a] = p] /\ pool' = pool \ {p}
      BY <1>4, <1>5, <2>1 DEF map_page
    <3>2. p \in Frames /\ Unmapped \notin Frames /\ pool \subseteq Frames
      BY <1>1, VmallocAssumption DEF VmTypeOK
    <3>3. Conserved'
      BY <1>1, <1>7, <1>8, <3>1, FrameTaken
    <3>4. QED
      BY <2>1, <3>1, <3>2, <3>3 DEF PageOf
  <2>2. CASE ~r.owns
    <3>1. kpt' = [kpt EXCEPT ![a] = Device] /\ pool' = pool
      BY <1>4, <1>5, <2>2 DEF map_page
    <3>2. Device \notin Frames /\ Unmapped \notin Frames /\ Device # Unmapped
      BY VmallocAssumption
    <3>3. Conserved'
      BY <1>1, <1>7, <1>8, <3>1, <3>2, FramesKept
    <3>4. QED
      BY <1>1, <2>2, <3>1, <3>2, <3>3 DEF PageOf, VmTypeOK
  <2>3. QED
    BY <2>1, <2>2
<1>10. vcall' = [vcall EXCEPT ![c] = Call("map", vcall[c].start, o + 1, vcall[c].at)]
       /\ areas' = areas /\ mapped' = mapped
  BY <1>2 DEF map_page
<1>11. o + 1 \in Nat
  BY <1>4, SMTT(60), Z3T(60)
<1>12. /\ Call("map", vcall[c].start, o + 1, vcall[c].at) \in CallType
       /\ Call("map", vcall[c].start, o + 1, vcall[c].at).op = "map"
       /\ Call("map", vcall[c].start, o + 1, vcall[c].at).start = vcall[c].start
       /\ Call("map", vcall[c].start, o + 1, vcall[c].at).off = o + 1
  BY <1>4, <1>11 DEF Call, CallType
<1>13. /\ vcall' \in [VCpus -> CallType] /\ \A d \in VCpus \ {c} : vcall'[d] = vcall[d]
       /\ vcall'[c].op = "map" /\ vcall'[c].start = vcall[c].start /\ vcall'[c].off = o + 1
  BY <1>1, <1>10, <1>12 DEF VmTypeOK
<1> HIDE DEF a, o
<1>14. Pokes(c, r, a, p)
  BY <1>2, <1>4, <1>7, <1>9, <1>10, <1>13 DEF Pokes
<1>15. kpt'[a] = p /\ \A b \in KAddrs : b # a => kpt'[b] = kpt[b]
  BY <1>1, <1>14, PokeEntry
<1>16. ASSUME NEW b \in KAddrs, Inside(r, b) PROVE kpt'[b] # Unmapped <=> b <= vcall[c].start + (o + 1)
  <2>1. b \in Nat /\ a = vcall[c].start + (o + 1) /\ vcall[c].start + o \in Nat
    BY <1>4, KAddrNat, SMTT(60), Z3T(60) DEF a
  <2>2. CASE b = a
    <3>1. a <= a
      BY <1>7, SMTT(60), Z3T(60)
    <3>2. QED
      BY <1>9, <1>15, <2>1, <2>2, <3>1
  <2>3. CASE b # a
    <3>1. kpt'[b] # Unmapped <=> b <= vcall[c].start + o
      BY <1>2, <1>3, <1>15, <1>16, <2>3 DEF Works, Progress, o
    <3>2. b <= vcall[c].start + o <=> b <= vcall[c].start + (o + 1)
      BY <1>4, <2>1, <2>3, SMTT(60), Z3T(60)
    <3>3. QED
      BY <3>1, <3>2
  <2>4. QED
    BY <2>2, <2>3
<1>17. Works(vcall[c], r)'
  BY <1>4, <1>7, <1>13, <1>16 DEF Works, Progress
<1>18. QED
  BY <1>2, <1>9, <1>13, <1>14, <1>17, PokeStep

\* Unmapping an entry of an area returns its frame.
LEMMA Unmaps ==
  ASSUME VmTypeOK, Ordered, Kinds, Conserved, NEW r \in Areas, NEW a \in KAddrs, Inside(r, a), Unmap(a, r.owns)
  PROVE  /\ kpt' = [kpt EXCEPT ![a] = Unmapped] /\ Unmapped \in PageOf(r)
         /\ pool' \in SUBSET Frames /\ Conserved'
<1>1. kpt' = [kpt EXCEPT ![a] = Unmapped]
  BY DEF Unmap
<1>2. kpt[a] \in PageOf(r) /\ Unmapped \in PageOf(r)
  BY DEF Kinds, PageOf
<1>3. Device \notin Frames /\ Unmapped \notin Frames
  BY VmallocAssumption
<1>4. CASE r.owns /\ kpt[a] # Unmapped
  <2>1. kpt[a] \in Frames /\ pool' = pool \cup {kpt[a]}
    BY <1>2, <1>4 DEF PageOf, Unmap
  <2>2. Conserved'
    BY <1>1, <2>1, FrameGiven
  <2>3. QED
    BY <1>1, <1>2, <2>1, <2>2 DEF VmTypeOK
<1>5. CASE ~(r.owns /\ kpt[a] # Unmapped)
  <2>1. kpt[a] \notin Frames /\ pool' = pool
    BY <1>2, <1>3, <1>5 DEF PageOf, Unmap
  <2>2. Conserved'
    BY <1>1, <1>3, <2>1, FramesKept
  <2>3. QED
    BY <1>1, <1>2, <2>1, <2>2 DEF VmTypeOK
<1>6. QED
  BY <1>4, <1>5

\* vmap_pages: take back one page.
LEMMA UnwindPageStep ==
  ASSUME VmInv, NEW c \in VCpus, unwind_page(c)
  PROVE  VmInv'
<1>1. VmTypeOK /\ Ordered /\ Conserved /\ CallOK(c) /\ Kinds
  BY DEF VmInv, Calls
<1>2. vcall[c].op = "unwind" /\ Busy(c)
  BY DEF unwind_page, Busy
<1>3. PICK r \in Areas : Works(vcall[c], r)
  BY <1>1, <1>2 DEF CallOK
<1> DEFINE o == vcall[c].at
           a == r.start + 1 + o
<1>4. r.start = vcall[c].start /\ o \in Nat /\ vcall[c].start \in Nat /\ vcall[c].off \in Nat
  BY <1>1, <1>3, CallFields DEF Works
<1>5. r.owns /\ vcall[c].off < r.size /\ o < vcall[c].off
  BY <1>2, <1>3 DEF Works, unwind_page
<1>6. o < r.size - 1 /\ o + 1 <= vcall[c].off
  <2>1. r.size \in Nat
    BY <1>1, AreaTypes
  <2>2. QED
    BY <1>4, <1>5, <2>1, SMTT(60), Z3T(60)
<1>7. a \in KAddrs /\ Inside(r, a) /\ a \in Nat
  BY <1>1, <1>4, <1>6, NextPage
<1>8. Unmap(a, r.owns)
  BY <1>4, <1>5 DEF unwind_page, Unmap
<1>9. /\ kpt' = [kpt EXCEPT ![a] = Unmapped] /\ Unmapped \in PageOf(r)
      /\ pool' \in SUBSET Frames /\ Conserved'
  BY <1>1, <1>7, <1>8, Unmaps
<1>10. vcall' = [vcall EXCEPT ![c] = Call("unwind", vcall[c].start, vcall[c].off, o + 1)]
       /\ areas' = areas /\ mapped' = mapped
  BY <1>2 DEF unwind_page
<1>11. o + 1 \in Nat
  BY <1>4, SMTT(60), Z3T(60)
<1>12. /\ Call("unwind", vcall[c].start, vcall[c].off, o + 1) \in CallType
       /\ Call("unwind", vcall[c].start, vcall[c].off, o + 1).op = "unwind"
       /\ Call("unwind", vcall[c].start, vcall[c].off, o + 1).start = vcall[c].start
       /\ Call("unwind", vcall[c].start, vcall[c].off, o + 1).off = vcall[c].off
       /\ Call("unwind", vcall[c].start, vcall[c].off, o + 1).at = o + 1
  BY <1>4, <1>11 DEF Call, CallType
<1>13. /\ vcall' \in [VCpus -> CallType] /\ \A d \in VCpus \ {c} : vcall'[d] = vcall[d]
       /\ vcall'[c].op = "unwind" /\ vcall'[c].start = vcall[c].start
       /\ vcall'[c].off = vcall[c].off /\ vcall'[c].at = o + 1
  BY <1>1, <1>10, <1>12 DEF VmTypeOK
<1> HIDE DEF a, o
<1>14. Pokes(c, r, a, Unmapped)
  BY <1>2, <1>4, <1>7, <1>9, <1>10, <1>13 DEF Pokes
<1>15. kpt'[a] = Unmapped /\ \A b \in KAddrs : b # a => kpt'[b] = kpt[b]
  BY <1>1, <1>14, PokeEntry
<1>16. ASSUME NEW b \in KAddrs, Inside(r, b)
       PROVE  kpt'[b] # Unmapped <=> vcall[c].start + (o + 1) < b /\ b <= vcall[c].start + vcall[c].off
  <2>1. b \in Nat /\ a = vcall[c].start + (o + 1) /\ vcall[c].start + o \in Nat
    BY <1>4, KAddrNat, SMTT(60), Z3T(60) DEF a
  <2>2. CASE b = a
    <3>1. ~(a < a)
      BY <1>7, SMTT(60), Z3T(60)
    <3>2. QED
      BY <1>15, <2>1, <2>2, <3>1
  <2>3. CASE b # a
    <3>1. kpt'[b] # Unmapped <=> vcall[c].start + o < b /\ b <= vcall[c].start + vcall[c].off
      BY <1>2, <1>3, <1>15, <1>16, <2>3 DEF Works, Progress, o
    <3>2. vcall[c].start + o < b <=> vcall[c].start + (o + 1) < b
      BY <1>4, <2>1, <2>3, SMTT(60), Z3T(60)
    <3>3. QED
      BY <3>1, <3>2
  <2>4. QED
    BY <2>2, <2>3
<1>17. Works(vcall[c], r)'
  BY <1>4, <1>5, <1>6, <1>13, <1>16 DEF Works, Progress
<1>18. QED
  BY <1>2, <1>9, <1>13, <1>14, <1>17, PokeStep

\* vfree, iounmap: unmap one page.
LEMMA FreePageStep ==
  ASSUME VmInv, NEW c \in VCpus, free_page(c)
  PROVE  VmInv'
<1>1. VmTypeOK /\ Ordered /\ Conserved /\ CallOK(c) /\ Kinds
  BY DEF VmInv, Calls
<1>2. vcall[c].op = "free" /\ Busy(c)
  BY DEF free_page, Busy
<1>3. PICK r \in Areas : Works(vcall[c], r)
  BY <1>1, <1>2 DEF CallOK
<1> DEFINE o == vcall[c].off
           a == r.start + 1 + o
<1>4. r.start = vcall[c].start /\ o \in Nat /\ vcall[c].start \in Nat /\ vcall[c].at \in Nat
  BY <1>1, <1>3, CallFields DEF Works
<1>5. Area(vcall[c].start) = r /\ PagesOf(vcall[c].start) = r.size - 1
  BY <1>1, <1>4, Lookup
<1>6. o < r.size - 1
  BY <1>5 DEF free_page
<1>7. a \in KAddrs /\ Inside(r, a) /\ a \in Nat /\ o + 1 < r.size
  BY <1>1, <1>4, <1>6, NextPage
<1>8. Unmap(a, r.owns)
  BY <1>4, <1>5 DEF free_page
<1>9. /\ kpt' = [kpt EXCEPT ![a] = Unmapped] /\ Unmapped \in PageOf(r)
      /\ pool' \in SUBSET Frames /\ Conserved'
  BY <1>1, <1>7, <1>8, Unmaps
<1>10. vcall' = [vcall EXCEPT ![c] = Call("free", vcall[c].start, o + 1, vcall[c].at)]
       /\ areas' = areas /\ mapped' = mapped
  BY <1>2 DEF free_page
<1>11. o + 1 \in Nat
  BY <1>4, SMTT(60), Z3T(60)
<1>12. /\ Call("free", vcall[c].start, o + 1, vcall[c].at) \in CallType
       /\ Call("free", vcall[c].start, o + 1, vcall[c].at).op = "free"
       /\ Call("free", vcall[c].start, o + 1, vcall[c].at).start = vcall[c].start
       /\ Call("free", vcall[c].start, o + 1, vcall[c].at).off = o + 1
  BY <1>4, <1>11 DEF Call, CallType
<1>13. /\ vcall' \in [VCpus -> CallType] /\ \A d \in VCpus \ {c} : vcall'[d] = vcall[d]
       /\ vcall'[c].op = "free" /\ vcall'[c].start = vcall[c].start /\ vcall'[c].off = o + 1
  BY <1>1, <1>10, <1>12 DEF VmTypeOK
<1> HIDE DEF a, o
<1>14. Pokes(c, r, a, Unmapped)
  BY <1>2, <1>4, <1>7, <1>9, <1>10, <1>13 DEF Pokes
<1>15. kpt'[a] = Unmapped /\ \A b \in KAddrs : b # a => kpt'[b] = kpt[b]
  BY <1>1, <1>14, PokeEntry
<1>16. ASSUME NEW b \in KAddrs, Inside(r, b), b <= vcall[c].start + (o + 1) PROVE kpt'[b] = Unmapped
  <2>1. b \in Nat /\ a = vcall[c].start + (o + 1) /\ vcall[c].start + o \in Nat
    BY <1>4, KAddrNat, SMTT(60), Z3T(60) DEF a
  <2>2. CASE b = a
    BY <1>15, <2>2
  <2>3. CASE b # a
    <3>1. b <= vcall[c].start + o
      BY <1>4, <1>16, <2>1, <2>3, SMTT(60), Z3T(60)
    <3>2. kpt[b] = Unmapped
      BY <1>2, <1>3, <1>16, <3>1 DEF Works, Progress, o
    <3>3. QED
      BY <1>15, <2>3, <3>2
  <2>4. QED
    BY <2>2, <2>3
<1>17. Works(vcall[c], r)'
  BY <1>4, <1>7, <1>13, <1>16 DEF Works, Progress
<1>18. QED
  BY <1>2, <1>9, <1>13, <1>14, <1>17, PokeStep

-----------------------------------------------------------------------------
(* The steps that leave the pages alone *)

LEMMA CallSame ==
  ASSUME NEW d, CallOK(d), vcall'[d] = vcall[d], kpt' = kpt,
         \A s \in Areas : s.start = vcall[d].start => s \in Areas'
  PROVE  CallOK(d)'
<1> SUFFICES ASSUME Busy(d)' PROVE \E s \in Areas' : Works(vcall[d], s)'
  BY DEF CallOK
<1>1. PICK s \in Areas : Works(vcall[d], s)
  BY DEF CallOK, Busy
<1>2. Works(vcall[d], s)'
  BY <1>1 DEF Works, Progress
<1>3. s \in Areas'
  BY <1>1 DEF Works
<1>4. QED
  BY <1>2, <1>3

LEMMA HeldSame ==
  ASSUME NEW x, HeldOK(x), kpt' = kpt, \A s \in Areas : s.start = x.start => s \in Areas'
  PROVE  HeldOK(x)'
<1>1. PICK s \in Areas : Fills(x, s)
  BY DEF HeldOK
<1>2. Fills(x, s)'
  BY <1>1 DEF Fills
<1>3. s \in Areas'
  BY <1>1 DEF Fills
<1>4. QED
  BY <1>2, <1>3 DEF HeldOK

LEMMA Idle ==
  NoCall \in CallType /\ NoCall.op = "none"
<1>1. 0 \in Nat
  BY SMTT(60), Z3T(60)
<1>2. QED
  BY <1>1 DEF NoCall, Call, CallType

\* va_alloc.
LEMMA AllocStep ==
  ASSUME VmInv, NEW c \in VCpus, NEW n \in AreaSizes, NEW o \in BOOLEAN, va_alloc(c, n, o)
  PROVE  VmInv'
<1>1. VmTypeOK /\ Ordered /\ Covered /\ Kinds /\ Calls /\ Held /\ Apart /\ Conserved
  BY DEF VmInv
<1>2. PICK k \in 1 .. Len(areas) + 1 :
        /\ vcall[c] = NoCall
        /\ Gap(k, n + 1) /\ AreaEnd(k - 1) + n + 1 <= VMALLOC_END
        /\ areas' = Linked(k, [start |-> AreaEnd(k - 1), size |-> n + 1, owns |-> o])
        /\ vcall' = [vcall EXCEPT ![c] = Call("map", AreaEnd(k - 1), 0, 0)]
        /\ UNCHANGED <<kpt, pool, mapped>>
  BY DEF va_alloc
<1>3. PICK r : r = [start |-> AreaEnd(k - 1), size |-> n + 1, owns |-> o]
  OBVIOUS
<1>4. n \in Nat \ {0}
  BY VmallocAssumption
<1>5. /\ areas' \in Seq(AreaType) /\ Ordered' /\ Areas' = Areas \cup {r}
      /\ r \in AreaType /\ r.start = AreaEnd(k - 1) /\ r.size = n + 1
      /\ \A s \in Areas : Clear(r, s)
      /\ r \notin Areas
  BY <1>1, <1>2, <1>3, <1>4, LinkArea
<1>6. r.start \in Nat /\ r.size \in Nat /\ r.size > 0 /\ 0 < r.size /\ 0 \in Nat
  <2>1. r.start \in Nat /\ r.size \in Nat \ {0}
    BY <1>5 DEF AreaType
  <2>2. QED
    BY <2>1, SMTT(60), Z3T(60)
<1>7. /\ Call("map", r.start, 0, 0) \in CallType
      /\ Call("map", r.start, 0, 0).op = "map" /\ Call("map", r.start, 0, 0).start = r.start
      /\ Call("map", r.start, 0, 0).off = 0
  BY <1>6 DEF Call, CallType
<1>8. /\ vcall' \in [VCpus -> CallType] /\ \A d \in VCpus \ {c} : vcall'[d] = vcall[d]
      /\ vcall'[c].op = "map" /\ vcall'[c].start = r.start /\ vcall'[c].off = 0
  BY <1>1, <1>2, <1>5, <1>7 DEF VmTypeOK
<1>9. kpt' = kpt /\ pool' = pool /\ mapped' = mapped
  BY <1>2
<1>10. \A a \in KAddrs : Inside(r, a) => kpt[a] = Unmapped
  <2> SUFFICES ASSUME NEW a \in KAddrs, Inside(r, a), kpt[a] # Unmapped PROVE FALSE
    OBVIOUS
  <2>1. PICK s \in Areas : Inside(s, a)
    BY <1>1 DEF Covered
  <2>2. Clear(r, s) /\ s.start \in Nat /\ s.size \in Nat
    BY <1>1, <1>5, AreaTypes
  <2>3. a \in Nat
    BY KAddrNat
  <2>4. QED
    BY <1>6, <2>1, <2>2, <2>3, SMTT(60), Z3T(60) DEF Inside, Clear, End
<1>11. \A s \in Areas : s.start # r.start
  <2> SUFFICES ASSUME NEW s \in Areas, s.start = r.start PROVE FALSE
    OBVIOUS
  <2>1. Clear(r, s) /\ s.start \in Nat /\ s.size \in Nat /\ s.size > 0
    BY <1>1, <1>5, AreaTypes
  <2>2. QED
    BY <1>6, <2>1, SMTT(60), Z3T(60) DEF Clear, End
<1>12. VmTypeOK'
  BY <1>1, <1>5, <1>8, <1>9 DEF VmTypeOK
<1>13. Covered'
  BY <1>1, <1>5, <1>9 DEF Covered
<1>14. Kinds'
  <2>1. Unmapped \in PageOf(r)
    BY DEF PageOf
  <2>2. QED
    BY <1>1, <1>5, <1>9, <1>10, <2>1 DEF Kinds
<1>15. Calls'
  <2>1. ASSUME NEW d \in VCpus \ {c} PROVE CallOK(d)'
    BY <1>1, <1>5, <1>8, <1>9, CallSame DEF Calls
  <2>2. Works(vcall[c], r)'
    <3>1. ASSUME NEW a \in KAddrs, Inside(r, a) PROVE kpt'[a] # Unmapped <=> a <= r.start + 0
      <4>1. ~(a <= r.start + 0)
        BY <1>6, <3>1, KAddrNat, SMTT(60), Z3T(60) DEF Inside, End
      <4>2. QED
        BY <1>9, <1>10, <3>1, <4>1
    <3>2. QED
      BY <1>6, <1>8, <3>1 DEF Works, Progress
  <2>3. CallOK(c)'
    BY <1>5, <2>2 DEF CallOK
  <2>4. QED
    BY <2>1, <2>3 DEF Calls
<1>16. Held'
  BY <1>1, <1>5, <1>9, HeldSame DEF Held
<1>17. Apart'
  <2>1. \A d \in VCpus \ {c} : (Busy(d)' <=> Busy(d)) /\ vcall'[d].start = vcall[d].start
    BY <1>8 DEF Busy
  <2>2. \A d \in VCpus : Busy(d) => vcall[d].start # r.start
    BY <1>1, <1>11 DEF Calls, CallOK, Works
  <2>3. \A x \in mapped : x.start # r.start
    BY <1>1, <1>11 DEF Held, HeldOK, Fills
  <2>4. \A e, d \in VCpus : e # d /\ Busy(e)' /\ Busy(d)' => vcall'[e].start # vcall'[d].start
    BY ZenonT(150), <1>1, <1>8, <2>1, <2>2 DEF Apart
  <2>5. ASSUME NEW e \in VCpus, NEW x \in mapped, Busy(e)' PROVE vcall'[e].start # x.start
    <3>1. CASE e = c
      BY <1>8, <2>3, <3>1
    <3>2. CASE e # c
      BY <1>1, <2>1, <2>5, <3>2 DEF Apart
    <3>3. QED
      BY <3>1, <3>2
  <2>6. QED
    BY <1>1, <1>9, <2>4, <2>5 DEF Apart
<1>18. Conserved'
  BY <1>1, <1>9 DEF Conserved
<1>19. QED
  BY <1>5, <1>12, <1>13, <1>14, <1>15, <1>16, <1>17, <1>18 DEF VmInv

\* va_remove of an area without mapped pages.
LEMMA RemoveStep ==
  ASSUME VmInv, NEW c \in VCpus, Busy(c), NEW r \in Areas, r.start = vcall[c].start,
         \A a \in KAddrs : Inside(r, a) => kpt[a] = Unmapped,
         va_remove(c), UNCHANGED <<kpt, pool, mapped>>
  PROVE  VmInv'
<1>1. VmTypeOK /\ Ordered /\ Covered /\ Kinds /\ Calls /\ Held /\ Apart /\ Conserved
  BY DEF VmInv
<1>2. /\ areas' = Unlinked(Place(r.start)) /\ vcall' = [vcall EXCEPT ![c] = NoCall]
      /\ kpt' = kpt /\ pool' = pool /\ mapped' = mapped
  BY DEF va_remove
<1>3. areas' \in Seq(AreaType) /\ Ordered' /\ Areas' = Areas \ {r}
  BY <1>1, <1>2, UnlinkArea
<1>4. /\ vcall' \in [VCpus -> CallType] /\ \A d \in VCpus \ {c} : vcall'[d] = vcall[d]
      /\ vcall'[c].op = "none"
  BY <1>1, <1>2, Idle DEF VmTypeOK
<1>5. VmTypeOK'
  BY <1>1, <1>2, <1>3, <1>4 DEF VmTypeOK
<1>6. Covered'
  BY <1>1, <1>2, <1>3 DEF Covered
<1>7. Kinds'
  BY <1>1, <1>2, <1>3 DEF Kinds
<1>8. Calls'
  <2>1. ASSUME NEW d \in VCpus \ {c} PROVE CallOK(d)'
    <3>1. CASE Busy(d)
      <4>1. vcall[d].start # r.start
        BY <1>1, <3>1 DEF Apart
      <4>2. QED
        BY <1>1, <1>2, <1>3, <1>4, <4>1, CallSame DEF Calls
    <3>2. CASE ~Busy(d)
      BY <1>4, <3>2 DEF CallOK, Busy
    <3>3. QED
      BY <3>1, <3>2
  <2>2. CallOK(c)'
    BY <1>4 DEF CallOK, Busy
  <2>3. QED
    BY <2>1, <2>2 DEF Calls
<1>9. Held'
  <2>1. ASSUME NEW x \in mapped PROVE HeldOK(x)'
    <3>1. x.start # r.start
      BY <1>1 DEF Apart
    <3>2. QED
      BY <1>1, <1>2, <1>3, <3>1, HeldSame DEF Held
  <2>2. QED
    BY <1>2, <2>1 DEF Held
<1>10. \A d \in VCpus : Busy(d)' => Busy(d) /\ vcall'[d].start = vcall[d].start
  BY <1>4 DEF Busy
<1>11. Apart'
  BY <1>1, <1>2, <1>10, ApartKept
<1>12. Conserved'
  BY <1>1, <1>2 DEF Conserved
<1>13. QED
  BY <1>3, <1>5, <1>6, <1>7, <1>8, <1>9, <1>11, <1>12 DEF VmInv

LEMMA UnwindDoneStep ==
  ASSUME VmInv, NEW c \in VCpus, unwind_done(c)
  PROVE  VmInv'
<1>1. VmTypeOK /\ CallOK(c)
  BY DEF VmInv, Calls
<1>2. /\ vcall[c].op = "unwind" /\ vcall[c].at = vcall[c].off /\ va_remove(c) /\ UNCHANGED <<kpt, pool, mapped>>
      /\ Busy(c)
  BY DEF unwind_done, Busy
<1>3. PICK r \in Areas : Works(vcall[c], r)
  BY <1>1, <1>2 DEF CallOK
<1>4. ASSUME NEW a \in KAddrs, Inside(r, a) PROVE kpt[a] = Unmapped
  <2>1. kpt[a] # Unmapped <=> vcall[c].start + vcall[c].at < a /\ a <= vcall[c].start + vcall[c].off
    BY <1>2, <1>3, <1>4 DEF Works, Progress
  <2>2. a \in Nat /\ vcall[c].start \in Nat /\ vcall[c].off \in Nat
    BY <1>1, CallFields, KAddrNat
  <2>3. ~(vcall[c].start + vcall[c].off < a /\ a <= vcall[c].start + vcall[c].off)
    BY <2>2, SMTT(60), Z3T(60)
  <2>4. QED
    BY <1>2, <2>1, <2>3
<1>5. r.start = vcall[c].start
  BY <1>3 DEF Works
<1>6. QED
  BY <1>2, <1>4, <1>5, RemoveStep

LEMMA FreeDoneStep ==
  ASSUME VmInv, NEW c \in VCpus, free_done(c)
  PROVE  VmInv'
<1>1. VmTypeOK /\ Ordered /\ CallOK(c)
  BY DEF VmInv, Calls
<1>2. /\ vcall[c].op = "free" /\ va_remove(c) /\ UNCHANGED <<kpt, pool, mapped>> /\ Busy(c)
      /\ vcall[c].off = PagesOf(vcall[c].start)
  BY DEF free_done, Busy
<1>3. PICK r \in Areas : Works(vcall[c], r)
  BY <1>1, <1>2 DEF CallOK
<1>4. r.start = vcall[c].start
  BY <1>3 DEF Works
<1>5. vcall[c].off = r.size - 1
  BY <1>1, <1>2, <1>4, Lookup
<1>6. ASSUME NEW a \in KAddrs, Inside(r, a) PROVE kpt[a] = Unmapped
  <2>1. a \in Nat /\ r.start \in Nat /\ r.size \in Nat
    BY <1>1, AreaTypes, KAddrNat
  <2>2. a <= vcall[c].start + vcall[c].off
    BY <1>4, <1>5, <1>6, <2>1, SMTT(60), Z3T(60) DEF Inside, End
  <2>3. QED
    BY <1>2, <1>3, <1>6, <2>2 DEF Works, Progress
<1>7. QED
  BY <1>2, <1>4, <1>6, RemoveStep

\* vmap_pages: all pages are mapped, the area is the caller's.
LEMMA MapDoneStep ==
  ASSUME VmInv, NEW c \in VCpus, map_done(c)
  PROVE  VmInv'
<1>1. VmTypeOK /\ Ordered /\ Covered /\ Kinds /\ Calls /\ Held /\ Apart /\ Conserved
  BY DEF VmInv
<1> DEFINE v == vcall[c]
<1>0. PICK x : x = [start |-> v.start, owns |-> Area(v.start).owns,
                    got |-> [i \in 1 .. v.off |-> kpt[v.start + i]]]
  OBVIOUS
<1>2. /\ v.op = "map" /\ v.off = PagesOf(v.start) /\ mapped' = mapped \cup {x}
      /\ vcall' = [vcall EXCEPT ![c] = NoCall]
      /\ areas' = areas /\ kpt' = kpt /\ pool' = pool /\ Busy(c)
  BY <1>0 DEF map_done, Busy
<1>3. PICK r \in Areas : Works(v, r)
  BY <1>1, <1>2 DEF Calls, CallOK
<1>4. r.start = v.start
  BY <1>3 DEF Works
<1>5. v.off = r.size - 1
  BY <1>1, <1>2, <1>4, Lookup
<1>6. x.start = v.start /\ DOMAIN x.got = 1 .. r.size - 1
      /\ \A i \in 1 .. r.size - 1 : x.got[i] = kpt[x.start + i]
  BY <1>0, <1>5
<1>7. /\ vcall' \in [VCpus -> CallType] /\ \A d \in VCpus \ {c} : vcall'[d] = vcall[d]
      /\ vcall'[c].op = "none"
  BY <1>1, <1>2, Idle DEF VmTypeOK
<1> HIDE DEF v
<1>8. Areas' = Areas
  BY <1>2 DEF Areas
<1>9. VmTypeOK'
  BY <1>1, <1>2, <1>7 DEF VmTypeOK
<1>10. Ordered' /\ Covered' /\ Kinds' /\ Conserved'
  BY <1>1, <1>2, <1>8 DEF Ordered, Covered, Kinds, Conserved
<1>11. Calls'
  <2>1. ASSUME NEW d \in VCpus \ {c} PROVE CallOK(d)'
    BY <1>1, <1>2, <1>7, <1>8, CallSame DEF Calls
  <2>2. CallOK(c)'
    BY <1>7 DEF CallOK, Busy
  <2>3. QED
    BY <2>1, <2>2 DEF Calls
<1>12. ASSUME NEW i \in 1 .. r.size - 1 PROVE kpt[x.start + i] # Unmapped
  <2>1. r.start + i \in KAddrs /\ Inside(r, r.start + i)
    BY <1>1, Page
  <2>2. kpt[r.start + i] # Unmapped <=> r.start + i <= v.start + v.off
    BY <1>2, <1>3, <2>1 DEF Works, Progress
  <2>3. r.start \in Nat /\ r.size \in Nat
    BY <1>1, AreaTypes
  <2>4. r.start + i <= v.start + v.off
    BY <1>4, <1>5, <2>3, SMTT(60), Z3T(60)
  <2>5. QED
    BY <1>4, <1>6, <2>2, <2>4
<1>13. HeldOK(x)'
  <2>1. Fills(x, r)'
    BY <1>2, <1>4, <1>6, <1>12 DEF Fills
  <2>2. QED
    BY <1>8, <2>1 DEF HeldOK
<1>14. Held'
  <2>1. ASSUME NEW y \in mapped PROVE HeldOK(y)'
    BY <1>1, <1>2, <1>8, HeldSame DEF Held
  <2>2. QED
    BY <1>2, <1>13, <2>1 DEF Held
<1>15. Apart'
  <2>1. \A d \in VCpus : Busy(d)' => d # c /\ Busy(d) /\ vcall'[d].start = vcall[d].start
    BY <1>7 DEF Busy
  <2>2. \A e, d \in VCpus : e # d /\ Busy(e)' /\ Busy(d)' => vcall'[e].start # vcall'[d].start
    BY <1>1, <2>1 DEF Apart
  <2>3. \A d \in VCpus, y \in mapped : Busy(d)' => vcall'[d].start # y.start
    BY <1>1, <2>1 DEF Apart
  <2>4. \A d \in VCpus : Busy(d)' => vcall'[d].start # x.start
    BY ZenonT(150), <1>1, <1>2, <1>6, <2>1 DEF Apart, v
  <2>5. \A y \in mapped : y.start # x.start
    BY <1>1, <1>2, <1>6 DEF Apart, v
  <2>6. \A y, z \in mapped' : y.start = z.start => y = z
    BY <1>1, <1>2, <2>5 DEF Apart
  <2>7. QED
    BY <1>2, <2>2, <2>3, <2>4, <2>6 DEF Apart
<1>16. QED
  BY <1>9, <1>10, <1>11, <1>14, <1>15 DEF VmInv

\* A step that changes only the call of c, or hands it what a caller held.
LEMMA CallStep ==
  ASSUME VmInv, NEW c \in VCpus, NEW w \in CallType, NEW r \in Areas,
         vcall' = [vcall EXCEPT ![c] = w], areas' = areas, kpt' = kpt, pool' = pool,
         mapped' \subseteq mapped, Works(w, r), w.op # "none",
         \A d \in VCpus \ {c} : Busy(d) => vcall[d].start # w.start,
         \A x \in mapped' : x.start # w.start
  PROVE  VmInv'
<1>1. VmTypeOK /\ Ordered /\ Covered /\ Kinds /\ Calls /\ Held /\ Apart /\ Conserved
  BY DEF VmInv
<1>2. /\ vcall' \in [VCpus -> CallType] /\ \A d \in VCpus \ {c} : vcall'[d] = vcall[d]
      /\ vcall'[c] = w
  BY <1>1 DEF VmTypeOK
<1>3. Areas' = Areas
  BY DEF Areas
<1>4. VmTypeOK'
  BY <1>1, <1>2 DEF VmTypeOK
<1>5. Ordered' /\ Covered' /\ Kinds' /\ Conserved'
  BY <1>1, <1>3 DEF Ordered, Covered, Kinds, Conserved
<1>6. Calls'
  <2>1. ASSUME NEW d \in VCpus \ {c} PROVE CallOK(d)'
    BY <1>1, <1>2, <1>3, CallSame DEF Calls
  <2>2. Works(vcall[c], r)'
    BY <1>2 DEF Works, Progress
  <2>3. CallOK(c)'
    BY <1>3, <2>2 DEF CallOK
  <2>4. QED
    BY <2>1, <2>3 DEF Calls
<1>7. Held'
  <2>1. ASSUME NEW x \in mapped PROVE HeldOK(x)'
    BY <1>1, <1>3, HeldSame DEF Held
  <2>2. QED
    BY <2>1 DEF Held
<1>8. Apart'
  <2>1. \A d \in VCpus \ {c} : (Busy(d)' <=> Busy(d)) /\ vcall'[d].start = vcall[d].start
    BY <1>2 DEF Busy
  <2>2. \A e, d \in VCpus : e # d /\ Busy(e)' /\ Busy(d)' => vcall'[e].start # vcall'[d].start
    BY <1>1, <1>2, <2>1 DEF Apart
  <2>3. \A e \in VCpus, x \in mapped' : Busy(e)' => vcall'[e].start # x.start
    BY <1>1, <1>2, <2>1 DEF Apart
  <2>4. QED
    BY <1>1, <2>2, <2>3 DEF Apart
<1>9. QED
  BY <1>4, <1>5, <1>6, <1>7, <1>8 DEF VmInv

\* vmap_pages: no page left.
LEMMA MapFailsStep ==
  ASSUME VmInv, NEW c \in VCpus, map_fails(c)
  PROVE  VmInv'
<1>1. VmTypeOK /\ Ordered /\ CallOK(c) /\ Apart
  BY DEF VmInv, Calls
<1>0. PICK w : w = Call("unwind", vcall[c].start, vcall[c].off, 0)
  OBVIOUS
<1>2. /\ vcall[c].op = "map" /\ Area(vcall[c].start).owns /\ vcall' = [vcall EXCEPT ![c] = w]
      /\ areas' = areas /\ kpt' = kpt /\ pool' = pool /\ mapped' = mapped /\ Busy(c)
  BY <1>0 DEF map_fails, Busy
<1>3. PICK r \in Areas : Works(vcall[c], r)
  BY <1>1, <1>2 DEF CallOK
<1>4. vcall[c].start \in Nat /\ vcall[c].off \in Nat /\ 0 \in Nat /\ 0 <= vcall[c].off
  <2>1. vcall[c].start \in Nat /\ vcall[c].off \in Nat
    BY <1>1, CallFields
  <2>2. QED
    BY <2>1, SMTT(60), Z3T(60)
<1>5. /\ w \in CallType /\ w.op = "unwind" /\ w.start = vcall[c].start
      /\ w.off = vcall[c].off /\ w.at = 0
  BY <1>0, <1>4 DEF Call, CallType
<1>6. r.start = vcall[c].start /\ vcall[c].off < r.size
  BY <1>3 DEF Works
<1>7. r.owns
  BY <1>1, <1>2, <1>6, Lookup
<1>8. ASSUME NEW a \in KAddrs, Inside(r, a)
      PROVE  kpt[a] # Unmapped <=> w.start + 0 < a /\ a <= w.start + w.off
  <2>1. kpt[a] # Unmapped <=> a <= vcall[c].start + vcall[c].off
    BY <1>2, <1>3, <1>8 DEF Works, Progress
  <2>2. a \in Nat
    BY KAddrNat
  <2>3. vcall[c].start + 0 < a
    BY <1>4, <1>6, <1>8, <2>2, SMTT(60), Z3T(60) DEF Inside
  <2>4. QED
    BY <1>5, <2>1, <2>3
<1>9. Works(w, r)
  BY <1>4, <1>5, <1>6, <1>7, <1>8 DEF Works, Progress
<1>10. /\ \A d \in VCpus \ {c} : Busy(d) => vcall[d].start # w.start
       /\ \A x \in mapped : x.start # w.start
  BY <1>1, <1>2, <1>5 DEF Apart
<1>11. w.op # "none"
  BY <1>5
<1>12. QED
  BY <1>2, <1>5, <1>9, <1>10, <1>11, CallStep

\* vfree, iounmap: the caller gives its area back.
LEMMA FreeStep ==
  ASSUME VmInv, NEW c \in VCpus, NEW x \in mapped, vfree(c, x)
  PROVE  VmInv'
<1>1. VmTypeOK /\ Ordered /\ HeldOK(x) /\ Apart
  BY DEF VmInv, Held
<1>0. PICK w : w = Call("free", x.start, 0, 0)
  OBVIOUS
<1>2. /\ vcall[c] = NoCall /\ mapped' = mapped \ {x} /\ vcall' = [vcall EXCEPT ![c] = w]
      /\ areas' = areas /\ kpt' = kpt /\ pool' = pool
  BY <1>0 DEF vfree
<1>3. PICK r \in Areas : Fills(x, r)
  BY <1>1 DEF HeldOK
<1>4. r.start = x.start
  BY <1>3 DEF Fills
<1>5. x.start \in Nat /\ r.size \in Nat /\ 0 \in Nat /\ 0 < r.size
  <2>1. r.start \in Nat /\ r.size \in Nat /\ r.size > 0
    BY <1>1, AreaTypes
  <2>2. QED
    BY <1>4, <2>1, SMTT(60), Z3T(60)
<1>6. w \in CallType /\ w.op = "free" /\ w.start = x.start /\ w.off = 0
  BY <1>0, <1>5 DEF Call, CallType
<1>7. ASSUME NEW a \in KAddrs, Inside(r, a) PROVE ~(a <= x.start + 0)
  BY <1>4, <1>5, <1>7, KAddrNat, SMTT(60), Z3T(60) DEF Inside
<1>8. Works(w, r)
  BY <1>4, <1>5, <1>6, <1>7 DEF Works, Progress
<1>9. \A d \in VCpus \ {c} : Busy(d) => vcall[d].start # w.start
  BY <1>1, <1>6 DEF Apart
<1>10. \A y \in mapped' : y.start # w.start
  BY <1>1, <1>2, <1>6 DEF Apart
<1>11. w.op # "none" /\ mapped' \subseteq mapped
  BY <1>2, <1>6
<1>12. QED
  BY <1>2, <1>6, <1>8, <1>9, <1>10, <1>11, CallStep

-----------------------------------------------------------------------------
LEMMA VmInitInv ==
  ASSUME VmallocInit
  PROVE  VmInv
<1>1. areas = <<>> /\ kpt = [a \in KAddrs |-> Unmapped] /\ pool = Frames
      /\ vcall = [c \in VCpus |-> NoCall] /\ mapped = {}
  BY DEF VmallocInit
<1>2. areas \in Seq(AreaType) /\ DOMAIN areas = {}
  BY <1>1, SMTT(60), Z3T(60)
<1>3. Unmapped \notin Frames
  BY VmallocAssumption
<1>4. VmTypeOK
  BY <1>1, <1>2, Idle DEF VmTypeOK
<1>5. Ordered /\ Areas = {}
  BY <1>2 DEF Ordered, Areas
<1>6. Covered /\ Kinds /\ Held
  BY <1>1, <1>5 DEF Covered, Kinds, Held
<1>7. \A c \in VCpus : ~Busy(c)
  BY <1>1, Idle DEF Busy
<1>8. Calls /\ Apart
  BY <1>1, <1>7 DEF Calls, CallOK, Apart
<1>9. Conserved
  BY <1>1, <1>3 DEF Conserved
<1>10. QED
  BY <1>4, <1>5, <1>6, <1>8, <1>9 DEF VmInv

LEMMA VmNextInv ==
  VmInv /\ [VmallocNext]_va_vars => VmInv'
<1> SUFFICES ASSUME VmInv, [VmallocNext]_va_vars PROVE VmInv'
  OBVIOUS
<1>1. CASE VmallocNext
  <2>1. PICK c \in VCpus :
        \/ \E n \in AreaSizes, owns \in BOOLEAN : va_alloc(c, n, owns)
        \/ map_page(c) \/ map_done(c) \/ map_fails(c) \/ unwind_page(c) \/ unwind_done(c)
        \/ \E x \in mapped : vfree(c, x)
        \/ free_page(c) \/ free_done(c)
    BY <1>1 DEF VmallocNext
  <2>2. QED
    BY <2>1, AllocStep, MapPageStep, MapDoneStep, MapFailsStep, UnwindPageStep, UnwindDoneStep,
       FreeStep, FreePageStep, FreeDoneStep
<1>2. CASE UNCHANGED va_vars
  <2>1. areas' = areas /\ kpt' = kpt /\ pool' = pool /\ vcall' = vcall /\ mapped' = mapped
    BY <1>2 DEF va_vars
  <2>2. VmTypeOK /\ Ordered /\ Covered /\ Kinds /\ Calls /\ Held /\ Apart /\ Conserved
    BY DEF VmInv
  <2>3. Areas' = Areas
    BY <2>1 DEF Areas
  <2>4. Calls' /\ Held'
    BY <2>1, <2>2, <2>3, CallSame, HeldSame DEF Calls, Held
  <2>5. VmTypeOK' /\ Ordered' /\ Covered' /\ Kinds' /\ Conserved'
    BY <2>1, <2>2, <2>3 DEF VmTypeOK, Ordered, Covered, Kinds, Conserved
  <2>6. \A d \in VCpus : Busy(d)' => Busy(d) /\ vcall'[d].start = vcall[d].start
    BY <2>1 DEF Busy
  <2>7. Apart'
    BY <2>1, <2>2, <2>6, ApartKept
  <2>8. QED
    BY <2>4, <2>5, <2>7 DEF VmInv
<1>3. QED
  BY <1>1, <1>2

\* The invariant holds whatever CPUs map, fail, unwind and free at once.
THEOREM AreasInvariant == VmallocSpec => []VmInv
  BY VmInitInv, VmNextInv, PTL DEF VmallocSpec

-----------------------------------------------------------------------------
INSTANCE FiniteSetTheorems

\* Every frame is mapped once or in the pool.
LEMMA FramesCounted ==
  ASSUME VmInv, NEW p \in Frames
  PROVE  Cardinality({a \in KAddrs : kpt[a] = p}) = IF p \in pool THEN 0 ELSE 1
<1>1. Conserved
  BY DEF VmInv
<1>2. CASE p \in pool
  <2>1. {a \in KAddrs : kpt[a] = p} = {}
    BY <1>1, <1>2 DEF Conserved
  <2>2. QED
    BY <1>2, <2>1, FS_EmptySet
<1>3. CASE p \notin pool
  <2>1. PICK a \in KAddrs : kpt[a] = p
    BY <1>1, <1>3 DEF Conserved
  <2>2. {b \in KAddrs : kpt[b] = p} = {a}
    BY <1>1, <2>1 DEF Conserved
  <2>3. QED
    BY <1>3, <2>2, FS_Singleton
<1>4. QED
  BY <1>2, <1>3

\* vmalloc.c: areas do not overlap and their guard pages are never mapped, what a
\* caller got stays mapped until it is freed, and every frame is in the pool or
\* mapped once, on any number of CPUs and with any sizes.
THEOREM AreasKeptExact == VmallocSpec => []AreasExact
<1>1. VmInv => AreasExact
  <2> SUFFICES ASSUME VmInv PROVE AreasExact
    OBVIOUS
  <2>1. VmTypeOK /\ Ordered /\ Covered /\ Held
    BY DEF VmInv
  <2>2. Len(areas) \in Nat /\ DOMAIN areas = 1 .. Len(areas)
    BY <2>1, AreaTypes
  <2>3. \A i \in DOMAIN areas : AreaEnd(i) = End(areas[i])
    <3>1. \A i \in DOMAIN areas : i # 0
      BY <2>2, SMTT(60), Z3T(60)
    <3>2. QED
      BY <3>1 DEF AreaEnd, End
  <2>4. ASSUME NEW i \in DOMAIN areas
        PROVE  /\ areas[i].start >= AreaEnd(i - 1) /\ AreaEnd(i) <= VMALLOC_END
               /\ kpt[areas[i].start] = Unmapped
    <3>1. areas[i] \in Areas
      BY DEF Areas
    <3>2. areas[i].start \in Nat /\ areas[i].size \in Nat /\ areas[i].size > 0
      BY <2>1, <3>1, AreaTypes
    <3>3. AreaEnd(i) <= VMALLOC_END
      BY <2>1, <2>3 DEF Ordered
    <3>4. areas[i].start >= AreaEnd(i - 1)
      <4>1. CASE i = 1
        <5>1. AreaEnd(i - 1) = 0
          BY <4>1, SMTT(60), Z3T(60) DEF AreaEnd
        <5>2. QED
          BY <3>2, <5>1, SMTT(60), Z3T(60)
      <4>2. CASE i # 1
        <5>1. i - 1 \in DOMAIN areas /\ i - 1 < i
          BY <2>2, <4>2, SMTT(60), Z3T(60)
        <5>2. End(areas[i - 1]) <= areas[i].start /\ AreaEnd(i - 1) = End(areas[i - 1])
          BY <2>1, <2>3, <5>1 DEF Ordered
        <5>3. areas[i - 1] \in Areas
          BY <5>1 DEF Areas
        <5>4. areas[i - 1].start \in Nat /\ areas[i - 1].size \in Nat
          BY <2>1, <5>3, AreaTypes
        <5>5. QED
          BY <3>2, <5>2, <5>4, SMTT(60), Z3T(60) DEF End
      <4>3. QED
        BY <4>1, <4>2
    <3>5. kpt[areas[i].start] = Unmapped
      <4>1. areas[i].start \in KAddrs
        BY <2>3, <3>2, <3>3, VmallocAssumption, SMTT(60), Z3T(60) DEF KAddrs, End
      <4>2. ASSUME NEW s \in Areas, Inside(s, areas[i].start) PROVE FALSE
        <5>1. s # areas[i]
          BY <3>2, <4>2, SMTT(60), Z3T(60) DEF Inside
        <5>2. QED
          BY <2>1, <3>1, <4>1, <4>2, <5>1, Elsewhere
      <4>3. QED
        BY <2>1, <4>1, <4>2 DEF Covered
    <3>6. QED
      BY <3>3, <3>4, <3>5
  <2>5. ASSUME NEW a \in KAddrs, kpt[a] # Unmapped
        PROVE  \E i \in DOMAIN areas : areas[i].start < a /\ a < AreaEnd(i)
    <3>1. PICK i \in DOMAIN areas : Inside(areas[i], a)
      BY <2>1, <2>5 DEF Covered, Areas
    <3>2. QED
      BY <2>3, <3>1 DEF Inside
  <2>6. \A x \in mapped : \A i \in DOMAIN x.got : kpt[x.start + i] = x.got[i] /\ x.got[i] # Unmapped
    BY <2>1 DEF Held, HeldOK, Fills
  <2>7. QED
    BY <2>4, <2>5, <2>6, FramesCounted DEF AreasExact
<1>2. QED
  BY <1>1, AreasInvariant, PTL
=============================================================================
