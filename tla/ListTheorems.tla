--------------------------- MODULE ListTheorems ---------------------------
(***************************************************************************)
(* Facts about linked lists without duplicates, as the kernel's list_head  *)
(* is used: adding at either end, taking from the front, unlinking from    *)
(* the middle.  The proofs of the components cite these lemmas and never   *)
(* look at indices again.                                                  *)
(***************************************************************************)
EXTENDS Integers, Sequences, TLAPS

\* What is on the list; that nothing is on it twice.
Elems(s) == {s[i] : i \in DOMAIN s}
Distinct(s) == \A i, j \in DOMAIN s : s[i] = s[j] => i = j

\* The list without its k-th element.
Cut(s, k) == [j \in 1 .. Len(s) - 1 |-> IF j < k THEN s[j] ELSE s[j + 1]]

\* list_add_tail
LEMMA AppendList ==
  ASSUME NEW T, NEW s \in Seq(T), NEW t \in T, t \notin Elems(s), Distinct(s)
  PROVE  /\ Append(s, t) \in Seq(T)
         /\ Elems(Append(s, t)) = Elems(s) \cup {t}
         /\ Distinct(Append(s, t))
         /\ Len(Append(s, t)) = Len(s) + 1
<1> DEFINE u == Append(s, t)
<1>1. u \in Seq(T) /\ Len(u) = Len(s) + 1 /\ DOMAIN u = 1 .. Len(s) + 1
  OBVIOUS
<1>2. u[Len(s) + 1] = t /\ \A i \in 1 .. Len(s) : u[i] = s[i]
  OBVIOUS
<1> HIDE DEF u
<1>3. DOMAIN s = 1 .. Len(s) /\ Len(s) \in Nat
  OBVIOUS
<1>4. Elems(u) = Elems(s) \cup {t}
  <2>1. ASSUME NEW x \in Elems(s) PROVE x \in Elems(u)
    BY <1>1, <1>2, <1>3 DEF Elems
  <2>2. t \in Elems(u)
    BY <1>1, <1>2, <1>3 DEF Elems
  <2>3. ASSUME NEW x \in Elems(u) PROVE x \in Elems(s) \cup {t}
    <3>1. PICK i \in DOMAIN u : x = u[i]
      BY DEF Elems
    <3>2. i = Len(s) + 1 \/ i \in DOMAIN s
      BY <1>1, <1>3
    <3>3. QED
      BY <1>2, <1>3, <3>1, <3>2 DEF Elems
  <2>4. QED
    BY <2>1, <2>2, <2>3
<1>5. Distinct(u)
  BY <1>1, <1>2, <1>3 DEF Distinct, Elems
<1>6. QED
  BY <1>1, <1>4, <1>5 DEF u

\* list_add
LEMMA ConsList ==
  ASSUME NEW T, NEW s \in Seq(T), NEW t \in T, t \notin Elems(s), Distinct(s)
  PROVE  /\ <<t>> \o s \in Seq(T)
         /\ Elems(<<t>> \o s) = Elems(s) \cup {t}
         /\ Distinct(<<t>> \o s)
         /\ Len(<<t>> \o s) = Len(s) + 1
<1> DEFINE u == <<t>> \o s
<1>1. u \in Seq(T) /\ Len(u) = Len(s) + 1 /\ DOMAIN u = 1 .. Len(s) + 1
  OBVIOUS
<1>2. u[1] = t /\ \A i \in 1 .. Len(s) : u[i + 1] = s[i]
  OBVIOUS
<1> HIDE DEF u
<1>3. DOMAIN s = 1 .. Len(s) /\ Len(s) \in Nat
  OBVIOUS
<1>4. \A i \in DOMAIN u : i = 1 \/ (i - 1 \in DOMAIN s /\ u[i] = s[i - 1])
  <2> SUFFICES ASSUME NEW i \in DOMAIN u, i # 1 PROVE i - 1 \in DOMAIN s /\ u[i] = s[i - 1]
    OBVIOUS
  <2>1. i - 1 \in 1 .. Len(s) /\ (i - 1) + 1 = i
    BY <1>1, <1>3
  <2>2. u[(i - 1) + 1] = s[i - 1]
    BY <2>1, <1>2
  <2>3. QED
    BY <2>1, <2>2, <1>3
<1>5. Elems(u) = Elems(s) \cup {t}
  <2>1. ASSUME NEW x \in Elems(s) PROVE x \in Elems(u)
    <3>1. PICK i \in 1 .. Len(s) : x = s[i]
      BY <1>3 DEF Elems
    <3>2. i + 1 \in DOMAIN u /\ u[i + 1] = x
      BY <1>1, <1>2, <1>3, <3>1
    <3>3. QED
      BY <3>2 DEF Elems
  <2>2. t \in Elems(u)
    BY <1>1, <1>2, <1>3 DEF Elems
  <2>3. ASSUME NEW x \in Elems(u) PROVE x \in Elems(s) \cup {t}
    <3>1. PICK i \in DOMAIN u : x = u[i]
      BY DEF Elems
    <3>2. QED
      BY <1>2, <1>4, <3>1 DEF Elems
  <2>4. QED
    BY <2>1, <2>2, <2>3
<1>6. Distinct(u)
  <2> SUFFICES ASSUME NEW i \in DOMAIN u, NEW j \in DOMAIN u, u[i] = u[j] PROVE i = j
    BY DEF Distinct
  <2>1. i # 1 => i - 1 \in DOMAIN s /\ u[i] \in Elems(s)
    BY <1>4 DEF Elems
  <2>2. j # 1 => j - 1 \in DOMAIN s /\ u[j] \in Elems(s)
    BY <1>4 DEF Elems
  <2>3. CASE i = 1 \/ j = 1
    BY <2>1, <2>2, <2>3, <1>2
  <2>4. CASE i # 1 /\ j # 1
    <3>1. i - 1 = j - 1
      BY <1>4, <2>1, <2>2, <2>4 DEF Distinct
    <3>2. QED
      BY <3>1, <1>1, <1>3
  <2>5. QED
    BY <2>3, <2>4
<1>7. QED
  BY <1>1, <1>5, <1>6 DEF u

\* list_del of the k-th entry
LEMMA CutList ==
  ASSUME NEW T, NEW s \in Seq(T), NEW k \in DOMAIN s, Distinct(s)
  PROVE  /\ Cut(s, k) \in Seq(T)
         /\ Elems(Cut(s, k)) = Elems(s) \ {s[k]}
         /\ Distinct(Cut(s, k))
         /\ Len(Cut(s, k)) = Len(s) - 1
<1> DEFINE u == Cut(s, k)
<1>1. DOMAIN s = 1 .. Len(s) /\ Len(s) \in Nat /\ k \in 1 .. Len(s)
  OBVIOUS
<1>2. u = [j \in 1 .. Len(s) - 1 |-> IF j < k THEN s[j] ELSE s[j + 1]]
  BY DEF Cut
<1> HIDE DEF u
<1>3. u \in Seq(T) /\ Len(u) = Len(s) - 1 /\ DOMAIN u = 1 .. Len(s) - 1
  <2>1. \A j \in 1 .. Len(s) - 1 : (IF j < k THEN s[j] ELSE s[j + 1]) \in T
    BY <1>1
  <2>2. Len(s) - 1 \in Nat
    BY <1>1
  <2>3. u \in [1 .. Len(s) - 1 -> T]
    BY <1>2, <2>1
  <2>4. QED
    BY <2>2, <2>3
<1>4. \A j \in 1 .. Len(s) - 1 : /\ j < k => u[j] = s[j]
                                 /\ ~(j < k) => u[j] = s[j + 1]
  BY <1>2
<1>5. \A j \in DOMAIN u : \E i \in DOMAIN s : i # k /\ u[j] = s[i]
  <2> SUFFICES ASSUME NEW j \in DOMAIN u PROVE \E i \in DOMAIN s : i # k /\ u[j] = s[i]
    OBVIOUS
  <2>1. CASE j < k
    BY <1>1, <1>3, <1>4, <2>1
  <2>2. CASE ~(j < k)
    <3>1. j + 1 \in DOMAIN s /\ j + 1 # k
      BY <1>1, <1>3, <2>2
    <3>2. QED
      BY <3>1, <1>3, <1>4, <2>2
  <2>3. QED
    BY <2>1, <2>2
<1>6. \A i \in DOMAIN s : i # k => \E j \in DOMAIN u : u[j] = s[i]
  <2> SUFFICES ASSUME NEW i \in DOMAIN s, i # k PROVE \E j \in DOMAIN u : u[j] = s[i]
    OBVIOUS
  <2>1. CASE i < k
    BY <1>1, <1>3, <1>4, <2>1
  <2>2. CASE ~(i < k)
    <3>1. i - 1 \in DOMAIN u /\ ~(i - 1 < k) /\ (i - 1) + 1 = i
      BY <1>1, <1>3, <2>2
    <3>2. u[i - 1] = s[(i - 1) + 1]
      BY <3>1, <1>3, <1>4
    <3>3. QED
      BY <3>1, <3>2
  <2>3. QED
    BY <2>1, <2>2
<1>7. Elems(u) = Elems(s) \ {s[k]}
  <2>1. ASSUME NEW x \in Elems(u) PROVE x \in Elems(s) \ {s[k]}
    <3>1. PICK i \in DOMAIN s : i # k /\ x = s[i]
      BY <1>5 DEF Elems
    <3>2. QED
      BY <3>1 DEF Elems, Distinct
  <2>2. ASSUME NEW x \in Elems(s), x # s[k] PROVE x \in Elems(u)
    <3>1. PICK i \in DOMAIN s : x = s[i]
      BY DEF Elems
    <3>2. PICK j \in DOMAIN u : u[j] = s[i]
      BY <1>6, <2>2, <3>1
    <3>3. QED
      BY <3>1, <3>2 DEF Elems
  <2>3. QED
    BY <2>1, <2>2
<1>8. Distinct(u)
  <2> SUFFICES ASSUME NEW i \in 1 .. Len(s) - 1, NEW j \in 1 .. Len(s) - 1, u[i] = u[j] PROVE i = j
    BY <1>3 DEF Distinct
  <2>1. i \in DOMAIN s /\ i + 1 \in DOMAIN s /\ j \in DOMAIN s /\ j + 1 \in DOMAIN s
    BY <1>1
  <2>2. CASE i < k /\ j < k
    BY <1>4, <2>1, <2>2 DEF Distinct
  <2>3. CASE ~(i < k) /\ ~(j < k)
    BY <1>4, <2>1, <2>3 DEF Distinct
  <2>4. CASE i < k /\ ~(j < k)
    <3>1. i = j + 1
      BY SMTT(60), Z3T(60), <1>4, <2>1, <2>4 DEF Distinct
    <3>2. QED
      BY <3>1, <2>4, <1>1
  <2>5. CASE ~(i < k) /\ j < k
    <3>1. i + 1 = j
      BY <1>4, <2>1, <2>5 DEF Distinct
    <3>2. QED
      BY <3>1, <2>5, <1>1
  <2>6. QED
    BY <2>2, <2>3, <2>4, <2>5
<1>9. QED
  BY <1>3, <1>7, <1>8 DEF u

\* list_first_entry, list_del
LEMMA TailList ==
  ASSUME NEW T, NEW s \in Seq(T), s # <<>>, Distinct(s)
  PROVE  /\ Tail(s) \in Seq(T) /\ Head(s) \in Elems(s)
         /\ Elems(Tail(s)) = Elems(s) \ {Head(s)}
         /\ Distinct(Tail(s))
         /\ Len(Tail(s)) = Len(s) - 1
<1>1. Len(s) \in Nat /\ Len(s) # 0 /\ 1 \in DOMAIN s /\ Head(s) = s[1] /\ DOMAIN s = 1 .. Len(s)
  OBVIOUS
<1>2. Tail(s) = Cut(s, 1)
  <2> DEFINE u == Tail(s)
  <2>01. u \in Seq(T) /\ Len(u) = Len(s) - 1
    OBVIOUS
  <2>0. \A i \in 1 .. Len(s) - 1 : u[i] = s[i + 1]
    OBVIOUS
  <2> HIDE DEF u
  <2>1. u \in [1 .. Len(s) - 1 -> T] /\ \A i \in 1 .. Len(s) - 1 : u[i] = s[i + 1]
    BY <1>1, <2>01, <2>0
  <2>2. \A i \in 1 .. Len(s) - 1 : ~(i < 1)
    BY <1>1
  <2>3. u = Cut(s, 1)
    BY <2>1, <2>2 DEF Cut
  <2>4. QED
    BY <2>3 DEF u
<1>3. s[1] \in Elems(s)
  BY <1>1 DEF Elems
<1>4. /\ Cut(s, 1) \in Seq(T)
      /\ Elems(Cut(s, 1)) = Elems(s) \ {s[1]}
      /\ Distinct(Cut(s, 1))
      /\ Len(Cut(s, 1)) = Len(s) - 1
  BY ZenonT(40), <1>1, CutList
<1> DEFINE u == Tail(s)
<1>5. u = Cut(s, 1)
  BY <1>2
<1> HIDE DEF u
<1>6. u \in Seq(T) /\ Elems(u) = Elems(s) \ {s[1]} /\ Distinct(u) /\ Len(u) = Len(s) - 1
  BY <1>4, <1>5
<1>7. QED
  BY <1>1, <1>3, <1>6 DEF u

\* list_empty
LEMMA EmptyList ==
  ASSUME NEW T, NEW s \in Seq(T)
  PROVE  /\ s = <<>> <=> Elems(s) = {}
         /\ s = <<>> <=> Len(s) = 0
         /\ Len(s) \in Nat
         /\ Elems(s) \subseteq T
<1>1. Len(s) \in Nat /\ DOMAIN s = 1 .. Len(s) /\ \A i \in DOMAIN s : s[i] \in T
  OBVIOUS
<1>2. s = <<>> <=> Len(s) = 0
  OBVIOUS
<1>3. Elems(s) \subseteq T
  BY <1>1 DEF Elems
<1>4. s = <<>> => Elems(s) = {}
  BY <1>1, <1>2 DEF Elems
<1>5. s # <<>> => s[1] \in Elems(s)
  BY <1>1, <1>2 DEF Elems
<1>6. QED
  BY <1>1, <1>2, <1>3, <1>4, <1>5

\* list_splice: two lists without a common entry.
LEMMA ConcatList ==
  ASSUME NEW T, NEW s \in Seq(T), NEW u \in Seq(T), Distinct(s), Distinct(u),
         Elems(s) \cap Elems(u) = {}
  PROVE  /\ s \o u \in Seq(T)
         /\ Elems(s \o u) = Elems(s) \cup Elems(u)
         /\ Distinct(s \o u)
<1> DEFINE v == s \o u
           m == Len(s)
           n == Len(u)
<1>1. m \in Nat /\ n \in Nat /\ DOMAIN s = 1 .. m /\ DOMAIN u = 1 .. n
  OBVIOUS
<1>2. v \in Seq(T) /\ DOMAIN v = 1 .. m + n
  OBVIOUS
<1>3. \A i \in 1 .. m + n : v[i] = IF i <= m THEN s[i] ELSE u[i - m]
  OBVIOUS
<1> HIDE DEF v, m, n
<1>4. \A i \in 1 .. m + n : i <= m => i \in DOMAIN s /\ v[i] = s[i]
  BY <1>1, <1>3
<1>5. \A i \in 1 .. m + n : ~(i <= m) => i - m \in DOMAIN u /\ v[i] = u[i - m]
  BY <1>1, <1>3
<1>6. Elems(v) = Elems(s) \cup Elems(u)
  <2>1. ASSUME NEW x \in Elems(v) PROVE x \in Elems(s) \cup Elems(u)
    <3>1. PICK i \in 1 .. m + n : x = v[i]
      BY <1>2 DEF Elems
    <3>2. QED
      BY <1>4, <1>5, <3>1 DEF Elems
  <2>2. ASSUME NEW x \in Elems(s) PROVE x \in Elems(v)
    <3>1. PICK i \in 1 .. m : x = s[i]
      BY <1>1 DEF Elems
    <3>2. i \in 1 .. m + n /\ i <= m
      BY <1>1
    <3>3. QED
      BY <1>2, <1>4, <3>1, <3>2 DEF Elems
  <2>3. ASSUME NEW x \in Elems(u) PROVE x \in Elems(v)
    <3>1. PICK i \in 1 .. n : x = u[i]
      BY <1>1 DEF Elems
    <3>2. i + m \in 1 .. m + n /\ ~(i + m <= m) /\ (i + m) - m = i
      BY <1>1
    <3>3. v[i + m] = u[(i + m) - m]
      BY <1>5, <3>2
    <3>4. QED
      BY <1>2, <3>1, <3>2, <3>3 DEF Elems
  <2>4. QED
    BY <2>1, <2>2, <2>3
<1>7. Distinct(v)
  <2> SUFFICES ASSUME NEW i \in 1 .. m + n, NEW j \in 1 .. m + n, v[i] = v[j] PROVE i = j
    BY <1>2 DEF Distinct
  <2>1. CASE i <= m /\ j <= m
    BY <1>4, <2>1 DEF Distinct
  <2>2. CASE ~(i <= m) /\ ~(j <= m)
    <3>1. i - m = j - m
      BY <1>5, <2>2 DEF Distinct
    <3>2. QED
      BY <1>1, <3>1
  <2>3. CASE i <= m /\ ~(j <= m)
    BY <1>4, <1>5, <2>3 DEF Elems
  <2>4. CASE ~(i <= m) /\ j <= m
    BY <1>4, <1>5, <2>4 DEF Elems
  <2>5. QED
    BY <2>1, <2>2, <2>3, <2>4
<1>8. QED
  BY <1>2, <1>6, <1>7 DEF v
=============================================================================
