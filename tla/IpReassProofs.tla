--------------------------- MODULE IpReassProofs ---------------------------
(***************************************************************************)
(* Proofs about IpReass, for every number of datagrams and of pbufs, every *)
(* length of datagram, every set of routes and every order in which the    *)
(* fragments come.                                                         *)
(*                                                                         *)
(* The books are sums over the queues, so the first part is about sums of  *)
(* sequences of numbers.  What a sum is for every length is shown by the   *)
(* least length at which it would be something else; how it changes when   *)
(* an element is put in, taken out or replaced needs no induction: the new *)
(* partial sums are written down.                                          *)
(***************************************************************************)
EXTENDS IpReass, FiniteSetTheorems, SequenceTheorems, WellFoundedInduction, TLAPS

\* A nonempty set of numbers has a least element.
LEMMA Least ==
    ASSUME NEW T \in SUBSET Nat, T # {}
    PROVE  \E x \in T : \A y \in T : x <= y
<1> DEFINE R == OpToRel(<, Nat)
<1>1. IsWellFoundedOn(R, Nat)
  BY NatLessThanWellFounded
<1>2. PICK x \in T : \A y \in T : ~ (<<y, x>> \in R)
  <2> HIDE DEF R
  <2> QED BY <1>1, WFMin
<1>3. \A y \in T : ~(y < x)
  BY <1>2 DEF OpToRel
<1> QED BY <1>3

-----------------------------------------------------------------------------
(* Sums.  g holds the sums of the first 0, 1 .. n elements of w.           *)

Sums(w, n, g) ==
    /\ g \in [0 .. n -> Nat]
    /\ g[0] = 0
    /\ \A k \in 1 .. n : g[k] = g[k - 1] + w[k]

\* The equation Total chooses a solution of.
SumEq(w, g) ==
    g = [n \in 0 .. Len(w) |-> IF n = 0 THEN 0 ELSE g[n - 1] + w[n]]

LEMMA TotalChoice ==
    ASSUME NEW w
    PROVE  Total(w) = (CHOOSE g : SumEq(w, g))[Len(w)]
BY Zenon DEF Total, SumEq

LEMMA SumsExist ==
    ASSUME NEW w \in Seq(Nat), NEW n \in 0 .. Len(w)
    PROVE  \E g : Sums(w, n, g)
<1> DEFINE T == {m \in 0 .. Len(w) : ~ \E g : Sums(w, m, g)}
<1>1. SUFFICES ASSUME T # {} PROVE FALSE
  OBVIOUS
<1>2. T \in SUBSET Nat
  OBVIOUS
<1>3. PICK m \in T : \A y \in T : m <= y
  BY <1>1, <1>2, Least
<1>4. m \in 0 .. Len(w) /\ ~ \E g : Sums(w, m, g)
  OBVIOUS
<1>5. m # 0
  <2>1. Sums(w, 0, [k \in 0 .. 0 |-> 0])
    BY DEF Sums
  <2> QED BY <1>4, <2>1
<1>6. m - 1 \in 0 .. Len(w) /\ m \in 1 .. Len(w) /\ m - 1 \notin T
  BY <1>3, <1>4, <1>5
<1>7. PICK g : Sums(w, m - 1, g)
  BY <1>6
<1>8. w[m] \in Nat
  BY <1>6
<1> HIDE DEF T
<1> DEFINE h == [k \in 0 .. m |-> IF k = m THEN g[m - 1] + w[m] ELSE g[k]]
<1>9. Sums(w, m, h)
  <2>1. h \in [0 .. m -> Nat]
    BY <1>6, <1>7, <1>8 DEF Sums
  <2>2. h[0] = 0
    BY <1>6, <1>7 DEF Sums
  <2>3. ASSUME NEW k \in 1 .. m PROVE h[k] = h[k - 1] + w[k]
    <3>1. k \in 0 .. m /\ k - 1 \in 0 .. m /\ k - 1 # m
      BY <1>6
    <3>2. h[k - 1] = g[k - 1]
      BY <3>1
    <3>3. CASE k = m
      BY <3>1, <3>2, <3>3
    <3>4. CASE k # m
      <4>1. k \in 1 .. m - 1
        BY <1>6, <3>4
      <4>2. h[k] = g[k] /\ g[k] = g[k - 1] + w[k]
        BY <1>7, <3>1, <3>4, <4>1 DEF Sums
      <4> QED BY <3>2, <4>2
    <3> QED BY <3>3, <3>4
  <2> HIDE DEF h
  <2> QED BY <2>1, <2>2, <2>3 DEF Sums
<1> QED BY <1>4, <1>9

\* Two sequences of partial sums agree.
LEMMA SumsAgree ==
    ASSUME NEW w \in Seq(Nat), NEW g, NEW h,
           Sums(w, Len(w), g), SumEq(w, h)
    PROVE  h[Len(w)] = g[Len(w)]
<1> DEFINE T == {m \in 0 .. Len(w) : h[m] # g[m]}
<1>1. SUFFICES ASSUME T # {} PROVE FALSE
  <2>1. Len(w) \in 0 .. Len(w)
    OBVIOUS
  <2> QED BY <2>1
<1>2. T \in SUBSET Nat
  OBVIOUS
<1>3. PICK m \in T : \A y \in T : m <= y
  BY <1>1, <1>2, Least
<1>4. m \in 0 .. Len(w) /\ h[m] # g[m]
  OBVIOUS
<1>5. h[m] = IF m = 0 THEN 0 ELSE h[m - 1] + w[m]
  BY <1>4 DEF SumEq
<1>6. m # 0
  BY <1>4, <1>5 DEF Sums
<1>7. m - 1 \in 0 .. Len(w) /\ m \in 1 .. Len(w) /\ m - 1 \notin T
  BY <1>3, <1>4, <1>6
<1>8. h[m - 1] = g[m - 1]
  BY <1>7
<1> QED BY <1>4, <1>5, <1>6, <1>7, <1>8 DEF Sums

\* Total is the last partial sum.
LEMMA TotalIs ==
    ASSUME NEW w \in Seq(Nat), NEW g, Sums(w, Len(w), g)
    PROVE  Total(w) = g[Len(w)] /\ Total(w) \in Nat
<1>1. SumEq(w, g)
  <2> DEFINE h == [n \in 0 .. Len(w) |-> IF n = 0 THEN 0 ELSE g[n - 1] + w[n]]
  <2>1. DOMAIN g = 0 .. Len(w)
    BY DEF Sums
  <2>2. ASSUME NEW n \in 0 .. Len(w) PROVE g[n] = h[n]
    <3>1. CASE n = 0
      BY <3>1 DEF Sums
    <3>2. CASE n # 0
      <4>1. n \in 1 .. Len(w)
        BY <3>2
      <4> QED BY <3>2, <4>1 DEF Sums
    <3> QED BY <3>1, <3>2
  <2>3. g = [n \in 0 .. Len(w) |-> g[n]]
    BY DEF Sums
  <2>4. g = h
    BY <2>2, <2>3
  <2> QED BY <2>4 DEF SumEq
<1>2. SumEq(w, CHOOSE h : SumEq(w, h))
  BY <1>1, Zenon
<1>3. Total(w) = g[Len(w)]
  <2> DEFINE h == CHOOSE h : SumEq(w, h)
  <2>1. SumEq(w, h) /\ Total(w) = h[Len(w)]
    BY <1>2, TotalChoice
  <2> HIDE DEF h
  <2> QED BY <2>1, SumsAgree
<1>4. Len(w) \in 0 .. Len(w)
  OBVIOUS
<1> QED BY <1>3, <1>4 DEF Sums

LEMMA TotalSums ==
    ASSUME NEW w \in Seq(Nat)
    PROVE  /\ Total(w) \in Nat
           /\ \E g : Sums(w, Len(w), g) /\ Total(w) = g[Len(w)]
<1>1. Len(w) \in 0 .. Len(w)
  OBVIOUS
<1>2. PICK g : Sums(w, Len(w), g)
  BY <1>1, SumsExist
<1> QED BY <1>2, TotalIs

LEMMA TotalEmpty == Total(<<>>) = 0
<1>1. <<>> \in Seq(Nat) /\ Len(<<>>) = 0
  OBVIOUS
<1>2. Sums(<<>>, Len(<<>>), [k \in 0 .. 0 |-> 0])
  BY <1>1 DEF Sums
<1>3. Total(<<>>) = [k \in 0 .. 0 |-> 0][0]
  BY <1>1, <1>2, TotalIs
<1> QED BY <1>3

\* v is w without its element at i.
Without(w, i, v) ==
    /\ Len(v) + 1 = Len(w)
    /\ \A j \in 1 .. Len(v) : v[j] = IF j < i THEN w[j] ELSE w[j + 1]

\* An element put in or taken out counts by itself.
LEMMA TotalWithout ==
    ASSUME NEW w \in Seq(Nat), NEW v \in Seq(Nat), NEW i \in 1 .. Len(w),
           Without(w, i, v)
    PROVE  Total(w) = Total(v) + w[i]
<1>1. PICK h : Sums(v, Len(v), h) /\ Total(v) = h[Len(v)]
  BY TotalSums
<1> DEFINE n == Len(w)
           g == [k \in 0 .. n |-> IF k < i THEN h[k] ELSE h[k - 1] + w[i]]
<1>2. n \in Nat /\ Len(v) = n - 1 /\ i \in 1 .. n /\ w[i] \in Nat /\ Len(v) \in Nat
  BY DEF Without
<1>3. h \in [0 .. n - 1 -> Nat] /\ h[0] = 0
  BY <1>1, <1>2 DEF Sums
<1>4. \A k \in 1 .. n - 1 : h[k] = h[k - 1] + v[k]
  BY <1>1, <1>2 DEF Sums
<1>5. \A k \in 1 .. n - 1 : v[k] = IF k < i THEN w[k] ELSE w[k + 1]
  BY <1>2 DEF Without
<1>6. \A k \in 1 .. n : w[k] \in Nat
  OBVIOUS
<1> HIDE DEF n
<1>7. g \in [0 .. n -> Nat]
  <2>1. ASSUME NEW k \in 0 .. n
        PROVE  (IF k < i THEN h[k] ELSE h[k - 1] + w[i]) \in Nat
    <3>1. CASE k < i
      <4>1. k \in 0 .. n - 1
        BY <1>2, <3>1
      <4> QED BY <1>3, <3>1, <4>1
    <3>2. CASE ~(k < i)
      <4>1. k - 1 \in 0 .. n - 1
        BY <1>2, <3>2
      <4>2. h[k - 1] \in Nat
        BY <1>3, <4>1
      <4> QED BY <1>2, <3>2, <4>2
    <3> QED BY <3>1, <3>2
  <2> QED BY <2>1
<1>8. g[0] = 0
  BY <1>2, <1>3
<1>9. ASSUME NEW k \in 1 .. n PROVE g[k] = g[k - 1] + w[k]
  <2>0. k \in 0 .. n /\ k - 1 \in 0 .. n
    BY <1>2
  <2>1. CASE k < i
    <3>1. k \in 1 .. n - 1 /\ k - 1 < i
      BY <1>2, <2>1
    <3>2. g[k] = h[k] /\ g[k - 1] = h[k - 1]
      BY <2>0, <2>1, <3>1
    <3>3. h[k] = h[k - 1] + w[k]
      BY <1>4, <1>5, <2>1, <3>1
    <3> QED BY <3>2, <3>3
  <2>2. CASE k = i
    <3>1. k - 1 < i /\ ~(k < i)
      BY <1>2, <2>2
    <3>2. g[k] = h[k - 1] + w[i] /\ g[k - 1] = h[k - 1]
      BY <2>0, <3>1
    <3> QED BY <2>2, <3>2
  <2>3. CASE k > i
    <3>1. k - 1 \in 1 .. n - 1 /\ ~(k - 1 < i) /\ ~(k < i) /\ (k - 1) - 1 \in 0 .. n - 1
      BY <1>2, <2>3
    <3>2. g[k] = h[k - 1] + w[i] /\ g[k - 1] = h[(k - 1) - 1] + w[i]
      BY <2>0, <3>1
    <3>3. h[k - 1] = h[(k - 1) - 1] + v[k - 1] /\ v[k - 1] = w[(k - 1) + 1]
      BY <1>4, <1>5, <3>1
    <3> HIDE DEF g
    <3>4. (k - 1) + 1 = k
      BY <1>2
    <3>5. w[k] \in Nat
      BY <1>6
    <3>6. h[(k - 1) - 1] \in Nat
      BY <1>3, <3>1
    <3>7. \A a, b, c \in Nat : (a + b) + c = (a + c) + b
      OBVIOUS
    <3>8. h[k - 1] = h[(k - 1) - 1] + w[k]
      BY <3>3, <3>4
    <3>9. (h[(k - 1) - 1] + w[k]) + w[i] = (h[(k - 1) - 1] + w[i]) + w[k]
      BY <1>2, <3>5, <3>6, <3>7
    <3> QED BY <3>2, <3>8, <3>9
  <2> HIDE DEF g
  <2> QED BY <1>2, <2>0, <2>1, <2>2, <2>3
<1>10. g[n] = h[n - 1] + w[i]
  BY <1>2
<1>11. Sums(w, n, g)
  <2> HIDE DEF g
  <2> QED BY <1>7, <1>8, <1>9 DEF Sums
<1>12. Total(w) = g[n]
  <2> HIDE DEF g
  <2> QED BY <1>11, TotalIs DEF n
<1> QED BY <1>1, <1>2, <1>10, <1>12

\* A sequence without one of its elements exists.
LEMMA WithoutExists ==
    ASSUME NEW w \in Seq(Nat), NEW i \in 1 .. Len(w)
    PROVE  \E v \in Seq(Nat) : Without(w, i, v)
<1> DEFINE n == Len(w) - 1
           v == [j \in 1 .. n |-> IF j < i THEN w[j] ELSE w[j + 1]]
<1>1. n \in Nat /\ \A j \in 1 .. n : j \in 1 .. Len(w) /\ j + 1 \in 1 .. Len(w)
  OBVIOUS
<1>2. v \in [1 .. n -> Nat]
  BY <1>1
<1>3. v \in Seq(Nat) /\ Len(v) = n
  BY <1>1, <1>2
<1>4. Without(w, i, v)
  BY <1>1, <1>3 DEF Without
<1> QED BY <1>3, <1>4

\* v is w with another element at i.
Replaced(w, i, v) ==
    /\ Len(v) = Len(w)
    /\ \A j \in 1 .. Len(w) : j # i => v[j] = w[j]

LEMMA TotalReplaced ==
    ASSUME NEW w \in Seq(Nat), NEW v \in Seq(Nat), NEW i \in 1 .. Len(w),
           Replaced(w, i, v)
    PROVE  Total(v) + w[i] = Total(w) + v[i]
<1>1. PICK u \in Seq(Nat) : Without(w, i, u)
  BY WithoutExists
<1>2. Without(v, i, u)
  <2>1. Len(v) = Len(w) /\ Len(u) + 1 = Len(v) /\ Len(u) \in Nat /\ Len(w) \in Nat
    BY <1>1 DEF Without, Replaced
  <2>2. ASSUME NEW j \in 1 .. Len(u) PROVE u[j] = IF j < i THEN v[j] ELSE v[j + 1]
    <3>1. j \in 1 .. Len(w) /\ j + 1 \in 1 .. Len(w)
      <4>1. \A a, b, c \in Nat : a + 1 = b /\ c \in 1 .. a => c \in 1 .. b /\ c + 1 \in 1 .. b
        OBVIOUS
      <4>2. Len(u) + 1 = Len(w) /\ j \in Nat
        BY <2>1
      <4> QED BY <2>1, <4>1, <4>2
    <3>2. u[j] = IF j < i THEN w[j] ELSE w[j + 1]
      BY <1>1 DEF Without
    <3>3. (j < i => v[j] = w[j]) /\ (~(j < i) => v[j + 1] = w[j + 1])
      BY <3>1 DEF Replaced
    <3> QED BY <3>2, <3>3
  <2> QED BY <2>1, <2>2 DEF Without
<1>3. i \in 1 .. Len(v) /\ w[i] \in Nat /\ v[i] \in Nat
  BY DEF Replaced
<1>4. Total(w) = Total(u) + w[i] /\ Total(v) = Total(u) + v[i] /\ Total(u) \in Nat
  BY <1>1, <1>2, <1>3, TotalWithout, TotalSums
<1>5. \A a, b, c \in Nat : (c + b) + a = (c + a) + b
  OBVIOUS
<1>6. (Total(u) + v[i]) + w[i] = (Total(u) + w[i]) + v[i]
  BY <1>3, <1>4, <1>5
<1> QED BY <1>4, <1>6

-----------------------------------------------------------------------------
(* Sequences with an element put in or taken out.                          *)

LEMMA RemoveAtIs ==
    ASSUME NEW S, NEW s \in Seq(S), NEW i \in 1 .. Len(s)
    PROVE  /\ RemoveAt(s, i) \in Seq(S)
           /\ Without(s, i, RemoveAt(s, i))
<1> DEFINE a == SubSeq(s, 1, i - 1)
           b == SubSeq(s, i + 1, Len(s))
<1>0. Len(s) \in Nat /\ i \in Nat /\ 1 <= i /\ i <= Len(s)
  OBVIOUS
<1>1. \A j \in 1 .. Len(s) : s[j] \in S
  OBVIOUS
<1>2. /\ a \in Seq(S)
      /\ Len(a) = i - 1
      /\ \A j \in 1 .. i - 1 : a[j] = s[j]
  <2>1. \A j \in 1 .. i - 1 : s[j] \in S
    BY <1>0, <1>1
  <2>2. 1 \in Int /\ i - 1 \in Int
    BY <1>0
  <2>3. /\ a \in Seq(S)
        /\ Len(a) = IF 1 <= i - 1 THEN (i - 1) - 1 + 1 ELSE 0
        /\ \A j \in 1 .. (i - 1) - 1 + 1 : a[j] = s[1 + j - 1]
    BY <2>1, <2>2, SubSeqProperties
  <2> HIDE DEF a
  <2>4. Len(a) = i - 1 /\ (i - 1) - 1 + 1 = i - 1
    BY <1>0, <2>3
  <2>5. \A j \in 1 .. i - 1 : 1 + j - 1 = j
    BY <1>0
  <2> QED BY <2>3, <2>4, <2>5
<1>3. /\ b \in Seq(S)
      /\ Len(b) = Len(s) - i
      /\ \A j \in 1 .. Len(s) - i : b[j] = s[i + j]
  <2>1. \A j \in i + 1 .. Len(s) : s[j] \in S
    BY <1>0, <1>1
  <2>2. i + 1 \in Int /\ Len(s) \in Int
    BY <1>0
  <2>3. /\ b \in Seq(S)
        /\ Len(b) = IF i + 1 <= Len(s) THEN Len(s) - (i + 1) + 1 ELSE 0
        /\ \A j \in 1 .. Len(s) - (i + 1) + 1 : b[j] = s[(i + 1) + j - 1]
    BY <2>1, <2>2, SubSeqProperties
  <2> HIDE DEF b
  <2>4. Len(b) = Len(s) - i /\ Len(s) - (i + 1) + 1 = Len(s) - i
    BY <1>0, <2>3
  <2>5. \A j \in 1 .. Len(s) - i : (i + 1) + j - 1 = i + j
    BY <1>0
  <2> QED BY <2>3, <2>4, <2>5
<1>4. RemoveAt(s, i) = a \o b
  BY DEF RemoveAt
<1> HIDE DEF a, b
<1>5. /\ a \o b \in Seq(S)
      /\ Len(a \o b) = Len(a) + Len(b)
      /\ \A j \in 1 .. Len(a) + Len(b) : (a \o b)[j] =
            IF j <= Len(a) THEN a[j] ELSE b[j - Len(a)]
  BY <1>2, <1>3, ConcatProperties
<1>6. Len(a \o b) + 1 = Len(s) /\ Len(a) + Len(b) = Len(s) - 1
  BY <1>0, <1>2, <1>3, <1>5
<1>7. ASSUME NEW j \in 1 .. Len(a \o b)
      PROVE  (a \o b)[j] = IF j < i THEN s[j] ELSE s[j + 1]
  <2>1. j \in 1 .. Len(a) + Len(b) /\ j \in 1 .. Len(s) - 1
    BY <1>0, <1>5, <1>6
  <2>2. CASE j < i
    <3>1. j \in 1 .. i - 1 /\ j <= Len(a)
      BY <1>0, <1>2, <2>1, <2>2
    <3> QED BY <1>2, <1>5, <2>1, <2>2, <3>1
  <2>3. CASE ~(j < i)
    <3>1. ~(j <= Len(a)) /\ j - Len(a) \in 1 .. Len(s) - i /\ i + (j - Len(a)) = j + 1
      BY <1>0, <1>2, <2>1, <2>3
    <3>2. b[j - Len(a)] = s[j + 1]
      BY <1>3, <3>1
    <3> QED BY <1>5, <2>1, <2>3, <3>1, <3>2
  <2> QED BY <2>2, <2>3
<1> QED BY <1>4, <1>5, <1>6, <1>7 DEF Without

LEMMA InsertAtIs ==
    ASSUME NEW S, NEW s \in Seq(S), NEW k \in 0 .. Len(s), NEW e \in S
    PROVE  /\ InsertAt(s, k + 1, e) \in Seq(S)
           /\ Without(InsertAt(s, k + 1, e), k + 1, s)
           /\ InsertAt(s, k + 1, e)[k + 1] = e
<1> DEFINE a == SubSeq(s, 1, (k + 1) - 1)
           b == SubSeq(s, k + 1, Len(s))
           c == a \o <<e>>
<1>0. Len(s) \in Nat /\ k \in Nat /\ k <= Len(s) /\ (k + 1) - 1 = k
  OBVIOUS
<1>1. \A j \in 1 .. Len(s) : s[j] \in S
  OBVIOUS
<1>2. /\ a \in Seq(S)
      /\ Len(a) = k
      /\ \A j \in 1 .. k : a[j] = s[j]
  <2>0. a = SubSeq(s, 1, k)
    BY <1>0
  <2>1. \A j \in 1 .. k : s[j] \in S
    BY <1>0, <1>1
  <2>2. 1 \in Int /\ k \in Int
    BY <1>0
  <2>3. /\ a \in Seq(S)
        /\ Len(a) = IF 1 <= k THEN k - 1 + 1 ELSE 0
        /\ \A j \in 1 .. k - 1 + 1 : a[j] = s[1 + j - 1]
    BY <2>0, <2>1, <2>2, SubSeqProperties
  <2> HIDE DEF a
  <2>4. Len(a) = k /\ k - 1 + 1 = k
    BY <1>0, <2>3
  <2>5. \A j \in 1 .. k : 1 + j - 1 = j
    BY <1>0
  <2> QED BY <2>3, <2>4, <2>5
<1>3. /\ b \in Seq(S)
      /\ Len(b) = Len(s) - k
      /\ \A j \in 1 .. Len(s) - k : b[j] = s[k + j]
  <2>1. \A j \in k + 1 .. Len(s) : s[j] \in S
    BY <1>0, <1>1
  <2>2. k + 1 \in Int /\ Len(s) \in Int
    BY <1>0
  <2>3. /\ b \in Seq(S)
        /\ Len(b) = IF k + 1 <= Len(s) THEN Len(s) - (k + 1) + 1 ELSE 0
        /\ \A j \in 1 .. Len(s) - (k + 1) + 1 : b[j] = s[(k + 1) + j - 1]
    BY <2>1, <2>2, SubSeqProperties
  <2> HIDE DEF b
  <2>4. Len(b) = Len(s) - k /\ Len(s) - (k + 1) + 1 = Len(s) - k
    BY <1>0, <2>3
  <2>5. \A j \in 1 .. Len(s) - k : (k + 1) + j - 1 = k + j
    BY <1>0
  <2> QED BY <2>3, <2>4, <2>5
<1>4. InsertAt(s, k + 1, e) = c \o b
  BY DEF InsertAt
<1> HIDE DEF a, b
<1>5. /\ c \in Seq(S)
      /\ Len(c) = k + 1
      /\ \A j \in 1 .. k : c[j] = s[j]
      /\ c[k + 1] = e
  <2>1. <<e>> \in Seq(S) /\ Len(<<e>>) = 1 /\ <<e>>[1] = e
    OBVIOUS
  <2>2. /\ c \in Seq(S)
        /\ Len(c) = Len(a) + Len(<<e>>)
        /\ \A j \in 1 .. Len(a) + Len(<<e>>) : c[j] =
              IF j <= Len(a) THEN a[j] ELSE <<e>>[j - Len(a)]
    BY <1>2, <2>1, ConcatProperties
  <2> HIDE DEF c
  <2>3. Len(c) = k + 1 /\ k + 1 \in 1 .. Len(a) + Len(<<e>>) /\ ~(k + 1 <= Len(a)) /\ (k + 1) - Len(a) = 1
    BY <1>0, <1>2, <2>1, <2>2
  <2>4. c[k + 1] = e
    BY <2>1, <2>2, <2>3
  <2>5. ASSUME NEW j \in 1 .. k PROVE c[j] = s[j]
    <3>1. j \in 1 .. Len(a) + Len(<<e>>) /\ j <= Len(a)
      BY <1>0, <1>2, <2>1
    <3> QED BY <1>2, <2>2, <3>1
  <2> QED BY <2>2, <2>3, <2>4, <2>5
<1> HIDE DEF c
<1>6. /\ c \o b \in Seq(S)
      /\ Len(c \o b) = Len(c) + Len(b)
      /\ \A j \in 1 .. Len(c) + Len(b) : (c \o b)[j] =
            IF j <= Len(c) THEN c[j] ELSE b[j - Len(c)]
  BY <1>3, <1>5, ConcatProperties
<1>7. Len(c) + Len(b) = Len(s) + 1 /\ Len(c \o b) = Len(s) + 1
  BY <1>0, <1>3, <1>5, <1>6
<1>8. (c \o b)[k + 1] = e
  <2>1. k + 1 \in 1 .. Len(c) + Len(b) /\ k + 1 <= Len(c)
    BY <1>0, <1>5, <1>7
  <2> QED BY <1>5, <1>6, <2>1
<1>9. ASSUME NEW j \in 1 .. Len(s)
      PROVE  s[j] = IF j < k + 1 THEN (c \o b)[j] ELSE (c \o b)[j + 1]
  <2>1. CASE j < k + 1
    <3>1. j \in 1 .. Len(c) + Len(b) /\ j \in 1 .. k /\ j <= Len(c)
      BY <1>0, <1>5, <1>7, <2>1
    <3> QED BY <1>5, <1>6, <2>1, <3>1
  <2>2. CASE ~(j < k + 1)
    <3>1. j + 1 \in 1 .. Len(c) + Len(b) /\ ~(j + 1 <= Len(c)) /\ (j + 1) - Len(c) = j - k
      BY <1>0, <1>5, <1>7, <2>2
    <3>2. j - k \in 1 .. Len(s) - k /\ k + (j - k) = j
      BY <1>0, <2>2
    <3>3. (c \o b)[j + 1] = b[j - k] /\ b[j - k] = s[j]
      BY <1>3, <1>6, <3>1, <3>2
    <3> QED BY <2>2, <3>3
  <2> QED BY <2>1, <2>2
<1> QED BY <1>0, <1>4, <1>6, <1>7, <1>8, <1>9 DEF Without

\* An element put in front.
LEMMA PushIs ==
    ASSUME NEW S, NEW s \in Seq(S), NEW e \in S
    PROVE  /\ <<e>> \o s \in Seq(S)
           /\ Without(<<e>> \o s, 1, s)
           /\ (<<e>> \o s)[1] = e
<1>1. <<e>> \in Seq(S) /\ Len(<<e>>) = 1 /\ <<e>>[1] = e /\ Len(s) \in Nat
  OBVIOUS
<1> DEFINE t == <<e>> \o s
<1>2. /\ t \in Seq(S)
      /\ Len(t) = 1 + Len(s)
      /\ \A j \in 1 .. 1 + Len(s) : t[j] = IF j <= 1 THEN <<e>>[j] ELSE s[j - 1]
  <2>1. /\ t \in Seq(S)
        /\ Len(t) = Len(<<e>>) + Len(s)
        /\ \A j \in 1 .. Len(<<e>>) + Len(s) : t[j] =
              IF j <= Len(<<e>>) THEN <<e>>[j] ELSE s[j - Len(<<e>>)]
    BY <1>1, ConcatProperties
  <2> HIDE DEF t
  <2> QED BY <1>1, <2>1
<1> HIDE DEF t
<1>3. t[1] = e
  <2>1. 1 \in 1 .. 1 + Len(s) /\ 1 <= 1
    BY <1>1
  <2> QED BY <1>1, <1>2, <2>1
<1>4. ASSUME NEW j \in 1 .. Len(s) PROVE s[j] = IF j < 1 THEN t[j] ELSE t[j + 1]
  <2>1. j + 1 \in 1 .. 1 + Len(s) /\ ~(j + 1 <= 1) /\ (j + 1) - 1 = j /\ ~(j < 1)
    BY <1>1
  <2> QED BY <1>2, <2>1
<1>5. Len(s) + 1 = Len(t)
  BY <1>1, <1>2
<1>6. t \in Seq(S) /\ Without(t, 1, s) /\ t[1] = e
  BY <1>2, <1>3, <1>4, <1>5 DEF Without
<1> QED BY <1>6 DEF t

-----------------------------------------------------------------------------
(* Fragments.  Each begins before it ends, and so is in at least one pbuf. *)

Fragment ==
    {f \in [start : Nat, end : Nat, more : BOOLEAN] : f.start < f.end}

\* ip_frag starts fragment j only where fragment j - 1 left bytes over, and
\* a payload of at least 8 bytes has room for 8 of them.
LEMMA StartBelow ==
    ASSUME NEW b \in Nat, NEW m \in Nat, b <= m, NEW len \in Nat \ {0},
           NEW j \in Nat, j = 0 \/ len - b * (j - 1) > m
    PROVE  b * j \in Nat /\ b * j < len
<1>1. b * j \in Nat
  OBVIOUS
<1>2. CASE j = 0
  BY <1>2
<1>3. CASE j # 0
  <2>1. PICK i \in Nat : j = i + 1
    <3>1. j - 1 \in Nat /\ j = (j - 1) + 1
      BY <1>3
    <3> QED BY <3>1
  <2>2. b * j = b * i + b /\ j - 1 = i
    BY <2>1
  <2>3. b * i \in Nat /\ len - b * i > m
    BY <1>3, <2>1, <2>2
  <2> QED BY <1>1, <2>2, <2>3
<1> QED BY <1>1, <1>2, <1>3

LEMMA FragmentsAre == Fragments \subseteq Fragment
<1>1. SUFFICES ASSUME NEW m \in Payloads, NEW f \in ip_frag(DatagramLen, m)
               PROVE  f \in Fragment
  BY DEF Fragments
<1> DEFINE b == 8 * nfb(m)
<1>2. DatagramLen \in Nat \ {0} /\ m \in Nat /\ m >= 8
  BY IpReassAssumption
<1>3. b \in Nat /\ 0 < b /\ b <= m
  BY <1>2 DEF nfb
<1>4. PICK j \in 0 .. DatagramLen :
        /\ j = 0 \/ DatagramLen - b * (j - 1) > m
        /\ f = [start |-> b * j,
                end |-> IF DatagramLen - b * j <= m THEN DatagramLen ELSE b * j + b,
                more |-> DatagramLen - b * j > m]
  BY DEF ip_frag
<1> HIDE DEF b
<1>5. b * j \in Nat /\ b * j < DatagramLen
  BY <1>2, <1>3, <1>4, StartBelow
<1> DEFINE s == b * j
           e == IF DatagramLen - s <= m THEN DatagramLen ELSE s + b
<1>6. s \in Nat /\ f = [start |-> s, end |-> e, more |-> DatagramLen - s > m] /\ s < DatagramLen
  BY <1>4, <1>5
<1> HIDE DEF s
<1>7. e \in Nat /\ s < e
  BY <1>2, <1>3, <1>6
<1>8. (DatagramLen - s > m) \in BOOLEAN
  OBVIOUS
<1> HIDE DEF e
<1> QED BY <1>6, <1>7, <1>8 DEF Fragment

\* A fragment is in one pbuf at least.
LEMMA ClenPositive ==
    ASSUME NEW f \in Fragment
    PROVE  Clen(f) \in Nat /\ Clen(f) >= 1
<1>1. BufSize \in Nat /\ BufSize >= 1
  BY IpReassAssumption
<1>2. PICK x \in Nat : x = f.end - f.start /\ x >= 1
  BY DEF Fragment
<1>3. f.end - f.start + BufSize - 1 = x + BufSize - 1
  BY <1>2
<1>4. ((x + BufSize - 1) \div BufSize) \in Nat /\ ((x + BufSize - 1) \div BufSize) >= 1
  BY <1>1, <1>2, SMT
<1> QED BY <1>3, <1>4 DEF Clen

Weights(fs) == [i \in DOMAIN fs |-> Clen(fs[i])]

LEMMA WeightsAre ==
    ASSUME NEW fs \in Seq(Fragment)
    PROVE  /\ Weights(fs) \in Seq(Nat)
           /\ Len(Weights(fs)) = Len(fs)
           /\ \A i \in 1 .. Len(fs) : Weights(fs)[i] = Clen(fs[i])
           /\ ClenAll(fs) = Total(Weights(fs))
           /\ ClenAll(fs) \in Nat
<1>1. DOMAIN fs = 1 .. Len(fs) /\ Len(fs) \in Nat
  OBVIOUS
<1>2. \A i \in 1 .. Len(fs) : Clen(fs[i]) \in Nat
  BY <1>1, ClenPositive
<1>3. Weights(fs) = [i \in 1 .. Len(fs) |-> Clen(fs[i])]
  BY <1>1 DEF Weights
<1>4. Weights(fs) \in [1 .. Len(fs) -> Nat]
  BY <1>2, <1>3
<1>5. Weights(fs) \in Seq(Nat) /\ Len(Weights(fs)) = Len(fs)
  BY <1>1, <1>4
<1>6. ClenAll(fs) = Total(Weights(fs))
  BY DEF ClenAll, Weights
<1>7. Total(Weights(fs)) \in Nat
  BY <1>5, TotalSums
<1> QED BY <1>3, <1>5, <1>6, <1>7

\* The pbufs of a queue with one more fragment.
LEMMA ClenAllMore ==
    ASSUME NEW c \in Seq(Fragment), NEW p \in Seq(Fragment),
           NEW i \in 1 .. Len(c), Without(c, i, p)
    PROVE  ClenAll(c) = ClenAll(p) + Clen(c[i])
<1>1. /\ Weights(c) \in Seq(Nat) /\ Weights(p) \in Seq(Nat)
      /\ Len(Weights(c)) = Len(c) /\ Len(Weights(p)) = Len(p)
      /\ \A j \in 1 .. Len(c) : Weights(c)[j] = Clen(c[j])
      /\ \A j \in 1 .. Len(p) : Weights(p)[j] = Clen(p[j])
      /\ ClenAll(c) = Total(Weights(c)) /\ ClenAll(p) = Total(Weights(p))
  BY WeightsAre
<1>2. Len(p) \in Nat /\ Len(c) = Len(p) + 1
  BY DEF Without
<1>3. ASSUME NEW j \in 1 .. Len(p)
      PROVE  Weights(p)[j] = IF j < i THEN Weights(c)[j] ELSE Weights(c)[j + 1]
  <2>1. j \in 1 .. Len(c) /\ j + 1 \in 1 .. Len(c)
    BY <1>2
  <2>2. p[j] = IF j < i THEN c[j] ELSE c[j + 1]
    BY DEF Without
  <2> QED BY <1>1, <2>1, <2>2
<1>4. Without(Weights(c), i, Weights(p))
  BY <1>1, <1>2, <1>3 DEF Without
<1>5. Total(Weights(c)) = Total(Weights(p)) + Weights(c)[i]
  BY <1>1, <1>4, TotalWithout
<1> QED BY <1>1, <1>5

LEMMA ClenAllEmpty == ClenAll(<<>>) = 0
<1>1. Weights(<<>>) = <<>>
  BY DEF Weights
<1> QED BY <1>1, TotalEmpty DEF ClenAll, Weights

-----------------------------------------------------------------------------
(* Lists of datagrams.                                                     *)

Datagram == [id : Ids, p : Seq(Fragment), last : BOOLEAN]

LEMMA DatagramFields ==
    ASSUME NEW d \in Datagram
    PROVE  d.id \in Ids /\ d.p \in Seq(Fragment) /\ d.last \in BOOLEAN
BY DEF Datagram

Volumes(list) == [i \in DOMAIN list |-> ClenAll(list[i].p)]

LEMMA VolumesAre ==
    ASSUME NEW list \in Seq(Datagram)
    PROVE  /\ Volumes(list) \in Seq(Nat)
           /\ Len(Volumes(list)) = Len(list)
           /\ \A i \in 1 .. Len(list) : Volumes(list)[i] = ClenAll(list[i].p)
           /\ Pieces(list) = Total(Volumes(list))
           /\ Pieces(list) \in Nat
<1>1. DOMAIN list = 1 .. Len(list) /\ Len(list) \in Nat
  OBVIOUS
<1>2. \A i \in 1 .. Len(list) : ClenAll(list[i].p) \in Nat
  <2>0. \A i \in 1 .. Len(list) : list[i] \in Datagram
    OBVIOUS
  <2>1. \A i \in 1 .. Len(list) : list[i].p \in Seq(Fragment)
    BY <2>0, DatagramFields
  <2> QED BY <2>1, WeightsAre
<1>3. Volumes(list) = [i \in 1 .. Len(list) |-> ClenAll(list[i].p)]
  BY <1>1 DEF Volumes
<1>4. Volumes(list) \in [1 .. Len(list) -> Nat]
  BY <1>2, <1>3
<1>5. Volumes(list) \in Seq(Nat) /\ Len(Volumes(list)) = Len(list)
  BY <1>1, <1>4
<1>6. Pieces(list) = Total(Volumes(list))
  BY DEF Pieces, Volumes
<1>7. Total(Volumes(list)) \in Nat
  BY <1>5, TotalSums
<1> QED BY <1>3, <1>5, <1>6, <1>7

\* The pbufs of a list with one more datagram.
LEMMA PiecesMore ==
    ASSUME NEW c \in Seq(Datagram), NEW l \in Seq(Datagram),
           NEW i \in 1 .. Len(c), Without(c, i, l)
    PROVE  Pieces(c) = Pieces(l) + ClenAll(c[i].p)
<1>1. /\ Volumes(c) \in Seq(Nat) /\ Volumes(l) \in Seq(Nat)
      /\ Len(Volumes(c)) = Len(c) /\ Len(Volumes(l)) = Len(l)
      /\ \A j \in 1 .. Len(c) : Volumes(c)[j] = ClenAll(c[j].p)
      /\ \A j \in 1 .. Len(l) : Volumes(l)[j] = ClenAll(l[j].p)
      /\ Pieces(c) = Total(Volumes(c)) /\ Pieces(l) = Total(Volumes(l))
  BY VolumesAre
<1>2. Len(l) \in Nat /\ Len(c) = Len(l) + 1
  BY DEF Without
<1>3. ASSUME NEW j \in 1 .. Len(l)
      PROVE  Volumes(l)[j] = IF j < i THEN Volumes(c)[j] ELSE Volumes(c)[j + 1]
  <2>1. j \in 1 .. Len(c) /\ j + 1 \in 1 .. Len(c)
    BY <1>2
  <2>2. l[j] = IF j < i THEN c[j] ELSE c[j + 1]
    BY DEF Without
  <2> QED BY <1>1, <2>1, <2>2
<1>4. Without(Volumes(c), i, Volumes(l))
  BY <1>1, <1>2, <1>3 DEF Without
<1>5. Total(Volumes(c)) = Total(Volumes(l)) + Volumes(c)[i]
  BY <1>1, <1>4, TotalWithout
<1> QED BY <1>1, <1>5

\* The pbufs of a list with a datagram replaced.
LEMMA PiecesReplaced ==
    ASSUME NEW c \in Seq(Datagram), NEW l \in Seq(Datagram),
           NEW i \in 1 .. Len(c), Replaced(c, i, l)
    PROVE  Pieces(l) + ClenAll(c[i].p) = Pieces(c) + ClenAll(l[i].p)
<1>1. /\ Volumes(c) \in Seq(Nat) /\ Volumes(l) \in Seq(Nat)
      /\ Len(Volumes(c)) = Len(c) /\ Len(Volumes(l)) = Len(l)
      /\ \A j \in 1 .. Len(c) : Volumes(c)[j] = ClenAll(c[j].p)
      /\ \A j \in 1 .. Len(l) : Volumes(l)[j] = ClenAll(l[j].p)
      /\ Pieces(c) = Total(Volumes(c)) /\ Pieces(l) = Total(Volumes(l))
  BY VolumesAre
<1>2. Len(l) = Len(c) /\ i \in 1 .. Len(l)
  BY DEF Replaced
<1>3. Replaced(Volumes(c), i, Volumes(l))
  BY <1>1, <1>2 DEF Replaced
<1>4. Total(Volumes(l)) + Volumes(c)[i] = Total(Volumes(c)) + Volumes(l)[i]
  BY <1>1, <1>2, <1>3, TotalReplaced
<1> QED BY <1>1, <1>2, <1>4

LEMMA PiecesEmpty == Pieces(<<>>) = 0
<1>1. Volumes(<<>>) = <<>>
  BY DEF Volumes
<1> QED BY <1>1, TotalEmpty DEF Pieces, Volumes

\* A list whose datagrams have different names and ascending fragments.
Ascends(p) == \A j \in 1 .. Len(p) - 1 : p[j].start < p[j + 1].start

ListOK(list) ==
    /\ list \in Seq(Datagram)
    /\ \A i, j \in 1 .. Len(list) : list[i].id = list[j].id => i = j
    /\ \A i \in 1 .. Len(list) : Ascends(list[i].p)

\* No datagram of the list is without a fragment.
Filled(list) == \A i \in 1 .. Len(list) : list[i].p # <<>>

\* A list without one of its datagrams is as sound as it was.
LEMMA ListRemoved ==
    ASSUME NEW list, ListOK(list), NEW i \in 1 .. Len(list)
    PROVE  /\ ListOK(RemoveAt(list, i))
           /\ Len(RemoveAt(list, i)) = Len(list) - 1
           /\ Pieces(list) = Pieces(RemoveAt(list, i)) + ClenAll(list[i].p)
           /\ ClenAll(list[i].p) \in Nat
           /\ Filled(list) => Filled(RemoveAt(list, i))
           /\ (\A j \in 1 .. Len(list) : j # i => list[j].p # <<>>)
                 => Filled(RemoveAt(list, i))
           /\ \A id : Of(list, id) = {} => Of(RemoveAt(list, i), id) = {}
<1>1. list \in Seq(Datagram) /\ Len(list) \in Nat /\ list[i] \in Datagram
  BY DEF ListOK
<1> DEFINE l == RemoveAt(list, i)
<1>2. l \in Seq(Datagram) /\ Without(list, i, l)
  BY <1>1, RemoveAtIs
<1> HIDE DEF l
<1>3. Len(l) = Len(list) - 1 /\ Len(l) \in Nat
  BY <1>1, <1>2 DEF Without
<1>4. Pieces(list) = Pieces(l) + ClenAll(list[i].p)
  BY <1>1, <1>2, PiecesMore
<1>5. ClenAll(list[i].p) \in Nat
  BY <1>1, DatagramFields, WeightsAre
<1> DEFINE at(j) == IF j < i THEN j ELSE j + 1
<1>6. \A j \in 1 .. Len(l) : at(j) \in 1 .. Len(list) /\ at(j) # i
  BY <1>1, <1>3
<1>7. \A j \in 1 .. Len(l) : l[j] = list[at(j)]
  BY <1>2 DEF Without
<1>8. \A j, k \in 1 .. Len(l) : at(j) = at(k) => j = k
  BY <1>1, <1>3
<1> HIDE DEF at
<1>9. ListOK(l)
  <2>1. \A j, k \in 1 .. Len(l) : l[j].id = l[k].id => j = k
    BY <1>6, <1>7, <1>8 DEF ListOK
  <2>2. \A j \in 1 .. Len(l) : Ascends(l[j].p)
    BY <1>6, <1>7 DEF ListOK
  <2> QED BY <1>2, <2>1, <2>2 DEF ListOK
<1>10. (\A j \in 1 .. Len(list) : j # i => list[j].p # <<>>) => Filled(l)
  BY <1>6, <1>7 DEF Filled
<1>11. Filled(list) => Filled(l)
  BY <1>10 DEF Filled
<1>12. ASSUME NEW id, Of(list, id) = {} PROVE Of(l, id) = {}
  <2>1. DOMAIN list = 1 .. Len(list) /\ DOMAIN l = 1 .. Len(l)
    BY <1>1, <1>2
  <2>2. \A j \in 1 .. Len(list) : list[j].id # id
    BY <1>12, <2>1 DEF Of
  <2> QED BY <1>6, <1>7, <2>1, <2>2 DEF Of
<1> QED BY <1>3, <1>4, <1>5, <1>9, <1>10, <1>11, <1>12 DEF l

-----------------------------------------------------------------------------
(* ip_reass_remove_oldest_datagram.                                        *)

\* The greatest and the least number of a set of indices.
LEMMA MaxIs ==
    ASSUME NEW n \in Nat, NEW T \in SUBSET (1 .. n), T # {}
    PROVE  Max(T) \in T
<1> DEFINE U == {x \in Nat : \A y \in T : y <= x}
<1>1. U \in SUBSET Nat /\ n \in U
  OBVIOUS
<1>2. PICK u \in U : \A x \in U : u <= x
  BY <1>1, Least
<1>3. u \in Nat /\ \A y \in T : y <= u
  OBVIOUS
<1>4. u \in T
  <2>1. SUFFICES ASSUME u \notin T PROVE FALSE
    OBVIOUS
  <2>2. \A y \in T : y \in Nat /\ y >= 1 /\ y < u
    BY <1>3, <2>1
  <2>3. u - 1 \in Nat /\ \A y \in T : y <= u - 1
    <3>1. PICK z \in T : TRUE
      OBVIOUS
    <3>2. z \in Nat /\ z >= 1 /\ z < u
      BY <2>2, <3>1
    <3>3. u - 1 \in Nat
      BY <1>3, <3>2
    <3>4. \A y \in T : y <= u - 1
      BY <1>3, <2>2
    <3> QED BY <3>3, <3>4
  <2>4. u - 1 \in U
    BY <2>3
  <2> HIDE DEF U
  <2>5. u <= u - 1
    BY <1>2, <2>4
  <2> QED BY <1>3, <2>5
<1>5. \A y \in T : u >= y
  BY <1>3
<1> QED BY <1>4, <1>5, Zenon DEF Max

LEMMA MinIs ==
    ASSUME NEW n \in Nat, NEW T \in SUBSET (1 .. n), T # {}
    PROVE  Min(T) \in T
<1>1. T \in SUBSET Nat
  OBVIOUS
<1>2. \E x \in T : \A y \in T : x <= y
  BY <1>1, Least
<1> QED BY <1>2, Zenon DEF Min

\* What the loop keeps: the list stays sound, what it lost is what was freed,
\* and no datagram came into it.
Removed(list, id, x) ==
    /\ ListOK(x.list) /\ Filled(x.list)
    /\ x.freed \in Nat
    /\ Pieces(x.list) + x.freed = Pieces(list)
    /\ Len(x.list) <= Len(list)
    /\ x.freed = 0 \/ Len(x.list) < Len(list)
    /\ Of(list, id) = {} => Of(x.list, id) = {}

LEMMA FreeOldestKeeps ==
    ASSUME NEW list \in Seq(Datagram), NEW id, NEW x, Removed(list, id, x),
           DOMAIN x.list # Of(x.list, id)
    PROVE  Removed(list, id, FreeOldest(x, id))
<1> DEFINE i == Max(DOMAIN x.list \ Of(x.list, id))
           l == RemoveAt(x.list, i)
           c == ClenAll(x.list[i].p)
           y == FreeOldest(x, id)
<1>1. x.list \in Seq(Datagram) /\ DOMAIN x.list = 1 .. Len(x.list) /\ Len(x.list) \in Nat /\ Len(list) \in Nat
  BY DEF Removed, ListOK
<1>2. i \in 1 .. Len(x.list)
  <2>1. DOMAIN x.list \ Of(x.list, id) # {}
    BY DEF Of
  <2>2. DOMAIN x.list \ Of(x.list, id) \in SUBSET (1 .. Len(x.list))
    BY <1>1
  <2>3. i \in DOMAIN x.list \ Of(x.list, id)
    BY <1>1, <2>1, <2>2, MaxIs
  <2> HIDE DEF i
  <2> QED BY <1>1, <2>3
<1>3. y.list = l /\ y.freed = x.freed + c
  BY DEF FreeOldest
<1> HIDE DEF i
<1>4. /\ ListOK(l)
      /\ Len(l) = Len(x.list) - 1
      /\ Pieces(x.list) = Pieces(l) + c
      /\ c \in Nat
      /\ Filled(x.list) => Filled(l)
      /\ \A d : Of(x.list, d) = {} => Of(l, d) = {}
  BY <1>2, ListRemoved DEF Removed
<1>5. Pieces(l) \in Nat
  BY <1>4, VolumesAre DEF ListOK
<1> HIDE DEF l, c, y
<1>6. Filled(x.list) /\ x.freed \in Nat /\ Pieces(x.list) + x.freed = Pieces(list) /\ Len(x.list) <= Len(list)
      /\ (Of(list, id) = {} => Of(x.list, id) = {})
  BY DEF Removed
<1>7. x.freed + c \in Nat /\ Pieces(l) + (x.freed + c) = Pieces(list) /\ Len(l) < Len(list) /\ Len(l) <= Len(list)
  <2>1. Pieces(l) + (x.freed + c) = Pieces(list)
    BY <1>4, <1>5, <1>6
  <2>2. Len(l) < Len(list) /\ Len(l) <= Len(list)
    BY <1>1, <1>4, <1>6
  <2> QED BY <1>4, <1>6, <2>1, <2>2
<1>8. Removed(list, id, y)
  BY <1>3, <1>4, <1>6, <1>7 DEF Removed
<1> QED BY <1>8 DEF y

\* One turn of the loop, and the loop as an equation.
Turn(x, k, id, needed) ==
    IF /\ k = 1 \/ x.freed < needed
       /\ DOMAIN x.list # Of(x.list, id)
    THEN FreeOldest(x, id) ELSE x

Begin(list) == [list |-> list, freed |-> 0, broken |-> FALSE]

TurnsEq(list, id, needed, f) ==
    f = [k \in 0 .. Len(list) |->
           IF k = 0 THEN Begin(list) ELSE Turn(f[k - 1], k, id, needed)]

Turns(list, id, needed, n, f) ==
    /\ f = [k \in 0 .. n |-> f[k]]
    /\ f[0] = Begin(list)
    /\ \A k \in 1 .. n : f[k] = Turn(f[k - 1], k, id, needed)

LEMMA LoopChoice ==
    ASSUME NEW list, NEW id, NEW needed
    PROVE  ip_reass_remove_oldest_datagram(list, id, needed)
             = (CHOOSE f : TurnsEq(list, id, needed, f))[Len(list)]
BY Zenon DEF ip_reass_remove_oldest_datagram, TurnsEq, Turn, Begin

LEMMA TurnsExist ==
    ASSUME NEW list \in Seq(Datagram), NEW id, NEW needed, NEW n \in 0 .. Len(list)
    PROVE  \E f : Turns(list, id, needed, n, f)
<1> DEFINE T == {m \in 0 .. Len(list) : ~ \E f : Turns(list, id, needed, m, f)}
<1>1. SUFFICES ASSUME T # {} PROVE FALSE
  OBVIOUS
<1>2. T \in SUBSET Nat
  OBVIOUS
<1>3. PICK m \in T : \A y \in T : m <= y
  BY <1>1, <1>2, Least
<1>4. m \in 0 .. Len(list) /\ ~ \E f : Turns(list, id, needed, m, f)
  OBVIOUS
<1>5. m # 0
  <2>1. Turns(list, id, needed, 0, [k \in 0 .. 0 |-> Begin(list)])
    BY DEF Turns
  <2> QED BY <1>4, <2>1
<1>6. m - 1 \in 0 .. Len(list) /\ m \in 1 .. Len(list) /\ m - 1 \notin T
  BY <1>3, <1>4, <1>5
<1>7. PICK f : Turns(list, id, needed, m - 1, f)
  BY <1>6
<1> HIDE DEF T
<1> DEFINE h == [k \in 0 .. m |-> IF k = m THEN Turn(f[m - 1], m, id, needed) ELSE f[k]]
<1>8. Turns(list, id, needed, m, h)
  <2>1. h = [k \in 0 .. m |-> h[k]]
    OBVIOUS
  <2>2. h[0] = Begin(list)
    BY <1>6, <1>7 DEF Turns
  <2>3. ASSUME NEW k \in 1 .. m PROVE h[k] = Turn(h[k - 1], k, id, needed)
    <3>1. k \in 0 .. m /\ k - 1 \in 0 .. m /\ k - 1 # m
      BY <1>6
    <3>2. h[k - 1] = f[k - 1]
      BY <3>1
    <3>3. CASE k = m
      <4>1. h[k] = Turn(f[m - 1], m, id, needed)
        BY <3>1, <3>3
      <4> QED BY <3>2, <3>3, <4>1
    <3>4. CASE k # m
      <4>1. k \in 1 .. m - 1
        BY <1>6, <3>4
      <4>2. h[k] = f[k]
        BY <3>1, <3>4
      <4>3. f[k] = Turn(f[k - 1], k, id, needed)
        BY <1>7, <4>1 DEF Turns
      <4> QED BY <3>2, <4>2, <4>3
    <3> QED BY <3>3, <3>4
  <2> HIDE DEF h
  <2> QED BY <2>1, <2>2, <2>3 DEF Turns
<1> QED BY <1>4, <1>8

\* Every turn keeps Removed.
LEMMA TurnsKeep ==
    ASSUME NEW list, ListOK(list), Filled(list), NEW id, NEW needed, NEW f,
           TurnsEq(list, id, needed, f)
    PROVE  Removed(list, id, f[Len(list)])
<1>0. list \in Seq(Datagram) /\ Len(list) \in Nat
  BY DEF ListOK
<1> DEFINE T == {m \in 0 .. Len(list) : ~ Removed(list, id, f[m])}
<1>1. SUFFICES ASSUME T # {} PROVE FALSE
  <2>1. Len(list) \in 0 .. Len(list)
    BY <1>0
  <2> QED BY <2>1
<1>2. T \in SUBSET Nat
  OBVIOUS
<1>3. PICK m \in T : \A y \in T : m <= y
  BY <1>1, <1>2, Least
<1>4. m \in 0 .. Len(list) /\ ~ Removed(list, id, f[m])
  OBVIOUS
<1>5. f[m] = IF m = 0 THEN Begin(list) ELSE Turn(f[m - 1], m, id, needed)
  BY <1>4 DEF TurnsEq
<1>6. m # 0
  <2>1. Pieces(list) \in Nat
    BY <1>0, VolumesAre
  <2>2. Removed(list, id, Begin(list))
    BY <1>0, <2>1 DEF Removed, Begin
  <2> QED BY <1>4, <1>5, <2>2
<1>7. m - 1 \in 0 .. Len(list) /\ m - 1 \notin T
  BY <1>0, <1>3, <1>4, <1>6
<1>8. Removed(list, id, f[m - 1])
  BY <1>7
<1> HIDE DEF T
<1>9. CASE DOMAIN f[m - 1].list # Of(f[m - 1].list, id)
  <2>1. Removed(list, id, FreeOldest(f[m - 1], id))
    BY <1>0, <1>8, <1>9, FreeOldestKeeps
  <2>2. f[m] = FreeOldest(f[m - 1], id) \/ f[m] = f[m - 1]
    BY <1>5, <1>6 DEF Turn
  <2> QED BY <1>4, <1>8, <2>1, <2>2
<1>10. CASE DOMAIN f[m - 1].list = Of(f[m - 1].list, id)
  <2>1. f[m] = f[m - 1]
    BY <1>5, <1>6, <1>10 DEF Turn
  <2> QED BY <1>4, <1>8, <2>1
<1> QED BY <1>9, <1>10

(* The loop as a whole: what it returns is the list without the datagrams  *)
(* whose pbufs it counted.                                                 *)
LEMMA LoopKeeps ==
    ASSUME NEW list, ListOK(list), Filled(list), NEW id, NEW needed
    PROVE  Removed(list, id, ip_reass_remove_oldest_datagram(list, id, needed))
<1>0. list \in Seq(Datagram) /\ Len(list) \in Nat /\ Len(list) \in 0 .. Len(list)
  BY DEF ListOK
<1>1. PICK f : Turns(list, id, needed, Len(list), f)
  BY <1>0, TurnsExist
<1>2. TurnsEq(list, id, needed, f)
  <2> DEFINE h == [k \in 0 .. Len(list) |->
                     IF k = 0 THEN Begin(list) ELSE Turn(f[k - 1], k, id, needed)]
  <2>1. ASSUME NEW k \in 0 .. Len(list) PROVE f[k] = h[k]
    <3>1. CASE k = 0
      BY <1>1, <3>1 DEF Turns
    <3>2. CASE k # 0
      <4>1. k \in 1 .. Len(list)
        BY <1>0, <3>2
      <4>2. f[k] = Turn(f[k - 1], k, id, needed)
        BY <1>1, <4>1 DEF Turns
      <4> QED BY <3>2, <4>2
    <3> QED BY <3>1, <3>2
  <2>2. f = [k \in 0 .. Len(list) |-> f[k]]
    BY <1>1 DEF Turns
  <2>3. h = [k \in 0 .. Len(list) |-> h[k]]
    OBVIOUS
  <2>4. f = h
    <3> HIDE DEF h
    <3> QED BY <2>1, <2>2, <2>3
  <2> QED BY <2>4 DEF TurnsEq
<1> DEFINE g == CHOOSE g : TurnsEq(list, id, needed, g)
<1>3. TurnsEq(list, id, needed, g)
  BY <1>2, Zenon
<1>4. ip_reass_remove_oldest_datagram(list, id, needed) = g[Len(list)]
  BY LoopChoice
<1> HIDE DEF g
<1>5. Removed(list, id, g[Len(list)])
  BY <1>3, TurnsKeep
<1> QED BY <1>4, <1>5

-----------------------------------------------------------------------------
(* ip_reass_chain_frag_into_datagram_and_validate.                         *)

\* The fragments that begin before f are the first ones of the queue.
LEMMA PlaceIs ==
    ASSUME NEW p \in Seq(Fragment), Ascends(p), NEW f \in Fragment
    PROVE  /\ Place(p, f) \in 0 .. Len(p)
           /\ \A i \in 1 .. Len(p) : p[i].start < f.start <=> i <= Place(p, f)
<1> DEFINE n == Len(p)
           U == {i \in 1 .. n + 1 : i = n + 1 \/ ~(p[i].start < f.start)}
<1>1. n \in Nat /\ DOMAIN p = 1 .. n /\ f.start \in Nat
  BY DEF Fragment
<1>2. \A i \in 1 .. n : p[i].start \in Nat
  BY DEF Fragment
<1>3. \A i \in 1 .. n - 1 : p[i].start < p[i + 1].start
  BY DEF Ascends
<1> HIDE DEF n
<1>4. U \in SUBSET Nat /\ n + 1 \in U
  BY <1>1
<1>5. PICK u \in U : \A i \in U : u <= i
  BY <1>4, Least
<1>6. u \in 1 .. n + 1 /\ (u = n + 1 \/ ~(p[u].start < f.start))
  BY <1>5
<1>7. \A i \in 1 .. n : i < u => p[i].start < f.start
  BY <1>1, <1>5, <1>6
<1> DEFINE W == {i \in 1 .. n : u <= i /\ p[i].start < f.start}
<1>8. W = {}
  <2>1. SUFFICES ASSUME W # {} PROVE FALSE
    OBVIOUS
  <2>2. W \in SUBSET Nat
    OBVIOUS
  <2>3. PICK w \in W : \A i \in W : w <= i
    BY <2>1, <2>2, Least
  <2>4. w \in 1 .. n /\ u <= w /\ p[w].start < f.start
    BY <2>3
  <2>5. w # u
    BY <1>1, <1>6, <2>4
  <2>6. w - 1 \in 1 .. n - 1 /\ w - 1 \in 1 .. n /\ u <= w - 1 /\ (w - 1) + 1 = w
    BY <1>1, <1>6, <2>4, <2>5
  <2>7. p[w - 1].start < p[w].start
    BY <1>3, <2>6
  <2>8. p[w - 1].start < f.start
    BY <1>1, <1>2, <2>4, <2>6, <2>7
  <2>9. w - 1 \in W
    BY <2>6, <2>8
  <2> HIDE DEF W
  <2>10. w <= w - 1
    BY <2>3, <2>9
  <2> QED BY <2>4, <2>10
<1>9. \A i \in 1 .. n : p[i].start < f.start <=> i <= u - 1
  BY <1>1, <1>6, <1>7, <1>8
<1>10. {i \in DOMAIN p : p[i].start < f.start} = 1 .. u - 1
  BY <1>1, <1>6, <1>9
<1>11. Cardinality(1 .. u - 1) = u - 1
  <2>1. 1 \in Int /\ u - 1 \in Int
    BY <1>6
  <2>2. Cardinality(1 .. u - 1) = IF 1 > u - 1 THEN 0 ELSE (u - 1) - 1 + 1
    BY <2>1, FS_Interval
  <2> QED BY <1>6, <2>2
<1>12. Place(p, f) = u - 1
  BY <1>10, <1>11 DEF Place
<1> QED BY <1>1, <1>6, <1>9, <1>12 DEF n

\* The queue c that f was put into at k + 1.
Inserted(p, f, k, c) ==
    /\ c \in Seq(Fragment) /\ Len(c) = Len(p) + 1
    /\ Without(c, k + 1, p) /\ c[k + 1] = f
    /\ \A j \in 1 .. k : c[j] = p[j]
    /\ \A j \in k + 2 .. Len(c) : c[j] = p[j - 1]

LEMMA ChainedIs ==
    ASSUME NEW p \in Seq(Fragment), Ascends(p), NEW f \in Fragment
    PROVE  Inserted(p, f, Place(p, f), Chained(p, f))
<1>1. PICK k \in 0 .. Len(p) : k = Place(p, f)
  BY PlaceIs
<1>2. PICK c : c = InsertAt(p, k + 1, f)
  OBVIOUS
<1>3. c \in Seq(Fragment) /\ Without(c, k + 1, p) /\ c[k + 1] = f
  BY <1>2, InsertAtIs
<1>4. Len(p) \in Nat /\ Len(c) = Len(p) + 1 /\ k \in Nat /\ k <= Len(p)
  BY <1>3 DEF Without
<1>5. \A j \in 1 .. Len(p) : p[j] = IF j < k + 1 THEN c[j] ELSE c[j + 1]
  BY <1>3 DEF Without
<1>6. ASSUME NEW j \in 1 .. k PROVE c[j] = p[j]
  <2>1. j \in 1 .. Len(p) /\ j < k + 1
    BY <1>4
  <2> QED BY <1>5, <2>1
<1>7. ASSUME NEW j \in k + 2 .. Len(c) PROVE c[j] = p[j - 1]
  <2>1. j - 1 \in 1 .. Len(p) /\ ~(j - 1 < k + 1) /\ (j - 1) + 1 = j
    BY <1>4
  <2> QED BY <1>5, <2>1
<1>8. Inserted(p, f, k, c)
  BY <1>3, <1>4, <1>6, <1>7 DEF Inserted
<1> QED BY <1>1, <1>2, <1>8 DEF Chained

\* A fragment that repeats none keeps the queue ascending.
LEMMA ChainedAscends ==
    ASSUME NEW p \in Seq(Fragment), Ascends(p), NEW f \in Fragment,
           ~ Overlaps(p, f)
    PROVE  Ascends(Chained(p, f))
<1>1. PICK k \in 0 .. Len(p) :
        k = Place(p, f) /\ \A i \in 1 .. Len(p) : p[i].start < f.start <=> i <= k
  BY PlaceIs
<1>2. PICK c : c = Chained(p, f)
  OBVIOUS
<1>3. Inserted(p, f, k, c)
  BY <1>1, <1>2, ChainedIs
<1>4. Len(p) \in Nat /\ Len(c) = Len(p) + 1 /\ k \in Nat /\ k <= Len(p) /\ f.start \in Nat
      /\ DOMAIN p = 1 .. Len(p)
  BY <1>3 DEF Inserted, Fragment
<1>5. \A i \in 1 .. Len(p) : p[i].start \in Nat /\ p[i].start # f.start
  <2>1. \A i \in 1 .. Len(p) : p[i].start # f.start
    BY <1>4 DEF Overlaps
  <2>2. \A i \in 1 .. Len(p) : p[i] \in Fragment
    OBVIOUS
  <2>3. \A i \in 1 .. Len(p) : p[i].start \in Nat
    BY <2>2 DEF Fragment
  <2> QED BY <2>1, <2>3
<1>6. ASSUME NEW j \in 1 .. Len(c) - 1 PROVE c[j].start < c[j + 1].start
  <2>1. CASE j < k
    <3>1. j \in 1 .. k /\ j + 1 \in 1 .. k /\ j \in 1 .. Len(p) - 1
      BY <1>4, <2>1
    <3>2. c[j] = p[j] /\ c[j + 1] = p[j + 1]
      BY <1>3, <3>1 DEF Inserted
    <3> QED BY <3>1, <3>2 DEF Ascends
  <2>2. CASE j = k
    <3>1. k \in 1 .. k /\ k \in 1 .. Len(p)
      BY <1>4, <2>2
    <3>2. c[j] = p[k] /\ c[j + 1] = f
      BY <1>3, <2>2, <3>1 DEF Inserted
    <3>3. p[k].start < f.start
      BY <1>1, <1>4, <3>1
    <3> QED BY <3>2, <3>3
  <2>3. CASE j = k + 1
    <3>1. j + 1 \in k + 2 .. Len(c) /\ (j + 1) - 1 = k + 1 /\ k + 1 \in 1 .. Len(p) /\ ~(k + 1 <= k)
      BY <1>4, <2>3
    <3>2. c[j] = f /\ c[j + 1] = p[k + 1]
      BY <1>3, <2>3, <3>1 DEF Inserted
    <3>3. ~(p[k + 1].start < f.start) /\ p[k + 1].start # f.start /\ p[k + 1].start \in Nat
      BY <1>1, <1>5, <3>1
    <3>4. f.start < p[k + 1].start
      BY <1>4, <3>3
    <3> QED BY <3>2, <3>4
  <2>4. CASE j > k + 1
    <3>1. /\ j \in k + 2 .. Len(c) /\ j + 1 \in k + 2 .. Len(c) /\ (j + 1) - 1 = (j - 1) + 1
          /\ j - 1 \in 1 .. Len(p) - 1
      BY <1>4, <2>4
    <3>2. c[j] = p[j - 1] /\ c[j + 1] = p[(j - 1) + 1]
      BY <1>3, <3>1 DEF Inserted
    <3> QED BY <3>1, <3>2 DEF Ascends
  <2> QED BY <1>4, <2>1, <2>2, <2>3, <2>4
<1> QED BY <1>2, <1>6 DEF Ascends

Disjoint(c) ==
    /\ c[1].start = 0
    /\ \A i \in 1 .. Len(c) - 1 : c[i].end <= c[i + 1].start

(* What the validation does not look at, the neighbour before a fragment   *)
(* that is put between two others, the test for overlaps has looked at.    *)
LEMMA ValidDisjoint ==
    ASSUME NEW p \in Seq(Fragment), Ascends(p), NEW f \in Fragment,
           ~ Overlaps(p, f), Valid(p, f)
    PROVE  Disjoint(Chained(p, f))
<1>1. PICK k \in 0 .. Len(p) :
        k = Place(p, f) /\ \A i \in 1 .. Len(p) : p[i].start < f.start <=> i <= k
  BY PlaceIs
<1>2. PICK c : c = Chained(p, f)
  OBVIOUS
<1>3. Inserted(p, f, k, c)
  BY <1>1, <1>2, ChainedIs
<1>4. Len(p) \in Nat /\ Len(c) = Len(p) + 1 /\ k \in Nat /\ k <= Len(p)
      /\ DOMAIN p = 1 .. Len(p) /\ f.start \in Nat
  BY <1>3 DEF Inserted, Fragment
<1>5. /\ \A i \in 1 .. k - 1 : Adjacent(c, i)
      /\ c[1].start = 0
      /\ \A i \in k + 1 .. Len(c) - 1 : Adjacent(c, i)
  BY <1>1, <1>2 DEF Valid
<1>6. ASSUME NEW i \in 1 .. Len(c) - 1 PROVE c[i].end <= c[i + 1].start
  <2>1. i \in 1 .. Len(c) /\ i + 1 \in 1 .. Len(c)
    BY <1>4
  <2>2. c[i].end \in Nat /\ c[i + 1].start \in Nat
    <3>1. c[i] \in Fragment /\ c[i + 1] \in Fragment
      BY <1>3, <2>1 DEF Inserted
    <3> QED BY <3>1 DEF Fragment
  <2>3. CASE i # k
    <3>1. i \in 1 .. k - 1 \/ i \in k + 1 .. Len(c) - 1
      BY <1>4, <2>3
    <3>2. Adjacent(c, i)
      BY <1>5, <3>1
    <3> QED BY <2>2, <3>2 DEF Adjacent
  <2>4. CASE i = k
    <3>1. k \in 1 .. k /\ k \in 1 .. Len(p)
      BY <1>4, <2>4
    <3>2. c[i] = p[k] /\ c[i + 1] = f
      BY <1>3, <2>4, <3>1 DEF Inserted
    <3>3. p[k].start < f.start
      BY <1>1, <1>4, <3>1
    <3>4. ~(f.start < p[k].end)
      BY <1>4, <3>1, <3>3 DEF Overlaps
    <3> QED BY <2>2, <3>2, <3>4
  <2> QED BY <2>3, <2>4
<1> QED BY <1>2, <1>5, <1>6 DEF Disjoint

-----------------------------------------------------------------------------
(* The inductive invariant.  The names of the datagrams and the order of   *)
(* the fragments are what the walks rely on; the count is compared with a  *)
(* sum over all of them; and no queue is empty, so that a fragment that is *)
(* thrown away for an overlap never leaves a datagram without fragments.   *)

Inv ==
    /\ ListOK(reassdatagrams) /\ Filled(reassdatagrams)
    /\ Len(reassdatagrams) <= MEMP_NUM_REASSDATA
    /\ ip_reass_pbufcount = Pieces(reassdatagrams)
    /\ ip_reass_pbufcount <= IP_REASS_MAX_PBUFS
    /\ DeliveredDisjoint

\* A list with one datagram replaced by another of the same name.
LEMMA ListReplaced ==
    ASSUME NEW list, ListOK(list), NEW i \in 1 .. Len(list), NEW e \in Datagram,
           e.id = list[i].id, Ascends(e.p), e.p # <<>>,
           \A j \in 1 .. Len(list) : j # i => list[j].p # <<>>,
           NEW l, l = [list EXCEPT ![i] = e]
    PROVE  /\ ListOK(l) /\ Filled(l)
           /\ Len(l) = Len(list)
           /\ Pieces(l) + ClenAll(list[i].p) = Pieces(list) + ClenAll(e.p)
<1>1. list \in Seq(Datagram)
  BY DEF ListOK
<1>2. /\ l \in Seq(Datagram)
      /\ Len(l) = Len(list)
      /\ \A j \in 1 .. Len(list) : l[j] = IF j = i THEN e ELSE list[j]
  BY <1>1, ExceptSeq
<1>3. Replaced(list, i, l) /\ l[i] = e
  BY <1>2 DEF Replaced
<1>4. Pieces(l) + ClenAll(list[i].p) = Pieces(list) + ClenAll(e.p)
  <2>1. Pieces(l) + ClenAll(list[i].p) = Pieces(list) + ClenAll(l[i].p)
    BY <1>1, <1>2, <1>3, PiecesReplaced
  <2> QED BY <1>3, <2>1
<1>5. \A j \in 1 .. Len(list) : l[j].id = list[j].id
  BY <1>2
<1>6. ListOK(l)
  BY <1>2, <1>5 DEF ListOK
<1>7. Filled(l)
  BY <1>2 DEF Filled
<1> QED BY <1>2, <1>4, <1>6, <1>7

(* The fragment meets its datagram: thrown away, kept, or the last one     *)
(* that was missing.                                                       *)
LEMMA ChainStep ==
    ASSUME NEW list, ListOK(list), NEW i \in 1 .. Len(list), NEW f \in Fragment,
           \A j \in 1 .. Len(list) : j # i => list[j].p # <<>>,
           Len(list) <= MEMP_NUM_REASSDATA,
           NEW count, count = Pieces(list), ~ Over(count, Clen(f)),
           Chain(list, count, i, f)
    PROVE  Inv'
<1>1. list \in Seq(Datagram) /\ list[i] \in Datagram /\ Len(list) \in Nat
  BY DEF ListOK
<1>2. PICK d : d = [list[i] EXCEPT !.last = @ \/ ~f.more]
  OBVIOUS
<1>3. d \in Datagram /\ d.p = list[i].p /\ d.id = list[i].id
  BY <1>1, <1>2 DEF Datagram, Fragment
<1>4. d.p \in Seq(Fragment) /\ Ascends(d.p)
  BY <1>1, <1>3, DatagramFields DEF ListOK
<1>5. /\ count \in Nat /\ ClenAll(d.p) \in Nat /\ Clen(f) \in Nat /\ Clen(f) >= 1
      /\ IP_REASS_MAX_PBUFS \in Nat /\ MEMP_NUM_REASSDATA \in Nat
  BY <1>1, <1>4, VolumesAre, WeightsAre, ClenPositive, IpReassAssumption
<1>6. count + Clen(f) <= IP_REASS_MAX_PBUFS
  BY <1>5 DEF Over
<1>7. CASE /\ Overlaps(d.p, f)
           /\ reassdatagrams' = [list EXCEPT ![i] = d]
           /\ ip_reass_pbufcount' = count
           /\ delivered' = <<>>
  <2>1. d.p # <<>>
    <3>1. SUFFICES ASSUME d.p = <<>> PROVE FALSE
      OBVIOUS
    <3>2. DOMAIN d.p = {} /\ Len(d.p) = 0
      BY <3>1
    <3>3. Place(d.p, f) \in 0 .. Len(d.p)
      BY <1>4, PlaceIs
    <3>4. Place(d.p, f) = 0
      BY <3>2, <3>3
    <3> QED BY <1>7, <3>2, <3>4 DEF Overlaps
  <2>2. /\ ListOK(reassdatagrams') /\ Filled(reassdatagrams')
        /\ Len(reassdatagrams') = Len(list)
        /\ Pieces(reassdatagrams') + ClenAll(list[i].p) = Pieces(list) + ClenAll(d.p)
    BY <1>3, <1>4, <1>7, <2>1, ListReplaced
  <2>3. Pieces(reassdatagrams') \in Nat
    BY <2>2, VolumesAre DEF ListOK
  <2>4. Pieces(reassdatagrams') = count
    BY <1>3, <1>5, <2>2, <2>3
  <2> QED BY <1>5, <1>6, <1>7, <2>2, <2>4 DEF Inv, DeliveredDisjoint
<1>8. CASE /\ ~Overlaps(d.p, f) /\ Valid(d.p, f)
           /\ reassdatagrams' = RemoveAt(list, i)
           /\ ip_reass_pbufcount' = count - ClenAll(d.p)
           /\ delivered' = Chained(d.p, f)
  <2>1. /\ ListOK(reassdatagrams')
        /\ Len(reassdatagrams') = Len(list) - 1
        /\ Pieces(list) = Pieces(reassdatagrams') + ClenAll(list[i].p)
        /\ Filled(reassdatagrams')
    BY <1>8, ListRemoved
  <2>2. Pieces(reassdatagrams') \in Nat
    BY <2>1, VolumesAre DEF ListOK
  <2>3. ip_reass_pbufcount' = Pieces(reassdatagrams')
    BY <1>3, <1>5, <1>8, <2>1, <2>2
  <2>4. ip_reass_pbufcount' <= IP_REASS_MAX_PBUFS
    BY <1>3, <1>5, <1>6, <2>1, <2>2, <2>3
  <2>5. Len(reassdatagrams') <= MEMP_NUM_REASSDATA
    BY <1>1, <1>5, <2>1
  <2>6. Disjoint(delivered')
    BY <1>4, <1>8, ValidDisjoint
  <2> QED BY <2>1, <2>3, <2>4, <2>5, <2>6 DEF Inv, DeliveredDisjoint, Disjoint
<1>9. CASE /\ ~Overlaps(d.p, f)
           /\ reassdatagrams' = [list EXCEPT ![i] = [d EXCEPT !.p = Chained(d.p, f)]]
           /\ ip_reass_pbufcount' = count + Clen(f)
           /\ delivered' = <<>>
  <2>1. PICK c : c = Chained(d.p, f)
    OBVIOUS
  <2>2. PICK e : e = [d EXCEPT !.p = c]
    OBVIOUS
  <2>3. PICK k \in 0 .. Len(d.p) : Inserted(d.p, f, k, c)
    BY <1>4, <2>1, PlaceIs, ChainedIs
  <2>4. c \in Seq(Fragment) /\ c # <<>> /\ k + 1 \in 1 .. Len(c) /\ Without(c, k + 1, d.p) /\ c[k + 1] = f
    BY <1>4, <2>3 DEF Inserted
  <2>5. e \in Datagram /\ e.p = c /\ e.id = list[i].id
    BY <1>3, <2>2, <2>4 DEF Datagram
  <2>6. Ascends(e.p)
    BY <1>4, <1>9, <2>1, <2>5, ChainedAscends
  <2>7. reassdatagrams' = [list EXCEPT ![i] = e]
    BY <1>1, <1>9, <2>1, <2>2
  <2>8. /\ ListOK(reassdatagrams') /\ Filled(reassdatagrams')
        /\ Len(reassdatagrams') = Len(list)
        /\ Pieces(reassdatagrams') + ClenAll(list[i].p) = Pieces(list) + ClenAll(e.p)
    BY <2>4, <2>5, <2>6, <2>7, ListReplaced
  <2>9. ClenAll(c) = ClenAll(d.p) + Clen(f)
    BY <1>4, <2>4, ClenAllMore
  <2>10. Pieces(reassdatagrams') \in Nat
    BY <2>8, VolumesAre DEF ListOK
  <2>11. Pieces(reassdatagrams') = count + Clen(f)
    <3>1. \A a, b, m, n \in Nat : a + b = m + (b + n) => a = m + n
      OBVIOUS
    <3>2. Pieces(reassdatagrams') + ClenAll(d.p) = count + (ClenAll(d.p) + Clen(f))
      BY <1>3, <2>5, <2>8, <2>9
    <3> QED BY <1>5, <2>10, <3>1, <3>2
  <2> QED BY <1>5, <1>6, <1>9, <2>8, <2>11 DEF Inv, DeliveredDisjoint
<1> QED BY <1>2, <1>7, <1>8, <1>9 DEF Chain

\* What was removed stays removed, and the fragment is not in the books.
LEMMA DropStep ==
    ASSUME NEW list, ListOK(list), Filled(list), Len(list) <= MEMP_NUM_REASSDATA,
           NEW count, count = Pieces(list), count <= IP_REASS_MAX_PBUFS,
           Drop(list, count)
    PROVE  Inv'
BY DEF Inv, Drop, DeliveredDisjoint

(* The first fragment of a datagram: the list is full, or it is put in     *)
(* front, and then has no fragment until the new one is chained.           *)
LEMMA EnqueueStep ==
    ASSUME NEW list, ListOK(list), Filled(list), Len(list) <= MEMP_NUM_REASSDATA,
           NEW id \in Ids, Of(list, id) = {}, NEW f \in Fragment,
           NEW count, count = Pieces(list), ~ Over(count, Clen(f)),
           Enqueue(list, count, id, f)
    PROVE  Inv'
<1>1. list \in Seq(Datagram) /\ Len(list) \in Nat
  BY DEF ListOK
<1>2. /\ count \in Nat /\ Clen(f) \in Nat /\ Clen(f) >= 1
      /\ IP_REASS_MAX_PBUFS \in Nat /\ MEMP_NUM_REASSDATA \in Nat
  BY <1>1, VolumesAre, ClenPositive, IpReassAssumption
<1>3. count + Clen(f) <= IP_REASS_MAX_PBUFS
  BY <1>2 DEF Over
<1> DEFINE full == Len(list) = MEMP_NUM_REASSDATA
<1>4. PICK r : r = IF full THEN ip_reass_remove_oldest_datagram(list, id, Clen(f))
                   ELSE [list |-> list, freed |-> 0, broken |-> FALSE]
  OBVIOUS
<1>5. Removed(list, id, r)
  <2>1. CASE full
    BY <1>4, <2>1, LoopKeeps
  <2>2. CASE ~full
    BY <1>1, <1>2, <1>4, <2>2 DEF Removed
  <2> QED BY <2>1, <2>2
<1>6. /\ ListOK(r.list) /\ Filled(r.list) /\ r.freed \in Nat
      /\ Pieces(r.list) + r.freed = count
      /\ Len(r.list) <= Len(list)
      /\ r.freed = 0 \/ Len(r.list) < Len(list)
      /\ Of(r.list, id) = {}
  BY <1>5 DEF Removed
<1>7. r.list \in Seq(Datagram) /\ Len(r.list) \in Nat /\ Pieces(r.list) \in Nat
  BY <1>6, VolumesAre DEF ListOK
<1>8. /\ count - r.freed = Pieces(r.list)
      /\ count - r.freed + Clen(f) <= IP_REASS_MAX_PBUFS
      /\ count - r.freed <= IP_REASS_MAX_PBUFS
  BY <1>2, <1>3, <1>6, <1>7
<1>9. CASE full /\ r.freed < Clen(f) /\ Drop(r.list, count - r.freed)
  <2>1. Len(r.list) <= MEMP_NUM_REASSDATA
    BY <1>1, <1>2, <1>6, <1>7
  <2> QED BY <1>6, <1>8, <1>9, <2>1, DropStep
<1>10. CASE /\ ~(full /\ r.freed < Clen(f))
            /\ Chain(<<NewDatagram(id)>> \o r.list, count - r.freed, 1, f)
  <2>1. PICK d : d = NewDatagram(id)
    OBVIOUS
  <2>2. d \in Datagram /\ d.p = <<>> /\ d.id = id
    BY <2>1 DEF NewDatagram, Datagram
  <2>3. PICK l : l = <<d>> \o r.list
    OBVIOUS
  <2>4. l \in Seq(Datagram) /\ Without(l, 1, r.list) /\ l[1] = d
    BY <1>7, <2>2, <2>3, PushIs
  <2>5. Len(l) = Len(r.list) + 1 /\ 1 \in 1 .. Len(l)
    BY <1>7, <2>4 DEF Without
  <2>6. \A j \in 1 .. Len(r.list) : l[j + 1] = r.list[j]
    BY <2>4 DEF Without
  <2>7. \A j \in 1 .. Len(l) : j = 1 \/ (j - 1 \in 1 .. Len(r.list) /\ l[j] = r.list[j - 1])
    <3>1. ASSUME NEW j \in 1 .. Len(l), j # 1
          PROVE  j - 1 \in 1 .. Len(r.list) /\ l[j] = r.list[j - 1]
      <4>1. j - 1 \in 1 .. Len(r.list) /\ (j - 1) + 1 = j
        BY <1>7, <2>5, <3>1
      <4> QED BY <2>6, <4>1
    <3> QED BY <3>1
  <2>8. ListOK(l)
    <3>1. \A j \in 1 .. Len(r.list) : r.list[j].id # id
      BY <1>6, <1>7 DEF Of
    <3>2. ASSUME NEW a \in 1 .. Len(l), NEW b \in 1 .. Len(l), l[a].id = l[b].id
          PROVE  a = b
      <4>1. CASE a = 1 /\ b = 1
        BY <4>1
      <4>2. CASE a = 1 /\ b # 1
        BY <2>2, <2>4, <2>7, <3>1, <3>2, <4>2
      <4>3. CASE a # 1 /\ b = 1
        BY <2>2, <2>4, <2>7, <3>1, <3>2, <4>3
      <4>4. CASE a # 1 /\ b # 1
        <5>1. a - 1 \in 1 .. Len(r.list) /\ b - 1 \in 1 .. Len(r.list)
          BY <2>7, <4>4
        <5>2. r.list[a - 1].id = r.list[b - 1].id
          BY <2>7, <3>2, <4>4
        <5>3. a - 1 = b - 1
          BY <1>6, <5>1, <5>2 DEF ListOK
        <5> QED BY <5>3
      <4> QED BY <4>1, <4>2, <4>3, <4>4
    <3>3. ASSUME NEW a \in 1 .. Len(l) PROVE Ascends(l[a].p)
      <4>1. CASE a = 1
        <5>1. Len(d.p) = 0
          BY <2>2
        <5>2. Ascends(d.p)
          BY <5>1 DEF Ascends
        <5> QED BY <2>4, <4>1, <5>2
      <4>2. CASE a # 1
        BY <1>6, <2>7, <4>2 DEF ListOK
      <4> QED BY <4>1, <4>2
    <3> QED BY <2>4, <3>2, <3>3 DEF ListOK
  <2>9. \A j \in 1 .. Len(l) : j # 1 => l[j].p # <<>>
    BY <1>6, <2>7 DEF Filled
  <2>10. Pieces(l) = count - r.freed
    <3>1. Pieces(l) = Pieces(r.list) + ClenAll(d.p)
      BY <1>7, <2>4, <2>5, PiecesMore
    <3>2. ClenAll(d.p) = 0
      BY <2>2, ClenAllEmpty
    <3> QED BY <1>7, <1>8, <3>1, <3>2
  <2>11. Len(l) <= MEMP_NUM_REASSDATA
    <3>1. CASE full
      <4>1. r.freed # 0
        BY <1>2, <1>6, <1>10, <3>1
      <4> QED BY <1>1, <1>2, <1>6, <1>7, <2>5, <3>1, <4>1
    <3>2. CASE ~full
      BY <1>1, <1>2, <1>6, <1>7, <2>5, <3>2
    <3> QED BY <3>1, <3>2
  <2>12. ~ Over(count - r.freed, Clen(f))
    <3>1. ~(count - r.freed + Clen(f) > IP_REASS_MAX_PBUFS)
      BY <1>2, <1>6, <1>8
    <3> QED BY <3>1 DEF Over
  <2>13. Chain(l, count - r.freed, 1, f)
    BY <1>10, <2>1, <2>3
  <2> QED BY <2>5, <2>8, <2>9, <2>10, <2>11, <2>12, <2>13, ChainStep
<1> QED BY <1>4, <1>9, <1>10 DEF Enqueue

(* One call of ip_reass keeps the invariant.                               *)
LEMMA ReassStep ==
    ASSUME Inv, ip_reass
    PROVE  Inv'
<1>1. PICK id \in Ids, f \in Fragments :
        LET over == Over(ip_reass_pbufcount, Clen(f))
            r == IF over
                 THEN ip_reass_remove_oldest_datagram(reassdatagrams, id, Clen(f))
                 ELSE [list |-> reassdatagrams, freed |-> 0, broken |-> FALSE]
            count == ip_reass_pbufcount - r.freed
        IN  /\ broken' = r.broken
            /\ IF over /\ (r.freed = 0 \/ Over(count, Clen(f)))
               THEN Drop(r.list, count)
               ELSE IF Of(r.list, id) = {}
               THEN Enqueue(r.list, count, id, f)
               ELSE Chain(r.list, count, Min(Of(r.list, id)), f)
  BY DEF ip_reass
<1>2. PICK old : old = reassdatagrams
  OBVIOUS
<1>3. PICK n : n = ip_reass_pbufcount
  OBVIOUS
<1>4. PICK r : r = IF Over(n, Clen(f))
                   THEN ip_reass_remove_oldest_datagram(old, id, Clen(f))
                   ELSE [list |-> old, freed |-> 0, broken |-> FALSE]
  OBVIOUS
<1>5. PICK count : count = n - r.freed
  OBVIOUS
<1>6. IF Over(n, Clen(f)) /\ (r.freed = 0 \/ Over(count, Clen(f)))
      THEN Drop(r.list, count)
      ELSE IF Of(r.list, id) = {}
      THEN Enqueue(r.list, count, id, f)
      ELSE Chain(r.list, count, Min(Of(r.list, id)), f)
  BY <1>1, <1>2, <1>3, <1>4, <1>5
<1>7. /\ ListOK(old) /\ Filled(old) /\ Len(old) <= MEMP_NUM_REASSDATA
      /\ n = Pieces(old) /\ n <= IP_REASS_MAX_PBUFS
  BY <1>2, <1>3 DEF Inv
<1>8. f \in Fragment
  BY FragmentsAre
<1>9. /\ old \in Seq(Datagram) /\ Len(old) \in Nat /\ n \in Nat
      /\ Clen(f) \in Nat /\ IP_REASS_MAX_PBUFS \in Nat /\ MEMP_NUM_REASSDATA \in Nat
  BY <1>7, <1>8, VolumesAre, ClenPositive, IpReassAssumption DEF ListOK
<1>10. Removed(old, id, r)
  <2>1. CASE Over(n, Clen(f))
    BY <1>4, <1>7, <2>1, LoopKeeps
  <2>2. CASE ~Over(n, Clen(f))
    BY <1>4, <1>7, <1>9, <2>2 DEF Removed
  <2> QED BY <2>1, <2>2
<1>11. /\ ListOK(r.list) /\ Filled(r.list) /\ r.freed \in Nat
       /\ Pieces(r.list) + r.freed = n /\ Len(r.list) <= Len(old)
  BY <1>7, <1>10 DEF Removed
<1>12. r.list \in Seq(Datagram) /\ Len(r.list) \in Nat /\ Pieces(r.list) \in Nat
  BY <1>11, VolumesAre DEF ListOK
<1>13. /\ count = Pieces(r.list) /\ count \in Nat
       /\ count <= IP_REASS_MAX_PBUFS
       /\ Len(r.list) <= MEMP_NUM_REASSDATA
  BY <1>5, <1>7, <1>9, <1>11, <1>12
<1>14. CASE Drop(r.list, count)
  BY <1>11, <1>13, <1>14, DropStep
<1>15. CASE ~(Over(n, Clen(f)) /\ (r.freed = 0 \/ Over(count, Clen(f))))
  <2>1. ~ Over(count, Clen(f))
    <3>1. CASE Over(n, Clen(f))
      BY <1>15, <3>1
    <3>2. CASE ~Over(n, Clen(f))
      <4>1. r.freed = 0
        BY <1>4, <3>2
      <4>2. count = n
        BY <1>5, <1>9, <4>1
      <4> QED BY <3>2, <4>2
    <3> QED BY <3>1, <3>2
  <2>2. CASE Of(r.list, id) = {}
    <3>1. Enqueue(r.list, count, id, f)
      BY <1>6, <1>15, <2>2
    <3> QED BY <1>8, <1>11, <1>13, <2>1, <2>2, <3>1, EnqueueStep
  <2>3. CASE Of(r.list, id) # {}
    <3>1. PICK i : i = Min(Of(r.list, id))
      OBVIOUS
    <3>2. Of(r.list, id) \in SUBSET (1 .. Len(r.list))
      BY <1>12 DEF Of
    <3>3. i \in 1 .. Len(r.list)
      <4>1. i \in Of(r.list, id)
        BY <1>12, <2>3, <3>1, <3>2, MinIs
      <4> QED BY <3>2, <4>1
    <3>4. Chain(r.list, count, i, f)
      BY <1>6, <1>15, <2>3, <3>1
    <3>5. \A j \in 1 .. Len(r.list) : j # i => r.list[j].p # <<>>
      BY <1>11 DEF Filled
    <3> QED BY <1>8, <1>11, <1>13, <2>1, <3>3, <3>4, <3>5, ChainStep
  <2> QED BY <2>2, <2>3
<1> QED BY <1>6, <1>14, <1>15

LEMMA InitInv == Init => Inv
<1> SUFFICES ASSUME Init PROVE Inv
  OBVIOUS
<1>1. /\ reassdatagrams = <<>> /\ ip_reass_pbufcount = 0 /\ delivered = <<>>
      /\ Len(<<>>) = 0 /\ <<>> \in Seq(Datagram)
  BY DEF Init
<1>2. IP_REASS_MAX_PBUFS \in Nat /\ MEMP_NUM_REASSDATA \in Nat
  BY IpReassAssumption
<1>3. ListOK(<<>>) /\ Filled(<<>>)
  BY <1>1 DEF ListOK, Filled
<1> QED BY <1>1, <1>2, <1>3, PiecesEmpty DEF Inv, DeliveredDisjoint

LEMMA NextInv ==
    ASSUME Inv, [Next]_vars
    PROVE  Inv'
<1>1. CASE ip_reass
  BY <1>1, ReassStep
<1>2. CASE UNCHANGED vars
  BY <1>2 DEF Inv, DeliveredDisjoint, vars
<1> QED BY <1>1, <1>2 DEF Next

LEMMA Invariance == Spec => []Inv
BY InitInv, NextInv, PTL DEF Spec

\* Different names: a datagram is in the list at most once.
LEMMA OnceInList ==
    ASSUME NEW list, ListOK(list), NEW id
    PROVE  Cardinality(Of(list, id)) <= 1
<1>1. list \in Seq(Datagram) /\ DOMAIN list = 1 .. Len(list)
  BY DEF ListOK
<1>2. CASE Of(list, id) = {}
  <2>1. Cardinality({}) = 0
    BY FS_EmptySet
  <2> QED BY <1>2, <2>1
<1>3. CASE Of(list, id) # {}
  <2>1. PICK i : i \in Of(list, id)
    BY <1>3
  <2>2. \A j \in Of(list, id) : j = i
    BY <1>1, <2>1 DEF Of, ListOK
  <2>3. Of(list, id) = {i}
    BY <2>1, <2>2
  <2>4. Cardinality({i}) = 1
    BY FS_Singleton
  <2> QED BY <2>3, <2>4
<1> QED BY <1>2, <1>3

-----------------------------------------------------------------------------
(* ip_reass_pbufcount (ip_frag.c:109) is always the number of pbufs in the *)
(* queues and within IP_REASS_MAX_PBUFS, whatever is lost, repeated,       *)
(* reordered, thrown away for an overlap, evicted or passed up, until a    *)
(* datagram is unlinked through a wrong predecessor (ip_frag.c:254).       *)
THEOREM CountLaw == Spec => []CountExact
<1>1. Inv => CountExact
  BY DEF Inv, CountExact
<1> QED BY <1>1, Invariance, PTL

(* The list never outgrows its pool, names every datagram once, and has no *)
(* datagram without fragments, which ip_reass_free_complete_datagram reads *)
(* without a test (ip_frag.c:173); fragments ascend.  This too holds until *)
(* a datagram is unlinked through a wrong predecessor (ip_frag.c:254).     *)
THEOREM QueueKept == Spec => []QueueSound
<1>1. ASSUME Inv PROVE QueueSound
  <2>1. ListOK(reassdatagrams) /\ Filled(reassdatagrams) /\ Len(reassdatagrams) <= MEMP_NUM_REASSDATA
    BY <1>1 DEF Inv
  <2>2. DOMAIN reassdatagrams = 1 .. Len(reassdatagrams)
    BY <2>1 DEF ListOK
  <2>3. \A id \in Ids : Cardinality(Of(reassdatagrams, id)) <= 1
    BY <2>1, OnceInList
  <2>4. \A i \in DOMAIN reassdatagrams :
          LET p == reassdatagrams[i].p
          IN  /\ p # <<>>
              /\ \A j \in 1 .. Len(p) - 1 : p[j].start < p[j + 1].start
    BY <2>1, <2>2 DEF ListOK, Filled, Ascends
  <2> QED BY <2>1, <2>3, <2>4 DEF QueueSound
<1> QED BY <1>1, Invariance, PTL

(* No datagram is passed up with a byte in two fragments, or without its   *)
(* first byte, although overlapping fragments do get into queues           *)
(* (ip_frag.c:371).  That one may be missing a fragment is shown by TLC.   *)
THEOREM DisjointDelivery == Spec => []DeliveredDisjoint
<1>1. Inv => DeliveredDisjoint
  BY DEF Inv
<1> QED BY <1>1, Invariance, PTL
=============================================================================
