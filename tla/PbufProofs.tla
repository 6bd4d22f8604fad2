---------------------------- MODULE PbufProofs ----------------------------
(***************************************************************************)
(* What PbufUse promises, proved for pools, heap and packets of any size   *)
(* and for any number of references.  The first half is about the heap     *)
(* (Mem), the second about packet buffers (Pbuf) and their users.          *)
(*                                                                         *)
(* The inductive invariant, MemInv, says that the memory is Sound: every   *)
(* pbuf has memory of its own, the list of the heap is in order, a ref is  *)
(* the number of links and of references from outside, and the lengths     *)
(* agree.  Sound has the references from outside as a parameter, since     *)
(* the loop of pbuf_free holds one of them while it runs, and a set of     *)
(* exceptions for the lengths of a chain that is not completely built.     *)
(***************************************************************************)
EXTENDS PbufUse, FiniteSetTheorems, WellFoundedInduction, TLAPS

-----------------------------------------------------------------------------
(* Numbers.                                                                *)

\* A nonempty set of numbers has a least element.
LEMMA Least ==
    ASSUME NEW T \in SUBSET Nat, T # {}
    PROVE  \E x \in T : \A y \in T : x <= y
<1> DEFINE R == OpToRel(<, Nat)
<1>1. IsWellFoundedOn(R, Nat)
  BY NatLessThanWellFounded
<1>2. PICK x \in T : \A y \in T : ~ (<<y, x>> \in R)
  <2> HIDE DEF R
  <2> QED BY <1>1, WFMin
<1>3. \A y \in T : ~(y < x)
  BY <1>2 DEF OpToRel
<1> QED BY <1>3

\* Min of a set of numbers is its least element.
LEMMA MinIs ==
    ASSUME NEW T \in SUBSET Nat, T # {}
    PROVE  Min(T) \in T /\ \A y \in T : Min(T) <= y
<1>1. \E x \in T : \A y \in T : x <= y
  BY Least
<1> QED BY <1>1, Zenon DEF Min

\* A nonempty set of numbers up to n has a greatest element.
LEMMA Greatest ==
    ASSUME NEW n \in Nat, NEW T \in SUBSET (0 .. n), T # {}
    PROVE  \E x \in T : \A y \in T : y <= x
<1> DEFINE U == {x \in Nat : \A y \in T : y <= x}
<1>1. U \in SUBSET Nat /\ n \in U
  OBVIOUS
<1>2. PICK u \in U : \A x \in U : u <= x
  BY <1>1, Least
<1>3. u \in Nat /\ \A y \in T : y <= u
  OBVIOUS
<1>4. u \in T
  <2>1. SUFFICES ASSUME u \notin T PROVE FALSE
    OBVIOUS
  <2>2. \A y \in T : y \in Nat /\ y < u
    BY <1>3, <2>1
  <2>3. u - 1 \in Nat /\ \A y \in T : y <= u - 1
    <3>1. PICK z \in T : TRUE
      OBVIOUS
    <3>2. z \in Nat /\ z < u
      BY <2>2, <3>1
    <3>3. u - 1 \in Nat
      BY <1>3, <3>2
    <3>4. \A y \in T : y <= u - 1
      BY <1>3, <2>2
    <3> QED BY <3>3, <3>4
  <2>4. u - 1 \in U
    BY <2>3
  <2> HIDE DEF U
  <2>5. u <= u - 1
    BY <1>2, <2>4
  <2> QED BY <1>3, <2>5
<1> QED BY <1>3, <1>4

-----------------------------------------------------------------------------
(* The heap as an ordered set of offsets: next is the one that follows,    *)
(* prev the one that precedes.                                             *)

StructMem == [next : 0 .. MEM_SIZE, prev : 0 .. MEM_SIZE, used : BOOLEAN]

Ordered(ram) ==
    \A p \in DOMAIN ram \ {MEM_SIZE} :
        /\ ram[p].next \in DOMAIN ram
        /\ p + SIZEOF_STRUCT_MEM + MIN_SIZE <= ram[p].next
        /\ \A q \in DOMAIN ram : ~(p < q /\ q < ram[p].next)
        /\ ram[p].next # MEM_SIZE => ram[ram[p].next].prev = p

RamOK(ram) ==
    /\ DOMAIN ram \subseteq 0 .. MEM_SIZE
    /\ 0 \in DOMAIN ram /\ MEM_SIZE \in DOMAIN ram
    /\ ram \in [DOMAIN ram -> StructMem]
    /\ ram[MEM_SIZE].next = MEM_SIZE /\ ram[MEM_SIZE].used
    /\ ram[0].prev = 0
    /\ Ordered(ram)

\* No two unused structs in a row.
Apart(ram) ==
    \A p \in DOMAIN ram : ~ram[p].used => ram[ram[p].next].used

\* l is the lowest unused struct, or the end.
Lowest(ram, l) ==
    /\ l \in DOMAIN ram
    /\ l = MEM_SIZE \/ ~ram[l].used
    /\ \A q \in DOMAIN ram : ~ram[q].used => l <= q

HeapOK(h) ==
    /\ RamOK(h.ram) /\ Apart(h.ram) /\ Lowest(h.ram, h.lfree)

\* The types of the fields of a struct mem.
LEMMA StructFields ==
    ASSUME NEW s \in StructMem
    PROVE  s.next \in 0 .. MEM_SIZE /\ s.prev \in 0 .. MEM_SIZE /\ s.used \in BOOLEAN
BY DEF StructMem

\* What setting one field of one struct leaves.
LEMMA NextSet ==
    ASSUME NEW D, NEW ram \in [D -> StructMem], NEW p \in D, NEW x \in 0 .. MEM_SIZE,
           NEW r, r = [ram EXCEPT ![p].next = x]
    PROVE  /\ r \in [D -> StructMem] /\ DOMAIN r = D
           /\ \A q \in D : /\ r[q].next = IF q = p THEN x ELSE ram[q].next
                           /\ r[q].prev = ram[q].prev
                           /\ r[q].used = ram[q].used
BY DEF StructMem

\* The types of what a struct of an ordered heap holds.
LEMMA RamFacts ==
    ASSUME NEW ram, RamOK(ram), NEW p \in DOMAIN ram
    PROVE  /\ p \in 0 .. MEM_SIZE /\ p \in Nat
           /\ ram[p] \in StructMem
           /\ ram[p].next \in DOMAIN ram /\ ram[p].next \in 0 .. MEM_SIZE
           /\ ram[p].next \in Nat /\ ram[p].prev \in Nat
           /\ ram[p].used \in BOOLEAN
           /\ p # MEM_SIZE => p < ram[p].next
           /\ p = MEM_SIZE => ram[p].next = MEM_SIZE
           /\ MEM_SIZE \in Nat /\ SIZEOF_STRUCT_MEM \in Nat /\ MIN_SIZE \in Nat
           /\ SIZEOF_STRUCT_MEM >= 1 /\ MIN_SIZE >= 1
<1>1. MEM_SIZE \in Nat /\ SIZEOF_STRUCT_MEM \in Nat /\ MIN_SIZE \in Nat /\ SIZEOF_STRUCT_MEM >= 1 /\ MIN_SIZE >= 1
  BY MemAssumption
<1>2. p \in 0 .. MEM_SIZE /\ ram[p] \in StructMem
  BY DEF RamOK
<1>3. ram[p].next \in 0 .. MEM_SIZE /\ ram[p].prev \in 0 .. MEM_SIZE /\ ram[p].used \in BOOLEAN
  BY <1>2, StructFields
<1>4. CASE p = MEM_SIZE
  BY <1>1, <1>2, <1>3, <1>4 DEF RamOK
<1>5. CASE p # MEM_SIZE
  <2>1. ram[p].next \in DOMAIN ram /\ p + SIZEOF_STRUCT_MEM + MIN_SIZE <= ram[p].next
    BY <1>5 DEF RamOK, Ordered
  <2> QED BY <1>1, <1>2, <1>3, <1>5, <2>1
<1> QED BY <1>4, <1>5

\* Every struct but the first follows exactly one other.
LEMMA Predecessor ==
    ASSUME NEW ram, RamOK(ram), NEW p \in DOMAIN ram, p # 0
    PROVE  \E q \in DOMAIN ram : q # MEM_SIZE /\ ram[q].next = p /\ q < p
<1> DEFINE T == {q \in DOMAIN ram : q < p}
<1>1. T \in SUBSET (0 .. MEM_SIZE) /\ MEM_SIZE \in Nat /\ p \in Nat /\ p <= MEM_SIZE
  BY RamFacts DEF RamOK
<1>2. 0 \in T
  BY <1>1 DEF RamOK
<1>3. PICK q \in T : \A y \in T : y <= q
  BY <1>1, <1>2, Greatest
<1>4. q \in DOMAIN ram /\ q < p /\ q \in Nat /\ q # MEM_SIZE
  BY <1>1, <1>3
<1>5. /\ ram[q].next \in DOMAIN ram /\ ram[q].next \in Nat
      /\ q < ram[q].next
      /\ ~(q < p /\ p < ram[q].next)
  BY <1>4, RamFacts DEF RamOK, Ordered
<1>6. ~(ram[q].next < p)
  <2>1. SUFFICES ASSUME ram[q].next < p PROVE FALSE
    OBVIOUS
  <2>2. ram[q].next \in T
    BY <1>5, <2>1
  <2>3. ram[q].next <= q
    BY <1>3, <2>2
  <2> HIDE DEF T
  <2> QED BY <1>4, <1>5, <2>3
<1>7. ram[q].next = p
  BY <1>1, <1>4, <1>5, <1>6
<1> QED BY <1>4, <1>7

\* prev names the one that next comes from.
LEMMA OnePredecessor ==
    ASSUME NEW ram, RamOK(ram), NEW p \in DOMAIN ram, p # MEM_SIZE,
           NEW q \in DOMAIN ram, q # MEM_SIZE, ram[q].next = p
    PROVE  ram[p].prev = q
BY DEF RamOK, Ordered

-----------------------------------------------------------------------------
(* A struct is swallowed.                                                  *)

Swallowed(ram, p, gone, r) ==
    /\ DOMAIN r = DOMAIN ram \ {gone} /\ r \in [DOMAIN ram \ {gone} -> StructMem]
    /\ \A q \in DOMAIN ram \ {gone} :
         /\ r[q].next = IF q = p THEN ram[gone].next ELSE ram[q].next
         /\ r[q].prev = IF q = ram[gone].next /\ q # MEM_SIZE THEN p ELSE ram[q].prev
         /\ r[q].used = ram[q].used

\* What Merge writes, field by field.
LEMMA MergeFields ==
    ASSUME NEW ram, NEW D, D = DOMAIN ram, ram \in [D -> StructMem],
           NEW p \in D, NEW gone \in D, p # gone, p \in 0 .. MEM_SIZE,
           ram[gone].next \in D, ram[gone].next # gone, ram[gone].next \in 0 .. MEM_SIZE,
           NEW h, h.ram = ram
    PROVE  Swallowed(ram, p, gone, Merge(h, p, gone).ram)
<1> DEFINE E == D \ {gone}
<1>0. PICK after : after = ram[gone].next
  OBVIOUS
<1>1. PICK a : a = Cut(ram, gone)
  OBVIOUS
<1>2. a \in [E -> StructMem] /\ \A q \in E : a[q] = ram[q]
  BY <1>1 DEF Cut
<1>3. p \in E /\ after \in E /\ after \in 0 .. MEM_SIZE
  BY <1>0
<1>4. PICK b : b = [a EXCEPT ![p].next = after]
  OBVIOUS
<1>5. PICK r : r = Merge(h, p, gone).ram
  OBVIOUS
<1>6. r = SetPrev(b, after, p)
  BY <1>0, <1>1, <1>4, <1>5 DEF Merge
<1> HIDE DEF E
<1>7. /\ b \in [E -> StructMem] /\ DOMAIN b = E
      /\ \A q \in E : /\ b[q].next = IF q = p THEN after ELSE a[q].next
                      /\ b[q].prev = a[q].prev
                      /\ b[q].used = a[q].used
  BY <1>2, <1>3, <1>4, NextSet
<1>8. CASE after = MEM_SIZE
  <2>1. r = b
    BY <1>6, <1>8 DEF SetPrev
  <2> QED BY <1>0, <1>2, <1>5, <1>7, <1>8, <2>1 DEF E, Swallowed
<1>9. CASE after # MEM_SIZE
  <2>1. r = [b EXCEPT ![after].prev = p]
    BY <1>6, <1>9 DEF SetPrev
  <2>2. b \in [E -> StructMem] /\ after \in E /\ p \in 0 .. MEM_SIZE
    BY <1>3, <1>7
  <2>3. /\ r \in [E -> StructMem] /\ DOMAIN r = E
        /\ \A q \in E : /\ r[q].prev = IF q = after THEN p ELSE b[q].prev
                        /\ r[q].next = b[q].next
                        /\ r[q].used = b[q].used
    BY <2>1, <2>2 DEF StructMem
  <2> QED BY <1>0, <1>2, <1>5, <1>7, <1>9, <2>3 DEF E, Swallowed
<1> QED BY <1>8, <1>9

\* Swallowing the struct that follows p keeps the list in order.
LEMMA MergeOK ==
    ASSUME NEW ram, RamOK(ram), NEW p \in DOMAIN ram, p # MEM_SIZE,
           NEW gone, gone = ram[p].next, gone # MEM_SIZE,
           NEW h, h.ram = ram
    PROVE  Swallowed(ram, p, gone, Merge(h, p, gone).ram) /\ RamOK(Merge(h, p, gone).ram)
<1> DEFINE D == DOMAIN ram
           after == ram[gone].next
<1>1. PICK r : r = Merge(h, p, gone).ram
  OBVIOUS
<1>2. /\ p \in 0 .. MEM_SIZE /\ p \in Nat /\ gone \in D /\ gone \in Nat /\ p < gone
      /\ MEM_SIZE \in Nat /\ SIZEOF_STRUCT_MEM \in Nat /\ MIN_SIZE \in Nat
      /\ SIZEOF_STRUCT_MEM >= 1 /\ MIN_SIZE >= 1
  BY RamFacts
<1>3. after \in D /\ after \in Nat /\ gone < after /\ after \in 0 .. MEM_SIZE
  BY <1>2, RamFacts
<1>4. D \subseteq 0 .. MEM_SIZE /\ ram \in [D -> StructMem] /\ 0 \in D /\ MEM_SIZE \in D
  BY DEF RamOK
<1>5. p # gone /\ after # gone /\ after # p /\ gone # 0
  BY <1>2, <1>3
<1>6a. Swallowed(ram, p, gone, r)
  BY <1>1, <1>2, <1>3, <1>4, <1>5, MergeFields
<1>6. /\ DOMAIN r = D \ {gone} /\ r \in [D \ {gone} -> StructMem]
      /\ \A q \in D \ {gone} :
           /\ r[q].next = IF q = p THEN after ELSE ram[q].next
           /\ r[q].prev = IF q = after /\ q # MEM_SIZE THEN p ELSE ram[q].prev
           /\ r[q].used = ram[q].used
  BY <1>6a DEF Swallowed
<1>7. Ordered(r)
  <2> SUFFICES ASSUME NEW q \in DOMAIN r \ {MEM_SIZE}
               PROVE  /\ r[q].next \in DOMAIN r
                      /\ q + SIZEOF_STRUCT_MEM + MIN_SIZE <= r[q].next
                      /\ \A s \in DOMAIN r : ~(q < s /\ s < r[q].next)
                      /\ r[q].next # MEM_SIZE => r[r[q].next].prev = q
    BY DEF Ordered
  <2>1. q \in D /\ q # gone /\ q # MEM_SIZE
    BY <1>6
  <2>2. CASE q = p
    <3>1. r[q].next = after /\ after \in DOMAIN r
      BY <1>3, <1>5, <1>6, <2>1, <2>2
    <3>2. /\ p + SIZEOF_STRUCT_MEM + MIN_SIZE <= gone
          /\ \A s \in D : ~(p < s /\ s < gone)
          /\ \A s \in D : ~(gone < s /\ s < after)
      BY <1>2 DEF RamOK, Ordered
    <3>3. p + SIZEOF_STRUCT_MEM + MIN_SIZE <= after
      BY <1>2, <1>3, <3>2
    <3>4. ASSUME NEW s \in DOMAIN r PROVE ~(p < s /\ s < after)
      <4>1. s \in D /\ s # gone /\ s \in Nat
        BY <1>4, <1>6
      <4> QED BY <1>2, <1>3, <3>2, <4>1
    <3>5. after # MEM_SIZE => r[after].prev = p
      BY <1>3, <1>5, <1>6
    <3> QED BY <2>2, <3>1, <3>3, <3>4, <3>5
  <2>3. CASE q # p
    <3>1. r[q].next = ram[q].next
      BY <1>6, <2>1, <2>3
    <3>2. /\ ram[q].next \in D
          /\ q + SIZEOF_STRUCT_MEM + MIN_SIZE <= ram[q].next
          /\ \A s \in D : ~(q < s /\ s < ram[q].next)
          /\ ram[q].next # MEM_SIZE => ram[ram[q].next].prev = q
      BY <2>1 DEF RamOK, Ordered
    <3>3. ram[q].next # gone
      <4>1. SUFFICES ASSUME ram[q].next = gone PROVE FALSE
        OBVIOUS
      <4>2. ram[gone].prev = q /\ ram[gone].prev = p
        BY <1>2, <2>1, <4>1, OnePredecessor
      <4> QED BY <2>3, <4>2
    <3>4. ram[q].next \in DOMAIN r
      BY <1>6, <3>2, <3>3
    <3>5. ram[q].next # MEM_SIZE => ram[q].next # after
      <4>1. SUFFICES ASSUME ram[q].next = after, after # MEM_SIZE PROVE FALSE
        OBVIOUS
      <4>2. ram[after].prev = q /\ ram[after].prev = gone
        BY <1>2, <1>3, <2>1, <4>1, OnePredecessor
      <4> QED BY <2>1, <4>2
    <3>6. ram[q].next # MEM_SIZE => r[ram[q].next].prev = q
      BY <1>6, <3>2, <3>4, <3>5
    <3> QED BY <1>6, <3>1, <3>2, <3>4, <3>6
  <2> QED BY <2>2, <2>3
<1>8. r[MEM_SIZE].next = MEM_SIZE /\ r[MEM_SIZE].used /\ r[0].prev = 0
  <2>1. MEM_SIZE \in D \ {gone} /\ MEM_SIZE # p /\ 0 \in D \ {gone} /\ 0 # after
    BY <1>2, <1>3, <1>4, <1>5
  <2> QED BY <1>6, <2>1 DEF RamOK
<1>9. DOMAIN r \subseteq 0 .. MEM_SIZE /\ 0 \in DOMAIN r /\ MEM_SIZE \in DOMAIN r /\ r \in [DOMAIN r -> StructMem]
  BY <1>4, <1>5, <1>6
<1>10. RamOK(r)
  BY <1>7, <1>8, <1>9 DEF RamOK
<1> QED BY <1>1, <1>6a, <1>10

\* Walk, one step at a time.
WalkStep(ram, p, k, y) == ram[y].next

WalkEq(ram, p, f) ==
    f = [k \in 0 .. MEM_SIZE |-> IF k = 0 THEN p ELSE WalkStep(ram, p, k, f[k - 1])]

WalkUpto(ram, p, n, f) ==
    /\ f = [k \in 0 .. n |-> f[k]]
    /\ f[0] = p
    /\ \A k \in 0 + 1 .. n : f[k] = WalkStep(ram, p, k, f[k - 1])

\* The function is the one that satisfies its equation ...
LEMMA WalkChoice ==
    ASSUME NEW ram, NEW p
    PROVE  Walk(ram, p) = CHOOSE f : WalkEq(ram, p, f)
BY Zenon DEF Walk, WalkEq, WalkStep

\* ... and there is one, by the least number up to which there is none.
LEMMA WalkExists ==
    ASSUME NEW ram, NEW p, NEW N \in Nat, NEW n \in 0 .. N
    PROVE  \E f : WalkUpto(ram, p, n, f)
<1> DEFINE T == {i \in 0 .. N : ~ \E f : WalkUpto(ram, p, i, f)}
<1>1. SUFFICES ASSUME T # {} PROVE FALSE
  OBVIOUS
<1>2. T \in SUBSET Nat
  OBVIOUS
<1>3. PICK i \in T : \A y \in T : i <= y
  BY <1>1, <1>2, Least
<1>4. i \in 0 .. N /\ ~ \E f : WalkUpto(ram, p, i, f)
  OBVIOUS
<1>5. i # 0
  <2>1. WalkUpto(ram, p, 0, [k \in 0 .. 0 |-> p])
    BY DEF WalkUpto
  <2> QED BY <1>4, <2>1
<1>6. i - 1 \in 0 .. N /\ i \in 0 + 1 .. N /\ i - 1 \notin T
  BY <1>3, <1>4, <1>5
<1>7. PICK f : WalkUpto(ram, p, i - 1, f)
  BY <1>6
<1> HIDE DEF T
<1> DEFINE g == [k \in 0 .. i |-> IF k = i THEN WalkStep(ram, p, i, f[i - 1]) ELSE f[k]]
<1>8. WalkUpto(ram, p, i, g)
  <2>1. g = [k \in 0 .. i |-> g[k]]
    OBVIOUS
  <2>2. g[0] = p
    BY <1>6, <1>7 DEF WalkUpto
  <2>3. ASSUME NEW k \in 0 + 1 .. i PROVE g[k] = WalkStep(ram, p, k, g[k - 1])
    <3>1. k \in 0 .. i /\ k - 1 \in 0 .. i /\ k - 1 # i
      BY <1>6
    <3>2. g[k - 1] = f[k - 1]
      BY <3>1
    <3>3. CASE k = i
      <4>1. g[k] = WalkStep(ram, p, i, f[i - 1])
        BY <3>1, <3>3
      <4> QED BY <3>2, <3>3, <4>1
    <3>4. CASE k # i
      <4>1. k \in 0 + 1 .. i - 1
        BY <1>6, <3>4
      <4>2. g[k] = f[k]
        BY <3>1, <3>4
      <4>3. f[k] = WalkStep(ram, p, k, f[k - 1])
        BY <1>7, <4>1 DEF WalkUpto
      <4> QED BY <3>2, <4>2, <4>3
    <3> QED BY <3>3, <3>4
  <2> HIDE DEF g
  <2> QED BY <2>1, <2>2, <2>3 DEF WalkUpto
<1> QED BY <1>4, <1>8

\* So Walk obeys its equation at every step.
LEMMA WalkIs ==
    ASSUME NEW ram, NEW p, MEM_SIZE \in Nat
    PROVE  WalkUpto(ram, p, MEM_SIZE, Walk(ram, p))
<1>0. PICK N : N = MEM_SIZE
  OBVIOUS
<1>1. N \in 0 .. N
  BY <1>0
<1>2. PICK f : WalkUpto(ram, p, N, f)
  BY <1>0, <1>1, WalkExists
<1>3. WalkEq(ram, p, f)
  <2> DEFINE g == [k \in 0 .. N |-> IF k = 0 THEN p ELSE WalkStep(ram, p, k, f[k - 1])]
  <2>1. ASSUME NEW k \in 0 .. N PROVE f[k] = g[k]
    <3>1. CASE k = 0
      BY <1>2, <3>1 DEF WalkUpto
    <3>2. CASE k # 0
      <4>1. k \in 0 + 1 .. N
        BY <1>0, <3>2
      <4>2. f[k] = WalkStep(ram, p, k, f[k - 1])
        BY <1>2, <4>1 DEF WalkUpto
      <4> QED BY <3>2, <4>2
    <3> QED BY <3>1, <3>2
  <2>2. f = [k \in 0 .. N |-> f[k]]
    BY <1>2 DEF WalkUpto
  <2>3. g = [k \in 0 .. N |-> g[k]]
    OBVIOUS
  <2>4. f = g
    <3> HIDE DEF g
    <3> QED BY <2>1, <2>2, <2>3
  <2> QED BY <1>0, <2>4 DEF WalkEq
<1>4. WalkEq(ram, p, Walk(ram, p))
  <2>1. WalkEq(ram, p, CHOOSE u : WalkEq(ram, p, u))
    BY <1>3, Zenon
  <2> QED BY <2>1, WalkChoice
<1>5. PICK w : w = Walk(ram, p)
  OBVIOUS
<1>6. w = [k \in 0 .. N |-> IF k = 0 THEN p ELSE WalkStep(ram, p, k, w[k - 1])]
  BY <1>0, <1>4, <1>5 DEF WalkEq
<1>7. w = [k \in 0 .. N |-> w[k]]
  BY <1>6
<1>8. w[0] = p
  BY <1>0, <1>1, <1>6
<1>9. ASSUME NEW k \in 0 + 1 .. N PROVE w[k] = WalkStep(ram, p, k, w[k - 1])
  <2>1. k \in 0 .. N /\ k # 0
    BY <1>0
  <2> QED BY <1>6, <2>1
<1>10. WalkUpto(ram, p, N, w)
  BY <1>7, <1>8, <1>9 DEF WalkUpto
<1> QED BY <1>0, <1>5, <1>10

\* Every place on the walk is a struct, none is before its start, and the k-th
\* is at k or beyond, unless the end was reached.
OnWalk(ram, p, at, k) ==
    /\ at[k] \in DOMAIN ram /\ p <= at[k]
    /\ k <= at[k] \/ at[k] = MEM_SIZE

\* By the least step at which it would not be so.
LEMMA WalkOn ==
    ASSUME NEW ram, RamOK(ram), NEW p \in DOMAIN ram, NEW k \in 0 .. MEM_SIZE
    PROVE  OnWalk(ram, p, Walk(ram, p), k)
<1>1. MEM_SIZE \in Nat /\ p \in Nat
  BY RamFacts
<1>2. PICK at : at = Walk(ram, p)
  OBVIOUS
<1>3. WalkUpto(ram, p, MEM_SIZE, at)
  BY <1>1, <1>2, WalkIs
<1> DEFINE T == {i \in 0 .. MEM_SIZE : ~ OnWalk(ram, p, at, i)}
<1>4. SUFFICES ASSUME T # {} PROVE FALSE
  BY <1>2
<1>5. T \in SUBSET Nat
  OBVIOUS
<1>6. PICK i \in T : \A y \in T : i <= y
  BY <1>4, <1>5, Least
<1>7. i \in 0 .. MEM_SIZE /\ ~ OnWalk(ram, p, at, i)
  OBVIOUS
<1>8. i # 0
  <2>1. at[0] = p
    BY <1>3 DEF WalkUpto
  <2> QED BY <1>1, <1>7, <2>1 DEF OnWalk
<1>9. i - 1 \in 0 .. MEM_SIZE /\ i \in 0 + 1 .. MEM_SIZE /\ i - 1 \notin T
  BY <1>1, <1>6, <1>7, <1>8
<1>10. OnWalk(ram, p, at, i - 1)
  BY <1>9
<1> HIDE DEF T
<1>11. at[i] = ram[at[i - 1]].next
  BY <1>3, <1>9 DEF WalkUpto, WalkStep
<1>12. PICK b : b = at[i - 1]
  OBVIOUS
<1>13. b \in DOMAIN ram /\ p <= b /\ (i - 1 <= b \/ b = MEM_SIZE)
  BY <1>10, <1>12 DEF OnWalk
<1>14. PICK c : c = at[i] /\ c = ram[b].next
  BY <1>11, <1>12
<1>15. /\ c \in DOMAIN ram /\ c \in Nat /\ b \in Nat
       /\ b # MEM_SIZE => b < c
       /\ b = MEM_SIZE => c = MEM_SIZE
  BY <1>13, <1>14, RamFacts
<1>16. p <= c /\ (i <= c \/ c = MEM_SIZE)
  BY <1>1, <1>7, <1>13, <1>15
<1> QED BY <1>7, <1>14, <1>15, <1>16 DEF OnWalk

\* The walk never goes back.
LEMMA WalkUp ==
    ASSUME NEW ram, RamOK(ram), NEW p \in DOMAIN ram, NEW k \in 0 .. MEM_SIZE,
           NEW j \in 0 .. k
    PROVE  Walk(ram, p)[j] <= Walk(ram, p)[k]
<1>1. MEM_SIZE \in Nat /\ p \in Nat
  BY RamFacts
<1>2. PICK at : at = Walk(ram, p)
  OBVIOUS
<1>3. WalkUpto(ram, p, MEM_SIZE, at)
  BY <1>1, <1>2, WalkIs
<1>4. \A i \in 0 .. MEM_SIZE : at[i] \in DOMAIN ram /\ at[i] \in Nat
  BY <1>2, WalkOn, RamFacts DEF OnWalk
<1> DEFINE T == {i \in 0 .. MEM_SIZE : j <= i /\ ~(at[j] <= at[i])}
<1>5. SUFFICES ASSUME T # {} PROVE FALSE
  BY <1>2
<1>6. T \in SUBSET Nat
  OBVIOUS
<1>7. PICK i \in T : \A y \in T : i <= y
  BY <1>5, <1>6, Least
<1>8. i \in 0 .. MEM_SIZE /\ j \in Nat /\ j <= i /\ ~(at[j] <= at[i])
  OBVIOUS
<1>9. i # j
  BY <1>4, <1>8
<1>10. i - 1 \in 0 .. MEM_SIZE /\ i \in 0 + 1 .. MEM_SIZE /\ j <= i - 1 /\ i - 1 \notin T /\ j \in 0 .. MEM_SIZE
  BY <1>1, <1>7, <1>8, <1>9
<1>11. at[j] <= at[i - 1]
  BY <1>10
<1> HIDE DEF T
<1>12. at[i] = ram[at[i - 1]].next
  BY <1>3, <1>10 DEF WalkUpto, WalkStep
<1>13. PICK b : b = at[i - 1] /\ b \in DOMAIN ram
  BY <1>4, <1>10
<1>14. ram[b].next \in Nat /\ b \in Nat /\ b <= ram[b].next
  BY <1>13, RamFacts
<1>15. at[j] \in Nat
  BY <1>4, <1>10
<1> QED BY <1>8, <1>11, <1>12, <1>13, <1>14, <1>15

\* The walk from p meets every struct from p on.
LEMMA WalkMeets ==
    ASSUME NEW ram, RamOK(ram), NEW p \in DOMAIN ram, NEW q \in DOMAIN ram, p <= q
    PROVE  \E k \in 0 .. MEM_SIZE : Walk(ram, p)[k] = q
<1>1. MEM_SIZE \in Nat /\ p \in Nat /\ q \in Nat /\ q <= MEM_SIZE
  BY RamFacts
<1>2. PICK at : at = Walk(ram, p)
  OBVIOUS
<1>3. WalkUpto(ram, p, MEM_SIZE, at)
  BY <1>1, <1>2, WalkIs
<1>4. \A i \in 0 .. MEM_SIZE : at[i] \in DOMAIN ram /\ at[i] \in Nat /\ (i <= at[i] \/ at[i] = MEM_SIZE)
  BY <1>2, WalkOn, RamFacts DEF OnWalk
<1> DEFINE T == {i \in 0 .. MEM_SIZE : at[i] <= q}
<1>5. T \in SUBSET (0 .. MEM_SIZE)
  OBVIOUS
<1>6. 0 \in T
  <2>1. at[0] = p /\ 0 \in 0 .. MEM_SIZE
    BY <1>1, <1>3 DEF WalkUpto
  <2> QED BY <2>1
<1>7. PICK i \in T : \A y \in T : y <= i
  BY <1>1, <1>5, <1>6, Greatest
<1>8. i \in 0 .. MEM_SIZE /\ at[i] <= q /\ at[i] \in Nat /\ at[i] \in DOMAIN ram
  BY <1>4
<1>9. at[i] = q
  <2>1. SUFFICES ASSUME at[i] < q PROVE FALSE
    BY <1>1, <1>8
  <2>2. i # MEM_SIZE
    BY <1>1, <1>4, <1>8, <2>1
  <2>3. i + 1 \in 0 .. MEM_SIZE /\ i + 1 \in 0 + 1 .. MEM_SIZE /\ (i + 1) - 1 = i
    BY <1>1, <1>8, <2>2
  <2>4. at[i + 1] = ram[at[i]].next
    BY <1>3, <2>3 DEF WalkUpto, WalkStep
  <2>5. PICK b : b = at[i] /\ b \in DOMAIN ram /\ b # MEM_SIZE
    BY <1>1, <1>8, <2>1
  <2>6. ~(b < q /\ q < ram[b].next) /\ ram[b].next \in Nat
    BY <2>5, RamFacts DEF RamOK, Ordered
  <2>7. at[i + 1] <= q
    BY <1>1, <1>8, <2>1, <2>4, <2>5, <2>6
  <2>8. i + 1 \in T
    BY <2>3, <2>7
  <2>9. i + 1 <= i
    BY <1>7, <2>8
  <2> HIDE DEF T
  <2> QED BY <1>8, <2>9
<1> QED BY <1>2, <1>8, <1>9

\* The list is sound when it is ordered.
LEMMA OrderedListSound ==
    ASSUME NEW h, RamOK(h.ram)
    PROVE  ListSound(h)
<1>1. PICK ram : ram = h.ram
  OBVIOUS
<1>2. PICK at : at = Walk(ram, 0)
  OBVIOUS
<1>3. RamOK(ram) /\ 0 \in DOMAIN ram
  BY <1>1 DEF RamOK
<1>4. \A k \in 0 .. MEM_SIZE : at[k] \in DOMAIN ram
  BY <1>2, <1>3, WalkOn DEF OnWalk
<1>5. ASSUME NEW q \in DOMAIN ram PROVE \E k \in 0 .. MEM_SIZE : at[k] = q
  <2>1. 0 <= q
    BY <1>3, RamFacts
  <2> QED BY <1>2, <1>3, <2>1, WalkMeets
<1>6. {at[k] : k \in 0 .. MEM_SIZE} = DOMAIN ram
  BY <1>4, <1>5
<1>7. ASSUME NEW p \in DOMAIN ram \ {MEM_SIZE}
      PROVE  /\ ram[p].next - p - SIZEOF_STRUCT_MEM >= MIN_SIZE
             /\ ram[p].next # MEM_SIZE => ram[ram[p].next].prev = p
  <2>1. /\ p + SIZEOF_STRUCT_MEM + MIN_SIZE <= ram[p].next
        /\ ram[p].next # MEM_SIZE => ram[ram[p].next].prev = p
    BY <1>3 DEF RamOK, Ordered
  <2>2. p \in Nat /\ ram[p].next \in Nat /\ SIZEOF_STRUCT_MEM \in Nat /\ MIN_SIZE \in Nat
    BY <1>3, RamFacts
  <2> QED BY <2>1, <2>2
<1> QED BY <1>1, <1>2, <1>6, <1>7 DEF ListSound, DataSize

\* No two holes in a row, and lfree the lowest: what HolesSound asks.
LEMMA LowestHolesSound ==
    ASSUME NEW h, HeapOK(h)
    PROVE  HolesSound(h)
<1>1. PICK ram, l : ram = h.ram /\ l = h.lfree
  OBVIOUS
<1>2. RamOK(ram) /\ Apart(ram) /\ Lowest(ram, l)
  BY <1>1 DEF HeapOK
<1>3. \A p \in Holes(h) : p \in DOMAIN ram /\ ~ram[p].used /\ ram[p].next \notin Holes(h)
  BY <1>1, <1>2 DEF Holes, Apart
<1> DEFINE T == Holes(h) \cup {MEM_SIZE}
<1>4. T \in SUBSET Nat /\ MEM_SIZE \in Nat /\ \A p \in T : p \in Nat /\ p <= MEM_SIZE
  <2>1. MEM_SIZE \in Nat
    BY MemAssumption
  <2>2. \A p \in DOMAIN ram : p \in Nat /\ p <= MEM_SIZE
    BY <1>2, RamFacts
  <2> QED BY <1>3, <2>1, <2>2
<1>5. l \in T /\ \A y \in T : l <= y
  <2>1. l \in DOMAIN ram /\ (l = MEM_SIZE \/ ~ram[l].used) /\ \A q \in DOMAIN ram : ~ram[q].used => l <= q
    BY <1>2 DEF Lowest
  <2>2. l \in T
    BY <1>1, <2>1 DEF Holes
  <2>3. l <= MEM_SIZE
    BY <1>4, <2>2
  <2> QED BY <1>3, <2>1, <2>2, <2>3
<1> HIDE DEF T
<1>6. Min(T) \in T /\ \A y \in T : Min(T) <= y
  BY <1>4, <1>5, MinIs
<1>7. Min(T) = l
  <2>1. PICK x : x = Min(T)
    OBVIOUS
  <2>2. x \in T /\ l \in T /\ x <= l /\ l <= x
    BY <1>5, <1>6, <2>1
  <2>3. x \in Nat /\ l \in Nat
    BY <1>4, <2>2
  <2>4. x = l
    BY <2>2, <2>3
  <2> QED BY <2>1, <2>4
<1> QED BY <1>1, <1>3, <1>7 DEF HolesSound, T

\* What mem_malloc_at finds, and that it finds something when there is room.
Fits(h, size, at) ==
    {k \in 0 .. MEM_SIZE : /\ \A j \in 0 .. k : at[j] < MEM_SIZE - size
                           /\ ~h.ram[at[k]].used
                           /\ DataSize(h, at[k]) >= size}

\* The offset that is found is that of a struct that fits.
LEMMA Found ==
    ASSUME NEW h, NEW asked, NEW size, size = AtLeastMin(asked),
           mem_malloc_at(h, asked) # FAIL,
           NEW at, at = Walk(h.ram, h.lfree)
    PROVE  asked # 0 /\ \E k \in Fits(h, size, at) : mem_malloc_at(h, asked) = at[k]
<1>1. PICK F : F = Fits(h, size, at)
  OBVIOUS
<1>2. mem_malloc_at(h, asked) = IF asked = 0 \/ F = {} THEN FAIL ELSE at[Min(F)]
  BY <1>1 DEF mem_malloc_at, Fits
<1>3. asked # 0 /\ F # {} /\ mem_malloc_at(h, asked) = at[Min(F)]
  BY <1>2
<1>4. F \in SUBSET Nat
  BY <1>1 DEF Fits
<1>5. Min(F) \in F
  BY <1>3, <1>4, MinIs
<1> QED BY <1>1, <1>3, <1>5

\* A hole that is large enough is at or after lfree, and the search gets there.
LEMMA HeapNoRoomMissed ==
    ASSUME NEW h, HeapOK(h)
    PROVE  NoRoomMissed(h)
<1> SUFFICES ASSUME NEW asked \in 1 .. MEM_SIZE, NEW p \in Holes(h),
                    mem_malloc_at(h, asked) = FAIL
             PROVE  DataSize(h, p) < AtLeastMin(asked)
  BY DEF NoRoomMissed
<1>1. PICK ram, l : ram = h.ram /\ l = h.lfree
  OBVIOUS
<1>2. RamOK(ram) /\ Apart(ram) /\ Lowest(ram, l)
  BY <1>1 DEF HeapOK
<1>3. p \in DOMAIN ram /\ ~ram[p].used /\ l \in DOMAIN ram /\ l <= p
  BY <1>1, <1>2 DEF Holes, Lowest
<1>4. PICK size : size = AtLeastMin(asked)
  OBVIOUS
<1>5. /\ p \in Nat /\ ram[p].next \in Nat /\ ram[p].next <= MEM_SIZE /\ MEM_SIZE \in Nat
      /\ SIZEOF_STRUCT_MEM \in Nat /\ MIN_SIZE \in Nat
      /\ SIZEOF_STRUCT_MEM >= 1
  BY <1>2, <1>3, RamFacts
<1>6. size \in Nat /\ asked # 0
  BY <1>4, <1>5 DEF AtLeastMin
<1>7. DataSize(h, p) = ram[p].next - p - SIZEOF_STRUCT_MEM
  BY <1>1 DEF DataSize
<1>8. SUFFICES ASSUME DataSize(h, p) >= size PROVE FALSE
  BY <1>4, <1>5, <1>6, <1>7
<1>9. p < MEM_SIZE - size
  BY <1>5, <1>6, <1>7, <1>8
<1>10. PICK at : at = Walk(ram, l)
  OBVIOUS
<1>11. PICK k \in 0 .. MEM_SIZE : at[k] = p
  BY <1>2, <1>3, <1>10, WalkMeets
<1>12. ASSUME NEW j \in 0 .. k PROVE at[j] < MEM_SIZE - size
  <2>1. at[j] <= at[k]
    BY <1>2, <1>3, <1>10, <1>11, WalkUp
  <2>2. j \in 0 .. MEM_SIZE
    BY <1>5, <1>11
  <2>3. at[j] \in DOMAIN ram
    BY <1>2, <1>3, <1>10, <2>2, WalkOn DEF OnWalk
  <2>4. at[j] \in Nat
    BY <1>2, <2>3, RamFacts
  <2> QED BY <1>5, <1>6, <1>9, <1>11, <2>1, <2>4
<1>13. k \in Fits(h, size, at)
  BY <1>1, <1>3, <1>8, <1>11, <1>12 DEF Fits
<1>14. PICK F : F = Fits(h, size, at)
  OBVIOUS
<1>15. mem_malloc_at(h, asked) = IF asked = 0 \/ F = {} THEN FAIL ELSE at[Min(F)]
  BY <1>1, <1>4, <1>10, <1>14 DEF mem_malloc_at, Fits
<1>16. mem_malloc_at(h, asked) = at[Min(F)]
  BY <1>6, <1>13, <1>14, <1>15
<1>17. F \in SUBSET Nat /\ F # {}
  BY <1>13, <1>14 DEF Fits
<1>18. Min(F) \in F
  BY <1>17, MinIs
<1>19. Min(F) \in 0 .. MEM_SIZE
  BY <1>14, <1>18 DEF Fits
<1>20. at[Min(F)] \in DOMAIN ram
  BY <1>2, <1>3, <1>10, <1>19, WalkOn DEF OnWalk
<1>21. at[Min(F)] \in Nat
  BY <1>2, <1>20, RamFacts
<1> QED BY <1>16, <1>21 DEF FAIL

\* A heap in order has what the run checks.
LEMMA HeapOKSound ==
    ASSUME NEW h, HeapOK(h)
    PROVE  ListSound(h) /\ HolesSound(h) /\ NoRoomMissed(h)
BY OrderedListSound, LowestHolesSound, HeapNoRoomMissed DEF HeapOK

-----------------------------------------------------------------------------
(* mem_free.                                                               *)

\* Swallowing an unused struct keeps track of the lowest one.
LEMMA MergeLowest ==
    ASSUME NEW ram, RamOK(ram), NEW p \in DOMAIN ram, p # MEM_SIZE,
           NEW gone, gone = ram[p].next, gone # MEM_SIZE,
           ~ram[p].used, ~ram[gone].used,
           NEW l, Lowest(ram, l), NEW r, Swallowed(ram, p, gone, r)
    PROVE  Lowest(r, IF l = gone THEN p ELSE l)
<1>1. p \in Nat /\ gone \in Nat /\ p < gone /\ gone \in DOMAIN ram
  BY RamFacts
<1>2. /\ DOMAIN r = DOMAIN ram \ {gone}
      /\ \A q \in DOMAIN r : r[q].used = ram[q].used
  BY DEF Swallowed
<1>3. l \in DOMAIN ram /\ (l = MEM_SIZE \/ ~ram[l].used) /\ l \in Nat
  BY RamFacts DEF Lowest
<1>4. l <= p
  BY DEF Lowest
<1>5. l # gone
  BY <1>1, <1>3, <1>4
<1>6. Lowest(r, l)
  BY <1>2, <1>3, <1>5 DEF Lowest
<1> QED BY <1>5, <1>6

\* What is in use in r is in use in ram, with the same extent, and is not p;
\* and nothing but p is missing.
UsedBut(ram, p, r) ==
    /\ \A q \in DOMAIN ram : ram[q].used /\ q # p =>
          q \in DOMAIN r /\ r[q].used /\ r[q].next = ram[q].next
    /\ \A q \in DOMAIN r : r[q].used => q \in DOMAIN ram /\ ram[q].used /\ q # p

\* Swallowing an unused struct leaves the blocks alone.
LEMMA MergeUsed ==
    ASSUME NEW ram, RamOK(ram), NEW a \in DOMAIN ram, a # MEM_SIZE,
           NEW gone, gone = ram[a].next, ~ram[a].used, ~ram[gone].used,
           NEW r, Swallowed(ram, a, gone, r),
           NEW old, NEW p, UsedBut(old, p, ram)
    PROVE  UsedBut(old, p, r)
<1>1. /\ DOMAIN r = DOMAIN ram \ {gone}
      /\ \A q \in DOMAIN r : r[q].used = ram[q].used
      /\ \A q \in DOMAIN r : q # a => r[q].next = ram[q].next
  BY DEF Swallowed
<1>2. ASSUME NEW q \in DOMAIN old, old[q].used, q # p
      PROVE  q \in DOMAIN r /\ r[q].used /\ r[q].next = old[q].next
  <2>1. q \in DOMAIN ram /\ ram[q].used /\ ram[q].next = old[q].next
    BY <1>2 DEF UsedBut
  <2>2. q # gone /\ q # a
    BY <2>1
  <2> QED BY <1>1, <2>1, <2>2
<1>3. ASSUME NEW q \in DOMAIN r, r[q].used
      PROVE  q \in DOMAIN old /\ old[q].used /\ q # p
  <2>1. q \in DOMAIN ram /\ ram[q].used
    BY <1>1, <1>3
  <2> QED BY <2>1 DEF UsedBut
<1> QED BY <1>2, <1>3 DEF UsedBut

\* Unused structs are apart, but for p and the one before it.
ApartBut(ram, p) ==
    \A q \in DOMAIN ram : ~ram[q].used /\ q # p /\ ram[q].next # p => ram[ram[q].next].used

\* The struct at p is marked unused.
LEMMA Marked ==
    ASSUME NEW ram, NEW l, RamOK(ram), Apart(ram), Lowest(ram, l),
           NEW p \in DOMAIN ram, p # MEM_SIZE, ram[p].used,
           NEW r, r = [ram EXCEPT ![p].used = FALSE]
    PROVE  /\ RamOK(r) /\ DOMAIN r = DOMAIN ram
           /\ ~r[p].used /\ ApartBut(r, p) /\ UsedBut(ram, p, r)
           /\ Lowest(r, IF p < l THEN p ELSE l)
<1> DEFINE D == DOMAIN ram
<1>1. ram \in [D -> StructMem]
  BY DEF RamOK
<1>2. /\ r \in [D -> StructMem] /\ DOMAIN r = D
      /\ \A q \in D : /\ r[q].used = IF q = p THEN FALSE ELSE ram[q].used
                      /\ r[q].next = ram[q].next
                      /\ r[q].prev = ram[q].prev
  BY <1>1 DEF StructMem
<1> HIDE DEF D
<1>3. RamOK(r)
  <2>1. Ordered(r)
    BY <1>2 DEF RamOK, Ordered, D
  <2> QED BY <1>2, <2>1 DEF RamOK, D
<1>4. ~r[p].used
  BY <1>2 DEF D
<1>5. \A q \in D : ram[q].next \in D
  BY RamFacts DEF D
<1>6. ApartBut(r, p)
  BY <1>2, <1>5 DEF Apart, ApartBut, D
<1>7. UsedBut(ram, p, r)
  BY <1>2 DEF UsedBut, D
<1>8. l \in D /\ l \in Nat /\ p \in Nat
  BY RamFacts DEF Lowest, D
<1>9. Lowest(r, IF p < l THEN p ELSE l)
  <2>1. CASE p < l
    <3>1. \A q \in D : ~r[q].used => p <= q
      <4> SUFFICES ASSUME NEW q \in D, ~r[q].used PROVE p <= q
        OBVIOUS
      <4>1. q \in Nat
        BY RamFacts DEF D
      <4>2. q = p \/ l <= q
        BY <1>2 DEF Lowest, D
      <4> QED BY <1>8, <2>1, <4>1, <4>2
    <3>2. Lowest(r, p)
      BY <1>2, <1>4, <3>1 DEF Lowest, D
    <3> QED BY <2>1, <3>2
  <2>2. CASE ~(p < l)
    <3>1. l # p
      BY <2>2, MemAssumption DEF Lowest
    <3>2. l <= p
      BY <1>8, <2>2
    <3>3. l = MEM_SIZE \/ ~r[l].used
      BY <1>2, <1>8, <3>1 DEF Lowest, D
    <3>4. \A q \in D : ~r[q].used => l <= q
      BY <1>2, <3>2 DEF Lowest, D
    <3>5. Lowest(r, l)
      BY <1>2, <1>8, <3>3, <3>4 DEF Lowest
    <3> QED BY <2>2, <3>5
  <2> QED BY <2>1, <2>2
<1> QED BY <1>2, <1>3, <1>4, <1>6, <1>7, <1>9 DEF D

\* The first half of plug_holes.
Forward(h, p) ==
    LET nmem == h.ram[p].next
    IN  IF nmem # p /\ ~h.ram[nmem].used /\ nmem # MEM_SIZE THEN Merge(h, p, nmem) ELSE h

\* The heap while a hole at p is to be joined with the one before.
Half(ram, p, l) ==
    /\ RamOK(ram) /\ Lowest(ram, l)
    /\ p \in DOMAIN ram /\ ~ram[p].used /\ ApartBut(ram, p)
    /\ ram[ram[p].next].used

\* It joins the hole with the one after it, if any.
LEMMA ForwardHalf ==
    ASSUME NEW h, NEW p, RamOK(h.ram), Lowest(h.ram, h.lfree),
           p \in DOMAIN h.ram, p # MEM_SIZE, ~h.ram[p].used, ApartBut(h.ram, p),
           NEW old, UsedBut(old, p, h.ram)
    PROVE  /\ Half(Forward(h, p).ram, p, Forward(h, p).lfree)
           /\ UsedBut(old, p, Forward(h, p).ram)
<1>1. PICK ram, l, nmem : ram = h.ram /\ l = h.lfree /\ nmem = ram[p].next
  OBVIOUS
<1>2. /\ p \in Nat /\ nmem \in Nat /\ p < nmem /\ nmem \in DOMAIN ram
      /\ MEM_SIZE \in DOMAIN ram /\ ram[MEM_SIZE].used
  BY <1>1, RamFacts DEF RamOK
<1>3. CASE ram[nmem].used
  <2>1. Forward(h, p) = h
    BY <1>1, <1>3 DEF Forward
  <2> QED BY <1>1, <1>3, <2>1 DEF Half
<1>4. CASE ~ram[nmem].used
  <2>1. nmem # MEM_SIZE /\ nmem # p
    BY <1>2, <1>4
  <2>2. Forward(h, p) = Merge(h, p, nmem)
    BY <1>1, <1>4, <2>1 DEF Forward
  <2>3. PICK r, k : r = Merge(h, p, nmem).ram /\ k = Merge(h, p, nmem).lfree
    OBVIOUS
  <2>4. k = IF l = nmem THEN p ELSE l
    BY <1>1, <2>3 DEF Merge
  <2>5. Swallowed(ram, p, nmem, r) /\ RamOK(r)
    BY <1>1, <2>1, <2>3, MergeOK
  <2>6. Lowest(r, k)
    BY <1>1, <1>4, <2>1, <2>4, <2>5, MergeLowest
  <2>7. UsedBut(old, p, r)
    BY <1>1, <1>4, <2>5, MergeUsed
  <2>8. /\ DOMAIN r = DOMAIN ram \ {nmem}
        /\ \A q \in DOMAIN r : r[q].used = ram[q].used
        /\ r[p].next = ram[nmem].next
        /\ \A q \in DOMAIN r : q # p => r[q].next = ram[q].next
    BY <1>1, <1>2, <2>5 DEF Swallowed
  <2>9. p \in DOMAIN r /\ ~r[p].used
    BY <1>1, <2>1, <2>8
  <2>10. ram[nmem].next # p /\ ram[nmem].next # nmem /\ ram[nmem].next \in DOMAIN ram
    BY <1>1, <1>2, <2>1, RamFacts
  <2>11. ram[ram[nmem].next].used
    BY <1>1, <1>2, <1>4, <2>1, <2>10 DEF ApartBut
  <2>12. r[r[p].next].used
    BY <2>8, <2>10, <2>11
  <2>13. ApartBut(r, p)
    <3> SUFFICES ASSUME NEW q \in DOMAIN r, ~r[q].used, q # p, r[q].next # p
                 PROVE  r[r[q].next].used
      BY DEF ApartBut
    <3>1. q \in DOMAIN ram /\ ~ram[q].used /\ r[q].next = ram[q].next
      BY <2>8
    <3>2. ram[ram[q].next].used /\ ram[q].next \in DOMAIN ram
      BY <1>1, <3>1, RamFacts DEF ApartBut
    <3>3. ram[q].next # nmem
      BY <1>4, <3>2
    <3> QED BY <2>8, <3>1, <3>2, <3>3
  <2> QED BY <2>2, <2>3, <2>5, <2>6, <2>7, <2>9, <2>12, <2>13 DEF Half
<1> QED BY <1>3, <1>4

Backward(h, p) ==
    LET pmem == h.ram[p].prev
    IN  IF pmem # p /\ ~h.ram[pmem].used THEN Merge(h, pmem, p) ELSE h

\* The second half joins it with the one before it, if any.
LEMMA BackwardOK ==
    ASSUME NEW h, NEW p, Half(h.ram, p, h.lfree), p # MEM_SIZE, NEW old, UsedBut(old, p, h.ram)
    PROVE  HeapOK(Backward(h, p)) /\ UsedBut(old, p, Backward(h, p).ram)
<1>1. PICK ram, l, pmem : ram = h.ram /\ l = h.lfree /\ pmem = ram[p].prev
  OBVIOUS
<1>2. /\ RamOK(ram) /\ Lowest(ram, l)
      /\ p \in DOMAIN ram /\ ~ram[p].used /\ ApartBut(ram, p)
      /\ ram[ram[p].next].used
  BY <1>1 DEF Half
<1>3. p \in Nat /\ ram[p].next \in DOMAIN ram
  BY <1>2, RamFacts
<1>4. CASE p = 0 \/ ram[pmem].used
  <2>1. pmem = p \/ ram[pmem].used
    BY <1>1, <1>2, <1>4 DEF RamOK
  <2>2. Backward(h, p) = h
    BY <1>1, <2>1 DEF Backward
  <2>3. Apart(ram)
    <3> SUFFICES ASSUME NEW q \in DOMAIN ram, ~ram[q].used PROVE ram[ram[q].next].used
      BY DEF Apart
    <3>1. CASE q = p
      BY <1>2, <3>1
    <3>2. CASE q # p /\ ram[q].next # p
      BY <1>2, <3>2 DEF ApartBut
    <3>3. CASE ram[q].next = p
      <4>1. q # MEM_SIZE /\ q \in Nat /\ q < p
        BY <1>2, <3>3, RamFacts DEF RamOK
      <4>2. ram[p].prev = q
        BY <1>2, <3>3, <4>1, OnePredecessor
      <4>3. p = 0
        BY <1>1, <1>4, <4>2
      <4> QED BY <4>1, <4>3
    <3> QED BY <3>1, <3>2, <3>3
  <2> QED BY <1>1, <1>2, <2>2, <2>3 DEF HeapOK
<1>5. CASE p # 0 /\ ~ram[pmem].used
  <2>1. PICK a \in DOMAIN ram : a # MEM_SIZE /\ ram[a].next = p /\ a < p
    BY <1>2, <1>5, Predecessor
  <2>2. a = pmem /\ a # p
    BY <1>1, <1>2, <1>3, <2>1, OnePredecessor
  <2>3. Backward(h, p) = Merge(h, a, p)
    BY <1>1, <1>5, <2>2 DEF Backward
  <2>4. PICK r, k : r = Merge(h, a, p).ram /\ k = Merge(h, a, p).lfree
    OBVIOUS
  <2>5. k = IF l = p THEN a ELSE l
    BY <1>1, <2>4 DEF Merge
  <2>6. Swallowed(ram, a, p, r) /\ RamOK(r)
    BY <1>1, <1>2, <2>1, <2>4, MergeOK
  <2>7. Lowest(r, k)
    BY <1>2, <1>5, <2>1, <2>2, <2>5, <2>6, MergeLowest
  <2>8. UsedBut(old, p, r)
    BY <1>1, <1>2, <1>5, <2>1, <2>2, <2>6, MergeUsed
  <2>9. /\ DOMAIN r = DOMAIN ram \ {p}
        /\ \A q \in DOMAIN r : r[q].used = ram[q].used
        /\ r[a].next = ram[p].next
        /\ \A q \in DOMAIN r : q # a => r[q].next = ram[q].next
    BY <2>1, <2>2, <2>6 DEF Swallowed
  <2>10. Apart(r)
    <3> SUFFICES ASSUME NEW q \in DOMAIN r, ~r[q].used PROVE r[r[q].next].used
      BY DEF Apart
    <3>1. CASE q = a
      <4>1. ram[p].next # p
        BY <1>2
      <4> QED BY <1>2, <1>3, <2>9, <3>1, <4>1
    <3>2. CASE q # a
      <4>1. q \in DOMAIN ram /\ ~ram[q].used /\ q # p /\ r[q].next = ram[q].next
        BY <2>9, <3>2
      <4>2. ram[q].next # p
        <5>1. SUFFICES ASSUME ram[q].next = p PROVE FALSE
          OBVIOUS
        <5>2. q # MEM_SIZE
          BY <1>2, <5>1 DEF RamOK
        <5>3. ram[p].prev = q
          BY <1>2, <4>1, <5>1, <5>2, OnePredecessor
        <5> QED BY <1>1, <2>2, <3>2, <5>3
      <4>3. ram[ram[q].next].used /\ ram[q].next \in DOMAIN ram
        BY <1>2, <4>1, <4>2, RamFacts DEF ApartBut
      <4> QED BY <2>9, <4>1, <4>2, <4>3
    <3> QED BY <3>1, <3>2
  <2> QED BY <2>3, <2>4, <2>6, <2>7, <2>8, <2>10 DEF HeapOK
<1> QED BY <1>4, <1>5

\* The blocks in use, and their extent, after p was given back.
LEMMA mem_freeOK ==
    ASSUME NEW h, HeapOK(h), NEW p \in Blocks(h)
    PROVE  /\ HeapOK(mem_free(h, p))
           /\ Blocks(mem_free(h, p)) = Blocks(h) \ {p}
           /\ \A q \in Blocks(h) \ {p} : DataSize(mem_free(h, p), q) = DataSize(h, q)
<1>1. PICK ram, l : ram = h.ram /\ l = h.lfree
  OBVIOUS
<1>2. RamOK(ram) /\ Apart(ram) /\ Lowest(ram, l) /\ p \in DOMAIN ram /\ ram[p].used /\ p # MEM_SIZE
  BY <1>1 DEF HeapOK, Blocks
<1>3. PICK r : r = [ram EXCEPT ![p].used = FALSE]
  OBVIOUS
<1>4. PICK h1 : h1 = [ram |-> r, lfree |-> IF p < l THEN p ELSE l]
  OBVIOUS
<1>5. h1.ram = r /\ h1.lfree = IF p < l THEN p ELSE l
  BY <1>4
<1>6. /\ RamOK(h1.ram) /\ p \in DOMAIN h1.ram
      /\ ~h1.ram[p].used /\ ApartBut(h1.ram, p) /\ UsedBut(ram, p, h1.ram)
      /\ Lowest(h1.ram, h1.lfree)
  <2>1. /\ RamOK(r) /\ DOMAIN r = DOMAIN ram
        /\ ~r[p].used /\ ApartBut(r, p) /\ UsedBut(ram, p, r)
        /\ Lowest(r, IF p < l THEN p ELSE l)
    BY <1>2, <1>3, Marked
  <2> QED BY <1>2, <1>5, <2>1
<1>7. PICK h2 : h2 = Forward(h1, p)
  OBVIOUS
<1>8. Half(h2.ram, p, h2.lfree) /\ UsedBut(ram, p, h2.ram)
  BY <1>2, <1>6, <1>7, ForwardHalf
<1>9. PICK h3 : h3 = Backward(h2, p)
  OBVIOUS
<1>10. HeapOK(h3) /\ UsedBut(ram, p, h3.ram)
  BY <1>2, <1>8, <1>9, BackwardOK
<1>11. mem_free(h, p) = plug_holes(h1, p)
  BY <1>1, <1>3, <1>4 DEF mem_free
<1>12. mem_free(h, p) = h3
  BY <1>7, <1>9, <1>11, Zenon DEF plug_holes, Forward, Backward
<1>13. Blocks(h3) = Blocks(h) \ {p}
  BY <1>1, <1>10 DEF Blocks, UsedBut
<1>14. \A q \in Blocks(h) \ {p} : DataSize(h3, q) = DataSize(h, q)
  BY <1>1, <1>10 DEF Blocks, UsedBut, DataSize
<1> QED BY <1>10, <1>12, <1>13, <1>14

-----------------------------------------------------------------------------
(* A new unused struct.                                                    *)

Parted(ram, p, ptr2, r) ==
    /\ DOMAIN r = DOMAIN ram \cup {ptr2} /\ r \in [DOMAIN ram \cup {ptr2} -> StructMem]
    /\ \A q \in DOMAIN r :
         /\ r[q].next = IF q = ptr2 THEN ram[p].next ELSE IF q = p THEN ptr2 ELSE ram[q].next
         /\ r[q].prev = IF q = ptr2 THEN p
                        ELSE IF q = ram[p].next /\ q # MEM_SIZE THEN ptr2 ELSE ram[q].prev
         /\ r[q].used = IF q = ptr2 THEN FALSE ELSE ram[q].used

\* a is ram, but for the two links that Split writes.
LikeBut(ram, p, a) ==
    /\ a \in [DOMAIN ram -> StructMem]
    /\ \A q \in DOMAIN ram :
         /\ a[q].used = ram[q].used
         /\ q # p => a[q].next = ram[q].next
         /\ q = MEM_SIZE \/ q # ram[p].next => a[q].prev = ram[q].prev

\* What Split writes, field by field, whether or not a struct was cut out before.
LEMMA SplitParts ==
    ASSUME NEW ram, NEW D, D = DOMAIN ram, NEW p \in D, NEW next, next = ram[p].next, next \in D,
           next \in 0 .. MEM_SIZE, p # next, p \in 0 .. MEM_SIZE,
           NEW ptr2 \in 0 .. MEM_SIZE, ptr2 \notin D,
           NEW a, LikeBut(ram, p, a)
    PROVE  Parted(ram, p, ptr2, Split(a, p, ptr2, next))
<1> DEFINE E == D \cup {ptr2}
<1>1. a \in [D -> StructMem]
  BY DEF LikeBut
<1>2. PICK b : b = [a EXCEPT ![p].next = ptr2]
  OBVIOUS
<1>3. /\ b \in [D -> StructMem]
      /\ \A q \in D : /\ b[q].next = IF q = p THEN ptr2 ELSE a[q].next
                      /\ b[q].prev = a[q].prev
                      /\ b[q].used = a[q].used
  BY <1>1, <1>2 DEF StructMem
<1>4. PICK c : c = Put(b, ptr2, Struct(next, p, FALSE))
  OBVIOUS
<1>5. Struct(next, p, FALSE) \in StructMem
  BY DEF Struct, StructMem
<1>6. /\ c \in [E -> StructMem]
      /\ \A q \in E : q # ptr2 => q \in D /\ c[q] = b[q]
      /\ c[ptr2] = Struct(next, p, FALSE)
  BY <1>3, <1>4, <1>5 DEF Put
<1>7. c[ptr2].next = next /\ c[ptr2].prev = p /\ c[ptr2].used = FALSE
  BY <1>6 DEF Struct
<1>8. PICK r : r = Split(a, p, ptr2, next)
  OBVIOUS
<1>9. r = SetPrev(c, next, ptr2)
  BY <1>2, <1>4, <1>8 DEF Split
<1>10. next \in E /\ next # ptr2
  OBVIOUS
<1> HIDE DEF E
<1>11. /\ r \in [E -> StructMem]
       /\ \A q \in E : /\ r[q].prev = IF q = next /\ q # MEM_SIZE THEN ptr2 ELSE c[q].prev
                       /\ r[q].next = c[q].next
                       /\ r[q].used = c[q].used
  <2>1. CASE next = MEM_SIZE
    <3>1. r = c
      BY <1>9, <2>1 DEF SetPrev
    <3> QED BY <1>6, <2>1, <3>1
  <2>2. CASE next # MEM_SIZE
    <3>1. r = [c EXCEPT ![next].prev = ptr2]
      BY <1>9, <2>2 DEF SetPrev
    <3> QED BY <1>6, <1>10, <2>2, <3>1 DEF StructMem
  <2> QED BY <2>1, <2>2
<1>12. ASSUME NEW q \in E
       PROVE  /\ r[q].next = IF q = ptr2 THEN next ELSE IF q = p THEN ptr2 ELSE ram[q].next
              /\ r[q].prev = IF q = ptr2 THEN p
                             ELSE IF q = next /\ q # MEM_SIZE THEN ptr2 ELSE ram[q].prev
              /\ r[q].used = IF q = ptr2 THEN FALSE ELSE ram[q].used
  <2>1. CASE q = ptr2
    BY <1>7, <1>10, <1>11, <2>1
  <2>2. CASE q # ptr2
    <3>1. q \in D /\ c[q] = b[q]
      BY <1>6, <2>2
    <3>2. /\ a[q].used = ram[q].used
          /\ q # p => a[q].next = ram[q].next
          /\ q = MEM_SIZE \/ q # next => a[q].prev = ram[q].prev
      BY <3>1 DEF LikeBut
    <3> QED BY <1>3, <1>11, <2>2, <3>1, <3>2
  <2> QED BY <2>1, <2>2
<1> QED BY <1>8, <1>11, <1>12 DEF E, Parted

\* A struct that leaves room on both sides keeps the list in order.
LEMMA PartedOK ==
    ASSUME NEW ram, RamOK(ram), NEW p \in DOMAIN ram, p # MEM_SIZE,
           NEW ptr2 \in Nat, p + SIZEOF_STRUCT_MEM + MIN_SIZE <= ptr2,
           ptr2 + SIZEOF_STRUCT_MEM + MIN_SIZE <= ram[p].next,
           NEW r, Parted(ram, p, ptr2, r)
    PROVE  RamOK(r)
<1> DEFINE D == DOMAIN ram
<1>0. PICK next : next = ram[p].next
  OBVIOUS
<1>1. /\ p \in Nat /\ next \in D /\ next \in Nat /\ next <= MEM_SIZE
      /\ MEM_SIZE \in Nat /\ SIZEOF_STRUCT_MEM \in Nat /\ MIN_SIZE \in Nat
      /\ SIZEOF_STRUCT_MEM >= 1 /\ MIN_SIZE >= 1
  BY <1>0, RamFacts
<1>2. p < ptr2 /\ ptr2 < next /\ ptr2 \in 0 .. MEM_SIZE /\ ptr2 # MEM_SIZE /\ ptr2 # 0 /\ p # next
  BY <1>0, <1>1
<1>3. \A q \in D : ~(p < q /\ q < next)
  BY <1>0 DEF RamOK, Ordered
<1>4. ptr2 \notin D
  BY <1>2, <1>3
<1>5. /\ DOMAIN r = D \cup {ptr2} /\ r \in [D \cup {ptr2} -> StructMem]
      /\ \A q \in DOMAIN r :
         /\ r[q].next = IF q = ptr2 THEN next ELSE IF q = p THEN ptr2 ELSE ram[q].next
         /\ r[q].prev = IF q = ptr2 THEN p
                        ELSE IF q = next /\ q # MEM_SIZE THEN ptr2 ELSE ram[q].prev
         /\ r[q].used = IF q = ptr2 THEN FALSE ELSE ram[q].used
  BY <1>0 DEF Parted
<1>6. \A q \in D : q \in Nat
  BY RamFacts
<1>7. 0 \in D /\ MEM_SIZE \in D /\ D \subseteq 0 .. MEM_SIZE
  BY DEF RamOK
<1>7a. /\ ptr2 \in DOMAIN r /\ next \in DOMAIN r /\ p \in DOMAIN r /\ p \in D
       /\ \A q \in D : q \in DOMAIN r /\ q # ptr2
  BY <1>1, <1>4, <1>5
<1>7b. r[ptr2].next = next /\ r[ptr2].prev = p /\ r[p].next = ptr2 /\ (next # MEM_SIZE => r[next].prev = ptr2)
  BY <1>1, <1>2, <1>5, <1>7a
<1> HIDE DEF D
<1>7c. ASSUME NEW s \in DOMAIN r PROVE s \in Nat /\ ~(p < s /\ s < ptr2) /\ ~(ptr2 < s /\ s < next)
  <2>1. CASE s = ptr2
    BY <1>1, <2>1
  <2>2. CASE s \in D
    <3>1. s \in Nat /\ ~(p < s /\ s < next)
      BY <1>3, <1>6, <2>2
    <3>2. \A u, v, w, x \in Nat : u < v /\ v < w /\ ~(u < x /\ x < w) => ~(u < x /\ x < v) /\ ~(v < x /\ x < w)
      OBVIOUS
    <3> QED BY <1>1, <1>2, <3>1, <3>2
  <2> QED BY <1>5, <2>1, <2>2
<1>8. Ordered(r)
  <2> SUFFICES ASSUME NEW q \in DOMAIN r \ {MEM_SIZE}
               PROVE  /\ r[q].next \in DOMAIN r
                      /\ q + SIZEOF_STRUCT_MEM + MIN_SIZE <= r[q].next
                      /\ \A s \in DOMAIN r : ~(q < s /\ s < r[q].next)
                      /\ r[q].next # MEM_SIZE => r[r[q].next].prev = q
    BY DEF Ordered
  <2>1. CASE q = ptr2
    BY <1>0, <1>7a, <1>7b, <1>7c, <2>1
  <2>2. CASE q = p
    BY <1>7a, <1>7b, <1>7c, <2>2
  <2>3. CASE q # p /\ q # ptr2
    <3>0. PICK x : x = ram[q].next
      OBVIOUS
    <3>1. q \in D /\ q # MEM_SIZE /\ r[q].next = x /\ q \in Nat
      BY <1>5, <1>6, <2>3, <3>0
    <3>2. /\ x \in D
          /\ q + SIZEOF_STRUCT_MEM + MIN_SIZE <= x
          /\ \A s \in D : ~(q < s /\ s < x)
          /\ x # MEM_SIZE => ram[x].prev = q
      BY <3>0, <3>1 DEF RamOK, Ordered, D
    <3>3. x # MEM_SIZE => x # next
      <4>1. SUFFICES ASSUME x = next, x # MEM_SIZE PROVE FALSE
        OBVIOUS
      <4>2. ram[next].prev = p
        BY <1>0, <4>1 DEF RamOK, Ordered
      <4> QED BY <2>3, <3>2, <4>1, <4>2
    <3>4. ~(q < ptr2 /\ ptr2 < x)
      <4>1. SUFFICES ASSUME q < ptr2, ptr2 < x PROVE FALSE
        OBVIOUS
      <4>2. ~(q < p /\ p < x) /\ x \in Nat
        BY <1>6, <3>2 DEF D
      <4>3. ~(p < q /\ q < next)
        BY <1>3, <3>1
      <4> QED BY <1>1, <1>2, <2>3, <3>1, <4>1, <4>2, <4>3
    <3>5. x # MEM_SIZE => r[x].prev = q
      <4>1. x \in DOMAIN r /\ x # ptr2
        BY <1>4, <1>5, <3>2
      <4> QED BY <1>5, <3>2, <3>3, <4>1
    <3>6. ASSUME NEW s \in DOMAIN r PROVE ~(q < s /\ s < x)
      <4>1. s = ptr2 \/ s \in D
        BY <1>5
      <4> QED BY <3>2, <3>4, <4>1
    <3>7. x \in DOMAIN r
      BY <1>5, <3>2
    <3> QED BY <3>1, <3>2, <3>5, <3>6, <3>7
  <2> QED BY <2>1, <2>2, <2>3
<1>9. r[MEM_SIZE].next = MEM_SIZE /\ r[MEM_SIZE].used /\ r[0].prev = 0
  <2>1. 0 \in DOMAIN r /\ MEM_SIZE \in DOMAIN r /\ next # 0
    BY <1>1, <1>2, <1>5, <1>7
  <2>2. ram[MEM_SIZE].next = MEM_SIZE /\ ram[MEM_SIZE].used /\ ram[0].prev = 0
    BY DEF RamOK
  <2> QED BY <1>2, <1>5, <2>1, <2>2
<1>10. DOMAIN r \subseteq 0 .. MEM_SIZE /\ 0 \in DOMAIN r /\ MEM_SIZE \in DOMAIN r /\ r \in [DOMAIN r -> StructMem]
  BY <1>2, <1>5, <1>7
<1> QED BY <1>8, <1>9, <1>10 DEF RamOK

-----------------------------------------------------------------------------
(* mem_malloc.                                                             *)

\* The search for the new lfree finds the lowest unused struct.
LEMMA FirstFreeLowest ==
    ASSUME NEW r, RamOK(r), NEW p \in DOMAIN r,
           \A q \in DOMAIN r : ~r[q].used => p <= q
    PROVE  Lowest(r, FirstFree(r, p))
<1>1. PICK at : at = Walk(r, p)
  OBVIOUS
<1>2. PICK K : K = {k \in 0 .. MEM_SIZE : at[k] = MEM_SIZE \/ ~r[at[k]].used}
  OBVIOUS
<1>3. MEM_SIZE \in Nat /\ MEM_SIZE \in 0 .. MEM_SIZE
  BY RamFacts
<1>4. \A k \in 0 .. MEM_SIZE : at[k] \in DOMAIN r /\ (k <= at[k] \/ at[k] = MEM_SIZE)
  BY <1>1, WalkOn DEF OnWalk
<1>5. at[MEM_SIZE] = MEM_SIZE
  <2>1. at[MEM_SIZE] \in Nat /\ at[MEM_SIZE] <= MEM_SIZE
    BY <1>3, <1>4, RamFacts
  <2> QED BY <1>3, <1>4, <2>1
<1>6. K \in SUBSET Nat /\ MEM_SIZE \in K
  BY <1>2, <1>3, <1>5
<1>7. PICK i : i = Min(K)
  OBVIOUS
<1>8. i \in K /\ \A y \in K : i <= y
  BY <1>6, <1>7, MinIs
<1>9. i \in 0 .. MEM_SIZE /\ (at[i] = MEM_SIZE \/ ~r[at[i]].used) /\ at[i] \in DOMAIN r
  BY <1>2, <1>4, <1>8
<1>10. ASSUME NEW q \in DOMAIN r, ~r[q].used PROVE at[i] <= q
  <2>1. PICK j \in 0 .. MEM_SIZE : at[j] = q
    BY <1>1, <1>10, WalkMeets
  <2>2. j \in K
    BY <1>2, <1>10, <2>1
  <2>3. i \in 0 .. j
    BY <1>8, <1>9, <2>1, <2>2
  <2> QED BY <1>1, <2>1, <2>3, WalkUp
<1>11. FirstFree(r, p) = at[i]
  BY <1>1, <1>2, <1>7 DEF FirstFree
<1> QED BY <1>9, <1>10, <1>11 DEF Lowest

\* The struct at p has been made as small as it can be.
Made(ram, p, size, r) ==
    /\ RamOK(r) /\ DOMAIN ram \subseteq DOMAIN r
    /\ \A q \in DOMAIN ram : /\ r[q].used = ram[q].used
                             /\ q # p => r[q].next = ram[q].next
    /\ r[p].next - p - SIZEOF_STRUCT_MEM >= size
    /\ \A q \in DOMAIN r \ DOMAIN ram : ~r[q].used /\ p < q
    /\ \A q \in DOMAIN r : ~r[q].used /\ q # p => r[r[q].next].used

\* Splitting off the rest leaves what was asked for.
LEMMA SplitMade ==
    ASSUME NEW ram, RamOK(ram), Apart(ram), NEW p \in DOMAIN ram, p # MEM_SIZE, ~ram[p].used,
           NEW size \in Nat, size >= MIN_SIZE,
           ram[p].next - p - SIZEOF_STRUCT_MEM >= size + SIZEOF_STRUCT_MEM + MIN_SIZE,
           NEW ptr2, ptr2 = p + SIZEOF_STRUCT_MEM + size
    PROVE  Made(ram, p, size, Split(ram, p, ptr2, ram[p].next))
<1>1. PICK next : next = ram[p].next
  OBVIOUS
<1>2. /\ p \in Nat /\ p \in 0 .. MEM_SIZE /\ next \in DOMAIN ram /\ next \in Nat /\ next \in 0 .. MEM_SIZE
      /\ MEM_SIZE \in Nat /\ SIZEOF_STRUCT_MEM \in Nat /\ MIN_SIZE \in Nat
      /\ SIZEOF_STRUCT_MEM >= 1 /\ MIN_SIZE >= 1
  BY <1>1, RamFacts
<1>3. /\ ptr2 \in Nat /\ p + SIZEOF_STRUCT_MEM + MIN_SIZE <= ptr2
      /\ ptr2 + SIZEOF_STRUCT_MEM + MIN_SIZE <= next
      /\ ptr2 - p - SIZEOF_STRUCT_MEM >= size
      /\ p < ptr2 /\ ptr2 < next
  BY <1>1, <1>2
<1>4. ptr2 \in 0 .. MEM_SIZE /\ p # next /\ p # ptr2
  BY <1>2, <1>3
<1>5. ptr2 \notin DOMAIN ram
  BY <1>1, <1>3 DEF RamOK, Ordered
<1>6. LikeBut(ram, p, ram)
  BY DEF LikeBut, RamOK
<1>7. PICK r : r = Split(ram, p, ptr2, next)
  OBVIOUS
<1>8. Parted(ram, p, ptr2, r)
  BY <1>1, <1>2, <1>4, <1>5, <1>6, <1>7, SplitParts
<1>9. RamOK(r)
  BY <1>1, <1>3, <1>8, PartedOK
<1>10. DOMAIN r = DOMAIN ram \cup {ptr2}
  BY <1>8 DEF Parted
<1>11. /\ r[ptr2].next = next /\ ~r[ptr2].used /\ r[p].next = ptr2
       /\ \A q \in DOMAIN ram : r[q].used = ram[q].used /\ (q # p => r[q].next = ram[q].next)
  BY <1>1, <1>4, <1>5, <1>8 DEF Parted
<1>12. ASSUME NEW q \in DOMAIN r, ~r[q].used, q # p PROVE r[r[q].next].used
  <2>1. CASE q = ptr2
    <3>1. ram[next].used
      BY <1>1 DEF Apart
    <3> QED BY <1>2, <1>11, <2>1, <3>1
  <2>2. CASE q \in DOMAIN ram
    <3>1. r[q].next = ram[q].next /\ ~ram[q].used
      BY <1>11, <1>12, <2>2
    <3>2. ram[ram[q].next].used /\ ram[q].next \in DOMAIN ram
      BY <2>2, <3>1, RamFacts DEF Apart
    <3> QED BY <1>11, <3>1, <3>2
  <2> QED BY <1>10, <2>1, <2>2
<1>13. \A q \in DOMAIN r \ DOMAIN ram : ~r[q].used /\ p < q
  BY <1>3, <1>10, <1>11
<1>14. r[p].next - p - SIZEOF_STRUCT_MEM >= size
  BY <1>3, <1>11
<1>15. Made(ram, p, size, r)
  BY <1>9, <1>10, <1>11, <1>12, <1>13, <1>14 DEF Made
<1> QED BY <1>1, <1>7, <1>15

\* The struct at p is marked used.
TookIt(r, p, took, lf) ==
    /\ RamOK(took) /\ Apart(took) /\ DOMAIN took = DOMAIN r /\ took[p].used
    /\ \A q \in DOMAIN r : took[q].next = r[q].next /\ (q # p => took[q].used = r[q].used)
    /\ Lowest(took, lf)

\* Marking it used leaves a heap in order, lfree included.
LEMMA Taken ==
    ASSUME NEW ram, NEW l, RamOK(ram), Lowest(ram, l),
           NEW p \in DOMAIN ram, p # MEM_SIZE, ~ram[p].used, NEW size,
           NEW r, Made(ram, p, size, r),
           NEW took, took = [r EXCEPT ![p].used = TRUE],
           NEW lf, lf = IF p = l THEN FirstFree(took, p) ELSE l
    PROVE  TookIt(r, p, took, lf)
<1> DEFINE D == DOMAIN r
<1>1. r \in [D -> StructMem] /\ p \in D /\ RamOK(r)
  BY DEF RamOK, Made
<1>2. /\ took \in [D -> StructMem] /\ DOMAIN took = D
      /\ \A q \in D : /\ took[q].used = IF q = p THEN TRUE ELSE r[q].used
                      /\ took[q].next = r[q].next
                      /\ took[q].prev = r[q].prev
  BY <1>1 DEF StructMem
<1> HIDE DEF D
<1>3. RamOK(took)
  <2>1. Ordered(took)
    BY <1>1, <1>2 DEF RamOK, Ordered, D
  <2> QED BY <1>1, <1>2, <2>1 DEF RamOK, D
<1>4. \A q \in D : r[q].next \in D
  BY <1>1, RamFacts DEF D
<1>5. Apart(took)
  BY <1>2, <1>4 DEF Apart, Made, D
<1>6. l \in DOMAIN ram /\ l \in Nat /\ p \in Nat /\ l <= p
  BY RamFacts DEF Lowest
<1>7. ASSUME NEW q \in DOMAIN took, ~took[q].used PROVE l <= q /\ q # p /\ q \in Nat
  <2>1. q \in D /\ q # p /\ ~r[q].used
    BY <1>2, <1>7
  <2>2. q \in Nat
    BY <1>1, <2>1, RamFacts DEF D
  <2>3. CASE q \in DOMAIN ram
    BY <2>1, <2>2, <2>3 DEF Lowest, Made
  <2>4. CASE q \notin DOMAIN ram
    <3>1. p < q
      BY <2>1, <2>4 DEF Made, D
    <3> QED BY <1>6, <2>1, <2>2, <3>1
  <2> QED BY <2>3, <2>4
<1>8. Lowest(took, IF p = l THEN FirstFree(took, p) ELSE l)
  <2>1. CASE p = l
    <3>1. Lowest(took, FirstFree(took, p))
      BY <1>1, <1>2, <1>3, <1>7, <2>1, FirstFreeLowest
    <3> QED BY <2>1, <3>1
  <2>2. CASE p # l
    <3>1. l \in DOMAIN took /\ l \in D
      BY <1>2, <1>6 DEF Made, D
    <3>2. l = MEM_SIZE \/ ~took[l].used
      BY <1>2, <1>6, <2>2, <3>1 DEF Lowest, Made
    <3>3. Lowest(took, l)
      BY <1>7, <3>1, <3>2 DEF Lowest
    <3> QED BY <2>2, <3>3
  <2> QED BY <2>1, <2>2
<1> QED BY <1>1, <1>2, <1>3, <1>5, <1>8 DEF D, TookIt

\* The blocks in use, and their extent, after room was found.
LEMMA mem_mallocOK ==
    ASSUME NEW h, HeapOK(h), NEW asked \in Nat, NEW p, p = mem_malloc_at(h, asked), p # FAIL
    PROVE  /\ HeapOK(mem_malloc(h, asked))
           /\ p \in 0 .. MEM_SIZE /\ p \notin Blocks(h)
           /\ Blocks(mem_malloc(h, asked)) = Blocks(h) \cup {p}
           /\ DataSize(mem_malloc(h, asked), p) >= asked
           /\ \A q \in Blocks(h) : DataSize(mem_malloc(h, asked), q) = DataSize(h, q)
<1>1. PICK ram, l, size, at : ram = h.ram /\ l = h.lfree /\ size = AtLeastMin(asked) /\ at = Walk(ram, l)
  OBVIOUS
<1>2. RamOK(ram) /\ Apart(ram) /\ Lowest(ram, l) /\ l \in DOMAIN ram
  BY <1>1 DEF HeapOK, Lowest
<1>3. PICK k \in Fits(h, size, at) : p = at[k]
  BY <1>1, Found
<1>4. k \in 0 .. MEM_SIZE /\ ~ram[p].used /\ ram[p].next - p - SIZEOF_STRUCT_MEM >= size
  BY <1>1, <1>3 DEF Fits, DataSize
<1>5. p \in DOMAIN ram
  BY <1>1, <1>2, <1>3, <1>4, WalkOn DEF OnWalk
<1>6. p \in 0 .. MEM_SIZE /\ p \in Nat /\ MIN_SIZE \in Nat /\ SIZEOF_STRUCT_MEM \in Nat
  BY <1>2, <1>5, RamFacts
<1>7. p # MEM_SIZE
  BY <1>2, <1>4 DEF RamOK
<1>8. size \in Nat /\ size >= MIN_SIZE /\ size >= asked
  BY <1>1, <1>6 DEF AtLeastMin
<1>9. PICK ptr2 : ptr2 = p + SIZEOF_STRUCT_MEM + size
  OBVIOUS
<1>10. PICK r : r = IF DataSize(h, p) >= size + SIZEOF_STRUCT_MEM + MIN_SIZE
                    THEN Split(ram, p, ptr2, ram[p].next) ELSE ram
  OBVIOUS
<1>11. Made(ram, p, size, r)
  <2>1. CASE DataSize(h, p) >= size + SIZEOF_STRUCT_MEM + MIN_SIZE
    <3>1. ram[p].next - p - SIZEOF_STRUCT_MEM >= size + SIZEOF_STRUCT_MEM + MIN_SIZE
      BY <1>1, <2>1 DEF DataSize
    <3>2. Made(ram, p, size, Split(ram, p, ptr2, ram[p].next))
      BY <1>2, <1>4, <1>5, <1>7, <1>8, <1>9, <3>1, SplitMade
    <3> QED BY <1>10, <2>1, <3>2
  <2>2. CASE ~(DataSize(h, p) >= size + SIZEOF_STRUCT_MEM + MIN_SIZE)
    <3>1. r = ram
      BY <1>10, <2>2
    <3> QED BY <1>2, <1>4, <3>1 DEF Made, Apart
  <2> QED BY <2>1, <2>2
<1>12. PICK took : took = [r EXCEPT ![p].used = TRUE]
  OBVIOUS
<1>13. PICK lf : lf = IF p = l THEN FirstFree(took, p) ELSE l
  OBVIOUS
<1>14. /\ RamOK(took) /\ Apart(took) /\ DOMAIN took = DOMAIN r /\ took[p].used
       /\ \A q \in DOMAIN r : took[q].next = r[q].next /\ (q # p => took[q].used = r[q].used)
       /\ Lowest(took, lf)
  <2>1. TookIt(r, p, took, lf)
    BY <1>2, <1>4, <1>5, <1>7, <1>11, <1>12, <1>13, Taken
  <2> QED BY <2>1 DEF TookIt
<1>15. PICK g : g = mem_malloc(h, asked)
  OBVIOUS
<1>16. g = [ram |-> took, lfree |-> lf]
  BY <1>1, <1>9, <1>10, <1>12, <1>13, <1>15 DEF mem_malloc
<1>17. g.ram = took /\ g.lfree = lf
  BY <1>16
<1>18. HeapOK(g)
  BY <1>14, <1>17 DEF HeapOK
<1>19. p \notin Blocks(h)
  BY <1>1, <1>4 DEF Blocks
<1>20. Blocks(g) = Blocks(h) \cup {p}
  BY <1>1, <1>5, <1>7, <1>11, <1>14, <1>17 DEF Blocks, Made
<1>21. DataSize(g, p) >= asked
  <2>1. p \in DOMAIN r /\ r[p].next - p - SIZEOF_STRUCT_MEM >= size /\ RamOK(r)
    BY <1>5, <1>11 DEF Made
  <2>2. took[p].next = r[p].next /\ r[p].next \in Nat
    BY <1>14, <2>1, RamFacts
  <2> QED BY <1>6, <1>8, <1>17, <2>1, <2>2 DEF DataSize
<1>22. \A q \in Blocks(h) : DataSize(g, q) = DataSize(h, q)
  BY <1>1, <1>4, <1>11, <1>14, <1>17 DEF Blocks, DataSize, Made
<1> QED BY <1>6, <1>15, <1>18, <1>19, <1>20, <1>21, <1>22

-----------------------------------------------------------------------------
(* mem_trim.                                                               *)

\* The same is in use, and only p has another extent: up to ptr2.
Trimmed(ram, p, ptr2, r, lf) ==
    /\ RamOK(r) /\ Apart(r) /\ Lowest(r, lf)
    /\ r[p].next = ptr2
    /\ \A q \in DOMAIN ram : ram[q].used =>
          q \in DOMAIN r /\ r[q].used /\ (q # p => r[q].next = ram[q].next)
    /\ \A q \in DOMAIN r : r[q].used => q \in DOMAIN ram /\ ram[q].used

\* The hole after p is moved down.
LEMMA TrimMoves ==
    ASSUME NEW ram, NEW l, RamOK(ram), Apart(ram), Lowest(ram, l),
           NEW p \in DOMAIN ram, p # MEM_SIZE, ram[p].used,
           NEW mem2, mem2 = ram[p].next, ~ram[mem2].used,
           NEW ptr2 \in Nat, p + SIZEOF_STRUCT_MEM + MIN_SIZE <= ptr2, ptr2 < mem2,
           NEW r, r = Split(Cut(ram, mem2), p, ptr2, ram[mem2].next),
           NEW lf, lf = IF l = mem2 THEN ptr2 ELSE l
    PROVE  Trimmed(ram, p, ptr2, r, lf)
<1>1. PICK after : after = ram[mem2].next
  OBVIOUS
<1>2. /\ p \in Nat /\ p \in 0 .. MEM_SIZE /\ mem2 \in DOMAIN ram /\ mem2 \in Nat /\ mem2 <= MEM_SIZE /\ p < mem2
      /\ MEM_SIZE \in Nat /\ SIZEOF_STRUCT_MEM \in Nat /\ MIN_SIZE \in Nat
      /\ SIZEOF_STRUCT_MEM >= 1 /\ MIN_SIZE >= 1
  BY RamFacts
<1>3. mem2 # MEM_SIZE
  BY DEF RamOK
<1>4. /\ after \in DOMAIN ram /\ after \in Nat /\ after \in 0 .. MEM_SIZE
      /\ mem2 + SIZEOF_STRUCT_MEM + MIN_SIZE <= after /\ mem2 < after
  BY <1>1, <1>2, <1>3, RamFacts DEF RamOK, Ordered
<1>5. PICK h0, r0 : h0 = [ram |-> ram, lfree |-> l] /\ r0 = Merge(h0, p, mem2).ram
  OBVIOUS
<1>6. Swallowed(ram, p, mem2, r0) /\ RamOK(r0)
  <2>1. h0.ram = ram
    BY <1>5
  <2> QED BY <1>3, <1>5, <2>1, MergeOK
<1>7. /\ DOMAIN r0 = DOMAIN ram \ {mem2} /\ p \in DOMAIN r0 /\ after \in DOMAIN r0
      /\ r0[p].next = after
      /\ \A q \in DOMAIN r0 : /\ r0[q].used = ram[q].used
                              /\ q # p => r0[q].next = ram[q].next
                              /\ q = MEM_SIZE \/ q # after => r0[q].prev = ram[q].prev
  BY <1>1, <1>2, <1>4, <1>6 DEF Swallowed
<1>8. PICK a : a = Cut(ram, mem2)
  OBVIOUS
<1>9. LikeBut(r0, p, a)
  <2>1. ram \in [DOMAIN ram -> StructMem]
    BY DEF RamOK
  <2>2. a \in [DOMAIN ram \ {mem2} -> StructMem] /\ \A q \in DOMAIN ram \ {mem2} : a[q] = ram[q]
    BY <1>8, <2>1 DEF Cut
  <2> QED BY <1>7, <2>2 DEF LikeBut
<1>10. ptr2 \in 0 .. MEM_SIZE /\ p # after /\ p < ptr2 /\ ptr2 < after /\ p # ptr2
       /\ ptr2 + SIZEOF_STRUCT_MEM + MIN_SIZE <= after
  BY <1>2, <1>4
<1>11. \A q \in DOMAIN ram : ~(p < q /\ q < mem2)
  BY DEF RamOK, Ordered
<1>12. ptr2 \notin DOMAIN ram /\ ptr2 \notin DOMAIN r0
  BY <1>7, <1>10, <1>11
<1>13. r = Split(a, p, ptr2, after)
  BY <1>1, <1>8
<1>14. Parted(r0, p, ptr2, r)
  BY <1>2, <1>4, <1>7, <1>9, <1>10, <1>12, <1>13, SplitParts
<1>15. RamOK(r)
  BY <1>6, <1>7, <1>10, <1>14, PartedOK
<1>16. DOMAIN r = (DOMAIN ram \ {mem2}) \cup {ptr2}
  BY <1>7, <1>14 DEF Parted
<1>17. /\ r[ptr2].next = after /\ ~r[ptr2].used /\ r[p].next = ptr2
       /\ \A q \in DOMAIN ram \ {mem2} : r[q].used = ram[q].used /\ (q # p => r[q].next = ram[q].next)
  <2>1. /\ ptr2 \in DOMAIN r /\ p \in DOMAIN r
        /\ \A q \in DOMAIN ram \ {mem2} : q \in DOMAIN r /\ q \in DOMAIN r0 /\ q # ptr2
    BY <1>7, <1>12, <1>16
  <2>2. \A q \in DOMAIN r :
         /\ r[q].next = IF q = ptr2 THEN after ELSE IF q = p THEN ptr2 ELSE r0[q].next
         /\ r[q].used = IF q = ptr2 THEN FALSE ELSE r0[q].used
    BY <1>7, <1>14 DEF Parted
  <2>3. r[ptr2].next = after /\ ~r[ptr2].used /\ r[p].next = ptr2
    BY <1>10, <2>1, <2>2
  <2>4. ASSUME NEW q \in DOMAIN ram \ {mem2}
        PROVE  r[q].used = ram[q].used /\ (q # p => r[q].next = ram[q].next)
    BY <1>7, <2>1, <2>2
  <2> QED BY <2>3, <2>4
<1>18. ram[after].used
  BY <1>1, <1>2 DEF Apart
<1>19. Apart(r)
  <2> SUFFICES ASSUME NEW q \in DOMAIN r, ~r[q].used PROVE r[r[q].next].used
    BY DEF Apart
  <2>1. CASE q = ptr2
    BY <1>4, <1>17, <1>18, <2>1
  <2>2. CASE q \in DOMAIN ram \ {mem2}
    <3>1. ~ram[q].used /\ q # p /\ r[q].next = ram[q].next
      BY <1>17, <2>2
    <3>2. ram[ram[q].next].used /\ ram[q].next \in DOMAIN ram
      BY <2>2, <3>1, RamFacts DEF Apart
    <3> QED BY <1>17, <3>1, <3>2
  <2> QED BY <1>16, <2>1, <2>2
<1>20. l \in DOMAIN ram /\ l \in Nat /\ l <= mem2 /\ l # p
  BY <1>2, <1>3, RamFacts DEF Lowest
<1>21. Lowest(r, lf)
  <2>1. lf \in DOMAIN r /\ (lf = MEM_SIZE \/ ~r[lf].used) /\ lf <= ptr2
    <3>1. CASE l = mem2
      BY <1>16, <1>17, <3>1
    <3>2. CASE l # mem2
      <4>1. l < p
        BY <1>2, <1>11, <1>20, <3>2
      <4>2. l <= ptr2
        BY <1>2, <1>10, <1>20, <4>1
      <4>3. l \in DOMAIN ram \ {mem2} /\ (l = MEM_SIZE \/ ~ram[l].used)
        BY <1>20, <3>2 DEF Lowest
      <4> QED BY <1>16, <1>17, <3>2, <4>2, <4>3
    <3> QED BY <3>1, <3>2
  <2>2. lf \in Nat /\ lf <= mem2
    BY <1>2, <1>20
  <2>3. ASSUME NEW q \in DOMAIN r, ~r[q].used PROVE lf <= q
    <3>1. CASE q = ptr2
      BY <2>1, <3>1
    <3>2. CASE q \in DOMAIN ram \ {mem2}
      <4>1. ~ram[q].used /\ q \in Nat
        BY <1>17, <2>3, <3>2, RamFacts
      <4>2. l <= q
        BY <3>2, <4>1 DEF Lowest
      <4> QED BY <1>20, <2>2, <4>1, <4>2
    <3> QED BY <1>16, <3>1, <3>2
  <2> QED BY <2>1, <2>3 DEF Lowest
<1> QED BY <1>12, <1>15, <1>16, <1>17, <1>19, <1>21 DEF Trimmed

\* A hole is made after p.
LEMMA TrimSplits ==
    ASSUME NEW ram, NEW l, RamOK(ram), Apart(ram), Lowest(ram, l),
           NEW p \in DOMAIN ram, p # MEM_SIZE, ram[p].used,
           NEW mem2, mem2 = ram[p].next, ram[mem2].used,
           NEW ptr2 \in Nat, p + SIZEOF_STRUCT_MEM + MIN_SIZE <= ptr2,
           ptr2 + SIZEOF_STRUCT_MEM + MIN_SIZE <= mem2,
           NEW r, r = Split(ram, p, ptr2, mem2),
           NEW lf, lf = IF ptr2 < l THEN ptr2 ELSE l
    PROVE  Trimmed(ram, p, ptr2, r, lf)
<1>1. /\ p \in Nat /\ p \in 0 .. MEM_SIZE /\ mem2 \in DOMAIN ram /\ mem2 \in Nat /\ mem2 \in 0 .. MEM_SIZE /\ p < mem2
      /\ MEM_SIZE \in Nat /\ SIZEOF_STRUCT_MEM \in Nat /\ MIN_SIZE \in Nat
      /\ SIZEOF_STRUCT_MEM >= 1 /\ MIN_SIZE >= 1
  BY RamFacts
<1>2. ptr2 \in 0 .. MEM_SIZE /\ p # mem2 /\ p < ptr2 /\ ptr2 < mem2 /\ p # ptr2
  BY <1>1
<1>3. ptr2 \notin DOMAIN ram
  BY <1>2 DEF RamOK, Ordered
<1>4. LikeBut(ram, p, ram)
  BY DEF LikeBut, RamOK
<1>5. Parted(ram, p, ptr2, r)
  BY <1>1, <1>2, <1>3, <1>4, SplitParts
<1>6. RamOK(r)
  BY <1>5, PartedOK
<1>7. DOMAIN r = DOMAIN ram \cup {ptr2}
  BY <1>5 DEF Parted
<1>8. /\ r[ptr2].next = mem2 /\ ~r[ptr2].used /\ r[p].next = ptr2
      /\ \A q \in DOMAIN ram : r[q].used = ram[q].used /\ (q # p => r[q].next = ram[q].next)
  BY <1>2, <1>3, <1>5, <1>7 DEF Parted
<1>9. Apart(r)
  <2> SUFFICES ASSUME NEW q \in DOMAIN r, ~r[q].used PROVE r[r[q].next].used
    BY DEF Apart
  <2>1. CASE q = ptr2
    BY <1>1, <1>8, <2>1
  <2>2. CASE q \in DOMAIN ram
    <3>1. ~ram[q].used /\ q # p /\ r[q].next = ram[q].next
      BY <1>8, <2>2
    <3>2. ram[ram[q].next].used /\ ram[q].next \in DOMAIN ram
      BY <2>2, <3>1, RamFacts DEF Apart
    <3> QED BY <1>8, <3>1, <3>2
  <2> QED BY <1>7, <2>1, <2>2
<1>10. l \in DOMAIN ram /\ l \in Nat /\ (l = MEM_SIZE \/ ~ram[l].used)
  BY RamFacts DEF Lowest
<1>11. lf \in DOMAIN r /\ (lf = MEM_SIZE \/ ~r[lf].used) /\ lf <= ptr2 /\ lf <= l /\ lf \in Nat
  BY <1>7, <1>8, <1>10
<1>12. ASSUME NEW q \in DOMAIN r, ~r[q].used PROVE lf <= q
  <2>1. CASE q = ptr2
    BY <1>11, <2>1
  <2>2. CASE q \in DOMAIN ram
    <3>1. ~ram[q].used /\ q \in Nat
      BY <1>8, <1>12, <2>2, RamFacts
    <3>2. l <= q
      BY <2>2, <3>1 DEF Lowest
    <3> QED BY <1>10, <1>11, <3>1, <3>2
  <2> QED BY <1>7, <2>1, <2>2
<1>13. Lowest(r, lf)
  BY <1>11, <1>12 DEF Lowest
<1> QED BY <1>3, <1>6, <1>7, <1>8, <1>9, <1>13 DEF Trimmed

\* The blocks in use stay, and p keeps what it was trimmed to.
TrimOK(h, p, n, g) ==
    /\ HeapOK(g) /\ Blocks(g) = Blocks(h)
    /\ DataSize(h, p) >= n => DataSize(g, p) >= n
    /\ \A q \in Blocks(h) : q # p => DataSize(g, q) = DataSize(h, q)

\* Trimming keeps the heap in order, whichever of its branches is taken.
LEMMA mem_trimOK ==
    ASSUME NEW h, HeapOK(h), NEW p \in Blocks(h), NEW n \in Nat
    PROVE  TrimOK(h, p, n, mem_trim(h, p, n))
<1>1. PICK ram, l, want, mem2, size, ptr2, g :
        /\ ram = h.ram /\ l = h.lfree /\ want = AtLeastMin(n) /\ mem2 = ram[p].next
        /\ size = mem2 - p - SIZEOF_STRUCT_MEM /\ ptr2 = p + SIZEOF_STRUCT_MEM + want
        /\ g = mem_trim(h, p, n)
  OBVIOUS
<1>2. RamOK(ram) /\ Apart(ram) /\ Lowest(ram, l) /\ p \in DOMAIN ram /\ ram[p].used /\ p # MEM_SIZE
  BY <1>1 DEF HeapOK, Blocks
<1>3. /\ p \in Nat /\ mem2 \in DOMAIN ram /\ mem2 \in Nat
      /\ SIZEOF_STRUCT_MEM \in Nat /\ MIN_SIZE \in Nat
  BY <1>1, <1>2, RamFacts
<1>4. want \in Nat /\ want >= MIN_SIZE /\ want >= n
  BY <1>1, <1>3 DEF AtLeastMin
<1>5. DataSize(h, p) = size /\ size \in Int
  BY <1>1, <1>3 DEF DataSize
<1>6. /\ ptr2 \in Nat /\ p + SIZEOF_STRUCT_MEM + MIN_SIZE <= ptr2
      /\ ptr2 - p - SIZEOF_STRUCT_MEM = want
      /\ want < size => ptr2 < mem2
      /\ want + SIZEOF_STRUCT_MEM + MIN_SIZE <= size => ptr2 + SIZEOF_STRUCT_MEM + MIN_SIZE <= mem2
  BY <1>1, <1>3, <1>4
<1>7. ASSUME NEW r, NEW lf, g = [ram |-> r, lfree |-> lf], Trimmed(ram, p, ptr2, r, lf)
      PROVE  TrimOK(h, p, n, g)
  <2>1. g.ram = r /\ g.lfree = lf
    BY <1>7
  <2>2. HeapOK(g)
    BY <1>7, <2>1 DEF HeapOK, Trimmed
  <2>3. Blocks(g) = Blocks(h)
    BY <1>1, <1>7, <2>1 DEF Blocks, Trimmed
  <2>4. DataSize(g, p) = want
    BY <1>6, <1>7, <2>1 DEF DataSize, Trimmed
  <2>5. \A q \in Blocks(h) : q # p => DataSize(g, q) = DataSize(h, q)
    BY <1>1, <1>7, <2>1 DEF Blocks, DataSize, Trimmed
  <2> QED BY <1>4, <2>2, <2>3, <2>4, <2>5 DEF TrimOK
<1>8. TrimOK(h, p, n, h)
  BY DEF TrimOK
<1>9. g = CASE want > MEM_SIZE \/ want >= size -> h
            [] want < size /\ ~ram[mem2].used ->
                  [ram |-> Split(Cut(ram, mem2), p, ptr2, ram[mem2].next),
                   lfree |-> IF l = mem2 THEN ptr2 ELSE l]
            [] /\ want < size /\ ram[mem2].used
               /\ want + SIZEOF_STRUCT_MEM + MIN_SIZE <= size ->
                  [ram |-> Split(ram, p, ptr2, mem2),
                   lfree |-> IF ptr2 < l THEN ptr2 ELSE l]
            [] OTHER -> h
  BY <1>1, <1>5, Zenon DEF mem_trim
<1>10. CASE want > MEM_SIZE \/ want >= size
  <2>1. g = h
    <3>1. mem2 <= MEM_SIZE /\ MEM_SIZE \in Nat
      BY <1>2, <1>3, RamFacts
    <3>2. want >= size
      BY <1>1, <1>3, <1>4, <1>5, <1>10, <3>1
    <3>3. ~(want < size)
      BY <1>4, <1>5, <3>2
    <3> QED BY <1>9, <1>10, <3>3
  <2> QED BY <1>1, <1>8, <2>1
<1>11. CASE ~(want > MEM_SIZE \/ want >= size) /\ ~ram[mem2].used
  <2>1. PICK r, lf : r = Split(Cut(ram, mem2), p, ptr2, ram[mem2].next) /\ lf = IF l = mem2 THEN ptr2 ELSE l
    OBVIOUS
  <2>2. want < size
    BY <1>4, <1>5, <1>11
  <2>3. g = [ram |-> r, lfree |-> lf]
    BY <1>9, <1>11, <2>1, <2>2
  <2>4. Trimmed(ram, p, ptr2, r, lf)
    BY <1>1, <1>2, <1>6, <1>11, <2>1, <2>2, TrimMoves
  <2> QED BY <1>1, <1>7, <2>3, <2>4
<1>12. CASE ~(want > MEM_SIZE \/ want >= size) /\ ram[mem2].used /\ want + SIZEOF_STRUCT_MEM + MIN_SIZE <= size
  <2>1. PICK r, lf : r = Split(ram, p, ptr2, mem2) /\ lf = IF ptr2 < l THEN ptr2 ELSE l
    OBVIOUS
  <2>2. want < size
    BY <1>4, <1>5, <1>12
  <2>3. g = [ram |-> r, lfree |-> lf]
    BY <1>9, <1>12, <2>1, <2>2
  <2>4. Trimmed(ram, p, ptr2, r, lf)
    BY <1>1, <1>2, <1>6, <1>12, <2>1, TrimSplits
  <2> QED BY <1>1, <1>7, <2>3, <2>4
<1>13. CASE ~(want > MEM_SIZE \/ want >= size) /\ ram[mem2].used /\ ~(want + SIZEOF_STRUCT_MEM + MIN_SIZE <= size)
  <2>1. g = h
    BY <1>9, <1>13
  <2> QED BY <1>1, <1>8, <2>1
<1> QED BY <1>10, <1>11, <1>12, <1>13

\* The heap at boot.
LEMMA mem_initOK == HeapOK(mem_init) /\ Blocks(mem_init) = {}
<1>1. /\ MEM_SIZE \in Nat /\ SIZEOF_STRUCT_MEM \in Nat /\ MIN_SIZE \in Nat
      /\ MEM_SIZE > SIZEOF_STRUCT_MEM + MIN_SIZE
  BY MemAssumption
<1>2. PICK ram : ram = mem_init.ram
  OBVIOUS
<1>3. mem_init.lfree = 0
  BY DEF mem_init
<1>4. MEM_SIZE # 0
  BY <1>1
<1>5. /\ DOMAIN ram = {0, MEM_SIZE}
      /\ ram[0] = Struct(MEM_SIZE, 0, FALSE)
      /\ ram[MEM_SIZE] = Struct(MEM_SIZE, MEM_SIZE, TRUE)
      /\ ram = [q \in {0, MEM_SIZE} |-> ram[q]]
  BY <1>2, <1>4 DEF mem_init
<1>6. /\ ram[0].next = MEM_SIZE /\ ram[0].prev = 0 /\ ram[0].used = FALSE
      /\ ram[MEM_SIZE].next = MEM_SIZE /\ ram[MEM_SIZE].used = TRUE
  BY <1>5 DEF Struct
<1>7. ram[0] \in StructMem /\ ram[MEM_SIZE] \in StructMem
  <2>1. 0 \in 0 .. MEM_SIZE /\ MEM_SIZE \in 0 .. MEM_SIZE
    BY <1>1
  <2> QED BY <1>5, <2>1 DEF StructMem, Struct
<1>d. 0 \in DOMAIN ram /\ MEM_SIZE \in DOMAIN ram /\ \A q \in DOMAIN ram : q = 0 \/ q = MEM_SIZE
  BY <1>5
<1>8. ram \in [DOMAIN ram -> StructMem] /\ DOMAIN ram \subseteq 0 .. MEM_SIZE
  <2>1. \A q \in DOMAIN ram : ram[q] \in StructMem /\ q \in 0 .. MEM_SIZE
    BY <1>1, <1>7, <1>d
  <2>2. ram = [q \in DOMAIN ram |-> ram[q]]
    BY <1>5
  <2> QED BY <2>1, <2>2
<1>9. Ordered(ram)
  <2> SUFFICES ASSUME NEW q \in DOMAIN ram \ {MEM_SIZE}
               PROVE  /\ ram[q].next \in DOMAIN ram
                      /\ q + SIZEOF_STRUCT_MEM + MIN_SIZE <= ram[q].next
                      /\ \A s \in DOMAIN ram : ~(q < s /\ s < ram[q].next)
                      /\ ram[q].next # MEM_SIZE => ram[ram[q].next].prev = q
    BY DEF Ordered
  <2>1. q = 0 /\ ram[q].next = MEM_SIZE
    BY <1>6, <1>d
  <2>2. \A s \in DOMAIN ram : ~(q < s /\ s < MEM_SIZE)
    BY <1>1, <1>d, <2>1
  <2> QED BY <1>1, <1>d, <2>1, <2>2
<1>10. RamOK(ram)
  BY <1>6, <1>8, <1>9, <1>d DEF RamOK
<1>11. Apart(ram) /\ Lowest(ram, 0)
  BY <1>1, <1>6, <1>d DEF Apart, Lowest
<1>12. Blocks(mem_init) = {}
  BY <1>2, <1>6, <1>d DEF Blocks
<1> QED BY <1>2, <1>3, <1>10, <1>11, <1>12 DEF HeapOK

-----------------------------------------------------------------------------
(* Free lists.                                                             *)

FreeList(s, S) == s \in Seq(Nat) /\ IsInjective(s) /\ Range(s) = S

\* An element that is given back goes to the front.
LEMMA ListPushed ==
    ASSUME NEW s, NEW S, FreeList(s, S), NEW p \in Nat, p \notin S
    PROVE  FreeList(<<p>> \o s, S \cup {p})
<1>1. s \in Seq(Nat) /\ Len(s) \in Nat /\ DOMAIN s = 1 .. Len(s)
  BY DEF FreeList
<1>2. PICK t : t = <<p>> \o s
  OBVIOUS
<1>3. /\ t \in Seq(Nat) /\ Len(t) = Len(s) + 1 /\ DOMAIN t = 1 .. Len(s) + 1
      /\ t[1] = p /\ \A i \in 1 .. Len(s) : t[i + 1] = s[i]
  BY <1>1, <1>2
<1>4. ASSUME NEW i \in DOMAIN t
      PROVE  (i = 1 /\ t[i] = p) \/ (i - 1 \in DOMAIN s /\ t[i] = s[i - 1])
  <2>1. i \in Nat /\ 1 <= i /\ i <= Len(s) + 1
    BY <1>1, <1>3
  <2>2. i # 1 => i - 1 \in 1 .. Len(s) /\ (i - 1) + 1 = i
    BY <1>1, <2>1
  <2> QED BY <1>1, <1>3, <2>2
<1>5. \A i \in DOMAIN s : s[i] \in S /\ s[i] # p
  BY DEF FreeList, Range
<1>6. IsInjective(t)
  <2> SUFFICES ASSUME NEW i \in DOMAIN t, NEW j \in DOMAIN t, t[i] = t[j] PROVE i = j
    BY DEF IsInjective
  <2>1. CASE i = 1
    BY <1>3, <1>4, <1>5, <2>1
  <2>2. CASE i # 1 /\ j # 1
    <3>1. i - 1 \in DOMAIN s /\ j - 1 \in DOMAIN s /\ s[i - 1] = s[j - 1]
      BY <1>4, <2>2
    <3>2. i - 1 = j - 1
      BY <3>1 DEF FreeList, IsInjective
    <3> QED BY <1>3, <3>2
  <2>3. CASE j = 1
    BY <1>3, <1>4, <1>5, <2>3
  <2> QED BY <2>1, <2>2, <2>3
<1>7. Range(t) = S \cup {p}
  <2>1. Range(t) \subseteq S \cup {p}
    BY <1>4, <1>5 DEF Range
  <2>2. ASSUME NEW x \in S \cup {p} PROVE x \in Range(t)
    <3>1. CASE x = p
      <4>1. 1 \in DOMAIN t
        BY <1>1, <1>3
      <4> QED BY <1>3, <3>1, <4>1 DEF Range
    <3>2. CASE x \in S
      <4>1. PICK i \in DOMAIN s : s[i] = x
        BY <3>2 DEF FreeList, Range
      <4>2. i + 1 \in DOMAIN t /\ t[i + 1] = x
        BY <1>1, <1>3, <4>1
      <4> QED BY <4>2 DEF Range
    <3> QED BY <3>1, <3>2
  <2> QED BY <2>1, <2>2
<1> QED BY <1>2, <1>3, <1>6, <1>7 DEF FreeList

\* What is left when the first n are taken.
LEMMA ListTaken ==
    ASSUME NEW s, NEW S, FreeList(s, S), NEW n \in 0 .. Len(s),
           NEW t, t \in Seq(Nat), Len(t) = Len(s) - n, \A i \in 1 .. Len(s) - n : t[i] = s[i + n]
    PROVE  FreeList(t, S \ {s[i] : i \in 1 .. n})
<1>1. s \in Seq(Nat) /\ Len(s) \in Nat /\ DOMAIN s = 1 .. Len(s)
  BY DEF FreeList
<1>2. DOMAIN t = 1 .. Len(s) - n
  BY <1>1
<1>3. ASSUME NEW i \in DOMAIN t PROVE i \in Nat /\ i >= 1 /\ i + n \in DOMAIN s /\ t[i] = s[i + n]
  <2>1. i \in 1 .. Len(s) - n
    BY <1>2
  <2>2. i \in Nat /\ i >= 1 /\ i + n \in 1 .. Len(s)
    BY <1>1, <2>1
  <2> QED BY <1>1, <2>1, <2>2
<1>4. IsInjective(t)
  <2> SUFFICES ASSUME NEW i \in DOMAIN t, NEW j \in DOMAIN t, t[i] = t[j] PROVE i = j
    BY DEF IsInjective
  <2>1. i + n = j + n
    BY <1>3 DEF FreeList, IsInjective
  <2> QED BY <1>3, <2>1
<1> DEFINE U == {s[i] : i \in 1 .. n}
<1>5. ASSUME NEW i \in DOMAIN t PROVE t[i] \in S \ U
  <2>1. s[i + n] \in S
    BY <1>3 DEF FreeList, Range
  <2>2. ASSUME NEW j \in 1 .. n, s[i + n] = s[j] PROVE FALSE
    <3>1. j \in DOMAIN s
      BY <1>1
    <3>2. i + n = j
      BY <1>3, <2>2, <3>1 DEF FreeList, IsInjective
    <3> QED BY <1>3, <3>2
  <2> QED BY <1>3, <2>1, <2>2
<1>6. ASSUME NEW x \in S \ U PROVE x \in Range(t)
  <2>1. PICK i \in DOMAIN s : s[i] = x
    BY DEF FreeList, Range
  <2>2. i \notin 1 .. n
    BY <1>6, <2>1
  <2>3. i - n \in DOMAIN t /\ (i - n) + n = i
    BY <1>1, <1>2, <2>1, <2>2
  <2>4. t[i - n] = x
    BY <1>3, <2>1, <2>3
  <2> QED BY <2>3, <2>4 DEF Range
<1> HIDE DEF U
<1>7. Range(t) = S \ U
  BY <1>5, <1>6 DEF Range
<1> QED BY <1>4, <1>7 DEF FreeList, U

-----------------------------------------------------------------------------
(* What a memory is.                                                       *)

Pointers == 1 .. NPool + NRef + 1 + MEM_SIZE
PbufRec  == [next : Nat, len : Nat, tot_len : Nat, ref : Nat, room : Nat]

PbOK(pb) == DOMAIN pb \subseteq Pointers /\ pb \in [DOMAIN pb -> PbufRec]

Shape(w) ==
    /\ w = [pool |-> w.pool, refs |-> w.refs, heap |-> w.heap, pb |-> w.pb, was |-> w.was]
    /\ w.was \in [POOL -> Nat]

\* Every pbuf has memory of its own, and the rest is free.
StoreOK(pool, refs, heap, D) ==
    /\ FreeList(pool, POOL \ D) /\ FreeList(refs, REFS \ D)
    /\ HeapOK(heap)
    /\ {RAM(b) : b \in Blocks(heap)} = D \ (POOL \cup REFS)

\* The payload fits.
InsideOK(heap, p, b) ==
    /\ Type(p) = "POOL" => b.room + b.len <= BUFSIZE
    /\ Type(p) = "RAM" => SIZEOF_STRUCT_PBUF + b.room + b.len <= DataSize(heap, Block(p))

Stored(w) ==
    /\ StoreOK(w.pool, w.refs, w.heap, DOMAIN w.pb)
    /\ \A p \in DOMAIN w.pb : InsideOK(w.heap, p, w.pb[p])

\* References: those of links and, by pointer, those from outside.
LinksTo(pb, p) == {q \in DOMAIN pb : pb[q].next = p}

RefsOK(pb, e) ==
    /\ e \in [Pointers -> Nat]
    /\ \A p \in Pointers : e[p] > 0 => p \in DOMAIN pb
    /\ \A p \in DOMAIN pb :
          /\ pb[p].next # NULL => pb[p].next \in DOMAIN pb
          /\ pb[p].ref = Cardinality(LinksTo(pb, p)) + e[p]
          /\ pb[p].ref > 0

\* One more reference from outside, to p.
More(e, p) == IF p = NULL THEN e ELSE [e EXCEPT ![p] = @ + 1]

\* The lengths agree, but perhaps in X.
TotOK(pb, X) ==
    \A p \in DOMAIN pb \ X :
        pb[p].tot_len = pb[p].len + (IF pb[p].next = NULL THEN 0 ELSE pb[pb[p].next].tot_len)

Sound(w, e, X) ==
    /\ Shape(w) /\ PbOK(w.pb) /\ Stored(w) /\ RefsOK(w.pb, e) /\ TotOK(w.pb, X)

\* Constants.
LEMMA Constants ==
    /\ NPool \in Nat /\ NRef \in Nat /\ MEM_SIZE \in Nat /\ HLEN \in Nat /\ BUFSIZE \in Nat
    /\ SIZEOF_STRUCT_PBUF \in Nat /\ MaxLength \in Nat /\ HLEN < BUFSIZE
    /\ SIZEOF_STRUCT_PBUF > 0
BY MemAssumption, PbufAssumption

\* A pointer is that of a pool element or of a heap block.
LEMMA PointersAre ==
    ASSUME NEW p \in Pointers
    PROVE  /\ p \in Nat /\ p # NULL
           /\ p \in POOL \cup REFS \/ (Block(p) \in 0 .. MEM_SIZE /\ RAM(Block(p)) = p)
BY Constants DEF Pointers, POOL, REFS, RAM, Block, NULL

\* The pools and the heap have pointers of their own.
LEMMA PoolsAre ==
    /\ POOL \subseteq Pointers /\ REFS \subseteq Pointers /\ POOL \cap REFS = {}
    /\ \A b \in 0 .. MEM_SIZE : RAM(b) \in Pointers /\ RAM(b) \notin POOL \cup REFS /\ Block(RAM(b)) = b
BY Constants DEF Pointers, POOL, REFS, RAM, Block

\* The type of a pbuf says where its memory is.
LEMMA TypeIs ==
    ASSUME NEW p \in Pointers
    PROVE  /\ Type(p) = "POOL" <=> p \in POOL
           /\ Type(p) = "REF" <=> p \in REFS
           /\ Type(p) = "RAM" <=> p \notin POOL \cup REFS
BY PoolsAre DEF Type

\* The types of the fields of a pbuf.
LEMMA RecIs ==
    ASSUME NEW b \in PbufRec
    PROVE  b.next \in Nat /\ b.len \in Nat /\ b.tot_len \in Nat /\ b.ref \in Nat /\ b.room \in Nat
BY DEF PbufRec

\* There are finitely many pbufs.
LEMMA PointersFinite ==
    ASSUME NEW D, D \subseteq Pointers
    PROVE  IsFiniteSet(D) /\ Cardinality(D) \in Nat
<1>1. IsFiniteSet(Pointers)
  BY Constants, FS_Interval DEF Pointers
<1> QED BY <1>1, FS_Subset, FS_CardinalityType

-----------------------------------------------------------------------------
(* References, when a pbuf is deallocated or loses one.                    *)

\* The links to a pbuf can be counted.
LEMMA LinksFinite ==
    ASSUME NEW pb, PbOK(pb), NEW p
    PROVE  IsFiniteSet(LinksTo(pb, p)) /\ Cardinality(LinksTo(pb, p)) \in Nat
BY PointersFinite DEF LinksTo, PbOK

\* The types of the fields of a pbuf in use.
LEMMA PbIs ==
    ASSUME NEW pb, PbOK(pb), NEW p \in DOMAIN pb
    PROVE  /\ p \in Pointers /\ p \in Nat /\ p # NULL /\ pb[p] \in PbufRec
           /\ pb[p].next \in Nat /\ pb[p].len \in Nat /\ pb[p].tot_len \in Nat
           /\ pb[p].ref \in Nat /\ pb[p].room \in Nat
BY RecIs, PointersAre DEF PbOK

\* One more reference changes the count of one pbuf.
LEMMA MoreIs ==
    ASSUME NEW e \in [Pointers -> Nat], NEW p \in Pointers
    PROVE  /\ More(e, p) \in [Pointers -> Nat]
           /\ \A q \in Pointers : More(e, p)[q] = IF q = p THEN e[q] + 1 ELSE e[q]
BY PointersAre DEF More

\* The others stay as they were when one goes.
LEMMA CutIs ==
    ASSUME NEW pb, PbOK(pb), NEW p
    PROVE  /\ PbOK(Cut(pb, p)) /\ DOMAIN Cut(pb, p) = DOMAIN pb \ {p}
           /\ \A q \in DOMAIN pb \ {p} : Cut(pb, p)[q] = pb[q]
BY DEF Cut, PbOK

\* A pbuf whose last reference goes is linked from nowhere.
LEMMA LastReference ==
    ASSUME NEW pb, PbOK(pb), NEW e \in [Pointers -> Nat], NEW p \in DOMAIN pb, RefsOK(pb, More(e, p)),
           pb[p].ref = 1
    PROVE  e[p] = 0 /\ LinksTo(pb, p) = {}
<1>1. p \in Pointers
  BY PbIs
<1>2. More(e, p)[p] = e[p] + 1 /\ e[p] \in Nat
  BY <1>1, MoreIs
<1>3. IsFiniteSet(LinksTo(pb, p)) /\ Cardinality(LinksTo(pb, p)) \in Nat
  BY LinksFinite
<1>4. 1 = Cardinality(LinksTo(pb, p)) + (e[p] + 1)
  BY <1>2 DEF RefsOK
<1>5. Cardinality(LinksTo(pb, p)) = 0 /\ e[p] = 0
  BY <1>2, <1>3, <1>4
<1> QED BY <1>3, <1>5, FS_EmptySet

\* Its own link becomes the reference to drop next.
LEMMA CutRefs ==
    ASSUME NEW pb, PbOK(pb), NEW e \in [Pointers -> Nat], NEW p \in DOMAIN pb, RefsOK(pb, More(e, p)),
           pb[p].ref = 1
    PROVE  RefsOK(Cut(pb, p), More(e, pb[p].next))
<1>1. p \in Pointers /\ p # NULL
  BY PbIs
<1>2. e[p] = 0 /\ LinksTo(pb, p) = {}
  BY LastReference
<1>3. PICK n : n = pb[p].next
  OBVIOUS
<1>4. PICK b : b = Cut(pb, p)
  OBVIOUS
<1>5. PbOK(b) /\ DOMAIN b = DOMAIN pb \ {p} /\ \A q \in DOMAIN pb \ {p} : b[q] = pb[q]
  BY <1>4, CutIs
<1>6. n # p
  BY <1>2, <1>3 DEF LinksTo
<1>7. n # NULL => n \in DOMAIN b /\ n \in Pointers
  <2>1. n # NULL => n \in DOMAIN pb
    BY <1>3 DEF RefsOK
  <2> QED BY <1>5, <1>6, <2>1, PbIs
<1>8. PICK f : f = More(e, n)
  OBVIOUS
<1>9. /\ f \in [Pointers -> Nat]
      /\ \A q \in Pointers : f[q] = IF q = n THEN e[q] + 1 ELSE e[q]
  <2>1. CASE n = NULL
    <3>1. f = e /\ \A q \in Pointers : q # n
      BY <1>8, <2>1, PointersAre DEF More
    <3> QED BY <3>1
  <2>2. CASE n # NULL
    BY <1>7, <1>8, <2>2, MoreIs
  <2> QED BY <2>1, <2>2
<1>10. /\ More(e, p) \in [Pointers -> Nat]
       /\ \A q \in Pointers : More(e, p)[q] = IF q = p THEN e[q] + 1 ELSE e[q]
  BY <1>1, MoreIs
<1>11. ASSUME NEW q \in Pointers, f[q] > 0 PROVE q \in DOMAIN b
  <2>1. CASE q = n
    BY <1>7, <2>1, PointersAre
  <2>2. CASE q # n
    <3>1. e[q] > 0 /\ q # p
      BY <1>2, <1>9, <1>11, <2>2
    <3>2. More(e, p)[q] > 0
      BY <1>10, <3>1
    <3>3. q \in DOMAIN pb
      BY <3>2 DEF RefsOK
    <3> QED BY <1>5, <3>1, <3>3
  <2> QED BY <2>1, <2>2
<1>12. ASSUME NEW q \in DOMAIN b
       PROVE  /\ b[q].next # NULL => b[q].next \in DOMAIN b
              /\ b[q].ref = Cardinality(LinksTo(b, q)) + f[q]
              /\ b[q].ref > 0
  <2>1. q \in DOMAIN pb /\ q # p /\ b[q] = pb[q] /\ q \in Pointers
    BY <1>5, PbIs
  <2>2. /\ pb[q].next # NULL => pb[q].next \in DOMAIN pb
        /\ pb[q].ref = Cardinality(LinksTo(pb, q)) + More(e, p)[q]
        /\ pb[q].ref > 0
    BY <2>1 DEF RefsOK
  <2>3. pb[q].next # p
    BY <1>2, <2>1 DEF LinksTo
  <2>4. More(e, p)[q] = e[q] /\ e[q] \in Nat
    BY <1>10, <2>1
  <2>5. LinksTo(b, q) = LinksTo(pb, q) \ {p}
    BY <1>5 DEF LinksTo
  <2>6. Cardinality(LinksTo(b, q)) + f[q] = Cardinality(LinksTo(pb, q)) + e[q]
    <3>0. IsFiniteSet(LinksTo(pb, q)) /\ Cardinality(LinksTo(pb, q)) \in Nat
      BY LinksFinite
    <3>1. CASE q = n
      <4>1. p \in LinksTo(pb, q)
        BY <1>3, <3>1 DEF LinksTo
      <4>2. Cardinality(LinksTo(pb, q) \ {p}) = Cardinality(LinksTo(pb, q)) - 1
        BY <3>0, <4>1, FS_RemoveElement
      <4>3. f[q] = e[q] + 1
        BY <1>9, <2>1, <3>1
      <4> QED BY <2>4, <2>5, <3>0, <4>2, <4>3
    <3>2. CASE q # n
      <4>1. p \notin LinksTo(pb, q)
        BY <1>3, <3>2 DEF LinksTo
      <4>2. LinksTo(b, q) = LinksTo(pb, q)
        BY <2>5, <4>1
      <4>3. f[q] = e[q]
        BY <1>9, <2>1, <3>2
      <4> QED BY <4>2, <4>3
    <3> QED BY <3>1, <3>2
  <2> QED BY <1>5, <2>1, <2>2, <2>3, <2>4, <2>6
<1>13. RefsOK(b, f)
  BY <1>9, <1>11, <1>12 DEF RefsOK
<1> QED BY <1>3, <1>4, <1>8, <1>13

\* A pbuf with another reference stays.
Recounted(pb, e, b) ==
    /\ PbOK(b) /\ DOMAIN b = DOMAIN pb /\ RefsOK(b, e)
    /\ \A q \in DOMAIN pb : /\ b[q].next = pb[q].next /\ b[q].len = pb[q].len
                            /\ b[q].tot_len = pb[q].tot_len /\ b[q].room = pb[q].room

\* Only its count goes down.
LEMMA LessRefs ==
    ASSUME NEW pb, PbOK(pb), NEW e \in [Pointers -> Nat], NEW p \in DOMAIN pb, RefsOK(pb, More(e, p)),
           pb[p].ref # 1,
           NEW b, b = [pb EXCEPT ![p].ref = @ - 1]
    PROVE  Recounted(pb, e, b)
<1>1. /\ p \in Pointers /\ p # NULL /\ pb[p].ref \in Nat /\ pb[p].ref > 0 /\ pb[p].ref - 1 \in Nat
      /\ pb[p].ref - 1 > 0
  BY PbIs DEF RefsOK
<1>2. /\ DOMAIN b = DOMAIN pb /\ b \in [DOMAIN pb -> PbufRec]
      /\ \A q \in DOMAIN pb : /\ b[q].next = pb[q].next /\ b[q].len = pb[q].len
                              /\ b[q].tot_len = pb[q].tot_len /\ b[q].room = pb[q].room
                              /\ b[q].ref = IF q = p THEN pb[p].ref - 1 ELSE pb[q].ref
  BY <1>1 DEF PbOK, PbufRec
<1>3. PbOK(b)
  BY <1>2 DEF PbOK
<1>4. \A q : LinksTo(b, q) = LinksTo(pb, q)
  BY <1>2 DEF LinksTo
<1>5. \A q \in Pointers : More(e, p)[q] = IF q = p THEN e[q] + 1 ELSE e[q]
  BY <1>1, MoreIs
<1>6. ASSUME NEW q \in Pointers, e[q] > 0 PROVE q \in DOMAIN b
  <2>1. More(e, p)[q] > 0
    BY <1>5, <1>6
  <2> QED BY <1>2, <2>1 DEF RefsOK
<1>7. ASSUME NEW q \in DOMAIN b
      PROVE  /\ b[q].next # NULL => b[q].next \in DOMAIN b
             /\ b[q].ref = Cardinality(LinksTo(b, q)) + e[q]
             /\ b[q].ref > 0
  <2>1. /\ pb[q].next # NULL => pb[q].next \in DOMAIN pb
        /\ pb[q].ref = Cardinality(LinksTo(pb, q)) + More(e, p)[q]
        /\ pb[q].ref > 0
    BY <1>2 DEF RefsOK
  <2>2. q \in Pointers /\ e[q] \in Nat /\ Cardinality(LinksTo(pb, q)) \in Nat
    BY <1>2, PbIs, LinksFinite
  <2>3. LinksTo(b, q) = LinksTo(pb, q)
    BY <1>4
  <2>4. b[q].ref = Cardinality(LinksTo(pb, q)) + e[q]
    <3>1. CASE q = p
      <4>1. b[q].ref = pb[q].ref - 1 /\ More(e, p)[q] = e[q] + 1
        BY <1>2, <1>5, <2>2, <3>1
      <4>2. PICK c \in Nat : c = Cardinality(LinksTo(pb, q))
        BY <2>2
      <4>3. pb[q].ref = c + (e[q] + 1)
        BY <2>1, <4>1, <4>2
      <4>4. b[q].ref = c + e[q]
        BY <2>2, <4>1, <4>3
      <4> QED BY <4>2, <4>4
    <3>2. CASE q # p
      BY <1>2, <1>5, <2>1, <2>2, <3>2
    <3> QED BY <3>1, <3>2
  <2>5. b[q].ref > 0
    BY <1>1, <1>2, <2>1
  <2> QED BY <1>2, <2>1, <2>3, <2>4, <2>5
<1>8. RefsOK(b, e)
  BY <1>6, <1>7 DEF RefsOK
<1> QED BY <1>2, <1>3, <1>8 DEF Recounted

-----------------------------------------------------------------------------
(* Where the memory goes.                                                  *)

\* Nothing of the payloads but the heap decides whether they fit.
LEMMA InsideStays ==
    ASSUME NEW heap, NEW g, NEW p, NEW b, NEW c, InsideOK(heap, p, b),
           c.room = b.room, c.len = b.len,
           Type(p) = "RAM" => DataSize(g, Block(p)) = DataSize(heap, Block(p))
    PROVE  InsideOK(g, p, c)
BY DEF InsideOK

\* The heap's blocks are the RAM pbufs.
LEMMA BlockOf ==
    ASSUME NEW pool, NEW refs, NEW heap, NEW D, StoreOK(pool, refs, heap, D), D \subseteq Pointers,
           NEW p \in D, p \notin POOL \cup REFS
    PROVE  Block(p) \in Blocks(heap) /\ RAM(Block(p)) = p
<1>1. PICK b \in Blocks(heap) : p = RAM(b)
  BY DEF StoreOK
<1>2. Block(p) \in 0 .. MEM_SIZE /\ RAM(Block(p)) = p
  BY PointersAre
<1>3. b \in 0 .. MEM_SIZE
  BY <1>1 DEF StoreOK, HeapOK, RamOK, Blocks
<1>4. Block(p) = b
  BY <1>1, <1>3, PoolsAre
<1> QED BY <1>1, <1>2, <1>4

\* What deallocating p leaves.
Gone(w, p, u) ==
    /\ Shape(u) /\ u.pb = Cut(w.pb, p) /\ Stored(u)
    /\ \A q \in POOL : u.was[q] = IF q = p THEN w.pb[p].tot_len ELSE w.was[q]

\* Deallocating a pbuf frees its memory and keeps everything else in place.
LEMMA DeallocOK ==
    ASSUME NEW w, Shape(w), PbOK(w.pb), Stored(w), NEW p \in DOMAIN w.pb
    PROVE  Gone(w, p, Dealloc(w, p))
<1>1. PICK u, b : u = Dealloc(w, p) /\ b = Cut(w.pb, p)
  OBVIOUS
<1>2. PICK D : D = DOMAIN w.pb
  OBVIOUS
<1>3. DOMAIN b = D \ {p} /\ \A q \in D \ {p} : b[q] = w.pb[q]
  BY <1>1, <1>2, CutIs
<1>4. p \in Pointers /\ p \in Nat /\ w.pb[p].tot_len \in Nat /\ D \subseteq Pointers
  BY <1>2, PbIs DEF PbOK
<1>5. /\ StoreOK(w.pool, w.refs, w.heap, D)
      /\ \A q \in D : InsideOK(w.heap, q, w.pb[q])
  BY <1>2 DEF Stored
<1>6. /\ FreeList(w.pool, POOL \ D) /\ FreeList(w.refs, REFS \ D)
      /\ HeapOK(w.heap)
      /\ {RAM(c) : c \in Blocks(w.heap)} = D \ (POOL \cup REFS)
  BY <1>5 DEF StoreOK
<1>7. CASE p \in POOL
  <2>1. Type(p) = "POOL"
    BY <1>4, <1>7, TypeIs
  <2>2. u = [w EXCEPT !.pb = b, !.pool = <<p>> \o w.pool, !.was = [w.was EXCEPT ![p] = w.pb[p].tot_len]]
    BY <1>1, <2>1 DEF Dealloc
  <2>3. /\ u.pb = b /\ u.pool = <<p>> \o w.pool /\ u.was = [w.was EXCEPT ![p] = w.pb[p].tot_len]
        /\ u.refs = w.refs /\ u.heap = w.heap
        /\ u = [pool |-> u.pool, refs |-> u.refs, heap |-> u.heap, pb |-> u.pb, was |-> u.was]
    BY <2>2 DEF Shape
  <2>4. u.was \in [POOL -> Nat] /\ \A q \in POOL : u.was[q] = IF q = p THEN w.pb[p].tot_len ELSE w.was[q]
    BY <1>4, <1>7, <2>3 DEF Shape
  <2>5. FreeList(u.pool, (POOL \ D) \cup {p}) /\ (POOL \ D) \cup {p} = POOL \ (D \ {p})
    <3>1. PICK S, l : S = POOL \ D /\ l = w.pool
      OBVIOUS
    <3>2. FreeList(l, S) /\ p \notin S
      BY <1>2, <1>6, <3>1
    <3>3. FreeList(<<p>> \o l, S \cup {p})
      BY <1>4, <3>2, ListPushed
    <3>4. ((POOL \ D) \cup {p}) = POOL \ (D \ {p})
      BY <1>2, <1>7
    <3> QED BY <2>3, <3>1, <3>3, <3>4
  <2>6. REFS \ (D \ {p}) = REFS \ D /\ (D \ {p}) \ (POOL \cup REFS) = D \ (POOL \cup REFS)
    BY <1>7, PoolsAre
  <2>7. StoreOK(u.pool, u.refs, u.heap, D \ {p})
    BY <1>6, <2>3, <2>5, <2>6 DEF StoreOK
  <2>8. \A q \in D \ {p} : InsideOK(u.heap, q, b[q])
    BY <1>3, <1>5, <2>3
  <2>9. Stored(u)
    BY <1>3, <2>3, <2>7, <2>8 DEF Stored
  <2> QED BY <1>1, <2>3, <2>4, <2>9 DEF Gone, Shape
<1>8. CASE p \in REFS
  <2>1. Type(p) = "REF" /\ p \notin POOL
    BY <1>4, <1>8, TypeIs, PoolsAre
  <2>2. u = [w EXCEPT !.pb = b, !.refs = <<p>> \o w.refs]
    BY <1>1, <2>1 DEF Dealloc
  <2>3. /\ u.pb = b /\ u.refs = <<p>> \o w.refs /\ u.was = w.was
        /\ u.pool = w.pool /\ u.heap = w.heap
        /\ u = [pool |-> u.pool, refs |-> u.refs, heap |-> u.heap, pb |-> u.pb, was |-> u.was]
    BY <2>2 DEF Shape
  <2>4. u.was \in [POOL -> Nat] /\ \A q \in POOL : u.was[q] = IF q = p THEN w.pb[p].tot_len ELSE w.was[q]
    BY <2>1, <2>3 DEF Shape
  <2>5. FreeList(u.refs, (REFS \ D) \cup {p}) /\ (REFS \ D) \cup {p} = REFS \ (D \ {p})
    <3>1. PICK S, l : S = REFS \ D /\ l = w.refs
      OBVIOUS
    <3>2. FreeList(l, S) /\ p \notin S
      BY <1>2, <1>6, <3>1
    <3>3. FreeList(<<p>> \o l, S \cup {p})
      BY <1>4, <3>2, ListPushed
    <3>4. ((REFS \ D) \cup {p}) = REFS \ (D \ {p})
      BY <1>2, <1>8
    <3> QED BY <2>3, <3>1, <3>3, <3>4
  <2>6. POOL \ (D \ {p}) = POOL \ D /\ (D \ {p}) \ (POOL \cup REFS) = D \ (POOL \cup REFS)
    BY <1>8, PoolsAre
  <2>7. StoreOK(u.pool, u.refs, u.heap, D \ {p})
    BY <1>6, <2>3, <2>5, <2>6 DEF StoreOK
  <2>8. \A q \in D \ {p} : InsideOK(u.heap, q, b[q])
    BY <1>3, <1>5, <2>3
  <2>9. Stored(u)
    BY <1>3, <2>3, <2>7, <2>8 DEF Stored
  <2> QED BY <1>1, <2>3, <2>4, <2>9 DEF Gone, Shape
<1>9. CASE p \notin POOL \cup REFS
  <2>1. Type(p) # "POOL" /\ Type(p) # "REF"
    BY <1>4, <1>9, TypeIs
  <2>2. PICK g, c : g = mem_free(w.heap, Block(p)) /\ c = Block(p)
    OBVIOUS
  <2>3. u = [w EXCEPT !.pb = b, !.heap = g]
    BY <1>1, <2>1, <2>2 DEF Dealloc
  <2>4. /\ u.pb = b /\ u.refs = w.refs /\ u.was = w.was
        /\ u.pool = w.pool /\ u.heap = g
        /\ u = [pool |-> u.pool, refs |-> u.refs, heap |-> u.heap, pb |-> u.pb, was |-> u.was]
    BY <2>3 DEF Shape
  <2>5. u.was \in [POOL -> Nat] /\ \A q \in POOL : u.was[q] = IF q = p THEN w.pb[p].tot_len ELSE w.was[q]
    BY <1>9, <2>4 DEF Shape
  <2>6. c \in Blocks(w.heap) /\ RAM(c) = p
    BY <1>2, <1>4, <1>5, <1>9, <2>2, BlockOf
  <2>7. /\ HeapOK(g) /\ Blocks(g) = Blocks(w.heap) \ {c}
        /\ \A q \in Blocks(w.heap) \ {c} : DataSize(g, q) = DataSize(w.heap, q)
    BY <1>6, <2>2, <2>6, mem_freeOK
  <2>8. \A x, y \in Blocks(w.heap) : RAM(x) = RAM(y) => x = y
    <3>1. Blocks(w.heap) \subseteq 0 .. MEM_SIZE
      BY <1>6 DEF HeapOK, RamOK, Blocks
    <3> QED BY <3>1, PoolsAre
  <2>9. {RAM(x) : x \in Blocks(g)} = (D \ {p}) \ (POOL \cup REFS)
    <3>1. {RAM(x) : x \in Blocks(g)} = {RAM(x) : x \in Blocks(w.heap)} \ {p}
      BY <2>6, <2>7, <2>8
    <3> QED BY <1>6, <3>1
  <2>10. POOL \ (D \ {p}) = POOL \ D /\ REFS \ (D \ {p}) = REFS \ D
    BY <1>9
  <2>11. StoreOK(u.pool, u.refs, u.heap, D \ {p})
    BY <1>6, <2>4, <2>7, <2>9, <2>10 DEF StoreOK
  <2>12. ASSUME NEW q \in D \ {p} PROVE InsideOK(u.heap, q, b[q])
    <3>1. InsideOK(w.heap, q, w.pb[q]) /\ b[q] = w.pb[q] /\ q \in Pointers
      BY <1>3, <1>4, <1>5
    <3>2. ASSUME Type(q) = "RAM" PROVE DataSize(g, Block(q)) = DataSize(w.heap, Block(q))
      <4>1. q \notin POOL \cup REFS
        BY <3>1, <3>2, TypeIs
      <4>2. Block(q) \in Blocks(w.heap) /\ RAM(Block(q)) = q
        BY <1>4, <1>5, <4>1, BlockOf
      <4>3. Block(q) # c
        BY <2>6, <4>2
      <4> QED BY <2>7, <4>2, <4>3
    <3> QED BY <2>4, <3>1, <3>2, InsideStays
  <2>13. Stored(u)
    BY <1>3, <2>4, <2>11, <2>12 DEF Stored
  <2> QED BY <1>1, <2>4, <2>5, <2>13 DEF Gone, Shape
<1> QED BY <1>7, <1>8, <1>9

-----------------------------------------------------------------------------
(* pbuf_free.                                                              *)

\* The loop, one turn at a time.
FreeStep(w, p, k, y) == IF y.p = NULL THEN y ELSE FreeTurn(y)

FreeEq(w, p, f) ==
    f = [k \in 0 .. Cardinality(DOMAIN w.pb) |-> IF k = 0 THEN [m |-> w, p |-> p] ELSE FreeStep(w, p, k, f[k - 1])]

FreeUpto(w, p, n, f) ==
    /\ f = [k \in 0 .. n |-> f[k]]
    /\ f[0] = [m |-> w, p |-> p]
    /\ \A k \in 0 + 1 .. n : f[k] = FreeStep(w, p, k, f[k - 1])

\* The function is the one that satisfies its equation ...
LEMMA FreeChoice ==
    ASSUME NEW w, NEW p
    PROVE  FreeTurns(w, p) = CHOOSE f : FreeEq(w, p, f)
BY Zenon DEF FreeTurns, FreeEq, FreeStep

\* ... and there is one, by the least number up to which there is none.
LEMMA FreeExists ==
    ASSUME NEW w, NEW p, NEW N \in Nat, NEW n \in 0 .. N
    PROVE  \E f : FreeUpto(w, p, n, f)
<1> DEFINE T == {i \in 0 .. N : ~ \E f : FreeUpto(w, p, i, f)}
<1>1. SUFFICES ASSUME T # {} PROVE FALSE
  OBVIOUS
<1>2. T \in SUBSET Nat
  OBVIOUS
<1>3. PICK i \in T : \A y \in T : i <= y
  BY <1>1, <1>2, Least
<1>4. i \in 0 .. N /\ ~ \E f : FreeUpto(w, p, i, f)
  OBVIOUS
<1>5. i # 0
  <2>1. FreeUpto(w, p, 0, [k \in 0 .. 0 |-> [m |-> w, p |-> p]])
    BY DEF FreeUpto
  <2> QED BY <1>4, <2>1
<1>6. i - 1 \in 0 .. N /\ i \in 0 + 1 .. N /\ i - 1 \notin T
  BY <1>3, <1>4, <1>5
<1>7. PICK f : FreeUpto(w, p, i - 1, f)
  BY <1>6
<1> HIDE DEF T
<1> DEFINE g == [k \in 0 .. i |-> IF k = i THEN FreeStep(w, p, i, f[i - 1]) ELSE f[k]]
<1>8. FreeUpto(w, p, i, g)
  <2>1. g = [k \in 0 .. i |-> g[k]]
    OBVIOUS
  <2>2. g[0] = [m |-> w, p |-> p]
    BY <1>6, <1>7 DEF FreeUpto
  <2>3. ASSUME NEW k \in 0 + 1 .. i PROVE g[k] = FreeStep(w, p, k, g[k - 1])
    <3>1. k \in 0 .. i /\ k - 1 \in 0 .. i /\ k - 1 # i
      BY <1>6
    <3>2. g[k - 1] = f[k - 1]
      BY <3>1
    <3>3. CASE k = i
      <4>1. g[k] = FreeStep(w, p, i, f[i - 1])
        BY <3>1, <3>3
      <4> QED BY <3>2, <3>3, <4>1
    <3>4. CASE k # i
      <4>1. k \in 0 + 1 .. i - 1
        BY <1>6, <3>4
      <4>2. g[k] = f[k]
        BY <3>1, <3>4
      <4>3. f[k] = FreeStep(w, p, k, f[k - 1])
        BY <1>7, <4>1 DEF FreeUpto
      <4> QED BY <3>2, <4>2, <4>3
    <3> QED BY <3>3, <3>4
  <2> HIDE DEF g
  <2> QED BY <2>1, <2>2, <2>3 DEF FreeUpto
<1> QED BY <1>4, <1>8

\* So the loop of pbuf_free obeys its equation at every turn.
LEMMA FreeIs ==
    ASSUME NEW w, NEW p, Cardinality(DOMAIN w.pb) \in Nat
    PROVE  FreeUpto(w, p, Cardinality(DOMAIN w.pb), FreeTurns(w, p))
<1>0. PICK N : N = Cardinality(DOMAIN w.pb)
  OBVIOUS
<1>1. N \in 0 .. N
  BY <1>0
<1>2. PICK f : FreeUpto(w, p, N, f)
  BY <1>0, <1>1, FreeExists
<1>3. FreeEq(w, p, f)
  <2> DEFINE g == [k \in 0 .. N |-> IF k = 0 THEN [m |-> w, p |-> p] ELSE FreeStep(w, p, k, f[k - 1])]
  <2>1. ASSUME NEW k \in 0 .. N PROVE f[k] = g[k]
    <3>1. CASE k = 0
      BY <1>2, <3>1 DEF FreeUpto
    <3>2. CASE k # 0
      <4>1. k \in 0 + 1 .. N
        BY <1>0, <3>2
      <4>2. f[k] = FreeStep(w, p, k, f[k - 1])
        BY <1>2, <4>1 DEF FreeUpto
      <4> QED BY <3>2, <4>2
    <3> QED BY <3>1, <3>2
  <2>2. f = [k \in 0 .. N |-> f[k]]
    BY <1>2 DEF FreeUpto
  <2>3. g = [k \in 0 .. N |-> g[k]]
    OBVIOUS
  <2>4. f = g
    <3> HIDE DEF g
    <3> QED BY <2>1, <2>2, <2>3
  <2> QED BY <1>0, <2>4 DEF FreeEq
<1>4. FreeEq(w, p, FreeTurns(w, p))
  <2>1. FreeEq(w, p, CHOOSE u : FreeEq(w, p, u))
    BY <1>3, Zenon
  <2> QED BY <2>1, FreeChoice
<1>5. PICK z : z = FreeTurns(w, p)
  OBVIOUS
<1>6. z = [k \in 0 .. N |-> IF k = 0 THEN [m |-> w, p |-> p] ELSE FreeStep(w, p, k, z[k - 1])]
  BY <1>0, <1>4, <1>5 DEF FreeEq
<1>7. z = [k \in 0 .. N |-> z[k]]
  BY <1>6
<1>8. z[0] = [m |-> w, p |-> p]
  BY <1>0, <1>1, <1>6
<1>9. ASSUME NEW k \in 0 + 1 .. N PROVE z[k] = FreeStep(w, p, k, z[k - 1])
  <2>1. k \in 0 .. N /\ k # 0
    BY <1>0
  <2> QED BY <1>6, <2>1
<1>10. FreeUpto(w, p, N, z)
  BY <1>7, <1>8, <1>9 DEF FreeUpto
<1> QED BY <1>0, <1>5, <1>10

\* What freeing leaves of the pbufs: some are gone, and their length can still
\* be read in a pool element; the others have their link and length.
Kept(w, u) ==
    /\ DOMAIN u.pb \subseteq DOMAIN w.pb
    /\ \A q \in DOMAIN u.pb : u.pb[q].next = w.pb[q].next /\ u.pb[q].tot_len = w.pb[q].tot_len
    /\ \A q \in POOL \ DOMAIN u.pb :
          u.was[q] = IF q \in DOMAIN w.pb THEN w.pb[q].tot_len ELSE w.was[q]

\* What is kept by two steps is kept by both.
LEMMA KeptKept ==
    ASSUME NEW w, NEW u, NEW v, Kept(w, u), Kept(u, v)
    PROVE  Kept(w, v)
BY DEF Kept

\* One turn: the reference to y.p is dropped.
LEMMA TurnSound ==
    ASSUME NEW y, NEW e \in [Pointers -> Nat], NEW X, Sound(y.m, More(e, y.p), X), y.p # NULL,
           y.p \in Pointers
    PROVE  LET z == FreeTurn(y)
           IN  /\ Sound(z.m, More(e, z.p), X)
               /\ Kept(y.m, z.m)
               /\ z.p = NULL \/ (z.p \in Pointers /\ DOMAIN z.m.pb = DOMAIN y.m.pb \ {y.p})
<1>1. PICK w, p, pb : w = y.m /\ p = y.p /\ pb = w.pb
  OBVIOUS
<1>2. Shape(w) /\ PbOK(pb) /\ Stored(w) /\ RefsOK(pb, More(e, p)) /\ TotOK(pb, X) /\ p \in Pointers /\ p # NULL
  BY <1>1 DEF Sound
<1>3. p \in DOMAIN pb
  <2>1. More(e, p)[p] = e[p] + 1 /\ e[p] \in Nat
    BY <1>2, MoreIs
  <2> QED BY <1>2, <2>1 DEF RefsOK
<1>4. CASE pb[p].ref = 1
  <2>1. PICK u, n : u = Dealloc(w, p) /\ n = pb[p].next
    OBVIOUS
  <2>2. FreeTurn(y) = [m |-> u, p |-> n]
    BY <1>1, <1>4, <2>1 DEF FreeTurn
  <2>3. FreeTurn(y).m = u /\ FreeTurn(y).p = n
    BY <2>2
  <2>4. Gone(w, p, u)
    BY <1>1, <1>2, <1>3, <2>1, DeallocOK
  <2>5. Shape(u) /\ Stored(u) /\ u.pb = Cut(pb, p)
    BY <1>1, <2>4 DEF Gone
  <2>6. PbOK(u.pb) /\ DOMAIN u.pb = DOMAIN pb \ {p} /\ \A q \in DOMAIN pb \ {p} : u.pb[q] = pb[q]
    <3>1. PICK b : b = Cut(pb, p)
      OBVIOUS
    <3>2. PbOK(b) /\ DOMAIN b = DOMAIN pb \ {p} /\ \A q \in DOMAIN pb \ {p} : b[q] = pb[q]
      BY <1>2, <3>1, CutIs
    <3> QED BY <2>5, <3>1, <3>2
  <2>7. RefsOK(u.pb, More(e, n))
    BY <1>2, <1>3, <1>4, <2>1, <2>5, CutRefs
  <2>8. LinksTo(pb, p) = {}
    BY <1>2, <1>3, <1>4, LastReference
  <2>9. TotOK(u.pb, X)
    <3> SUFFICES ASSUME NEW q \in DOMAIN u.pb \ X
                 PROVE  u.pb[q].tot_len = u.pb[q].len + (IF u.pb[q].next = NULL THEN 0 ELSE u.pb[u.pb[q].next].tot_len)
      BY DEF TotOK
    <3>1. q \in DOMAIN pb \ X /\ u.pb[q] = pb[q] /\ pb[q].next # p
      BY <2>6, <2>8 DEF LinksTo
    <3>2. pb[q].tot_len = pb[q].len + (IF pb[q].next = NULL THEN 0 ELSE pb[pb[q].next].tot_len)
      BY <1>2, <3>1 DEF TotOK
    <3>3. pb[q].next # NULL => pb[q].next \in DOMAIN pb
      BY <1>2, <3>1 DEF RefsOK
    <3>4. pb[q].next # NULL => u.pb[pb[q].next] = pb[pb[q].next]
      BY <2>6, <3>1, <3>3
    <3> QED BY <3>1, <3>2, <3>4
  <2>10. Sound(u, More(e, n), X)
    BY <2>5, <2>6, <2>7, <2>9 DEF Sound
  <2>11. Kept(w, u)
    <3>1. ASSUME NEW q \in POOL \ DOMAIN u.pb
          PROVE  u.was[q] = IF q \in DOMAIN w.pb THEN w.pb[q].tot_len ELSE w.was[q]
      BY <1>1, <1>3, <2>4, <2>6 DEF Gone
    <3> QED BY <1>1, <2>6, <3>1 DEF Kept
  <2>12. n = NULL \/ n \in Pointers
    BY <1>2, <1>3, <2>1, PbIs DEF RefsOK
  <2> QED BY <1>1, <2>3, <2>6, <2>10, <2>11, <2>12
<1>5. CASE pb[p].ref # 1
  <2>1. PICK u, b : u = [w EXCEPT !.pb[p].ref = @ - 1] /\ b = [pb EXCEPT ![p].ref = @ - 1]
    OBVIOUS
  <2>2. FreeTurn(y) = [m |-> u, p |-> NULL]
    BY <1>1, <1>5, <2>1 DEF FreeTurn
  <2>3. FreeTurn(y).m = u /\ FreeTurn(y).p = NULL
    BY <2>2
  <2>4. u.pb = b /\ u.pool = w.pool /\ u.refs = w.refs /\ u.heap = w.heap /\ u.was = w.was /\ Shape(u)
    BY <1>1, <1>2, <2>1 DEF Shape
  <2>5. /\ PbOK(b) /\ DOMAIN b = DOMAIN pb /\ RefsOK(b, e)
        /\ \A q \in DOMAIN pb : /\ b[q].next = pb[q].next /\ b[q].len = pb[q].len
                                /\ b[q].tot_len = pb[q].tot_len /\ b[q].room = pb[q].room
    <3>1. Recounted(pb, e, b)
      BY <1>2, <1>3, <1>5, <2>1, LessRefs
    <3> QED BY <3>1 DEF Recounted
  <2>6. Stored(u)
    <3>1. \A q \in DOMAIN pb : InsideOK(u.heap, q, b[q])
      BY <1>1, <1>2, <2>4, <2>5, InsideStays DEF Stored
    <3> QED BY <1>1, <1>2, <2>4, <2>5, <3>1 DEF Stored
  <2>7. TotOK(b, X)
    BY <1>2, <2>5 DEF TotOK, RefsOK
  <2>8. More(e, NULL) = e
    BY DEF More
  <2>9. Sound(u, More(e, NULL), X)
    BY <2>4, <2>5, <2>6, <2>7, <2>8 DEF Sound
  <2>10. Kept(w, u)
    BY <1>1, <2>4, <2>5 DEF Kept
  <2> QED BY <1>1, <2>3, <2>4, <2>5, <2>9, <2>10
<1> QED BY <1>4, <1>5

\* Where the loop is: one reference less to give back with every turn.
LoopOK(w, e, X, x, k) ==
    /\ Sound(x.m, More(e, x.p), X) /\ Kept(w, x.m)
    /\ x.p = NULL \/ (x.p \in Pointers /\ Cardinality(DOMAIN x.m.pb) <= Cardinality(DOMAIN w.pb) - k)

\* Every turn deallocates a pbuf or is the last.
LEMMA LoopStep ==
    ASSUME NEW w, NEW e \in [Pointers -> Nat], NEW X, NEW y, NEW k \in Nat, LoopOK(w, e, X, y, k), y.p # NULL,
           Cardinality(DOMAIN w.pb) \in Nat
    PROVE  LoopOK(w, e, X, FreeTurn(y), k + 1)
<1>1. PICK z : z = FreeTurn(y)
  OBVIOUS
<1>2. Sound(y.m, More(e, y.p), X) /\ y.p \in Pointers /\ Kept(w, y.m)
  BY DEF LoopOK
<1>3. /\ Sound(z.m, More(e, z.p), X)
      /\ Kept(y.m, z.m)
      /\ z.p = NULL \/ (z.p \in Pointers /\ DOMAIN z.m.pb = DOMAIN y.m.pb \ {y.p})
  BY <1>1, <1>2, TurnSound
<1>4. Kept(w, z.m)
  BY <1>2, <1>3, KeptKept
<1>5. ASSUME z.p # NULL PROVE Cardinality(DOMAIN z.m.pb) <= Cardinality(DOMAIN w.pb) - (k + 1)
  <2>1. PICK D : D = DOMAIN y.m.pb
    OBVIOUS
  <2>2. More(e, y.p)[y.p] = e[y.p] + 1 /\ e[y.p] \in Nat
    BY <1>2, MoreIs
  <2>3. y.p \in D /\ D \subseteq Pointers
    BY <1>2, <2>1, <2>2 DEF Sound, RefsOK, PbOK
  <2>4. IsFiniteSet(D) /\ Cardinality(D) \in Nat
    BY <2>3, PointersFinite
  <2>5. Cardinality(D \ {y.p}) = Cardinality(D) - 1
    BY <2>3, <2>4, FS_RemoveElement
  <2>6. Cardinality(D) <= Cardinality(DOMAIN w.pb) - k
    BY <2>1 DEF LoopOK
  <2>7. Cardinality(DOMAIN z.m.pb) = Cardinality(D) - 1
    BY <1>3, <1>5, <2>1, <2>5
  <2> QED BY <2>4, <2>6, <2>7
<1> QED BY <1>1, <1>3, <1>4, <1>5 DEF LoopOK

\* pbuf_free takes one reference to p, and all that hangs on it.
LEMMA FreeSound ==
    ASSUME NEW w, NEW e \in [Pointers -> Nat], NEW X, NEW p \in Pointers, Sound(w, More(e, p), X)
    PROVE  Sound(pbuf_free(w, p), e, X) /\ Kept(w, pbuf_free(w, p))
<1>1. PICK N : N = Cardinality(DOMAIN w.pb)
  OBVIOUS
<1>2. N \in Nat
  BY <1>1, PointersFinite DEF Sound, PbOK
<1>3. PICK f : f = FreeTurns(w, p)
  OBVIOUS
<1>4. /\ f[0] = [m |-> w, p |-> p]
      /\ \A k \in 1 .. N : f[k] = IF f[k - 1].p = NULL THEN f[k - 1] ELSE FreeTurn(f[k - 1])
  <2>1. FreeUpto(w, p, N, f)
    BY <1>1, <1>2, <1>3, FreeIs
  <2>2. 0 + 1 = 1
    OBVIOUS
  <2> QED BY <2>1, <2>2 DEF FreeUpto, FreeStep
<1>5. LoopOK(w, e, X, f[0], 0)
  <2>1. f[0].m = w /\ f[0].p = p
    BY <1>4
  <2>2. Kept(w, w)
    BY DEF Kept
  <2>3. N <= N - 0
    BY <1>2
  <2> QED BY <1>1, <2>1, <2>2, <2>3 DEF LoopOK
<1>6. ASSUME NEW k \in 1 .. N, LoopOK(w, e, X, f[k - 1], k - 1) PROVE LoopOK(w, e, X, f[k], k)
  <2>1. k \in Nat /\ k - 1 \in Nat /\ (k - 1) + 1 = k
    BY <1>2
  <2>2. CASE f[k - 1].p = NULL
    <3>1. f[k] = f[k - 1]
      BY <1>4, <2>2
    <3> QED BY <1>6, <2>2, <3>1 DEF LoopOK
  <2>3. CASE f[k - 1].p # NULL
    <3>1. f[k] = FreeTurn(f[k - 1])
      BY <1>4, <2>3
    <3>2. PICK j, y : j = k - 1 /\ y = f[k - 1]
      OBVIOUS
    <3>3. LoopOK(w, e, X, FreeTurn(y), j + 1)
      BY <1>1, <1>2, <1>6, <2>1, <2>3, <3>2, LoopStep
    <3> QED BY <2>1, <3>1, <3>2, <3>3
  <2> QED BY <2>2, <2>3
<1>7. LoopOK(w, e, X, f[N], N)
  <2> DEFINE T == {i \in 0 .. N : ~LoopOK(w, e, X, f[i], i)}
  <2>1. SUFFICES ASSUME T # {} PROVE FALSE
    BY <1>2
  <2>2. T \in SUBSET Nat
    OBVIOUS
  <2>3. PICK i \in T : \A y \in T : i <= y
    BY <2>1, <2>2, Least
  <2>4. i \in 0 .. N /\ i # 0
    BY <1>5
  <2>5. i \in 1 .. N /\ i - 1 \in 0 .. N /\ i - 1 \notin T
    BY <1>2, <2>3, <2>4
  <2> QED BY <1>6, <2>5
<1>8. PICK x : x = f[N]
  OBVIOUS
<1>9. Sound(x.m, More(e, x.p), X) /\ Kept(w, x.m)
  BY <1>7, <1>8 DEF LoopOK
<1>10. x.p = NULL
  <2> SUFFICES ASSUME x.p # NULL PROVE FALSE
    OBVIOUS
  <2>1. x.p \in Pointers /\ Cardinality(DOMAIN x.m.pb) <= N - N
    BY <1>1, <1>7, <1>8 DEF LoopOK
  <2>2. More(e, x.p)[x.p] = e[x.p] + 1 /\ e[x.p] \in Nat
    BY <2>1, MoreIs
  <2>3. x.p \in DOMAIN x.m.pb /\ DOMAIN x.m.pb \subseteq Pointers
    BY <1>9, <2>1, <2>2 DEF Sound, RefsOK, PbOK
  <2>4. IsFiniteSet(DOMAIN x.m.pb) /\ Cardinality(DOMAIN x.m.pb) \in Nat
    BY <2>3, PointersFinite
  <2>5. Cardinality(DOMAIN x.m.pb) = 0
    BY <1>2, <2>1, <2>4
  <2> QED BY <2>3, <2>4, <2>5, FS_EmptySet
<1>11. More(e, x.p) = e
  BY <1>10 DEF More
<1>12. pbuf_free(w, p) = x.m
  BY <1>1, <1>3, <1>8 DEF pbuf_free
<1> QED BY <1>9, <1>11, <1>12

-----------------------------------------------------------------------------
(* pbuf_alloc.                                                             *)

\* T joins the pbufs, each with one reference, linked only among themselves.
Added(pb, T, b) ==
    /\ T \subseteq Pointers \ DOMAIN pb /\ PbOK(b)
    /\ DOMAIN b = DOMAIN pb \cup T
    /\ \A q \in DOMAIN pb : b[q] = pb[q]
    /\ \A q \in T : b[q].ref = 1 /\ (b[q].next = NULL \/ b[q].next \in T)

\* All of T but the first are linked once.
LEMMA AddedRefs ==
    ASSUME NEW pb, PbOK(pb), NEW e \in [Pointers -> Nat], RefsOK(pb, e), NEW T, NEW b, Added(pb, T, b),
           NEW p \in T, {r \in T : b[r].next = p} = {},
           \A q \in T \ {p} : \E s \in T : {r \in T : b[r].next = q} = {s}
    PROVE  RefsOK(b, More(e, p))
<1>1. p \in Pointers /\ T \subseteq Pointers /\ NULL \notin T /\ NULL \notin DOMAIN pb
  <2>1. T \subseteq Pointers /\ DOMAIN pb \subseteq Pointers
    BY DEF Added, PbOK
  <2> QED BY <2>1, PointersAre
<1>2. PICK f : f = More(e, p)
  OBVIOUS
<1>3. f \in [Pointers -> Nat] /\ \A q \in Pointers : f[q] = IF q = p THEN e[q] + 1 ELSE e[q]
  BY <1>1, <1>2, MoreIs
<1>4. \A q \in T : e[q] = 0
  <2> SUFFICES ASSUME NEW q \in T PROVE e[q] = 0
    OBVIOUS
  <2>1. q \in Pointers /\ q \notin DOMAIN pb /\ e[q] \in Nat
    BY <1>1 DEF Added
  <2>2. ~(e[q] > 0)
    BY <2>1 DEF RefsOK
  <2> QED BY <2>1, <2>2
<1>5. \A q \in DOMAIN pb : pb[q].next = NULL \/ pb[q].next \in DOMAIN pb
  BY DEF RefsOK
<1>6. \A q \in DOMAIN b : q \in Pointers /\ (q \in DOMAIN pb \/ q \in T)
  BY <1>1 DEF Added, PbOK
<1>7. ASSUME NEW q \in DOMAIN pb PROVE LinksTo(b, q) = LinksTo(pb, q)
  BY <1>1, <1>7 DEF Added, LinksTo
<1>8. ASSUME NEW q \in T PROVE LinksTo(b, q) = {r \in T : b[r].next = q}
  <2>1. q \notin DOMAIN pb /\ q # NULL
    BY <1>1, <1>8 DEF Added
  <2>2. \A r \in DOMAIN pb : b[r].next # q
    BY <1>5, <2>1 DEF Added
  <2> QED BY <2>2 DEF Added, LinksTo
<1>9. ASSUME NEW q \in DOMAIN b
      PROVE  /\ b[q].next # NULL => b[q].next \in DOMAIN b
             /\ b[q].ref = Cardinality(LinksTo(b, q)) + f[q]
             /\ b[q].ref > 0
  <2>1. CASE q \in DOMAIN pb
    <3>1. f[q] = e[q] /\ b[q] = pb[q] /\ LinksTo(b, q) = LinksTo(pb, q)
      BY <1>3, <1>6, <1>7, <2>1 DEF Added
    <3>2. /\ pb[q].ref = Cardinality(LinksTo(pb, q)) + e[q]
          /\ pb[q].ref > 0
      BY <2>1 DEF RefsOK
    <3> QED BY <1>5, <2>1, <3>1, <3>2 DEF Added
  <2>2. CASE q \in T
    <3>1. b[q].ref = 1 /\ (b[q].next = NULL \/ b[q].next \in DOMAIN b)
      BY <2>2 DEF Added
    <3>2. 1 = Cardinality(LinksTo(b, q)) + f[q]
      <4>1. CASE q = p
        <5>1. f[q] = 1
          BY <1>1, <1>3, <1>4, <4>1
        <5>2. LinksTo(b, q) = {}
          BY <1>8, <4>1
        <5> QED BY <5>1, <5>2, FS_EmptySet
      <4>2. CASE q # p
        <5>1. f[q] = 0
          BY <1>1, <1>3, <1>4, <2>2, <4>2
        <5>2. PICK s \in T : {r \in T : b[r].next = q} = {s}
          BY <2>2, <4>2
        <5>3. LinksTo(b, q) = {s}
          BY <1>8, <2>2, <5>2
        <5>4. Cardinality({s}) = 1
          BY FS_Singleton
        <5> QED BY <5>1, <5>3, <5>4
      <4> QED BY <4>1, <4>2
    <3> QED BY <3>1, <3>2
  <2> QED BY <1>6, <2>1, <2>2
<1>10. \A q \in Pointers : f[q] > 0 => q \in DOMAIN b
  <2> SUFFICES ASSUME NEW q \in Pointers, f[q] > 0 PROVE q \in DOMAIN b
    OBVIOUS
  <2>1. CASE q = p
    BY <2>1 DEF Added
  <2>2. CASE q # p
    BY <1>3, <2>2 DEF Added, RefsOK
  <2> QED BY <2>1, <2>2
<1> QED BY <1>2, <1>3, <1>9, <1>10 DEF RefsOK

\* The lengths agree when those of the new pbufs do.
LEMMA AddedTot ==
    ASSUME NEW pb, PbOK(pb), NEW e, RefsOK(pb, e), NEW X, TotOK(pb, X), NEW T, NEW b, Added(pb, T, b),
           \A q \in T \ X :
             b[q].tot_len = b[q].len + (IF b[q].next = NULL THEN 0 ELSE b[b[q].next].tot_len)
    PROVE  TotOK(b, X)
<1> SUFFICES ASSUME NEW q \in DOMAIN b \ X
             PROVE  b[q].tot_len = b[q].len + (IF b[q].next = NULL THEN 0 ELSE b[b[q].next].tot_len)
  BY DEF TotOK
<1>1. CASE q \in T
  BY <1>1
<1>2. CASE q \in DOMAIN pb
  <2>1. pb[q].tot_len = pb[q].len + (IF pb[q].next = NULL THEN 0 ELSE pb[pb[q].next].tot_len)
    BY <1>2 DEF TotOK
  <2>2. pb[q].next = NULL \/ pb[q].next \in DOMAIN pb
    BY <1>2 DEF RefsOK
  <2>3. b[q] = pb[q] /\ (pb[q].next # NULL => b[pb[q].next] = pb[pb[q].next])
    BY <1>2, <2>2 DEF Added
  <2> QED BY <2>1, <2>3
<1> QED BY <1>1, <1>2 DEF Added

\* One pbuf of its own.
LEMMA PutSound ==
    ASSUME NEW pb, PbOK(pb), NEW e \in [Pointers -> Nat], RefsOK(pb, e), TotOK(pb, {}),
           NEW p \in Pointers \ DOMAIN pb, NEW len \in Nat, NEW room \in Nat,
           NEW b, b = Put(pb, p, New(NULL, len, len, room))
    PROVE  /\ Added(pb, {p}, b) /\ RefsOK(b, More(e, p)) /\ TotOK(b, {})
           /\ b[p].len = len /\ b[p].room = room
<1>1. PICK c : c = New(NULL, len, len, room)
  OBVIOUS
<1>2. c \in PbufRec /\ c.next = NULL /\ c.len = len /\ c.tot_len = len /\ c.ref = 1 /\ c.room = room
  BY <1>1 DEF New, PbufRec, NULL
<1>3. DOMAIN b = DOMAIN pb \cup {p} /\ b[p] = c /\ \A q \in DOMAIN pb : b[q] = pb[q]
  BY <1>1 DEF Put
<1>4. b \in [DOMAIN b -> PbufRec]
  <2>1. b = [y \in DOMAIN pb \cup {p} |-> IF y = p THEN c ELSE pb[y]]
    BY <1>1 DEF Put
  <2>2. \A y \in DOMAIN pb : pb[y] \in PbufRec
    BY PbIs
  <2> QED BY <1>2, <1>3, <2>1, <2>2
<1>5. PbOK(b)
  BY <1>3, <1>4 DEF PbOK
<1>6. Added(pb, {p}, b)
  BY <1>2, <1>3, <1>5 DEF Added
<1>7. p # NULL
  BY PointersAre
<1>8. {r \in {p} : b[r].next = p} = {}
  BY <1>2, <1>3, <1>7
<1>9. RefsOK(b, More(e, p))
  <2>1. PICK T : T = {p}
    OBVIOUS
  <2>2. /\ Added(pb, T, b) /\ p \in T /\ {r \in T : b[r].next = p} = {}
        /\ \A q \in T \ {p} : \E s \in T : {r \in T : b[r].next = q} = {s}
    BY <1>6, <1>8, <2>1
  <2> QED BY <2>2, AddedRefs
<1>10. TotOK(b, {})
  <2>1. PICK T, X : T = {p} /\ X = {}
    OBVIOUS
  <2>2. \A q \in T \ X : b[q].tot_len = b[q].len + (IF b[q].next = NULL THEN 0 ELSE b[b[q].next].tot_len)
    BY <1>2, <1>3, <2>1
  <2>3. Added(pb, T, b) /\ TotOK(pb, X)
    BY <1>6, <2>1
  <2> QED BY <2>1, <2>2, <2>3, AddedTot
<1> QED BY <1>2, <1>3, <1>6, <1>9, <1>10

\* What pbuf_alloc returns, r.p in the memory r.m.
Given(w, e, r) ==
    /\ Sound(r.m, More(e, r.p), {})
    /\ r.p # NULL =>
          /\ r.p \in Pointers \ DOMAIN w.pb
          /\ \A q \in DOMAIN w.pb : q \in DOMAIN r.m.pb /\ r.m.pb[q] = w.pb[q]

\* A pbuf struct without memory for its payload.
LEMMA AllocRefSound ==
    ASSUME NEW w, NEW e \in [Pointers -> Nat], Sound(w, e, {}), NEW len \in Nat
    PROVE  Given(w, e, AllocRef(w, len))
<1>1. PICK r, s, pb : r = AllocRef(w, len) /\ s = w.refs /\ pb = w.pb
  OBVIOUS
<1>2. CASE s = <<>>
  <2>1. r.p = NULL /\ r.m = w
    BY <1>1, <1>2 DEF AllocRef
  <2>2. More(e, r.p) = e
    BY <2>1 DEF More
  <2> QED BY <1>1, <2>1, <2>2 DEF Given
<1>3. CASE s # <<>>
  <2>1. PICK p, b, u : /\ p = Head(s) /\ b = Put(pb, p, New(NULL, len, len, 0))
                       /\ u = [w EXCEPT !.refs = Tail(s), !.pb = b]
    OBVIOUS
  <2>2. r.p = p /\ r.m = u
    BY <1>1, <1>3, <2>1 DEF AllocRef
  <2>3. Shape(w) /\ PbOK(pb) /\ RefsOK(pb, e) /\ TotOK(pb, {}) /\ Stored(w)
    BY <1>1 DEF Sound
  <2>4. u.pb = b /\ u.refs = Tail(s) /\ u.pool = w.pool /\ u.heap = w.heap /\ u.was = w.was /\ Shape(u)
    BY <2>1, <2>3 DEF Shape
  <2>5. PICK D : D = DOMAIN pb
    OBVIOUS
  <2>6. /\ FreeList(w.pool, POOL \ D) /\ FreeList(s, REFS \ D)
        /\ HeapOK(w.heap)
        /\ {RAM(c) : c \in Blocks(w.heap)} = D \ (POOL \cup REFS)
        /\ \A q \in D : InsideOK(w.heap, q, pb[q])
    BY <1>1, <2>3, <2>5 DEF Stored, StoreOK
  <2>7. s \in Seq(Nat) /\ Len(s) \in Nat /\ Len(s) >= 1 /\ p = s[1] /\ DOMAIN s = 1 .. Len(s)
    BY <1>3, <2>1, <2>6 DEF FreeList
  <2>8. p \in REFS \ D
    <3>1. 1 \in DOMAIN s
      BY <2>7
    <3> QED BY <2>6, <2>7, <3>1 DEF FreeList, Range
  <2>9. p \in Pointers \ DOMAIN pb /\ p \notin POOL
    BY <2>5, <2>8, PoolsAre
  <2>10. /\ Added(pb, {p}, b) /\ RefsOK(b, More(e, p)) /\ TotOK(b, {})
         /\ b[p].len = len /\ b[p].room = 0
    <3>1. PICK z : z = 0
      OBVIOUS
    <3>2. z \in Nat /\ b = Put(pb, p, New(NULL, len, len, z))
      BY <2>1, <3>1
    <3> QED BY <2>3, <2>9, <3>1, <3>2, PutSound
  <2>11. PbOK(b) /\ DOMAIN b = D \cup {p} /\ \A q \in D : b[q] = pb[q]
    BY <2>5, <2>10 DEF Added
  <2>12. FreeList(Tail(s), REFS \ (D \cup {p}))
    <3>1. PICK t, S : t = Tail(s) /\ S = REFS \ D
      OBVIOUS
    <3>2. t \in Seq(Nat) /\ Len(t) = Len(s) - 1 /\ \A i \in 1 .. Len(s) - 1 : t[i] = s[i + 1]
      BY <1>3, <2>7, <3>1
    <3>3. 1 \in 0 .. Len(s)
      BY <2>7
    <3>4. FreeList(s, S)
      BY <2>6, <3>1
    <3>5. FreeList(t, S \ {s[i] : i \in 1 .. 1})
      BY <3>2, <3>3, <3>4, ListTaken
    <3>6. {s[i] : i \in 1 .. 1} = {p}
      BY <2>7
    <3>7. S \ {p} = REFS \ (D \cup {p})
      BY <3>1
    <3> QED BY <3>1, <3>5, <3>6, <3>7
  <2>13. POOL \ (D \cup {p}) = POOL \ D /\ (D \cup {p}) \ (POOL \cup REFS) = D \ (POOL \cup REFS)
    BY <2>8, <2>9
  <2>14. StoreOK(u.pool, u.refs, u.heap, D \cup {p})
    BY <2>4, <2>6, <2>12, <2>13 DEF StoreOK
  <2>15. InsideOK(w.heap, p, b[p])
    BY <2>8, <2>9, TypeIs DEF InsideOK
  <2>16. Stored(u)
    BY <2>4, <2>6, <2>11, <2>14, <2>15 DEF Stored
  <2>17. Sound(u, More(e, p), {})
    BY <2>4, <2>10, <2>11, <2>16 DEF Sound
  <2> QED BY <1>1, <2>2, <2>4, <2>5, <2>9, <2>11, <2>17 DEF Given
<1> QED BY <1>2, <1>3

\* A pbuf in a block of the heap, with room for the headers and the payload.
LEMMA AllocRamSound ==
    ASSUME NEW w, NEW e \in [Pointers -> Nat], Sound(w, e, {}), NEW offset \in Nat, NEW len \in Nat
    PROVE  Given(w, e, AllocRam(w, offset, len))
<1>1. PICK r, size, c, pb : /\ r = AllocRam(w, offset, len) /\ pb = w.pb
                            /\ size = SIZEOF_STRUCT_PBUF + offset + len /\ c = mem_malloc_at(w.heap, size)
  OBVIOUS
<1>2. CASE c = FAIL
  <2>1. r.p = NULL /\ r.m = w
    BY <1>1, <1>2 DEF AllocRam
  <2>2. More(e, r.p) = e
    BY <2>1 DEF More
  <2> QED BY <1>1, <2>1, <2>2 DEF Given
<1>3. CASE c # FAIL
  <2>1. PICK p, b, g, u : /\ p = RAM(c) /\ b = Put(pb, p, New(NULL, len, len, offset))
                          /\ g = mem_malloc(w.heap, size)
                          /\ u = [w EXCEPT !.heap = g, !.pb = b]
    OBVIOUS
  <2>2. r.p = p /\ r.m = u
    BY <1>1, <1>3, <2>1 DEF AllocRam
  <2>3. Shape(w) /\ PbOK(pb) /\ RefsOK(pb, e) /\ TotOK(pb, {}) /\ Stored(w)
    BY <1>1 DEF Sound
  <2>4. u.pb = b /\ u.refs = w.refs /\ u.pool = w.pool /\ u.heap = g /\ u.was = w.was /\ Shape(u)
    BY <2>1, <2>3 DEF Shape
  <2>5. PICK D : D = DOMAIN pb
    OBVIOUS
  <2>6. /\ FreeList(w.pool, POOL \ D) /\ FreeList(w.refs, REFS \ D)
        /\ HeapOK(w.heap)
        /\ {RAM(x) : x \in Blocks(w.heap)} = D \ (POOL \cup REFS)
        /\ \A q \in D : InsideOK(w.heap, q, pb[q])
        /\ StoreOK(w.pool, w.refs, w.heap, D) /\ D \subseteq Pointers
    BY <1>1, <2>3, <2>5 DEF Stored, StoreOK, PbOK
  <2>7. size \in Nat
    BY <1>1, Constants
  <2>8. /\ HeapOK(g) /\ c \in 0 .. MEM_SIZE /\ c \notin Blocks(w.heap) /\ Blocks(g) = Blocks(w.heap) \cup {c}
        /\ DataSize(g, c) >= size
        /\ \A q \in Blocks(w.heap) : DataSize(g, q) = DataSize(w.heap, q)
    BY <1>1, <1>3, <2>1, <2>6, <2>7, mem_mallocOK
  <2>9. p \in Pointers /\ p \notin POOL \cup REFS /\ Block(p) = c
    BY <2>1, <2>8, PoolsAre
  <2>10. p \notin D
    <3> SUFFICES ASSUME p \in D PROVE FALSE
      OBVIOUS
    <3>1. Block(p) \in Blocks(w.heap)
      BY <2>6, <2>9, BlockOf
    <3> QED BY <2>8, <2>9, <3>1
  <2>11. /\ Added(pb, {p}, b) /\ RefsOK(b, More(e, p)) /\ TotOK(b, {})
         /\ b[p].len = len /\ b[p].room = offset
    BY <2>1, <2>3, <2>5, <2>9, <2>10, PutSound
  <2>12. PbOK(b) /\ DOMAIN b = D \cup {p} /\ \A q \in D : b[q] = pb[q]
    BY <2>5, <2>11 DEF Added
  <2>13. POOL \ (D \cup {p}) = POOL \ D /\ REFS \ (D \cup {p}) = REFS \ D
    BY <2>9
  <2>14. {RAM(x) : x \in Blocks(g)} = (D \cup {p}) \ (POOL \cup REFS)
    <3>1. {RAM(x) : x \in Blocks(g)} = {RAM(x) : x \in Blocks(w.heap)} \cup {p}
      BY <2>1, <2>8
    <3> QED BY <2>6, <2>9, <3>1
  <2>15. StoreOK(u.pool, u.refs, u.heap, D \cup {p})
    BY <2>4, <2>6, <2>8, <2>13, <2>14 DEF StoreOK
  <2>16. ASSUME NEW q \in D \cup {p} PROVE InsideOK(g, q, b[q])
    <3>1. CASE q = p
      <4>1. Type(p) = "RAM"
        BY <2>9, TypeIs
      <4>2. SIZEOF_STRUCT_PBUF + b[p].room + b[p].len <= DataSize(g, Block(p))
        BY <1>1, <2>8, <2>9, <2>11
      <4> QED BY <3>1, <4>1, <4>2 DEF InsideOK
    <3>2. CASE q \in D
      <4>1. InsideOK(w.heap, q, pb[q]) /\ b[q] = pb[q] /\ q \in Pointers
        BY <2>6, <2>12, <3>2
      <4>2. ASSUME Type(q) = "RAM" PROVE DataSize(g, Block(q)) = DataSize(w.heap, Block(q))
        <5>1. q \notin POOL \cup REFS
          BY <4>1, <4>2, TypeIs
        <5>2. Block(q) \in Blocks(w.heap)
          BY <2>6, <3>2, <5>1, BlockOf
        <5> QED BY <2>8, <5>2
      <4> QED BY <4>1, <4>2, InsideStays
    <3> QED BY <3>1, <3>2
  <2>17. Stored(u)
    BY <2>4, <2>12, <2>15, <2>16 DEF Stored
  <2>18. Sound(u, More(e, p), {})
    BY <2>4, <2>11, <2>12, <2>17 DEF Sound
  <2> QED BY <1>1, <2>2, <2>4, <2>5, <2>9, <2>10, <2>12, <2>18 DEF Given
<1> QED BY <1>2, <1>3

-----------------------------------------------------------------------------
(* A chain of pool elements.                                               *)

\* The elements wanted hold everything, and one fewer would not.
LEMMA PoolCountIs ==
    ASSUME NEW offset \in Nat, NEW len \in Nat
    PROVE  /\ PoolCount(offset, len) \in Nat /\ PoolCount(offset, len) >= 1
           /\ offset + len <= PoolCount(offset, len) * BUFSIZE
           /\ \A i \in Nat : i >= 1 /\ i < PoolCount(offset, len) => i * BUFSIZE < offset + len
<1>1. PICK S, B, t : /\ t = offset + len /\ B = BUFSIZE
                     /\ S = {n \in 1 .. offset + len + 1 : offset + len <= n * BUFSIZE}
  OBVIOUS
<1>2. B \in Nat /\ B >= 1 /\ t \in Nat
  BY <1>1, Constants
<1>3. t + 1 \in S
  <2>1. \A a \in Nat, c \in Nat : c >= 1 => a <= (a + 1) * c
    OBVIOUS
  <2> QED BY <1>1, <1>2, <2>1
<1>4. S \subseteq Nat
  BY <1>1
<1>5. PICK n : n = PoolCount(offset, len)
  OBVIOUS
<1>6. n \in S /\ \A i \in S : n <= i
  <2>1. n = Min(S)
    BY <1>1, <1>5 DEF PoolCount
  <2> QED BY <1>3, <1>4, <2>1, MinIs
<1>7. n \in Nat /\ n >= 1 /\ n <= t + 1 /\ t <= n * B
  BY <1>1, <1>2, <1>6
<1>8. ASSUME NEW i \in Nat, i >= 1, i < n PROVE i * B < t
  <2>1. i \in 1 .. t + 1 /\ i \notin S
    BY <1>2, <1>4, <1>6, <1>7, <1>8
  <2>2. ~(t <= i * B) /\ i * B \in Nat
    BY <1>1, <1>2, <2>1
  <2> QED BY <1>2, <2>2
<1> QED BY <1>1, <1>5, <1>7, <1>8

\* What the i-th element holds, and what is left after it.
LEMMA PoolLenIs ==
    ASSUME NEW offset \in 0 .. HLEN, NEW len \in Nat, NEW i \in Nat, i >= 1, i <= PoolCount(offset, len)
    PROVE  /\ PoolRest(offset, len, i) \in Nat /\ PoolLen(offset, len, i) \in Nat
           /\ (IF i = 1 THEN offset ELSE 0) + PoolLen(offset, len, i) <= BUFSIZE
           /\ i = PoolCount(offset, len) => PoolRest(offset, len, i) = PoolLen(offset, len, i)
           /\ i < PoolCount(offset, len) =>
                 PoolRest(offset, len, i) = PoolLen(offset, len, i) + PoolRest(offset, len, i + 1)
<1>1. PICK n, B, rest, l, o : /\ n = PoolCount(offset, len) /\ B = BUFSIZE
                              /\ rest = PoolRest(offset, len, i) /\ l = PoolLen(offset, len, i)
                              /\ o = IF i = 1 THEN BUFSIZE - offset ELSE BUFSIZE
  OBVIOUS
<1>2. /\ B \in Nat /\ offset \in Nat /\ offset < B
      /\ n \in Nat /\ i <= n /\ offset + len <= n * B
      /\ \A j \in Nat : j >= 1 /\ j < n => j * B < offset + len
  <2>1. B \in Nat /\ offset \in Nat /\ offset < B
    BY <1>1, Constants
  <2>2. /\ n \in Nat /\ i <= n /\ offset + len <= n * B
        /\ \A j \in Nat : j >= 1 /\ j < n => j * B < offset + len
    BY <1>1, <2>1, PoolCountIs
  <2> QED BY <2>1, <2>2
<1>3. o \in Nat /\ (IF i = 1 THEN offset ELSE 0) + o = B
  BY <1>1, <1>2
<1>4. (i - 1) * B \in Int /\ i * B \in Int /\ (i - 1) * B + B = i * B
  <2>1. \A a \in Int, c \in Int : (a - 1) * c \in Int /\ a * c \in Int /\ (a - 1) * c + c = a * c
    OBVIOUS
  <2> QED BY <1>2, <2>1
<1>5. rest = (IF i = 1 THEN len ELSE offset + len - (i - 1) * B)
  BY <1>1 DEF PoolRest
<1>6. rest \in Nat
  <2>1. CASE i = 1
    BY <1>5, <2>1
  <2>2. CASE i # 1
    <3>1. i - 1 \in Nat /\ i - 1 >= 1 /\ i - 1 < n
      BY <1>2, <2>2
    <3>2. (i - 1) * B < offset + len
      BY <1>2, <3>1
    <3> QED BY <1>2, <1>4, <1>5, <2>2, <3>2
  <2> QED BY <2>1, <2>2
<1>7. l \in Nat /\ l <= rest /\ l <= o /\ (l = rest \/ l = o)
  <2>1. PICK S : S = {rest, o}
    OBVIOUS
  <2>2. S \subseteq Nat /\ S # {}
    BY <1>3, <1>6, <2>1
  <2>3. l = Min(S)
    BY <1>1, <2>1 DEF PoolLen
  <2>4. l \in S /\ \A x \in S : l <= x
    BY <2>2, <2>3, MinIs
  <2> QED BY <2>1, <2>2, <2>4
<1>8. i * B = B + (i - 1) * B
  BY <1>2, <1>4
<1>9. i = 1 => (i - 1) * B = 0
  BY <1>2
<1>10. rest + i * B = o + (offset + len)
  <2>1. CASE i = 1
    BY <1>1, <1>2, <1>5, <1>8, <1>9, <2>1
  <2>2. CASE i # 1
    BY <1>1, <1>2, <1>4, <1>5, <2>2
  <2> QED BY <2>1, <2>2
<1>11. CASE i = n
  <2>1. rest <= o
    BY <1>2, <1>3, <1>4, <1>6, <1>10, <1>11
  <2>2. rest = l
    BY <1>3, <1>6, <1>7, <2>1
  <2> QED BY <1>1, <1>2, <1>3, <1>6, <1>7, <1>11, <2>2
<1>12. CASE i < n
  <2>1. i * B < offset + len
    BY <1>2, <1>12
  <2>2. l = o
    BY <1>2, <1>3, <1>4, <1>6, <1>7, <1>10, <2>1
  <2>3. PoolRest(offset, len, i + 1) = offset + len - i * B
    <3>1. i + 1 # 1 /\ (i + 1) - 1 = i
      OBVIOUS
    <3> QED BY <1>1, <3>1 DEF PoolRest
  <2>4. rest = l + PoolRest(offset, len, i + 1)
    BY <1>2, <1>3, <1>4, <1>6, <1>10, <2>2, <2>3
  <2> QED BY <1>1, <1>2, <1>3, <1>6, <1>7, <1>12, <2>4
<1> QED BY <1>1, <1>2, <1>11, <1>12

\* The chain of the first n elements of the free list, as AllocPool builds it.
PlaceOf(s, n, q) == CHOOSE i \in 1 .. n : s[i] = q

BuiltPb(pb, s, n, offset, len) ==
    [q \in DOMAIN pb \cup {s[i] : i \in 1 .. n} |->
        IF q \in {s[i] : i \in 1 .. n}
        THEN New(IF PlaceOf(s, n, q) < n THEN s[PlaceOf(s, n, q) + 1] ELSE NULL,
                 PoolLen(offset, len, PlaceOf(s, n, q)),
                 PoolRest(offset, len, PlaceOf(s, n, q)),
                 IF PlaceOf(s, n, q) = 1 THEN offset ELSE 0)
        ELSE pb[q]]

Built(w, n, offset, len) ==
    [w EXCEPT !.pool = SubSeq(w.pool, n + 1, Len(w.pool)),
              !.pb = BuiltPb(w.pb, w.pool, n, offset, len)]

\* AllocPool in terms of the chain that it builds.
LEMMA AllocPoolIs ==
    ASSUME NEW w, NEW offset, NEW len
    PROVE  LET want == PoolCount(offset, len)
               n    == Min({want, Len(w.pool)})
           IN  AllocPool(w, offset, len) =
                 CASE n = 0 -> [p |-> NULL, m |-> w]
                   [] n > 0 /\ n < want -> [p |-> NULL, m |-> pbuf_free(Built(w, n, offset, len), w.pool[1])]
                   [] OTHER -> [p |-> w.pool[1], m |-> Built(w, n, offset, len)]
BY DEF AllocPool, Built, BuiltPb, PlaceOf

\* An element of the chain.
Part(pb, s, n, offset, len, i, b) ==
    /\ b[s[i]].next = (IF i < n THEN s[i + 1] ELSE NULL)
    /\ b[s[i]].len = PoolLen(offset, len, i) /\ b[s[i]].tot_len = PoolRest(offset, len, i)
    /\ b[s[i]].ref = 1 /\ b[s[i]].room = IF i = 1 THEN offset ELSE 0

\* The chain, element by element.
LEMMA BuiltIs ==
    ASSUME NEW pb, PbOK(pb), NEW s, NEW S, FreeList(s, S), S \subseteq Pointers \ DOMAIN pb,
           NEW offset \in 0 .. HLEN, NEW len \in Nat, NEW n \in Nat, n <= Len(s), n <= PoolCount(offset, len),
           NEW b, b = BuiltPb(pb, s, n, offset, len)
    PROVE  /\ Added(pb, {s[i] : i \in 1 .. n}, b)
           /\ \A i \in 1 .. n : Part(pb, s, n, offset, len, i, b)
<1>1. s \in Seq(Nat) /\ Len(s) \in Nat /\ DOMAIN s = 1 .. Len(s) /\ \A i, j \in DOMAIN s : s[i] = s[j] => i = j
  BY DEF FreeList, IsInjective
<1>2. PICK T : T = {s[i] : i \in 1 .. n}
  OBVIOUS
<1>3. \A i \in 1 .. n : i \in Nat /\ i >= 1 /\ i <= n /\ i \in DOMAIN s /\ s[i] \in S /\ s[i] \in Nat
  BY <1>1 DEF FreeList, Range
<1>4. T \subseteq Pointers \ DOMAIN pb
  BY <1>2, <1>3
<1>5. DOMAIN b = DOMAIN pb \cup T /\ \A q \in DOMAIN pb : b[q] = pb[q]
  BY <1>2, <1>4 DEF BuiltPb
<1>6. ASSUME NEW i \in 1 .. n PROVE PlaceOf(s, n, s[i]) = i
  <2>1. PICK j : j = PlaceOf(s, n, s[i])
    OBVIOUS
  <2>2. j \in 1 .. n /\ s[j] = s[i]
    BY <1>6, <2>1 DEF PlaceOf
  <2> QED BY <1>1, <1>3, <1>6, <2>1, <2>2
<1>7. ASSUME NEW i \in 1 .. n
      PROVE  b[s[i]] = New(IF i < n THEN s[i + 1] ELSE NULL, PoolLen(offset, len, i), PoolRest(offset, len, i),
                           IF i = 1 THEN offset ELSE 0)
  <2>1. s[i] \in T /\ PlaceOf(s, n, s[i]) = i
    BY <1>2, <1>6
  <2> QED BY <1>2, <2>1 DEF BuiltPb
<1>8. ASSUME NEW i \in 1 .. n
      PROVE  /\ b[s[i]] \in PbufRec /\ b[s[i]].ref = 1 /\ (b[s[i]].next = NULL \/ b[s[i]].next \in T)
             /\ Part(pb, s, n, offset, len, i, b)
  <2>1. PoolLen(offset, len, i) \in Nat /\ PoolRest(offset, len, i) \in Nat
    <3>1. offset \in Nat
      BY Constants
    <3>2. PoolCount(offset, len) \in Nat
      BY <3>1, PoolCountIs
    <3>3. i \in Nat /\ i >= 1 /\ i <= PoolCount(offset, len)
      BY <1>3, <3>2
    <3> QED BY <3>3, PoolLenIs
  <2>2. PICK x : x = IF i < n THEN s[i + 1] ELSE NULL
    OBVIOUS
  <2>3. x \in Nat /\ (x = NULL \/ x \in T)
    <3>1. i < n => i + 1 \in 1 .. n
      BY <1>3
    <3>2. i < n => s[i + 1] \in T /\ s[i + 1] \in Nat
      BY <1>2, <1>3, <3>1
    <3>3. NULL \in Nat
      BY DEF NULL
    <3> QED BY <2>2, <3>2, <3>3
  <2>4. PICK o : o = IF i = 1 THEN offset ELSE 0
    OBVIOUS
  <2>5. o \in Nat
    BY <2>4, Constants
  <2>6. b[s[i]] = New(x, PoolLen(offset, len, i), PoolRest(offset, len, i), o)
    BY <1>7, <2>2, <2>4
  <2>7. /\ b[s[i]].next = x /\ b[s[i]].len = PoolLen(offset, len, i) /\ b[s[i]].tot_len = PoolRest(offset, len, i)
        /\ b[s[i]].ref = 1 /\ b[s[i]].room = o
    BY <2>6 DEF New
  <2>8. b[s[i]] \in PbufRec
    BY <2>1, <2>3, <2>5, <2>6 DEF New, PbufRec
  <2>9. Part(pb, s, n, offset, len, i, b)
    BY <2>2, <2>4, <2>7 DEF Part
  <2> QED BY <2>3, <2>7, <2>8, <2>9
<1>10. b \in [DOMAIN b -> PbufRec]
  <2>1. b = [q \in DOMAIN b |-> b[q]]
    BY DEF BuiltPb
  <2>2. \A q \in DOMAIN b : b[q] \in PbufRec
    BY <1>2, <1>5, <1>8, PbIs
  <2> QED BY <2>1, <2>2
<1>11. PbOK(b)
  BY <1>4, <1>5, <1>10 DEF PbOK
<1>12. \A q \in T : b[q].ref = 1 /\ (b[q].next = NULL \/ b[q].next \in T)
  BY <1>2, <1>8
<1>13. Added(pb, T, b)
  BY <1>4, <1>5, <1>11, <1>12 DEF Added
<1> QED BY <1>2, <1>8, <1>13

\* The chain is linked through, and its lengths agree but at a premature end.
LEMMA BuiltSound ==
    ASSUME NEW w, NEW e \in [Pointers -> Nat], Sound(w, e, {}), NEW offset \in 0 .. HLEN, NEW len \in Nat,
           NEW n \in Nat, n >= 1, n <= Len(w.pool), n <= PoolCount(offset, len),
           NEW X, X = IF n = PoolCount(offset, len) THEN {} ELSE {w.pool[n]}
    PROVE  Sound(Built(w, n, offset, len), More(e, w.pool[1]), X)
<1>1. PICK u, s, pb, b, D : /\ u = Built(w, n, offset, len) /\ s = w.pool /\ pb = w.pb
                            /\ b = BuiltPb(pb, s, n, offset, len) /\ D = DOMAIN pb
  OBVIOUS
<1>2. Shape(w) /\ PbOK(pb) /\ RefsOK(pb, e) /\ TotOK(pb, {}) /\ Stored(w)
  BY <1>1 DEF Sound
<1>3. u = [w EXCEPT !.pool = SubSeq(s, n + 1, Len(s)), !.pb = b]
  BY <1>1 DEF Built
<1>4. /\ u.pb = b /\ u.pool = SubSeq(s, n + 1, Len(s)) /\ u.refs = w.refs
      /\ u.heap = w.heap /\ u.was = w.was /\ Shape(u)
  BY <1>2, <1>3 DEF Shape
<1>5. /\ FreeList(s, POOL \ D) /\ FreeList(w.refs, REFS \ D)
      /\ HeapOK(w.heap)
      /\ {RAM(c) : c \in Blocks(w.heap)} = D \ (POOL \cup REFS)
      /\ \A q \in D : InsideOK(w.heap, q, pb[q])
  BY <1>1, <1>2 DEF Stored, StoreOK
<1>6. PICK T : T = {s[i] : i \in 1 .. n}
  OBVIOUS
<1>7. Added(pb, T, b) /\ \A i \in 1 .. n : Part(pb, s, n, offset, len, i, b)
  <2>1. PICK S : S = POOL \ D
    OBVIOUS
  <2>2. FreeList(s, S) /\ S \subseteq Pointers \ DOMAIN pb
    BY <1>1, <1>5, <2>1, PoolsAre
  <2>3. n <= Len(s)
    BY <1>1
  <2>4. Added(pb, {s[i] : i \in 1 .. n}, b)
    BY <1>1, <1>2, <2>2, <2>3, BuiltIs
  <2>5. \A i \in 1 .. n : Part(pb, s, n, offset, len, i, b)
    BY <1>1, <1>2, <2>2, <2>3, BuiltIs
  <2> QED BY <1>6, <2>4, <2>5
<1>8. s \in Seq(Nat) /\ Len(s) \in Nat /\ DOMAIN s = 1 .. Len(s) /\ \A i, j \in DOMAIN s : s[i] = s[j] => i = j
  BY <1>5 DEF FreeList, IsInjective
<1>9. \A i \in 1 .. n : i \in Nat /\ i >= 1 /\ i <= n /\ i \in DOMAIN s /\ s[i] \in POOL \ D /\ s[i] # NULL
  <2>1. \A i \in 1 .. n : i \in Nat /\ i >= 1 /\ i <= n /\ i \in DOMAIN s
    BY <1>1, <1>8
  <2>2. \A i \in 1 .. n : s[i] \in POOL \ D
    BY <1>5, <2>1 DEF FreeList, Range
  <2> QED BY <2>1, <2>2, PoolsAre, PointersAre
<1>10. T \subseteq POOL \ D /\ \A q \in T : \E i \in 1 .. n : q = s[i]
  BY <1>6, <1>9
<1>11. PICK p : p = s[1]
  OBVIOUS
<1>12. 1 \in 1 .. n /\ p \in T
  BY <1>6, <1>11
<1>13. ASSUME NEW i \in 1 .. n, NEW j \in 1 .. n PROVE b[s[j]].next = s[i] <=> j + 1 = i
  <2>1. b[s[j]].next = IF j < n THEN s[j + 1] ELSE NULL
    BY <1>7 DEF Part
  <2>2. CASE j < n
    <3>1. j + 1 \in 1 .. n
      BY <1>9, <2>2
    <3>2. j + 1 \in DOMAIN s /\ i \in DOMAIN s
      BY <1>9, <3>1
    <3> QED BY <1>8, <2>1, <2>2, <3>2
  <2>3. CASE ~(j < n)
    <3>1. j + 1 # i
      BY <1>9, <2>3
    <3> QED BY <1>9, <2>1, <2>3, <3>1
  <2> QED BY <2>2, <2>3
<1>14. {r \in T : b[r].next = p} = {}
  <2> SUFFICES ASSUME NEW r \in T, b[r].next = p PROVE FALSE
    OBVIOUS
  <2>1. PICK j \in 1 .. n : r = s[j]
    BY <1>10
  <2>2. j + 1 = 1
    BY <1>11, <1>12, <1>13, <2>1
  <2> QED BY <1>9, <2>2
<1>15. ASSUME NEW q \in T \ {p} PROVE \E c \in T : {r \in T : b[r].next = q} = {c}
  <2>1. PICK i \in 1 .. n : q = s[i]
    BY <1>10
  <2>2. i # 1
    BY <1>11, <1>15, <2>1
  <2>3. i - 1 \in 1 .. n /\ (i - 1) + 1 = i
    BY <1>9, <2>2
  <2>4. PICK c : c = s[i - 1]
    OBVIOUS
  <2>5. c \in T
    BY <1>6, <2>3, <2>4
  <2>6. b[c].next = q
    BY <1>13, <2>1, <2>3, <2>4
  <2>7. ASSUME NEW r \in T, b[r].next = q PROVE r = c
    <3>1. PICK j \in 1 .. n : r = s[j]
      BY <1>10
    <3>2. j + 1 = i
      BY <1>13, <2>1, <2>7, <3>1
    <3>3. j = i - 1
      BY <1>9, <3>2
    <3> QED BY <2>4, <3>1, <3>3
  <2>8. {r \in T : b[r].next = q} = {c}
    BY <2>5, <2>6, <2>7
  <2> QED BY <2>5, <2>8
<1>16. RefsOK(b, More(e, p))
  BY <1>2, <1>7, <1>12, <1>14, <1>15, AddedRefs
<1>17. ASSUME NEW q \in T \ X
       PROVE  b[q].tot_len = b[q].len + (IF b[q].next = NULL THEN 0 ELSE b[b[q].next].tot_len)
  <2>1. PICK i \in 1 .. n : q = s[i]
    BY <1>10
  <2>2. i \in Nat /\ i >= 1 /\ i <= n /\ n \in Nat
    BY <1>9
  <2>3. PoolCount(offset, len) \in Nat
    <3>1. offset \in Nat
      BY Constants
    <3> QED BY <3>1, PoolCountIs
  <2>4. i <= PoolCount(offset, len)
    BY <2>2, <2>3
  <2>5. /\ PoolLen(offset, len, i) \in Nat
        /\ i = PoolCount(offset, len) => PoolRest(offset, len, i) = PoolLen(offset, len, i)
        /\ i < PoolCount(offset, len) =>
                 PoolRest(offset, len, i) = PoolLen(offset, len, i) + PoolRest(offset, len, i + 1)
    BY <2>2, <2>4, PoolLenIs
  <2>6. Part(pb, s, n, offset, len, i, b)
    BY <1>7
  <2>7. CASE i = n
    <3>1. n = PoolCount(offset, len)
      BY <1>1, <1>17, <2>1, <2>7
    <3>2. b[q].next = NULL /\ b[q].len = PoolLen(offset, len, i) /\ b[q].tot_len = PoolRest(offset, len, i)
      BY <2>1, <2>2, <2>6, <2>7 DEF Part
    <3> QED BY <2>5, <2>7, <3>1, <3>2
  <2>8. CASE i # n
    <3>1. i < n /\ i < PoolCount(offset, len) /\ i + 1 \in 1 .. n
      BY <2>2, <2>3, <2>8
    <3>2. b[q].next = s[i + 1] /\ b[q].len = PoolLen(offset, len, i) /\ b[q].tot_len = PoolRest(offset, len, i)
      BY <2>1, <2>6, <3>1 DEF Part
    <3>3. b[s[i + 1]].tot_len = PoolRest(offset, len, i + 1) /\ s[i + 1] # NULL
      BY <1>7, <1>9, <3>1 DEF Part
    <3> QED BY <2>5, <3>1, <3>2, <3>3
  <2> QED BY <2>7, <2>8
<1>18. TotOK(pb, X)
  BY <1>2 DEF TotOK
<1>19. TotOK(b, X)
  BY <1>2, <1>7, <1>17, <1>18, AddedTot
<1>20. PbOK(b) /\ DOMAIN b = D \cup T /\ \A q \in D : b[q] = pb[q]
  BY <1>1, <1>7 DEF Added
<1>21. FreeList(u.pool, POOL \ (D \cup T))
  <2>1. PICK t, S : t = SubSeq(s, n + 1, Len(s)) /\ S = POOL \ D
    OBVIOUS
  <2>2. t \in Seq(Nat) /\ Len(t) = Len(s) - n /\ \A i \in 1 .. Len(s) - n : t[i] = s[i + n]
    BY <1>1, <1>8, <2>1
  <2>3. n \in 0 .. Len(s) /\ FreeList(s, S)
    BY <1>1, <1>5, <1>8, <2>1
  <2>4. FreeList(t, S \ {s[i] : i \in 1 .. n})
    BY <2>2, <2>3, ListTaken
  <2>5. S \ T = POOL \ (D \cup T)
    BY <2>1
  <2> QED BY <1>4, <1>6, <2>1, <2>4, <2>5
<1>22. REFS \ (D \cup T) = REFS \ D /\ (D \cup T) \ (POOL \cup REFS) = D \ (POOL \cup REFS)
  BY <1>10, PoolsAre
<1>23. StoreOK(u.pool, u.refs, u.heap, D \cup T)
  BY <1>4, <1>5, <1>21, <1>22 DEF StoreOK
<1>24. ASSUME NEW q \in T PROVE InsideOK(w.heap, q, b[q])
  <2>1. PICK i \in 1 .. n : q = s[i]
    BY <1>10
  <2>2. i \in Nat /\ i >= 1 /\ i <= PoolCount(offset, len)
    <3>1. offset \in Nat
      BY Constants
    <3>2. PoolCount(offset, len) \in Nat
      BY <3>1, PoolCountIs
    <3> QED BY <1>9, <3>2
  <2>3. (IF i = 1 THEN offset ELSE 0) + PoolLen(offset, len, i) <= BUFSIZE
    BY <2>2, PoolLenIs
  <2>4. b[q].room + b[q].len <= BUFSIZE
    BY <1>7, <2>1, <2>3 DEF Part
  <2>5. q \in Pointers /\ q \in POOL
    BY <1>10, PoolsAre
  <2>6. Type(q) # "RAM"
    BY <2>5, TypeIs
  <2> QED BY <2>4, <2>6 DEF InsideOK
<1>25. Stored(u)
  BY <1>4, <1>5, <1>20, <1>23, <1>24 DEF Stored
<1>26. Sound(u, More(e, p), X)
  BY <1>4, <1>16, <1>19, <1>20, <1>25 DEF Sound
<1> QED BY <1>1, <1>11, <1>26

\* When the pool runs out, freeing the part that was built frees all of it.
LEMMA PartGone ==
    ASSUME NEW w, NEW e \in [Pointers -> Nat], Sound(w, e, {}), NEW offset \in 0 .. HLEN, NEW len \in Nat,
           NEW n \in Nat, n >= 1, n <= Len(w.pool), n <= PoolCount(offset, len),
           NEW u, NEW X, Sound(u, e, X), Kept(Built(w, n, offset, len), u)
    PROVE  w.pool[n] \notin DOMAIN u.pb
<1>1. PICK v, s, pb, b, D : /\ v = Built(w, n, offset, len) /\ s = w.pool /\ pb = w.pb
                            /\ b = BuiltPb(pb, s, n, offset, len) /\ D = DOMAIN pb
  OBVIOUS
<1>2. Shape(w) /\ PbOK(pb) /\ RefsOK(pb, e) /\ Stored(w)
  BY <1>1 DEF Sound
<1>3. v.pb = b
  <2>1. v = [w EXCEPT !.pool = SubSeq(s, n + 1, Len(s)), !.pb = b]
    BY <1>1 DEF Built
  <2> QED BY <1>2, <2>1 DEF Shape
<1>4. FreeList(s, POOL \ D)
  BY <1>1, <1>2 DEF Stored, StoreOK
<1>5. PICK T : T = {s[i] : i \in 1 .. n}
  OBVIOUS
<1>6. Added(pb, T, b) /\ \A i \in 1 .. n : Part(pb, s, n, offset, len, i, b)
  <2>1. PICK S : S = POOL \ D
    OBVIOUS
  <2>2. FreeList(s, S) /\ S \subseteq Pointers \ DOMAIN pb
    BY <1>1, <1>4, <2>1, PoolsAre
  <2>3. n <= Len(s)
    BY <1>1
  <2>4. Added(pb, {s[i] : i \in 1 .. n}, b)
    BY <1>1, <1>2, <2>2, <2>3, BuiltIs
  <2>5. \A i \in 1 .. n : Part(pb, s, n, offset, len, i, b)
    BY <1>1, <1>2, <2>2, <2>3, BuiltIs
  <2> QED BY <1>5, <2>4, <2>5
<1>7. s \in Seq(Nat) /\ Len(s) \in Nat /\ DOMAIN s = 1 .. Len(s) /\ \A i, j \in DOMAIN s : s[i] = s[j] => i = j
  BY <1>4 DEF FreeList, IsInjective
<1>8. \A i \in 1 .. n : i \in Nat /\ i >= 1 /\ i <= n /\ i \in DOMAIN s /\ s[i] \in POOL \ D /\ s[i] # NULL /\ s[i] \in Pointers
  <2>1. \A i \in 1 .. n : i \in Nat /\ i >= 1 /\ i <= n /\ i \in DOMAIN s
    BY <1>1, <1>7
  <2>2. \A i \in 1 .. n : s[i] \in POOL \ D
    BY <1>4, <2>1 DEF FreeList, Range
  <2> QED BY <2>1, <2>2, PoolsAre, PointersAre
<1> DEFINE StillIn == {i \in 1 .. n : s[i] \in DOMAIN u.pb}
<1>9. SUFFICES ASSUME StillIn # {} PROVE FALSE
  BY <1>1
<1>10. StillIn \in SUBSET Nat
  OBVIOUS
<1>11. PICK i \in StillIn : \A j \in StillIn : i <= j
  BY <1>9, <1>10, Least
<1>12. i \in 1 .. n /\ s[i] \in DOMAIN u.pb
  OBVIOUS
<1>13. ASSUME NEW j \in 1 .. n, j < i PROVE s[j] \notin DOMAIN u.pb
  <2>1. ~(i <= j)
    BY <1>8, <1>12, <1>13
  <2> QED BY <1>11, <2>1
<1> HIDE DEF StillIn
<1>14. e[s[i]] = 0
  <2>1. s[i] \in Pointers /\ s[i] \notin DOMAIN pb /\ e[s[i]] \in Nat
    BY <1>1, <1>8, <1>12
  <2>2. ~(e[s[i]] > 0)
    BY <1>2, <2>1 DEF RefsOK
  <2> QED BY <2>1, <2>2
<1>15. PICK q \in DOMAIN u.pb : u.pb[q].next = s[i]
  <2>1. Cardinality(LinksTo(u.pb, s[i])) + e[s[i]] > 0
    BY <1>12 DEF Sound, RefsOK
  <2>2. LinksTo(u.pb, s[i]) # {}
    <3>1. PICK L : L = LinksTo(u.pb, s[i])
      OBVIOUS
    <3>2. L = {} => Cardinality(L) = 0
      BY FS_EmptySet
    <3> QED BY <1>14, <2>1, <3>1, <3>2
  <2> QED BY <2>2 DEF LinksTo
<1>16. q \in DOMAIN b /\ b[q].next = s[i]
  BY <1>1, <1>3, <1>15 DEF Kept
<1>17. q \in T
  <2> SUFFICES ASSUME q \in DOMAIN pb PROVE FALSE
    BY <1>6, <1>16 DEF Added
  <2>1. pb[q].next = s[i]
    BY <1>6, <1>16 DEF Added
  <2>2. s[i] \in DOMAIN pb
    BY <1>2, <1>8, <1>12, <2>1 DEF RefsOK
  <2> QED BY <1>1, <1>8, <1>12, <2>2
<1>18. PICK j \in 1 .. n : q = s[j]
  BY <1>5, <1>17
<1>19. b[s[j]].next = IF j < n THEN s[j + 1] ELSE NULL
  BY <1>6 DEF Part
<1>20. j < n
  BY <1>8, <1>12, <1>16, <1>18, <1>19
<1>21. j + 1 \in DOMAIN s /\ i \in DOMAIN s
  BY <1>1, <1>7, <1>8, <1>12, <1>20
<1>22. j + 1 = i
  BY <1>7, <1>16, <1>18, <1>19, <1>20, <1>21
<1>23. j < i
  BY <1>8, <1>22
<1> QED BY <1>13, <1>15, <1>18, <1>23

\* A chain that holds everything, or nothing at all.
LEMMA AllocPoolSound ==
    ASSUME NEW w, NEW e \in [Pointers -> Nat], Sound(w, e, {}), NEW offset \in 0 .. HLEN, NEW len \in Nat
    PROVE  Given(w, e, AllocPool(w, offset, len))
<1>1. PICK r, want, n, s, v : /\ r = AllocPool(w, offset, len) /\ want = PoolCount(offset, len)
                              /\ s = w.pool /\ n = Min({want, Len(w.pool)})
                              /\ v = Built(w, n, offset, len)
  OBVIOUS
<1>2. r = CASE n = 0 -> [p |-> NULL, m |-> w]
            [] n > 0 /\ n < want -> [p |-> NULL, m |-> pbuf_free(v, s[1])]
            [] OTHER -> [p |-> s[1], m |-> v]
  BY <1>1, AllocPoolIs
<1>3. want \in Nat /\ want >= 1 /\ Len(s) \in Nat /\ FreeList(s, POOL \ DOMAIN w.pb)
  <2>1. offset \in Nat
    BY Constants
  <2>2. want \in Nat /\ want >= 1
    BY <1>1, <2>1, PoolCountIs
  <2>3. FreeList(s, POOL \ DOMAIN w.pb)
    BY <1>1 DEF Sound, Stored, StoreOK
  <2> QED BY <2>2, <2>3 DEF FreeList
<1>4. n \in Nat /\ n <= want /\ n <= Len(s)
  <2>1. PICK S : S = {want, Len(w.pool)}
    OBVIOUS
  <2>2. S \subseteq Nat /\ S # {}
    BY <1>1, <1>3, <2>1
  <2>3. n = Min(S)
    BY <1>1, <2>1
  <2>4. n \in S /\ \A x \in S : n <= x
    BY <2>2, <2>3, MinIs
  <2> QED BY <1>1, <2>1, <2>2, <2>4
<1>5. CASE n = 0
  <2>1. r.p = NULL /\ r.m = w
    BY <1>2, <1>5
  <2>2. More(e, r.p) = e
    BY <2>1 DEF More
  <2> QED BY <1>1, <2>1, <2>2 DEF Given
<1>6. ASSUME n # 0
      PROVE  /\ n >= 1 /\ s[1] \in POOL \ DOMAIN w.pb /\ s[1] \in Pointers
             /\ Sound(v, More(e, s[1]), IF n = want THEN {} ELSE {s[n]})
  <2>1. n >= 1
    BY <1>4, <1>6
  <2>2. s[1] \in POOL \ DOMAIN w.pb
    <3>1. 1 \in DOMAIN s
      BY <1>3, <1>4, <2>1 DEF FreeList
    <3> QED BY <1>3, <3>1 DEF FreeList, Range
  <2>3. PICK X : X = IF n = want THEN {} ELSE {s[n]}
    OBVIOUS
  <2>4. Sound(v, More(e, s[1]), X)
    BY <1>1, <1>4, <2>1, <2>3, BuiltSound
  <2> QED BY <2>1, <2>2, <2>3, <2>4, PoolsAre
<1>7. CASE n # 0 /\ n < want
  <2>1. PICK u : u = pbuf_free(v, s[1])
    OBVIOUS
  <2>2. r.p = NULL /\ r.m = u
    <3>1. n > 0
      BY <1>4, <1>7
    <3> QED BY <1>2, <1>7, <2>1, <3>1
  <2>3. PICK X : X = {s[n]}
    OBVIOUS
  <2>4. Sound(v, More(e, s[1]), X) /\ s[1] \in Pointers /\ n >= 1
    <3>1. n # want
      BY <1>3, <1>4, <1>7
    <3> QED BY <1>6, <1>7, <2>3, <3>1
  <2>5. Sound(u, e, X) /\ Kept(v, u)
    BY <2>1, <2>4, FreeSound
  <2>6. s[n] \notin DOMAIN u.pb
    BY <1>1, <1>4, <2>4, <2>5, PartGone
  <2>7. TotOK(u.pb, {})
    <3>1. TotOK(u.pb, X) /\ (DOMAIN u.pb) \ X = (DOMAIN u.pb) \ {}
      BY <2>3, <2>5, <2>6 DEF Sound
    <3> QED BY <3>1 DEF TotOK
  <2>8. Sound(u, e, {})
    BY <2>5, <2>7 DEF Sound
  <2>9. More(e, r.p) = e
    BY <2>2 DEF More
  <2> QED BY <1>1, <2>2, <2>8, <2>9 DEF Given
<1>8. CASE n # 0 /\ ~(n < want)
  <2>1. n = want
    BY <1>3, <1>4, <1>8
  <2>2. r.p = s[1] /\ r.m = v
    BY <1>2, <1>8
  <2>3. Sound(v, More(e, s[1]), {}) /\ s[1] \in Pointers \ DOMAIN w.pb /\ n >= 1
    BY <1>6, <1>8, <2>1
  <2>4. \A q \in DOMAIN w.pb : q \in DOMAIN v.pb /\ v.pb[q] = w.pb[q]
    <3>1. PICK b : b = BuiltPb(w.pb, s, n, offset, len)
      OBVIOUS
    <3>2. v.pb = b
      <4>1. v = [w EXCEPT !.pool = SubSeq(s, n + 1, Len(s)), !.pb = b]
        BY <1>1, <3>1 DEF Built
      <4> QED BY <4>1 DEF Shape, Sound
    <3>3. PICK S, pb : S = POOL \ DOMAIN w.pb /\ pb = w.pb
      OBVIOUS
    <3>4. FreeList(s, S) /\ S \subseteq Pointers \ DOMAIN pb /\ PbOK(pb) /\ b = BuiltPb(pb, s, n, offset, len)
      BY <1>3, <3>1, <3>3, PoolsAre DEF Sound
    <3>5. n <= PoolCount(offset, len)
      BY <1>1, <1>4
    <3>6. Added(pb, {s[i] : i \in 1 .. n}, b)
      BY <1>4, <3>4, <3>5, BuiltIs
    <3> QED BY <3>2, <3>3, <3>6 DEF Added
  <2> QED BY <1>1, <2>2, <2>3, <2>4 DEF Given
<1> QED BY <1>5, <1>7, <1>8

\* pbuf_alloc gives a pbuf with one reference, or leaves no trace.
LEMMA AllocSound ==
    ASSUME NEW w, NEW e \in [Pointers -> Nat], Sound(w, e, {}), NEW offset \in 0 .. HLEN, NEW len \in Nat,
           NEW type \in Types
    PROVE  Given(w, e, pbuf_alloc(w, offset, len, type))
<1>1. offset \in Nat
  BY Constants
<1>2. CASE type = "POOL"
  <2>1. pbuf_alloc(w, offset, len, type) = AllocPool(w, offset, len)
    BY <1>2 DEF pbuf_alloc
  <2> QED BY <2>1, AllocPoolSound
<1>3. CASE type = "REF"
  <2>1. pbuf_alloc(w, offset, len, type) = AllocRef(w, len)
    BY <1>3 DEF pbuf_alloc
  <2> QED BY <2>1, AllocRefSound
<1>4. CASE type = "RAM"
  <2>1. pbuf_alloc(w, offset, len, type) = AllocRam(w, offset, len)
    BY <1>4 DEF pbuf_alloc
  <2> QED BY <1>1, <2>1, AllocRamSound
<1> QED BY <1>2, <1>3, <1>4 DEF Types

-----------------------------------------------------------------------------
(* Chains.                                                                 *)

\* The way along a chain, one link at a time.
AlongStep(w, p, k, y) == IF y = NULL THEN NULL ELSE w.pb[y].next

AlongEq(w, p, f) ==
    f = [k \in 0 .. Cardinality(DOMAIN w.pb) |-> IF k = 0 THEN p ELSE AlongStep(w, p, k, f[k - 1])]

AlongUpto(w, p, n, f) ==
    /\ f = [k \in 0 .. n |-> f[k]]
    /\ f[0] = p
    /\ \A k \in 0 + 1 .. n : f[k] = AlongStep(w, p, k, f[k - 1])

\* The function is the one that satisfies its equation ...
LEMMA AlongChoice ==
    ASSUME NEW w, NEW p
    PROVE  Along(w, p) = CHOOSE f : AlongEq(w, p, f)
BY Zenon DEF Along, AlongEq, AlongStep

\* ... and there is one, by the least number up to which there is none.
LEMMA AlongExists ==
    ASSUME NEW w, NEW p, NEW N \in Nat, NEW n \in 0 .. N
    PROVE  \E f : AlongUpto(w, p, n, f)
<1> DEFINE T == {i \in 0 .. N : ~ \E f : AlongUpto(w, p, i, f)}
<1>1. SUFFICES ASSUME T # {} PROVE FALSE
  OBVIOUS
<1>2. T \in SUBSET Nat
  OBVIOUS
<1>3. PICK i \in T : \A y \in T : i <= y
  BY <1>1, <1>2, Least
<1>4. i \in 0 .. N /\ ~ \E f : AlongUpto(w, p, i, f)
  OBVIOUS
<1>5. i # 0
  <2>1. AlongUpto(w, p, 0, [k \in 0 .. 0 |-> p])
    BY DEF AlongUpto
  <2> QED BY <1>4, <2>1
<1>6. i - 1 \in 0 .. N /\ i \in 0 + 1 .. N /\ i - 1 \notin T
  BY <1>3, <1>4, <1>5
<1>7. PICK f : AlongUpto(w, p, i - 1, f)
  BY <1>6
<1> HIDE DEF T
<1> DEFINE g == [k \in 0 .. i |-> IF k = i THEN AlongStep(w, p, i, f[i - 1]) ELSE f[k]]
<1>8. AlongUpto(w, p, i, g)
  <2>1. g = [k \in 0 .. i |-> g[k]]
    OBVIOUS
  <2>2. g[0] = p
    BY <1>6, <1>7 DEF AlongUpto
  <2>3. ASSUME NEW k \in 0 + 1 .. i PROVE g[k] = AlongStep(w, p, k, g[k - 1])
    <3>1. k \in 0 .. i /\ k - 1 \in 0 .. i /\ k - 1 # i
      BY <1>6
    <3>2. g[k - 1] = f[k - 1]
      BY <3>1
    <3>3. CASE k = i
      <4>1. g[k] = AlongStep(w, p, i, f[i - 1])
        BY <3>1, <3>3
      <4> QED BY <3>2, <3>3, <4>1
    <3>4. CASE k # i
      <4>1. k \in 0 + 1 .. i - 1
        BY <1>6, <3>4
      <4>2. g[k] = f[k]
        BY <3>1, <3>4
      <4>3. f[k] = AlongStep(w, p, k, f[k - 1])
        BY <1>7, <4>1 DEF AlongUpto
      <4> QED BY <3>2, <4>2, <4>3
    <3> QED BY <3>3, <3>4
  <2> HIDE DEF g
  <2> QED BY <2>1, <2>2, <2>3 DEF AlongUpto
<1> QED BY <1>4, <1>8

\* So Along obeys its equation at every link.
LEMMA AlongIs ==
    ASSUME NEW w, NEW p, Cardinality(DOMAIN w.pb) \in Nat
    PROVE  AlongUpto(w, p, Cardinality(DOMAIN w.pb), Along(w, p))
<1>0. PICK N : N = Cardinality(DOMAIN w.pb)
  OBVIOUS
<1>1. N \in 0 .. N
  BY <1>0
<1>2. PICK f : AlongUpto(w, p, N, f)
  BY <1>0, <1>1, AlongExists
<1>3. AlongEq(w, p, f)
  <2> DEFINE g == [k \in 0 .. N |-> IF k = 0 THEN p ELSE AlongStep(w, p, k, f[k - 1])]
  <2>1. ASSUME NEW k \in 0 .. N PROVE f[k] = g[k]
    <3>1. CASE k = 0
      BY <1>2, <3>1 DEF AlongUpto
    <3>2. CASE k # 0
      <4>1. k \in 0 + 1 .. N
        BY <1>0, <3>2
      <4>2. f[k] = AlongStep(w, p, k, f[k - 1])
        BY <1>2, <4>1 DEF AlongUpto
      <4> QED BY <3>2, <4>2
    <3> QED BY <3>1, <3>2
  <2>2. f = [k \in 0 .. N |-> f[k]]
    BY <1>2 DEF AlongUpto
  <2>3. g = [k \in 0 .. N |-> g[k]]
    OBVIOUS
  <2>4. f = g
    <3> HIDE DEF g
    <3> QED BY <2>1, <2>2, <2>3
  <2> QED BY <1>0, <2>4 DEF AlongEq
<1>4. AlongEq(w, p, Along(w, p))
  <2>1. AlongEq(w, p, CHOOSE u : AlongEq(w, p, u))
    BY <1>3, Zenon
  <2> QED BY <2>1, AlongChoice
<1>5. PICK z : z = Along(w, p)
  OBVIOUS
<1>6. z = [k \in 0 .. N |-> IF k = 0 THEN p ELSE AlongStep(w, p, k, z[k - 1])]
  BY <1>0, <1>4, <1>5 DEF AlongEq
<1>7. z = [k \in 0 .. N |-> z[k]]
  BY <1>6
<1>8. z[0] = p
  BY <1>0, <1>1, <1>6
<1>9. ASSUME NEW k \in 0 + 1 .. N PROVE z[k] = AlongStep(w, p, k, z[k - 1])
  <2>1. k \in 0 .. N /\ k # 0
    BY <1>0
  <2> QED BY <1>6, <2>1
<1>10. AlongUpto(w, p, N, z)
  BY <1>7, <1>8, <1>9 DEF AlongUpto
<1> QED BY <1>0, <1>5, <1>10


\* C is the way from p along the links, as far as it goes or as there are pbufs.
Linear(pb, p, C, c) ==
    /\ c \in Nat /\ c >= 1 /\ c <= Cardinality(DOMAIN pb) + 1
    /\ C = [k \in 1 .. c |-> C[k]] /\ C[1] = p
    /\ \A k \in 1 .. c : C[k] \in DOMAIN pb
    /\ \A k \in 1 .. c : k < c => pb[C[k]].next = C[k + 1]
    /\ c <= Cardinality(DOMAIN pb) => pb[C[c]].next = NULL

\* Chain follows the links.
LEMMA ChainIs ==
    ASSUME NEW w, PbOK(w.pb), NEW e, RefsOK(w.pb, e), NEW p \in DOMAIN w.pb
    PROVE  \E c : Linear(w.pb, p, Chain(w, p), c)
<1>1. PICK pb, N, at : pb = w.pb /\ N = Cardinality(DOMAIN pb) /\ at = Along(w, p)
  OBVIOUS
<1>2. N \in Nat
  BY <1>1, PointersFinite DEF PbOK
<1>3. /\ at = [k \in 0 .. N |-> at[k]]
      /\ at[0] = p
      /\ \A k \in 1 .. N : at[k] = IF at[k - 1] = NULL THEN NULL ELSE pb[at[k - 1]].next
  <2>1. AlongUpto(w, p, N, at)
    BY <1>1, <1>2, AlongIs
  <2>2. 0 + 1 = 1
    OBVIOUS
  <2> QED BY <1>1, <2>1, <2>2 DEF AlongUpto, AlongStep
<1>4. DOMAIN at = 0 .. N
  BY <1>3
<1>5. \A q \in DOMAIN pb : q # NULL /\ (pb[q].next = NULL \/ pb[q].next \in DOMAIN pb)
  BY <1>1, PbIs DEF RefsOK
<1> DEFINE Z == {k \in 0 .. N + 1 : k = N + 1 \/ at[k] = NULL}
<1>6. N + 1 \in Z /\ Z \in SUBSET Nat
  BY <1>2
<1>7. PICK c \in Z : \A k \in Z : c <= k
  BY <1>6, Least
<1>8. c \in 0 .. N + 1 /\ (c = N + 1 \/ at[c] = NULL)
  OBVIOUS
<1>9. \A k \in 0 .. N : k < c => at[k] # NULL
  <2> SUFFICES ASSUME NEW k \in 0 .. N, k < c, at[k] = NULL PROVE FALSE
    OBVIOUS
  <2>1. k \in Z
    BY <1>2
  <2>2. c <= k
    BY <1>7, <2>1
  <2> QED BY <1>2, <1>8, <2>2
<1> HIDE DEF Z
<1>10. c >= 1
  <2>1. 0 \in 0 .. N /\ p \in DOMAIN pb
    BY <1>1, <1>2
  <2>2. c # 0
    BY <1>2, <1>3, <1>5, <1>8, <2>1
  <2> QED BY <1>2, <1>8, <2>2
<1>11. \A k \in 0 .. N : k < c => at[k] \in DOMAIN pb
  <2> DEFINE T == {k \in 0 .. N : k < c /\ at[k] \notin DOMAIN pb}
  <2>1. SUFFICES ASSUME T # {} PROVE FALSE
    OBVIOUS
  <2>2. T \in SUBSET Nat
    OBVIOUS
  <2>3. PICK i \in T : \A y \in T : i <= y
    BY <2>1, <2>2, Least
  <2>4. i \in 0 .. N /\ i < c /\ at[i] \notin DOMAIN pb
    OBVIOUS
  <2>5. i # 0
    BY <1>1, <1>3, <2>4
  <2>6. i \in 1 .. N /\ i - 1 \in 0 .. N /\ i - 1 < c /\ ~(i <= i - 1)
    BY <1>2, <1>8, <2>4, <2>5
  <2>7. at[i - 1] \in DOMAIN pb
    BY <2>3, <2>6
  <2>8. at[i] # NULL
    BY <1>9, <2>4
  <2>9. at[i] = pb[at[i - 1]].next
    BY <1>3, <1>5, <2>6, <2>7
  <2> QED BY <1>5, <2>4, <2>7, <2>8, <2>9
<1>12. \A k \in 0 .. N : c <= k => at[k] = NULL
  <2> DEFINE T == {k \in 0 .. N : c <= k /\ at[k] # NULL}
  <2>1. SUFFICES ASSUME T # {} PROVE FALSE
    OBVIOUS
  <2>2. T \in SUBSET Nat
    OBVIOUS
  <2>3. PICK i \in T : \A y \in T : i <= y
    BY <2>1, <2>2, Least
  <2>4. i \in 0 .. N /\ c <= i /\ at[i] # NULL
    OBVIOUS
  <2>5. c # i /\ c # N + 1
    BY <1>2, <1>8, <2>4
  <2>6. i \in 1 .. N /\ i - 1 \in 0 .. N /\ c <= i - 1 /\ ~(i <= i - 1)
    BY <1>2, <1>8, <1>10, <2>4, <2>5
  <2>7. at[i - 1] = NULL
    BY <2>3, <2>6
  <2> QED BY <1>3, <2>4, <2>6, <2>7
<1>13. {j \in DOMAIN at : at[j] # NULL} = 0 .. c - 1
  <2>1. \A j \in 0 .. N : j \in 0 .. c - 1 <=> j < c
    BY <1>2, <1>8
  <2>2. \A j \in 0 .. c - 1 : j \in 0 .. N
    BY <1>2, <1>8
  <2>3. \A j \in 0 .. N : j < c \/ c <= j
    BY <1>2, <1>8
  <2> QED BY <1>4, <1>9, <1>12, <2>1, <2>2, <2>3
<1>14. Cardinality(0 .. c - 1) = c
  <2>1. 0 \in Int /\ c - 1 \in Int
    BY <1>2, <1>8
  <2>2. Cardinality(0 .. c - 1) = IF 0 > c - 1 THEN 0 ELSE (c - 1) - 0 + 1
    BY <2>1, FS_Interval
  <2> QED BY <1>2, <1>8, <1>10, <2>2
<1>15. PICK C : C = Chain(w, p)
  OBVIOUS
<1>16. C = [k \in 1 .. c |-> at[k - 1]]
  BY <1>1, <1>13, <1>14, <1>15 DEF Chain
<1>17. \A k \in 1 .. c : C[k] = at[k - 1] /\ k - 1 \in 0 .. N /\ k - 1 < c
  BY <1>2, <1>8, <1>16
<1>18. Linear(pb, p, C, c)
  <2>1. c \in Nat /\ c <= N + 1 /\ C = [k \in 1 .. c |-> C[k]]
    BY <1>2, <1>8, <1>16
  <2>2. C[1] = p
    <3>1. 1 \in 1 .. c /\ 1 - 1 = 0
      BY <1>10, <2>1
    <3> QED BY <1>3, <1>17, <3>1
  <2>3. \A k \in 1 .. c : C[k] \in DOMAIN pb
    BY <1>11, <1>17
  <2>4. ASSUME NEW k \in 1 .. c, k < c PROVE pb[C[k]].next = C[k + 1]
    <3>1. k \in 1 .. N /\ k + 1 \in 1 .. c /\ (k + 1) - 1 = k
      BY <1>2, <2>1, <2>4
    <3>2. C[k] = at[k - 1] /\ C[k + 1] = at[k]
      BY <1>17, <3>1
    <3>3. at[k - 1] # NULL
      BY <1>5, <2>3, <3>2
    <3> QED BY <1>3, <3>1, <3>2, <3>3
  <2>5. ASSUME c <= N PROVE pb[C[c]].next = NULL
    <3>1. c \in 1 .. c /\ c \in 1 .. N /\ c # N + 1
      BY <1>2, <1>10, <2>1, <2>5
    <3>2. C[c] = at[c - 1] /\ at[c - 1] # NULL
      BY <1>5, <1>17, <2>3, <3>1
    <3> QED BY <1>3, <1>8, <3>1, <3>2
  <2> QED BY <1>1, <1>10, <2>1, <2>2, <2>3, <2>4, <2>5 DEF Linear
<1> QED BY <1>1, <1>15, <1>18

\* A chain that is the caller's own: nothing else leads into it.
Straight(pb, p, C, c) ==
    /\ c \in Nat /\ c >= 1 /\ C \in Seq(DOMAIN pb) /\ Len(C) = c /\ DOMAIN C = 1 .. c /\ C[1] = p
    /\ \A k \in 1 .. c : C[k] \in DOMAIN pb
    /\ \A k \in 1 .. c : k < c => pb[C[k]].next = C[k + 1]
    /\ pb[C[c]].next = NULL
    /\ \A i, j \in 1 .. c : C[i] = C[j] => i = j
    /\ \A q \in DOMAIN pb, k \in 1 .. c : pb[q].next = C[k] => k > 1 /\ q = C[k - 1]

\* A set of at most one element.
LEMMA OnlyOne ==
    ASSUME NEW S, IsFiniteSet(S), Cardinality(S) <= 1, NEW a \in S, NEW b \in S
    PROVE  a = b
<1> SUFFICES ASSUME a # b PROVE FALSE
  OBVIOUS
<1>1. Cardinality(S) \in Nat
  BY FS_CardinalityType
<1>2. Cardinality(S \ {a}) = Cardinality(S) - 1 /\ IsFiniteSet(S \ {a})
  BY FS_RemoveElement
<1>3. Cardinality((S \ {a}) \ {b}) = Cardinality(S \ {a}) - 1 /\ IsFiniteSet((S \ {a}) \ {b})
  <2>1. PICK T : T = S \ {a}
    OBVIOUS
  <2>2. b \in T /\ IsFiniteSet(T)
    BY <1>2, <2>1
  <2> QED BY <2>1, <2>2, FS_RemoveElement
<1>4. Cardinality((S \ {a}) \ {b}) \in Nat
  BY <1>3, FS_CardinalityType
<1> QED BY <1>1, <1>2, <1>3, <1>4

\* Such a chain ends: each pbuf on it has one predecessor, so that none comes
\* twice, and there are finitely many.
LEMMA OwnChain ==
    ASSUME NEW w, PbOK(w.pb), NEW e, RefsOK(w.pb, e), NEW p \in DOMAIN w.pb, LinksTo(w.pb, p) = {},
           \A q \in Range(Chain(w, p)) : Cardinality(LinksTo(w.pb, q)) <= 1
    PROVE  \E c : Straight(w.pb, p, Chain(w, p), c)
<1>1. PICK pb, N, C : pb = w.pb /\ N = Cardinality(DOMAIN pb) /\ C = Chain(w, p)
  OBVIOUS
<1>2. PICK c : Linear(pb, p, C, c)
  BY <1>1, ChainIs
<1>3. /\ c \in Nat /\ c >= 1 /\ c <= N + 1
      /\ C = [k \in 1 .. c |-> C[k]] /\ C[1] = p
      /\ \A k \in 1 .. c : C[k] \in DOMAIN pb
      /\ \A k \in 1 .. c : k < c => pb[C[k]].next = C[k + 1]
      /\ c <= N => pb[C[c]].next = NULL
  BY <1>1, <1>2 DEF Linear
<1>4. C \in [1 .. c -> DOMAIN pb] /\ DOMAIN C = 1 .. c
  BY <1>3
<1>5. C \in Seq(DOMAIN pb) /\ Len(C) = c
  BY <1>3, <1>4
<1>6. \A k \in 1 .. c : C[k] \in Range(C)
  BY <1>4 DEF Range
<1>7. IsFiniteSet(DOMAIN pb) /\ N \in Nat
  BY <1>1, PointersFinite DEF PbOK
<1>8. ASSUME NEW q \in DOMAIN pb, NEW k \in 1 .. c, pb[q].next = C[k] PROVE k > 1 /\ q = C[k - 1]
  <2>1. k # 1
    BY <1>1, <1>3, <1>8 DEF LinksTo
  <2>2. k - 1 \in 1 .. c /\ k - 1 < c /\ (k - 1) + 1 = k /\ k > 1
    BY <1>3, <2>1
  <2>3. PICK L : L = LinksTo(pb, C[k])
    OBVIOUS
  <2>4. IsFiniteSet(L) /\ Cardinality(L) <= 1
    BY <1>1, <1>6, <2>3, LinksFinite
  <2>5. q \in L
    BY <1>8, <2>3 DEF LinksTo
  <2>6. C[k - 1] \in L
    BY <1>3, <2>2, <2>3 DEF LinksTo
  <2> QED BY <2>2, <2>4, <2>5, <2>6, OnlyOne
<1>9. ASSUME NEW i \in 1 .. c, NEW j \in 1 .. c, i < j PROVE C[i] # C[j]
  <2> DEFINE T == {k \in 1 .. c : \E l \in 1 .. c : k < l /\ C[k] = C[l]}
  <2>1. SUFFICES ASSUME T # {} PROVE FALSE
    BY <1>9
  <2>2. T \in SUBSET Nat
    OBVIOUS
  <2>3. PICK k \in T : \A y \in T : k <= y
    BY <2>1, <2>2, Least
  <2>4. PICK l \in 1 .. c : k < l /\ C[k] = C[l]
    BY <2>3
  <2>5. k \in 1 .. c
    BY <2>3
  <2>6. l - 1 \in 1 .. c /\ l - 1 < c /\ (l - 1) + 1 = l
    BY <1>3, <2>4, <2>5
  <2>7. pb[C[l - 1]].next = C[k] /\ C[l - 1] \in DOMAIN pb
    BY <1>3, <2>4, <2>6
  <2>8. k > 1 /\ C[l - 1] = C[k - 1]
    BY <1>8, <2>5, <2>7
  <2>9. k - 1 \in 1 .. c /\ k - 1 < l - 1 /\ ~(k <= k - 1)
    BY <1>3, <2>4, <2>5, <2>8
  <2>10. k - 1 \in T
    BY <2>6, <2>8, <2>9
  <2> HIDE DEF T
  <2> QED BY <2>3, <2>9, <2>10
<1>10. \A i, j \in 1 .. c : C[i] = C[j] => i = j
  <2> SUFFICES ASSUME NEW i \in 1 .. c, NEW j \in 1 .. c, C[i] = C[j] PROVE i = j
    OBVIOUS
  <2>1. ~(i < j) /\ ~(j < i)
    BY <1>9
  <2> QED BY <1>3, <2>1
<1>11. c <= N
  <2>1. C \in Injection(1 .. c, DOMAIN pb)
    BY <1>4, <1>10 DEF Injection, IsInjective
  <2>2. Cardinality(1 .. c) <= N
    BY <1>1, <1>7, <2>1, FS_Injection
  <2>3. Cardinality(1 .. c) = c
    <3>1. 1 \in Int /\ c \in Int
      BY <1>3
    <3>2. Cardinality(1 .. c) = IF 1 > c THEN 0 ELSE c - 1 + 1
      BY <3>1, FS_Interval
    <3> QED BY <1>3, <3>2
  <2> QED BY <2>2, <2>3
<1>12. Straight(pb, p, C, c)
  BY <1>3, <1>4, <1>5, <1>8, <1>10, <1>11 DEF Straight
<1> QED BY <1>1, <1>12

\* A chain begins with its first pbuf.
LEMMA FirstInChain ==
    ASSUME NEW w, PbOK(w.pb), NEW e, RefsOK(w.pb, e), NEW p \in DOMAIN w.pb
    PROVE  p \in Range(Chain(w, p))
<1>1. PICK C : C = Chain(w, p)
  OBVIOUS
<1>2. PICK c : Linear(w.pb, p, C, c)
  BY <1>1, ChainIs
<1>3. c \in Nat /\ c >= 1 /\ C = [k \in 1 .. c |-> C[k]] /\ C[1] = p
  BY <1>2 DEF Linear
<1>4. DOMAIN C = 1 .. c /\ 1 \in 1 .. c
  BY <1>3
<1> QED BY <1>1, <1>3, <1>4 DEF Range

-----------------------------------------------------------------------------
(* Links that are made and cut.                                            *)

\* A reference more, as pbuf_ref counts it.
LEMMA RaiseRefs ==
    ASSUME NEW pb, PbOK(pb), NEW e \in [Pointers -> Nat], NEW p \in DOMAIN pb, RefsOK(pb, e),
           NEW b, b = [pb EXCEPT ![p].ref = @ + 1]
    PROVE  Recounted(pb, More(e, p), b) /\ \A q \in DOMAIN pb : b[q].ref = IF q = p THEN pb[p].ref + 1 ELSE pb[q].ref
<1>1. p \in Pointers /\ p # NULL /\ pb[p].ref \in Nat
  BY PbIs
<1>2. /\ DOMAIN b = DOMAIN pb /\ b \in [DOMAIN pb -> PbufRec]
      /\ \A q \in DOMAIN pb : /\ b[q].next = pb[q].next /\ b[q].len = pb[q].len
                              /\ b[q].tot_len = pb[q].tot_len /\ b[q].room = pb[q].room
                              /\ b[q].ref = IF q = p THEN pb[p].ref + 1 ELSE pb[q].ref
  BY <1>1 DEF PbOK, PbufRec
<1>3. PbOK(b)
  BY <1>2 DEF PbOK
<1>4. \A q : LinksTo(b, q) = LinksTo(pb, q)
  BY <1>2 DEF LinksTo
<1>5. PICK f : f = More(e, p)
  OBVIOUS
<1>6. f \in [Pointers -> Nat] /\ \A q \in Pointers : f[q] = IF q = p THEN e[q] + 1 ELSE e[q]
  BY <1>1, <1>5, MoreIs
<1>7. ASSUME NEW q \in Pointers, f[q] > 0 PROVE q \in DOMAIN b
  <2>1. CASE q = p
    BY <1>2, <2>1
  <2>2. CASE q # p
    BY <1>2, <1>6, <1>7, <2>2 DEF RefsOK
  <2> QED BY <2>1, <2>2
<1>8. ASSUME NEW q \in DOMAIN b
      PROVE  /\ b[q].next # NULL => b[q].next \in DOMAIN b
             /\ b[q].ref = Cardinality(LinksTo(b, q)) + f[q]
             /\ b[q].ref > 0
  <2>1. /\ pb[q].next # NULL => pb[q].next \in DOMAIN pb
        /\ pb[q].ref = Cardinality(LinksTo(pb, q)) + e[q]
        /\ pb[q].ref > 0
    BY <1>2 DEF RefsOK
  <2>2. q \in Pointers /\ e[q] \in Nat /\ Cardinality(LinksTo(pb, q)) \in Nat
    BY <1>2, PbIs, LinksFinite
  <2>3. PICK c \in Nat : c = Cardinality(LinksTo(b, q)) /\ c = Cardinality(LinksTo(pb, q))
    BY <1>4, <2>2
  <2>4. b[q].ref = c + f[q]
    <3>1. pb[q].ref = c + e[q]
      BY <2>1, <2>3
    <3>2. CASE q = p
      <4>1. b[q].ref = pb[q].ref + 1 /\ f[q] = e[q] + 1
        BY <1>2, <1>6, <2>2, <3>2
      <4> QED BY <2>2, <3>1, <4>1
    <3>3. CASE q # p
      BY <1>2, <1>6, <2>2, <3>1, <3>3
    <3> QED BY <3>2, <3>3
  <2>5. b[q].ref > 0
    BY <1>1, <1>2, <2>1
  <2> QED BY <1>2, <2>1, <2>3, <2>4, <2>5
<1>9. RefsOK(b, f)
  BY <1>6, <1>7, <1>8 DEF RefsOK
<1> QED BY <1>2, <1>3, <1>5, <1>9 DEF Recounted

\* Only the link of p differs.
Relinked(pb, p, b) ==
    /\ PbOK(b) /\ DOMAIN b = DOMAIN pb
    /\ \A q \in DOMAIN pb : b[q].ref = pb[q].ref /\ (q # p => b[q].next = pb[q].next)

\* A link that is cut leaves a reference to give back.
LEMMA LinkCut ==
    ASSUME NEW pb, PbOK(pb), NEW e \in [Pointers -> Nat], RefsOK(pb, e), NEW p \in DOMAIN pb,
           NEW n, n = pb[p].next, n # NULL, NEW b, Relinked(pb, p, b), b[p].next = NULL
    PROVE  RefsOK(b, More(e, n))
<1>1. n \in DOMAIN pb /\ n \in Pointers /\ DOMAIN b = DOMAIN pb /\ PbOK(b)
  BY PbIs DEF RefsOK, Relinked
<1>2. PICK f : f = More(e, n)
  OBVIOUS
<1>3. f \in [Pointers -> Nat] /\ \A q \in Pointers : f[q] = IF q = n THEN e[q] + 1 ELSE e[q]
  BY <1>1, <1>2, MoreIs
<1>4. ASSUME NEW q \in Pointers, f[q] > 0 PROVE q \in DOMAIN b
  <2>1. CASE q = n
    BY <1>1, <2>1
  <2>2. CASE q # n
    BY <1>1, <1>3, <1>4, <2>2 DEF RefsOK
  <2> QED BY <2>1, <2>2
<1>5. ASSUME NEW q \in DOMAIN b
      PROVE  /\ b[q].next # NULL => b[q].next \in DOMAIN b
             /\ b[q].ref = Cardinality(LinksTo(b, q)) + f[q]
             /\ b[q].ref > 0
  <2>1. /\ pb[q].next # NULL => pb[q].next \in DOMAIN pb
        /\ pb[q].ref = Cardinality(LinksTo(pb, q)) + e[q]
        /\ pb[q].ref > 0 /\ b[q].ref = pb[q].ref
    BY <1>1 DEF RefsOK, Relinked
  <2>2. q \in Pointers /\ q # NULL /\ e[q] \in Nat
    BY <1>1, PbIs
  <2>3. LinksTo(b, q) = LinksTo(pb, q) \ {p}
    BY <1>1, <2>2 DEF LinksTo, Relinked
  <2>4. Cardinality(LinksTo(b, q)) + f[q] = Cardinality(LinksTo(pb, q)) + e[q]
    <3>0. IsFiniteSet(LinksTo(pb, q)) /\ Cardinality(LinksTo(pb, q)) \in Nat
      BY LinksFinite
    <3>1. CASE q = n
      <4>1. p \in LinksTo(pb, q)
        BY <3>1 DEF LinksTo
      <4>2. Cardinality(LinksTo(pb, q) \ {p}) = Cardinality(LinksTo(pb, q)) - 1
        BY <3>0, <4>1, FS_RemoveElement
      <4>3. f[q] = e[q] + 1
        BY <1>3, <2>2, <3>1
      <4> QED BY <2>2, <2>3, <3>0, <4>2, <4>3
    <3>2. CASE q # n
      <4>1. p \notin LinksTo(pb, q)
        BY <3>2 DEF LinksTo
      <4>2. LinksTo(b, q) = LinksTo(pb, q)
        BY <2>3, <4>1
      <4>3. f[q] = e[q]
        BY <1>3, <2>2, <3>2
      <4> QED BY <4>2, <4>3
    <3> QED BY <3>1, <3>2
  <2>5. b[q].next # NULL => b[q].next \in DOMAIN b
    <3>1. CASE q = p
      BY <3>1
    <3>2. CASE q # p
      BY <1>1, <2>1, <3>2 DEF Relinked
    <3> QED BY <3>1, <3>2
  <2> QED BY <2>1, <2>4, <2>5
<1>6. RefsOK(b, f)
  BY <1>3, <1>4, <1>5 DEF RefsOK
<1> QED BY <1>2, <1>6

\* A link that is made takes a reference over.
LEMMA LinkMade ==
    ASSUME NEW pb, PbOK(pb), NEW e \in [Pointers -> Nat], NEW n \in Pointers, RefsOK(pb, More(e, n)),
           NEW p \in DOMAIN pb, pb[p].next = NULL, NEW b, Relinked(pb, p, b), b[p].next = n
    PROVE  RefsOK(b, e)
<1>1. DOMAIN b = DOMAIN pb /\ PbOK(b)
  BY DEF Relinked
<1>2. PICK f : f = More(e, n)
  OBVIOUS
<1>3. f \in [Pointers -> Nat] /\ \A q \in Pointers : f[q] = IF q = n THEN e[q] + 1 ELSE e[q]
  BY <1>2, MoreIs
<1>4. n \in DOMAIN pb /\ n # NULL
  <2>1. f[n] > 0
    BY <1>3
  <2> QED BY <1>2, <2>1, PointersAre DEF RefsOK
<1>5. ASSUME NEW q \in Pointers, e[q] > 0 PROVE q \in DOMAIN b
  <2>1. f[q] > 0
    BY <1>3, <1>5
  <2> QED BY <1>1, <1>2, <2>1 DEF RefsOK
<1>6. ASSUME NEW q \in DOMAIN b
      PROVE  /\ b[q].next # NULL => b[q].next \in DOMAIN b
             /\ b[q].ref = Cardinality(LinksTo(b, q)) + e[q]
             /\ b[q].ref > 0
  <2>1. /\ pb[q].next # NULL => pb[q].next \in DOMAIN pb
        /\ pb[q].ref = Cardinality(LinksTo(pb, q)) + f[q]
        /\ pb[q].ref > 0 /\ b[q].ref = pb[q].ref
    BY <1>1, <1>2 DEF RefsOK, Relinked
  <2>2. q \in Pointers /\ q # NULL /\ e[q] \in Nat
    BY <1>1, PbIs
  <2>3. LinksTo(pb, q) = LinksTo(b, q) \ {p}
    BY <1>1, <2>2 DEF LinksTo, Relinked
  <2>4. Cardinality(LinksTo(pb, q)) + f[q] = Cardinality(LinksTo(b, q)) + e[q]
    <3>0. IsFiniteSet(LinksTo(b, q)) /\ Cardinality(LinksTo(b, q)) \in Nat
      BY <1>1, LinksFinite
    <3>1. CASE q = n
      <4>1. p \in LinksTo(b, q)
        BY <1>1, <3>1 DEF LinksTo
      <4>2. Cardinality(LinksTo(b, q) \ {p}) = Cardinality(LinksTo(b, q)) - 1
        BY <3>0, <4>1, FS_RemoveElement
      <4>3. f[q] = e[q] + 1
        BY <1>3, <2>2, <3>1
      <4> QED BY <2>2, <2>3, <3>0, <4>2, <4>3
    <3>2. CASE q # n
      <4>1. p \notin LinksTo(b, q)
        BY <3>2 DEF LinksTo
      <4>2. LinksTo(pb, q) = LinksTo(b, q)
        BY <2>3, <4>1
      <4>3. f[q] = e[q]
        BY <1>3, <2>2, <3>2
      <4> QED BY <4>2, <4>3
    <3> QED BY <3>1, <3>2
  <2>5. b[q].next # NULL => b[q].next \in DOMAIN b
    <3>1. CASE q = p
      BY <1>1, <1>4, <3>1
    <3>2. CASE q # p
      BY <1>1, <2>1, <3>2 DEF Relinked
    <3> QED BY <3>1, <3>2
  <2> QED BY <2>1, <2>4, <2>5
<1>7. RefsOK(b, e)
  BY <1>5, <1>6 DEF RefsOK
<1> QED BY <1>7

\* References count neither lengths nor room.
LEMMA SameRefs ==
    ASSUME NEW pb, PbOK(pb), NEW e, RefsOK(pb, e), NEW b, DOMAIN b = DOMAIN pb,
           \A q \in DOMAIN pb : b[q].ref = pb[q].ref /\ b[q].next = pb[q].next
    PROVE  RefsOK(b, e)
<1>1. \A q : LinksTo(b, q) = LinksTo(pb, q)
  BY DEF LinksTo
<1> QED BY <1>1 DEF RefsOK

\* The memory of the pbufs is not touched.
LEMMA SameStore ==
    ASSUME NEW w, Shape(w), Stored(w), NEW b, DOMAIN b = DOMAIN w.pb,
           \A q \in DOMAIN w.pb : InsideOK(w.heap, q, b[q]),
           NEW u, u = [w EXCEPT !.pb = b]
    PROVE  Shape(u) /\ Stored(u) /\ u.pb = b /\ u.was = w.was
<1>1. u.pb = b /\ u.pool = w.pool /\ u.refs = w.refs /\ u.heap = w.heap /\ u.was = w.was /\ Shape(u)
  BY DEF Shape
<1> QED BY <1>1 DEF Stored

\* pbuf_ref keeps the memory sound.
LEMMA RefSound ==
    ASSUME NEW w, NEW e \in [Pointers -> Nat], Sound(w, e, {}), NEW p \in DOMAIN w.pb
    PROVE  Sound(pbuf_ref(w, p), More(e, p), {})
<1>1. PICK pb, b, u : /\ pb = w.pb /\ b = [pb EXCEPT ![p].ref = @ + 1]
                      /\ u = [w EXCEPT !.pb = b]
  OBVIOUS
<1>2. pbuf_ref(w, p) = u
  BY <1>1 DEF pbuf_ref, Shape, Sound
<1>3. Shape(w) /\ PbOK(pb) /\ RefsOK(pb, e) /\ TotOK(pb, {}) /\ Stored(w)
  BY <1>1 DEF Sound
<1>4. Recounted(pb, More(e, p), b)
  BY <1>1, <1>3, RaiseRefs
<1>5. /\ PbOK(b) /\ DOMAIN b = DOMAIN pb /\ RefsOK(b, More(e, p))
      /\ \A q \in DOMAIN pb : /\ b[q].next = pb[q].next /\ b[q].len = pb[q].len
                              /\ b[q].tot_len = pb[q].tot_len /\ b[q].room = pb[q].room
  BY <1>4 DEF Recounted
<1>6. \A q \in DOMAIN w.pb : InsideOK(w.heap, q, b[q])
  BY <1>1, <1>3, <1>5, InsideStays DEF Stored
<1>7. Shape(u) /\ Stored(u) /\ u.pb = b
  BY <1>1, <1>3, <1>5, <1>6, SameStore
<1>8. TotOK(b, {})
  BY <1>3, <1>5 DEF TotOK, RefsOK
<1> QED BY <1>2, <1>5, <1>7, <1>8 DEF Sound

-----------------------------------------------------------------------------
(* pbuf_cat and pbuf_chain.                                                *)

\* t hangs on the chain C, whose lengths count it.
Joined(pb, C, c, t, b) ==
    /\ PbOK(b) /\ DOMAIN b = DOMAIN pb
    /\ \A q \in DOMAIN pb :
          /\ b[q].len = pb[q].len /\ b[q].room = pb[q].room
          /\ b[q].tot_len = IF q \in Range(C) THEN pb[q].tot_len + pb[t].tot_len ELSE pb[q].tot_len
          /\ b[q].next = IF q = C[c] THEN t ELSE pb[q].next

\* Joining two chains keeps the lengths right all along the first.
LEMMA JoinTot ==
    ASSUME NEW pb, PbOK(pb), NEW e, RefsOK(pb, e), TotOK(pb, {}), NEW h, NEW C, NEW c, Straight(pb, h, C, c),
           NEW t \in DOMAIN pb, t \notin Range(C), NEW b, Joined(pb, C, c, t, b)
    PROVE  TotOK(b, {})
<1> SUFFICES ASSUME NEW q \in DOMAIN pb
             PROVE  b[q].tot_len = b[q].len + (IF b[q].next = NULL THEN 0 ELSE b[b[q].next].tot_len)
  BY DEF TotOK, Joined
<1>1. /\ c \in Nat /\ c >= 1 /\ DOMAIN C = 1 .. c /\ pb[C[c]].next = NULL
      /\ \A k \in 1 .. c : k < c => pb[C[k]].next = C[k + 1]
      /\ \A r \in DOMAIN pb, k \in 1 .. c : pb[r].next = C[k] => k > 1 /\ r = C[k - 1]
  BY DEF Straight
<1>2. \A r : r \in Range(C) <=> \E k \in 1 .. c : r = C[k]
  BY <1>1 DEF Range
<1>3. pb[q].tot_len = pb[q].len + (IF pb[q].next = NULL THEN 0 ELSE pb[pb[q].next].tot_len)
  BY DEF TotOK
<1>4. pb[q].tot_len \in Nat /\ pb[q].len \in Nat /\ pb[t].tot_len \in Nat /\ t # NULL
  BY PbIs
<1>5. pb[q].next # NULL => pb[q].next \in DOMAIN pb /\ pb[pb[q].next].tot_len \in Nat
  BY PbIs DEF RefsOK
<1>6. CASE q = C[c]
  <2>1. c \in 1 .. c
    BY <1>1
  <2>2. q \in Range(C)
    BY <1>2, <1>6, <2>1
  <2>3. b[q].next = t /\ b[q].len = pb[q].len /\ b[q].tot_len = pb[q].tot_len + pb[t].tot_len
    BY <1>6, <2>2 DEF Joined
  <2>4. b[t].tot_len = pb[t].tot_len
    BY DEF Joined
  <2>5. pb[q].tot_len = pb[q].len + 0
    BY <1>1, <1>3, <1>6
  <2> QED BY <1>4, <2>3, <2>4, <2>5
<1>7. CASE q # C[c] /\ q \in Range(C)
  <2>1. PICK k \in 1 .. c : q = C[k]
    BY <1>2, <1>7
  <2>2. k < c /\ k + 1 \in 1 .. c
    BY <1>1, <1>7, <2>1
  <2>3. pb[q].next = C[k + 1] /\ C[k + 1] \in Range(C)
    BY <1>1, <1>2, <2>1, <2>2
  <2>4. PICK n : n = C[k + 1]
    OBVIOUS
  <2>5. n \in DOMAIN pb /\ n # NULL /\ n \in Range(C) /\ pb[q].next = n
    BY <2>2, <2>3, <2>4, PbIs DEF Straight
  <2>6. b[q].next = n /\ b[q].len = pb[q].len /\ b[q].tot_len = pb[q].tot_len + pb[t].tot_len
    BY <1>7, <2>5 DEF Joined
  <2>7. b[n].tot_len = pb[n].tot_len + pb[t].tot_len
    BY <2>5 DEF Joined
  <2>8. pb[q].tot_len = pb[q].len + pb[n].tot_len /\ pb[n].tot_len \in Nat
    BY <1>3, <1>5, <2>5
  <2> QED BY <1>4, <2>5, <2>6, <2>7, <2>8
<1>8. CASE q \notin Range(C)
  <2>1. q # C[c]
    <3>1. c \in 1 .. c
      BY <1>1
    <3> QED BY <1>2, <1>8, <3>1
  <2>2. b[q].next = pb[q].next /\ b[q].len = pb[q].len /\ b[q].tot_len = pb[q].tot_len
    BY <1>8, <2>1 DEF Joined
  <2>3. pb[q].next \notin Range(C)
    <3> SUFFICES ASSUME NEW k \in 1 .. c, pb[q].next = C[k] PROVE FALSE
      BY <1>2
    <3>1. k > 1 /\ q = C[k - 1]
      BY <1>1
    <3>2. k - 1 \in 1 .. c
      BY <1>1, <3>1
    <3> QED BY <1>2, <1>8, <3>1, <3>2
  <2>4. pb[q].next # NULL => b[pb[q].next].tot_len = pb[pb[q].next].tot_len
    BY <1>5, <2>3 DEF Joined
  <2> QED BY <1>3, <2>2, <2>4
<1> QED BY <1>6, <1>7, <1>8

CatPb(pb, C, t) ==
    [q \in DOMAIN pb |->
        IF q \in Range(C)
        THEN [pb[q] EXCEPT !.tot_len = @ + pb[t].tot_len, !.next = IF q = Last(C) THEN t ELSE @]
        ELSE pb[q]]

\* pbuf_cat joins the two chains.
LEMMA CatPbIs ==
    ASSUME NEW pb, PbOK(pb), NEW h, NEW C, NEW c, Straight(pb, h, C, c), NEW t \in DOMAIN pb,
           NEW b, b = CatPb(pb, C, t)
    PROVE  Joined(pb, C, c, t, b) /\ \A q \in DOMAIN pb : b[q].ref = pb[q].ref
<1>1. c \in Nat /\ c >= 1 /\ C \in Seq(DOMAIN pb) /\ Len(C) = c /\ DOMAIN C = 1 .. c
  BY DEF Straight
<1>2. Last(C) = C[c]
  BY <1>1 DEF Last
<1>3. C[c] \in Range(C)
  <2>1. c \in DOMAIN C
    BY <1>1
  <2> QED BY <2>1 DEF Range
<1>4. t \in Nat /\ pb[t].tot_len \in Nat
  BY PbIs
<1>5. DOMAIN b = DOMAIN pb
  BY DEF CatPb
<1>6. ASSUME NEW q \in DOMAIN pb
      PROVE  /\ b[q] \in PbufRec /\ b[q].ref = pb[q].ref
             /\ b[q].len = pb[q].len /\ b[q].room = pb[q].room
             /\ b[q].tot_len = IF q \in Range(C) THEN pb[q].tot_len + pb[t].tot_len ELSE pb[q].tot_len
             /\ b[q].next = IF q = C[c] THEN t ELSE pb[q].next
  <2>1. pb[q] \in PbufRec
    BY PbIs
  <2>2. CASE q \notin Range(C)
    <3>1. b[q] = pb[q] /\ q # C[c]
      BY <1>3, <2>2 DEF CatPb
    <3> QED BY <2>1, <2>2, <3>1
  <2>3. CASE q \in Range(C)
    <3>1. PICK a, x, z : a = pb[q] /\ x = pb[q].tot_len + pb[t].tot_len /\ z = IF q = C[c] THEN t ELSE pb[q].next
      OBVIOUS
    <3>2. b[q] = [a EXCEPT !.tot_len = x, !.next = z]
      BY <1>2, <2>3, <3>1 DEF CatPb
    <3>3. a \in PbufRec /\ x \in Nat /\ z \in Nat
      BY <1>4, <2>1, <3>1, RecIs
    <3>4. /\ b[q] \in PbufRec /\ b[q].ref = a.ref /\ b[q].len = a.len /\ b[q].room = a.room
          /\ b[q].tot_len = x /\ b[q].next = z
      BY <3>2, <3>3 DEF PbufRec
    <3> QED BY <2>3, <3>1, <3>4
  <2> QED BY <2>2, <2>3
<1>7. b \in [DOMAIN b -> PbufRec]
  <2>1. b = [q \in DOMAIN b |-> b[q]]
    BY DEF CatPb
  <2> QED BY <1>5, <1>6, <2>1
<1>8. PbOK(b)
  BY <1>5, <1>7 DEF PbOK
<1> QED BY <1>5, <1>6, <1>8 DEF Joined

\* pbuf_cat makes the reference to t that of the link.
LEMMA CatSound ==
    ASSUME NEW w, NEW e \in [Pointers -> Nat], NEW t \in DOMAIN w.pb, Sound(w, More(e, t), {}),
           NEW h, NEW c, Straight(w.pb, h, Chain(w, h), c), t \notin Range(Chain(w, h))
    PROVE  Sound(pbuf_cat(w, h, t), e, {})
<1>1. PICK pb, C, b, u : /\ pb = w.pb /\ C = Chain(w, h) /\ b = CatPb(pb, C, t)
                         /\ u = [w EXCEPT !.pb = b]
  OBVIOUS
<1>2. pbuf_cat(w, h, t) = u
  BY <1>1 DEF pbuf_cat, CatPb
<1>3. Shape(w) /\ PbOK(pb) /\ RefsOK(pb, More(e, t)) /\ TotOK(pb, {}) /\ Stored(w) /\ Straight(pb, h, C, c)
  BY <1>1 DEF Sound
<1>4. Joined(pb, C, c, t, b) /\ \A q \in DOMAIN pb : b[q].ref = pb[q].ref
  BY <1>1, <1>3, CatPbIs
<1>5. TotOK(b, {})
  BY <1>1, <1>3, <1>4, JoinTot
<1>6. PICK z : z = C[c]
  OBVIOUS
<1>7. z \in DOMAIN pb /\ pb[z].next = NULL
  BY <1>3, <1>6 DEF Straight
<1>8. Relinked(pb, z, b) /\ b[z].next = t
  BY <1>4, <1>6, <1>7 DEF Joined, Relinked
<1>9. t \in Pointers
  BY <1>1, <1>3, PbIs
<1>10. RefsOK(b, e)
  BY <1>3, <1>7, <1>8, <1>9, LinkMade
<1>11. \A q \in DOMAIN w.pb : InsideOK(w.heap, q, b[q])
  BY <1>1, <1>3, <1>4, InsideStays DEF Stored, Joined
<1>12. Shape(u) /\ Stored(u) /\ u.pb = b
  BY <1>1, <1>3, <1>4, <1>11, SameStore DEF Joined
<1> QED BY <1>2, <1>4, <1>5, <1>10, <1>12 DEF Sound, Joined

\* pbuf_chain leaves the caller its reference to t.
LEMMA ChainSound ==
    ASSUME NEW w, NEW e \in [Pointers -> Nat], NEW t \in DOMAIN w.pb, Sound(w, e, {}),
           NEW h, NEW c, Straight(w.pb, h, Chain(w, h), c), t \notin Range(Chain(w, h))
    PROVE  Sound(pbuf_chain(w, h, t), e, {})
<1>1. PICK pb, C, b, u : /\ pb = w.pb /\ C = Chain(w, h) /\ b = CatPb(pb, C, t)
                         /\ u = [w EXCEPT !.pb = b]
  OBVIOUS
<1>2. pbuf_cat(w, h, t) = u
  BY <1>1 DEF pbuf_cat, CatPb
<1>3. Shape(w) /\ PbOK(pb) /\ RefsOK(pb, e) /\ TotOK(pb, {}) /\ Stored(w) /\ Straight(pb, h, C, c)
  BY <1>1 DEF Sound
<1>4. Joined(pb, C, c, t, b) /\ \A q \in DOMAIN pb : b[q].ref = pb[q].ref
  BY <1>1, <1>3, CatPbIs
<1>5. TotOK(b, {})
  BY <1>1, <1>3, <1>4, JoinTot
<1>6. PICK z : z = C[c]
  OBVIOUS
<1>7. z \in DOMAIN pb /\ pb[z].next = NULL
  BY <1>3, <1>6 DEF Straight
<1>8. \A q \in DOMAIN w.pb : InsideOK(w.heap, q, b[q])
  BY <1>1, <1>3, <1>4, InsideStays DEF Stored, Joined
<1>9. Shape(u) /\ Stored(u) /\ u.pb = b
  BY <1>1, <1>3, <1>4, <1>8, SameStore DEF Joined
<1>10. PICK b2, pb2, v : /\ b2 = [b EXCEPT ![t].ref = @ + 1] /\ pb2 = [pb EXCEPT ![t].ref = @ + 1]
                         /\ v = [u EXCEPT !.pb = b2]
  OBVIOUS
<1>11. pbuf_chain(w, h, t) = v
  BY <1>2, <1>9, <1>10 DEF pbuf_chain, pbuf_ref, Shape
<1>12. PbOK(b) /\ DOMAIN b = DOMAIN pb
  BY <1>4 DEF Joined
<1>13. t \in DOMAIN pb /\ t \in Pointers /\ b[t].ref = pb[t].ref /\ pb[t].ref \in Nat
  BY <1>1, <1>3, <1>4, PbIs
<1>14. /\ Recounted(pb, More(e, t), pb2)
       /\ \A q \in DOMAIN pb : pb2[q].ref = IF q = t THEN pb[t].ref + 1 ELSE pb[q].ref
  <2>1. pb2 = [pb EXCEPT ![t].ref = @ + 1]
    BY <1>10
  <2>2. Recounted(pb, More(e, t), pb2)
    BY <1>3, <1>13, <2>1, RaiseRefs
  <2>3. \A q \in DOMAIN pb : pb2[q].ref = IF q = t THEN pb[t].ref + 1 ELSE pb[q].ref
    BY <1>3, <1>13, <2>1 DEF PbOK, PbufRec
  <2> QED BY <2>2, <2>3
<1>15. /\ PbOK(b2) /\ DOMAIN b2 = DOMAIN b
       /\ \A q \in DOMAIN b : /\ b2[q].next = b[q].next /\ b2[q].len = b[q].len
                              /\ b2[q].tot_len = b[q].tot_len /\ b2[q].room = b[q].room
                              /\ b2[q].ref = IF q = t THEN b[t].ref + 1 ELSE b[q].ref
  <2>1. DOMAIN b2 = DOMAIN b /\ b2 \in [DOMAIN b -> PbufRec]
    BY <1>10, <1>12, <1>13 DEF PbOK, PbufRec
  <2>2. \A q \in DOMAIN b : /\ b2[q].next = b[q].next /\ b2[q].len = b[q].len
                            /\ b2[q].tot_len = b[q].tot_len /\ b2[q].room = b[q].room
                            /\ b2[q].ref = IF q = t THEN b[t].ref + 1 ELSE b[q].ref
    BY <1>10, <1>12, <1>13 DEF PbOK, PbufRec
  <2> QED BY <1>12, <2>1, <2>2 DEF PbOK
<1>16. PbOK(pb2) /\ DOMAIN pb2 = DOMAIN pb /\ RefsOK(pb2, More(e, t)) /\ \A q \in DOMAIN pb : pb2[q].next = pb[q].next
  BY <1>14 DEF Recounted
<1>17. Relinked(pb2, z, b2) /\ b2[z].next = t /\ pb2[z].next = NULL
  <2>1. b2[z].next = t /\ pb2[z].next = NULL
    BY <1>4, <1>6, <1>7, <1>12, <1>15, <1>16 DEF Joined
  <2>2. ASSUME NEW q \in DOMAIN pb2 PROVE b2[q].ref = pb2[q].ref /\ (q # z => b2[q].next = pb2[q].next)
    <3>1. b2[q].ref = pb2[q].ref
      BY <1>4, <1>12, <1>13, <1>14, <1>15, <1>16
    <3>2. q # z => b2[q].next = pb2[q].next
      BY <1>4, <1>6, <1>12, <1>15, <1>16 DEF Joined
    <3> QED BY <3>1, <3>2
  <2> QED BY <1>12, <1>15, <1>16, <2>1, <2>2 DEF Relinked
<1>18. RefsOK(b2, e)
  BY <1>7, <1>13, <1>16, <1>17, LinkMade
<1>19. TotOK(b2, {})
  <2>1. \A q \in DOMAIN b2 : b2[q].next # NULL => b2[q].next \in DOMAIN b2
    BY <1>18 DEF RefsOK
  <2> QED BY <1>5, <1>15, <2>1 DEF TotOK
<1>20. \A q \in DOMAIN u.pb : InsideOK(u.heap, q, b2[q])
  BY <1>9, <1>15, InsideStays DEF Stored
<1>21. Shape(v) /\ Stored(v) /\ v.pb = b2
  BY <1>9, <1>10, <1>15, <1>20, SameStore
<1> QED BY <1>11, <1>15, <1>18, <1>19, <1>21 DEF Sound

-----------------------------------------------------------------------------
(* pbuf_dechain, pbuf_header and pbuf_coalesce.                            *)

\* pbuf_dechain gives the reference of the link back.
LEMMA DechainSound ==
    ASSUME NEW w, NEW e \in [Pointers -> Nat], Sound(w, e, {}), NEW p \in DOMAIN w.pb, LinksTo(w.pb, p) = {}
    PROVE  Sound(pbuf_dechain(w, p), e, {})
<1>1. PICK pb, q : pb = w.pb /\ q = pb[p].next
  OBVIOUS
<1>2. Shape(w) /\ PbOK(pb) /\ RefsOK(pb, e) /\ TotOK(pb, {}) /\ Stored(w)
  BY <1>1 DEF Sound
<1>3. CASE q = NULL
  <2>1. pbuf_dechain(w, p) = w
    BY <1>1, <1>3 DEF pbuf_dechain
  <2> QED BY <2>1
<1>4. CASE q # NULL
  <2>1. p \in DOMAIN pb /\ q \in DOMAIN pb /\ q # p /\ q \in Pointers
    BY <1>1, <1>2, <1>4, PbIs DEF RefsOK, LinksTo
  <2>2. PICK b, u : /\ b = [pb EXCEPT ![q].tot_len = pb[p].tot_len - pb[p].len, ![p].next = NULL,
                                      ![p].tot_len = pb[p].len]
                    /\ u = [w EXCEPT !.pb = b]
    OBVIOUS
  <2>3. pbuf_dechain(w, p) = pbuf_free(u, q)
    <3>1. [w EXCEPT !.pb[q].tot_len = w.pb[p].tot_len - w.pb[p].len, !.pb[p].next = NULL,
                    !.pb[p].tot_len = w.pb[p].len] = u
      BY <1>1, <1>2, <2>2 DEF Shape
    <3> QED BY <1>1, <1>4, <3>1 DEF pbuf_dechain
  <2>4. /\ pb[p].tot_len \in Nat /\ pb[p].len \in Nat /\ pb[q].tot_len \in Nat
        /\ pb[p].tot_len = pb[p].len + pb[q].tot_len
    BY <1>1, <1>2, <1>4, <2>1, PbIs DEF TotOK
  <2>5. pb[p].tot_len - pb[p].len = pb[q].tot_len
    BY <2>4
  <2>6. b = [pb EXCEPT ![q].tot_len = pb[q].tot_len, ![p].next = NULL, ![p].tot_len = pb[p].len]
    BY <2>2, <2>5
  <2>7. DOMAIN b = DOMAIN pb /\ b \in [DOMAIN pb -> PbufRec]
    <3>1. NULL \in Nat
      BY DEF NULL
    <3> QED BY <1>2, <2>1, <2>4, <2>6, <3>1 DEF PbOK, PbufRec
  <2>8. \A r \in DOMAIN pb : /\ b[r].len = pb[r].len /\ b[r].room = pb[r].room /\ b[r].ref = pb[r].ref
                             /\ b[r].next = IF r = p THEN NULL ELSE pb[r].next
                             /\ b[r].tot_len = IF r = p THEN pb[p].len ELSE pb[r].tot_len
    BY <1>2, <2>1, <2>4, <2>6 DEF PbOK, PbufRec
  <2>9. PbOK(b)
    BY <1>2, <2>7 DEF PbOK
  <2>10. Relinked(pb, p, b) /\ b[p].next = NULL
    BY <2>1, <2>7, <2>8, <2>9 DEF Relinked
  <2>11. RefsOK(b, More(e, q))
    BY <1>1, <1>2, <1>4, <2>1, <2>10, LinkCut
  <2>12. ASSUME NEW r \in DOMAIN b
         PROVE  b[r].tot_len = b[r].len + (IF b[r].next = NULL THEN 0 ELSE b[b[r].next].tot_len)
    <3>1. CASE r = p
      <4>1. b[r].tot_len = pb[p].len /\ b[r].len = pb[p].len /\ b[r].next = NULL
        BY <2>1, <2>8, <3>1
      <4> QED BY <2>4, <4>1
    <3>2. CASE r # p
      <4>1. b[r].tot_len = pb[r].tot_len /\ b[r].len = pb[r].len /\ b[r].next = pb[r].next
        BY <2>7, <2>8, <3>2
      <4>2. pb[r].next # p
        BY <1>1, <2>7 DEF LinksTo
      <4>3. pb[r].next # NULL => pb[r].next \in DOMAIN pb
        BY <1>2, <2>7 DEF RefsOK
      <4>4. pb[r].next # NULL => b[pb[r].next].tot_len = pb[pb[r].next].tot_len
        BY <2>8, <4>2, <4>3
      <4>5. pb[r].tot_len = pb[r].len + (IF pb[r].next = NULL THEN 0 ELSE pb[pb[r].next].tot_len)
        BY <1>2, <2>7 DEF TotOK
      <4> QED BY <4>1, <4>4, <4>5
    <3> QED BY <3>1, <3>2
  <2>13. TotOK(b, {})
    BY <2>12 DEF TotOK
  <2>14. \A r \in DOMAIN w.pb : InsideOK(w.heap, r, b[r])
    BY <1>1, <1>2, <2>8, InsideStays DEF Stored
  <2>15. Shape(u) /\ Stored(u) /\ u.pb = b
    <3>1. u = [w EXCEPT !.pb = b] /\ DOMAIN b = DOMAIN w.pb
      BY <1>1, <2>2, <2>7
    <3> QED BY <1>2, <2>14, <3>1, SameStore
  <2>16. PICK X : X = {}
    OBVIOUS
  <2>17. Sound(u, More(e, q), X)
    BY <2>9, <2>11, <2>13, <2>15, <2>16 DEF Sound
  <2>18. Sound(pbuf_free(u, q), e, X)
    BY <2>1, <2>17, FreeSound
  <2> QED BY <2>3, <2>16, <2>18
<1> QED BY <1>3, <1>4

\* pbuf_header keeps the payload inside and the lengths right.
LEMMA HeaderSound ==
    ASSUME NEW w, NEW e \in [Pointers -> Nat], Sound(w, e, {}), NEW p \in DOMAIN w.pb, LinksTo(w.pb, p) = {},
           NEW inc \in Int
    PROVE  Sound(pbuf_header(w, p, inc), e, {})
<1>1. PICK pb : pb = w.pb
  OBVIOUS
<1>2. Shape(w) /\ PbOK(pb) /\ RefsOK(pb, e) /\ TotOK(pb, {}) /\ Stored(w)
  BY <1>1 DEF Sound
<1>3. CASE ~HeaderOK(w, p, inc)
  <2>1. pbuf_header(w, p, inc) = w
    BY <1>3 DEF pbuf_header
  <2> QED BY <2>1
<1>4. CASE HeaderOK(w, p, inc)
  <2>1. PICK len, tot, room : /\ len = pb[p].len + inc /\ tot = pb[p].tot_len + inc
                              /\ room = IF Type(p) = "REF" THEN pb[p].room ELSE pb[p].room - inc
    OBVIOUS
  <2>2. PICK b, u : /\ b = [pb EXCEPT ![p].len = len, ![p].tot_len = tot, ![p].room = room]
                    /\ u = [w EXCEPT !.pb = b]
    OBVIOUS
  <2>3. pbuf_header(w, p, inc) = u
    <3>1. [w EXCEPT !.pb[p].len = w.pb[p].len + inc, !.pb[p].tot_len = w.pb[p].tot_len + inc,
                    !.pb[p].room = IF Type(p) = "REF" THEN w.pb[p].room ELSE w.pb[p].room - inc] = u
      BY <1>1, <1>2, <2>1, <2>2 DEF Shape
    <3>2. pbuf_header(w, p, inc) =
            [w EXCEPT !.pb[p].len = w.pb[p].len + inc, !.pb[p].tot_len = w.pb[p].tot_len + inc,
                      !.pb[p].room = IF Type(p) = "REF" THEN w.pb[p].room ELSE w.pb[p].room - inc]
      BY <1>1, <1>2, <1>4 DEF pbuf_header, Shape, PbOK, PbufRec
    <3> QED BY <3>1, <3>2
  <2>4. p \in DOMAIN pb /\ p \in Pointers /\ pb[p].len \in Nat /\ pb[p].tot_len \in Nat /\ pb[p].room \in Nat
    BY <1>1, <1>2, PbIs
  <2>5. /\ inc < 0 => -inc <= pb[p].len
        /\ Type(p) # "REF" => pb[p].room >= inc
    BY <1>1, <1>4 DEF HeaderOK
  <2>6. pb[p].tot_len >= pb[p].len
    <3>1. pb[p].tot_len = pb[p].len + (IF pb[p].next = NULL THEN 0 ELSE pb[pb[p].next].tot_len)
      BY <1>2, <2>4 DEF TotOK
    <3>2. pb[p].next # NULL => pb[pb[p].next].tot_len \in Nat
      BY <1>2, <2>4, PbIs DEF RefsOK
    <3> QED BY <2>4, <3>1, <3>2
  <2>7. len \in Nat /\ tot \in Nat /\ room \in Nat
    BY <2>1, <2>4, <2>5, <2>6
  <2>8. DOMAIN b = DOMAIN pb /\ b \in [DOMAIN pb -> PbufRec]
    BY <1>2, <2>2, <2>4, <2>7 DEF PbOK, PbufRec
  <2>9. \A r \in DOMAIN pb : /\ b[r].next = pb[r].next /\ b[r].ref = pb[r].ref
                             /\ b[r].len = IF r = p THEN len ELSE pb[r].len
                             /\ b[r].tot_len = IF r = p THEN tot ELSE pb[r].tot_len
                             /\ b[r].room = IF r = p THEN room ELSE pb[r].room
    BY <1>2, <2>2, <2>4, <2>7 DEF PbOK, PbufRec
  <2>10. PbOK(b)
    BY <1>2, <2>8 DEF PbOK
  <2>11. RefsOK(b, e)
    BY <1>2, <2>8, <2>9, SameRefs
  <2>12. ASSUME NEW r \in DOMAIN b
         PROVE  b[r].tot_len = b[r].len + (IF b[r].next = NULL THEN 0 ELSE b[b[r].next].tot_len)
    <3>1. pb[r].tot_len = pb[r].len + (IF pb[r].next = NULL THEN 0 ELSE pb[pb[r].next].tot_len)
      BY <1>2, <2>8 DEF TotOK
    <3>2. pb[r].next # p /\ b[r].next = pb[r].next
      BY <1>1, <2>8, <2>9 DEF LinksTo
    <3>3. pb[r].next # NULL => pb[r].next \in DOMAIN pb
      BY <1>2, <2>8 DEF RefsOK
    <3>4. pb[r].next # NULL => b[pb[r].next].tot_len = pb[pb[r].next].tot_len /\ pb[pb[r].next].tot_len \in Nat
      BY <1>2, <2>9, <3>2, <3>3, PbIs
    <3>5. PICK x : x = IF pb[r].next = NULL THEN 0 ELSE pb[pb[r].next].tot_len
      OBVIOUS
    <3>6. x \in Nat /\ pb[r].tot_len = pb[r].len + x
          /\ x = IF b[r].next = NULL THEN 0 ELSE b[b[r].next].tot_len
      BY <3>1, <3>2, <3>4, <3>5
    <3>7. CASE r = p
      <4>1. b[r].tot_len = pb[p].tot_len + inc /\ b[r].len = pb[p].len + inc
        BY <2>1, <2>4, <2>9, <3>7
      <4>2. b[r].tot_len = b[r].len + x
        BY <2>4, <3>6, <3>7, <4>1
      <4> QED BY <3>6, <4>2
    <3>8. CASE r # p
      <4>1. b[r].tot_len = pb[r].tot_len /\ b[r].len = pb[r].len
        BY <2>8, <2>9, <3>8
      <4> QED BY <3>6, <4>1
    <3> QED BY <3>7, <3>8
  <2>13. TotOK(b, {})
    BY <2>12 DEF TotOK
  <2>14. ASSUME NEW r \in DOMAIN w.pb PROVE InsideOK(w.heap, r, b[r])
    <3>1. InsideOK(w.heap, r, pb[r])
      BY <1>1, <1>2 DEF Stored
    <3>2. CASE r # p
      BY <1>1, <2>9, <3>1, <3>2, InsideStays
    <3>3. CASE r = p /\ Type(p) # "REF"
      <4>1. b[p].room + b[p].len = pb[p].room + pb[p].len
        <5>1. b[p].room = pb[p].room - inc /\ b[p].len = pb[p].len + inc
          BY <2>1, <2>4, <2>9, <3>3
        <5> QED BY <2>4, <5>1
      <4>2. SIZEOF_STRUCT_PBUF + b[p].room + b[p].len = SIZEOF_STRUCT_PBUF + pb[p].room + pb[p].len
        <5>1. b[p].room \in Nat /\ b[p].len \in Nat
          BY <2>4, <2>7, <2>9
        <5> QED BY <2>4, <4>1, <5>1, Constants
      <4> QED BY <3>1, <3>3, <4>1, <4>2 DEF InsideOK
    <3>4. CASE r = p /\ Type(p) = "REF"
      BY <3>4 DEF InsideOK
    <3> QED BY <3>2, <3>3, <3>4
  <2>15. Shape(u) /\ Stored(u) /\ u.pb = b
    <3>1. u = [w EXCEPT !.pb = b] /\ DOMAIN b = DOMAIN w.pb
      BY <1>1, <2>2, <2>8
    <3> QED BY <1>2, <2>14, <3>1, SameStore
  <2> QED BY <2>3, <2>10, <2>11, <2>13, <2>15 DEF Sound
<1> QED BY <1>3, <1>4

\* References from outside to two pbufs come in any order.
LEMMA MoreMore ==
    ASSUME NEW e \in [Pointers -> Nat], NEW p \in Pointers, NEW q \in Pointers
    PROVE  More(More(e, p), q) = More(More(e, q), p)
<1>1. PICK f, g : f = More(e, p) /\ g = More(e, q)
  OBVIOUS
<1>2. f \in [Pointers -> Nat] /\ \A x \in Pointers : f[x] = IF x = p THEN e[x] + 1 ELSE e[x]
  BY <1>1, MoreIs
<1>3. g \in [Pointers -> Nat] /\ \A x \in Pointers : g[x] = IF x = q THEN e[x] + 1 ELSE e[x]
  BY <1>1, MoreIs
<1>4. More(f, q) \in [Pointers -> Nat] /\ \A x \in Pointers : More(f, q)[x] = IF x = q THEN f[x] + 1 ELSE f[x]
  BY <1>2, MoreIs
<1>5. More(g, p) \in [Pointers -> Nat] /\ \A x \in Pointers : More(g, p)[x] = IF x = p THEN g[x] + 1 ELSE g[x]
  BY <1>3, MoreIs
<1>6. \A x \in Pointers : More(f, q)[x] = More(g, p)[x]
  BY <1>2, <1>3, <1>4, <1>5
<1>7. More(f, q) = More(g, p)
  BY <1>4, <1>5, <1>6
<1> QED BY <1>1, <1>7

\* The chain and the reference to it stay, or a new pbuf takes its place.
Coalesced(w, e, p, r) ==
    \/ r.p = p /\ r.m = w
    \/ r.p \in Pointers \ DOMAIN w.pb /\ Sound(r.m, More(e, r.p), {})

\* pbuf_coalesce replaces the chain or leaves it alone.
LEMMA CoalesceSound ==
    ASSUME NEW w, NEW e \in [Pointers -> Nat], NEW p \in DOMAIN w.pb, Sound(w, More(e, p), {}),
           NEW offset \in 0 .. HLEN
    PROVE  Coalesced(w, e, p, pbuf_coalesce(w, p, offset))
<1>1. PICK r, q : r = pbuf_coalesce(w, p, offset) /\ q = pbuf_alloc(w, offset, w.pb[p].tot_len, "RAM")
  OBVIOUS
<1>2. CASE w.pb[p].next = NULL \/ q.p = NULL
  <2>1. r = [p |-> p, m |-> w]
    BY <1>1, <1>2 DEF pbuf_coalesce
  <2> QED BY <1>1, <2>1 DEF Coalesced
<1>3. CASE ~(w.pb[p].next = NULL \/ q.p = NULL)
  <2>1. r = [p |-> q.p, m |-> pbuf_free(q.m, p)]
    BY <1>1, <1>3 DEF pbuf_coalesce
  <2>2. r.p = q.p /\ r.m = pbuf_free(q.m, p)
    BY <2>1
  <2>3. p \in Pointers /\ w.pb[p].tot_len \in Nat
    BY PbIs DEF Sound
  <2>4. More(e, p) \in [Pointers -> Nat]
    BY <2>3, MoreIs
  <2>5. Given(w, More(e, p), q)
    <3>1. PICK f, len, type : f = More(e, p) /\ len = w.pb[p].tot_len /\ type = "RAM"
      OBVIOUS
    <3>2. f \in [Pointers -> Nat] /\ Sound(w, f, {}) /\ len \in Nat /\ type \in Types
      BY <2>3, <2>4, <3>1 DEF Types
    <3>3. Given(w, f, pbuf_alloc(w, offset, len, type))
      BY <3>2, AllocSound
    <3> QED BY <1>1, <3>1, <3>3
  <2>6. q.p \in Pointers \ DOMAIN w.pb /\ Sound(q.m, More(More(e, p), q.p), {})
    BY <1>3, <2>5 DEF Given
  <2>7. PICK f, X : f = More(e, q.p) /\ X = {}
    OBVIOUS
  <2>8. More(More(e, p), q.p) = More(f, p) /\ f \in [Pointers -> Nat]
    BY <2>3, <2>6, <2>7, MoreMore, MoreIs
  <2>9. Sound(q.m, More(f, p), X)
    BY <2>6, <2>7, <2>8
  <2>10. Sound(pbuf_free(q.m, p), f, X)
    BY <2>3, <2>8, <2>9, FreeSound
  <2> QED BY <1>1, <2>2, <2>6, <2>7, <2>10 DEF Coalesced
<1> QED BY <1>2, <1>3

-----------------------------------------------------------------------------
(* pbuf_realloc.                                                           *)

\* What is left to keep, one pbuf at a time.
LeftStep(w, chain, new_len, k, y) == y - w.pb[chain[k - 1]].len

LeftEq(w, chain, new_len, f) ==
    f = [k \in 1 .. Len(chain) |-> IF k = 1 THEN new_len ELSE LeftStep(w, chain, new_len, k, f[k - 1])]

LeftUpto(w, chain, new_len, n, f) ==
    /\ f = [k \in 1 .. n |-> f[k]]
    /\ f[1] = new_len
    /\ \A k \in 1 + 1 .. n : f[k] = LeftStep(w, chain, new_len, k, f[k - 1])

\* The function is the one that satisfies its equation ...
LEMMA LeftChoice ==
    ASSUME NEW w, NEW chain, NEW new_len
    PROVE  Left(w, chain, new_len) = CHOOSE f : LeftEq(w, chain, new_len, f)
BY Zenon DEF Left, LeftEq, LeftStep

\* ... and there is one, by the least number up to which there is none.
LEMMA LeftExists ==
    ASSUME NEW w, NEW chain, NEW new_len, NEW N \in Nat, NEW n \in 1 .. N
    PROVE  \E f : LeftUpto(w, chain, new_len, n, f)
<1> DEFINE T == {i \in 1 .. N : ~ \E f : LeftUpto(w, chain, new_len, i, f)}
<1>1. SUFFICES ASSUME T # {} PROVE FALSE
  OBVIOUS
<1>2. T \in SUBSET Nat
  OBVIOUS
<1>3. PICK i \in T : \A y \in T : i <= y
  BY <1>1, <1>2, Least
<1>4. i \in 1 .. N /\ ~ \E f : LeftUpto(w, chain, new_len, i, f)
  OBVIOUS
<1>5. i # 1
  <2>1. LeftUpto(w, chain, new_len, 1, [k \in 1 .. 1 |-> new_len])
    BY DEF LeftUpto
  <2> QED BY <1>4, <2>1
<1>6. i - 1 \in 1 .. N /\ i \in 1 + 1 .. N /\ i - 1 \notin T
  BY <1>3, <1>4, <1>5
<1>7. PICK f : LeftUpto(w, chain, new_len, i - 1, f)
  BY <1>6
<1> HIDE DEF T
<1> DEFINE g == [k \in 1 .. i |-> IF k = i THEN LeftStep(w, chain, new_len, i, f[i - 1]) ELSE f[k]]
<1>8. LeftUpto(w, chain, new_len, i, g)
  <2>1. g = [k \in 1 .. i |-> g[k]]
    OBVIOUS
  <2>2. g[1] = new_len
    BY <1>6, <1>7 DEF LeftUpto
  <2>3. ASSUME NEW k \in 1 + 1 .. i PROVE g[k] = LeftStep(w, chain, new_len, k, g[k - 1])
    <3>1. k \in 1 .. i /\ k - 1 \in 1 .. i /\ k - 1 # i
      BY <1>6
    <3>2. g[k - 1] = f[k - 1]
      BY <3>1
    <3>3. CASE k = i
      <4>1. g[k] = LeftStep(w, chain, new_len, i, f[i - 1])
        BY <3>1, <3>3
      <4> QED BY <3>2, <3>3, <4>1
    <3>4. CASE k # i
      <4>1. k \in 1 + 1 .. i - 1
        BY <1>6, <3>4
      <4>2. g[k] = f[k]
        BY <3>1, <3>4
      <4>3. f[k] = LeftStep(w, chain, new_len, k, f[k - 1])
        BY <1>7, <4>1 DEF LeftUpto
      <4> QED BY <3>2, <4>2, <4>3
    <3> QED BY <3>3, <3>4
  <2> HIDE DEF g
  <2> QED BY <2>1, <2>2, <2>3 DEF LeftUpto
<1> QED BY <1>4, <1>8

\* So Left obeys its equation at every pbuf.
LEMMA LeftIs ==
    ASSUME NEW w, NEW chain, NEW new_len, Len(chain) \in Nat, Len(chain) >= 1
    PROVE  LeftUpto(w, chain, new_len, Len(chain), Left(w, chain, new_len))
<1>0. PICK N : N = Len(chain)
  OBVIOUS
<1>1. N \in 1 .. N
  BY <1>0
<1>2. PICK f : LeftUpto(w, chain, new_len, N, f)
  BY <1>0, <1>1, LeftExists
<1>3. LeftEq(w, chain, new_len, f)
  <2> DEFINE g == [k \in 1 .. N |-> IF k = 1 THEN new_len ELSE LeftStep(w, chain, new_len, k, f[k - 1])]
  <2>1. ASSUME NEW k \in 1 .. N PROVE f[k] = g[k]
    <3>1. CASE k = 1
      BY <1>2, <3>1 DEF LeftUpto
    <3>2. CASE k # 1
      <4>1. k \in 1 + 1 .. N
        BY <1>0, <3>2
      <4>2. f[k] = LeftStep(w, chain, new_len, k, f[k - 1])
        BY <1>2, <4>1 DEF LeftUpto
      <4> QED BY <3>2, <4>2
    <3> QED BY <3>1, <3>2
  <2>2. f = [k \in 1 .. N |-> f[k]]
    BY <1>2 DEF LeftUpto
  <2>3. g = [k \in 1 .. N |-> g[k]]
    OBVIOUS
  <2>4. f = g
    <3> HIDE DEF g
    <3> QED BY <2>1, <2>2, <2>3
  <2> QED BY <1>0, <2>4 DEF LeftEq
<1>4. LeftEq(w, chain, new_len, Left(w, chain, new_len))
  <2>1. LeftEq(w, chain, new_len, CHOOSE u : LeftEq(w, chain, new_len, u))
    BY <1>3, Zenon
  <2> QED BY <2>1, LeftChoice
<1>5. PICK z : z = Left(w, chain, new_len)
  OBVIOUS
<1>6. z = [k \in 1 .. N |-> IF k = 1 THEN new_len ELSE LeftStep(w, chain, new_len, k, z[k - 1])]
  BY <1>0, <1>4, <1>5 DEF LeftEq
<1>7. z = [k \in 1 .. N |-> z[k]]
  BY <1>6
<1>8. z[1] = new_len
  BY <1>0, <1>1, <1>6
<1>9. ASSUME NEW k \in 1 + 1 .. N PROVE z[k] = LeftStep(w, chain, new_len, k, z[k - 1])
  <2>1. k \in 1 .. N /\ k # 1
    BY <1>0
  <2> QED BY <1>6, <2>1
<1>10. LeftUpto(w, chain, new_len, N, z)
  BY <1>7, <1>8, <1>9 DEF LeftUpto
<1> QED BY <1>0, <1>5, <1>10


\* What is left is the length of the rest of the chain, less what goes.
LeftOK(pb, p, C, c, new, left) ==
    /\ left[1] = new
    /\ \A k \in 1 .. c : left[k] = pb[C[k]].tot_len + new - pb[p].tot_len
    /\ \A k \in 1 .. c : k < c => left[k + 1] = left[k] - pb[C[k]].len

\* Up the chain, from its first pbuf.
LEMMA LeftIsTot ==
    ASSUME NEW w, PbOK(w.pb), TotOK(w.pb, {}), NEW p, NEW C, NEW c, Straight(w.pb, p, C, c),
           NEW new \in Nat, NEW left, left = Left(w, C, new)
    PROVE  LeftOK(w.pb, p, C, c, new, left)
<1>1. PICK pb : pb = w.pb
  OBVIOUS
<1>2. /\ c \in Nat /\ c >= 1 /\ Len(C) = c /\ C[1] = p
      /\ \A k \in 1 .. c : C[k] \in DOMAIN pb
      /\ \A k \in 1 .. c : k < c => pb[C[k]].next = C[k + 1]
  BY <1>1 DEF Straight
<1>3. left[1] = new /\ \A k \in 1 + 1 .. c : left[k] = left[k - 1] - pb[C[k - 1]].len
  <2>1. LeftUpto(w, C, new, c, left)
    BY <1>2, LeftIs
  <2> QED BY <1>1, <2>1 DEF LeftUpto, LeftStep
<1>4. ASSUME NEW k \in 1 .. c, k < c PROVE left[k + 1] = left[k] - pb[C[k]].len
  <2>1. k + 1 \in 1 + 1 .. c /\ (k + 1) - 1 = k
    BY <1>2, <1>4
  <2> QED BY <1>3, <2>1
<1>5. \A k \in 1 .. c : pb[C[k]].tot_len \in Nat /\ pb[C[k]].len \in Nat /\ C[k] # NULL
  BY <1>1, <1>2, PbIs
<1>6. p = C[1] /\ pb[p].tot_len \in Nat
  <2>1. 1 \in 1 .. c
    BY <1>2
  <2> QED BY <1>2, <1>5, <2>1
<1>7. \A k \in 1 .. c : left[k] = pb[C[k]].tot_len + new - pb[p].tot_len
  <2> DEFINE T == {k \in 1 .. c : ~(left[k] = pb[C[k]].tot_len + new - pb[p].tot_len)}
  <2>1. SUFFICES ASSUME T # {} PROVE FALSE
    OBVIOUS
  <2>2. T \in SUBSET Nat
    OBVIOUS
  <2>3. PICK i \in T : \A y \in T : i <= y
    BY <2>1, <2>2, Least
  <2>4. i \in 1 .. c /\ left[i] # pb[C[i]].tot_len + new - pb[p].tot_len
    BY <2>3
  <2>5. i # 1
    BY <1>3, <1>6, <2>4
  <2>6. PICK j : j = i - 1
    OBVIOUS
  <2>7. j \in 1 .. c /\ j < c /\ j + 1 = i /\ ~(i <= j)
    BY <1>2, <2>4, <2>5, <2>6
  <2>8. left[j] = pb[C[j]].tot_len + new - pb[p].tot_len
    BY <2>3, <2>7
  <2>9. left[i] = left[j] - pb[C[j]].len
    BY <1>4, <2>7
  <2>10. pb[C[j]].tot_len = pb[C[j]].len + pb[C[i]].tot_len
    <3>1. pb[C[j]].next = C[i] /\ C[i] # NULL /\ C[j] \in DOMAIN pb
      BY <1>2, <1>5, <2>4, <2>7
    <3> QED BY <1>1, <3>1 DEF TotOK
  <2>11. /\ pb[C[j]].tot_len \in Nat /\ pb[C[j]].len \in Nat /\ pb[C[i]].tot_len \in Nat
    BY <1>5, <2>4, <2>7
  <2>12. left[i] = pb[C[i]].tot_len + new - pb[p].tot_len
    BY <1>6, <2>8, <2>9, <2>10, <2>11
  <2> QED BY <2>4, <2>12
<1> QED BY <1>1, <1>3, <1>4, <1>7 DEF LeftOK

\* The new last pbuf.
CutAt(w, C, left) == Min({k \in 1 .. Len(C) : left[k] <= w.pb[C[k]].len})

\* There is a last pbuf, since the chain holds more than is kept.
LEMMA CutPoint ==
    ASSUME NEW w, PbOK(w.pb), TotOK(w.pb, {}), NEW p, NEW C, NEW c, Straight(w.pb, p, C, c),
           NEW new \in Nat, NEW left, left = Left(w, C, new), new < w.pb[p].tot_len,
           NEW last, last = CutAt(w, C, left)
    PROVE  /\ last \in 1 .. c /\ left[last] <= w.pb[C[last]].len
           /\ \A k \in 1 .. c : k <= last => left[k] \in Nat
<1>1. PICK pb : pb = w.pb
  OBVIOUS
<1>2. /\ c \in Nat /\ c >= 1 /\ Len(C) = c /\ C[1] = p
      /\ \A k \in 1 .. c : C[k] \in DOMAIN pb
      /\ pb[C[c]].next = NULL
  BY <1>1 DEF Straight
<1>3. /\ left[1] = new
      /\ \A k \in 1 .. c : left[k] = pb[C[k]].tot_len + new - pb[p].tot_len
      /\ \A k \in 1 .. c : k < c => left[k + 1] = left[k] - pb[C[k]].len
  <2>1. LeftOK(pb, p, C, c, new, left)
    BY <1>1, LeftIsTot
  <2> QED BY <2>1 DEF LeftOK
<1>4. \A k \in 1 .. c : pb[C[k]].tot_len \in Nat /\ pb[C[k]].len \in Nat
  BY <1>1, <1>2, PbIs
<1>5. 1 \in 1 .. c /\ c \in 1 .. c /\ pb[p].tot_len \in Nat
  <2>1. 1 \in 1 .. c /\ c \in 1 .. c
    BY <1>2
  <2> QED BY <1>2, <1>4, <2>1
<1>6. \A k \in 1 .. c : left[k] \in Int
  <2> SUFFICES ASSUME NEW k \in 1 .. c PROVE left[k] \in Int
    OBVIOUS
  <2>1. left[k] = pb[C[k]].tot_len + new - pb[p].tot_len /\ pb[C[k]].tot_len \in Nat
    BY <1>3, <1>4
  <2> QED BY <1>5, <2>1
<1>7. PICK S : S = {k \in 1 .. Len(C) : left[k] <= pb[C[k]].len}
  OBVIOUS
<1>8. c \in S
  <2>1. C[c] \in DOMAIN pb /\ pb[C[c]].next = NULL
    BY <1>2, <1>5
  <2>2. pb[C[c]].tot_len = pb[C[c]].len + 0
    BY <1>1, <2>1 DEF TotOK
  <2>3. left[c] = pb[C[c]].tot_len + new - pb[p].tot_len
    BY <1>3, <1>5
  <2>4. left[c] <= pb[C[c]].len
    BY <1>1, <1>4, <1>5, <2>2, <2>3
  <2> QED BY <1>2, <1>5, <1>7, <2>4
<1>9. S \in SUBSET Nat /\ last = Min(S)
  BY <1>1, <1>7 DEF CutAt
<1>10. last \in S /\ \A k \in S : last <= k
  <2>1. S # {}
    BY <1>8
  <2>2. Min(S) \in S /\ \A k \in S : Min(S) <= k
    BY <1>9, <2>1, MinIs
  <2> QED BY <1>9, <2>2
<1>11. last \in 1 .. c /\ left[last] <= pb[C[last]].len
  BY <1>2, <1>7, <1>10
<1>12. \A k \in 1 .. c : k <= last => left[k] \in Nat
  <2> SUFFICES ASSUME NEW k \in 1 .. c, k <= last PROVE left[k] \in Nat
    OBVIOUS
  <2>1. CASE k = 1
    BY <1>3, <2>1
  <2>2. CASE k # 1
    <3>1. PICK j : j = k - 1
      OBVIOUS
    <3>2. j \in 1 .. c /\ j < c /\ j + 1 = k /\ ~(last <= j)
      BY <1>2, <1>11, <2>2, <3>1
    <3>3. j \notin S
      BY <1>10, <3>2
    <3>4. ~(left[j] <= pb[C[j]].len)
      BY <1>2, <1>7, <3>2, <3>3
    <3>5. left[k] = left[j] - pb[C[j]].len /\ left[j] \in Int /\ pb[C[j]].len \in Nat
      BY <1>3, <1>4, <1>6, <3>2
    <3> QED BY <3>4, <3>5
  <2> QED BY <2>1, <2>2
<1> QED BY <1>1, <1>11, <1>12

\* The chain C up to its last pbuf, with what is left as lengths.
Shortened(pb, C, last, left, b) ==
    /\ PbOK(b) /\ DOMAIN b = DOMAIN pb
    /\ \A q \in DOMAIN pb : b[q].ref = pb[q].ref /\ b[q].room = pb[q].room
    /\ \A k \in 1 .. last : b[C[k]].tot_len = left[k]
    /\ \A k \in 1 .. last - 1 : b[C[k]].len = pb[C[k]].len /\ b[C[k]].next = pb[C[k]].next
    /\ b[C[last]].len = left[last] /\ b[C[last]].next = NULL
    /\ \A q \in DOMAIN pb : (\A k \in 1 .. last : q # C[k]) => b[q] = pb[q]

ShortPb(pb, kept, q, rem, new, p) ==
    [r \in DOMAIN pb |->
        IF r \in kept
        THEN [pb[r] EXCEPT !.tot_len = @ + new - pb[p].tot_len]
        ELSE IF r = q
        THEN [pb[r] EXCEPT !.len = rem, !.tot_len = rem, !.next = NULL]
        ELSE pb[r]]

\* What pbuf_realloc writes, pbuf by pbuf.
LEMMA ShortPbIs ==
    ASSUME NEW pb, PbOK(pb), NEW p, NEW C, NEW c, Straight(pb, p, C, c), NEW new \in Nat,
           NEW left, NEW last \in 1 .. c,
           \A k \in 1 .. c : left[k] = pb[C[k]].tot_len + new - pb[p].tot_len,
           \A k \in 1 .. c : k <= last => left[k] \in Nat,
           NEW b, b = ShortPb(pb, {C[k] : k \in 1 .. last - 1}, C[last], left[last], new, p)
    PROVE  Shortened(pb, C, last, left, b)
<1>1. /\ c \in Nat /\ \A k \in 1 .. c : C[k] \in DOMAIN pb
      /\ \A i, j \in 1 .. c : C[i] = C[j] => i = j
  BY DEF Straight
<1>2. PICK K, q, rem : K = {C[k] : k \in 1 .. last - 1} /\ q = C[last] /\ rem = left[last]
  OBVIOUS
<1>3. /\ last \in Nat /\ last >= 1 /\ last \in 1 .. last
      /\ \A k \in 1 .. last : k \in 1 .. c /\ k <= last
      /\ \A k \in 1 .. last - 1 : k \in 1 .. last /\ k # last /\ k \in 1 .. c
      /\ \A k \in 1 .. last : k = last \/ k \in 1 .. last - 1
  BY <1>1
<1>4. q \in DOMAIN pb /\ q \notin K /\ rem \in Nat
  BY <1>1, <1>2, <1>3
<1>5. DOMAIN b = DOMAIN pb /\ b = [r \in DOMAIN pb |-> b[r]]
  BY DEF ShortPb
<1>6. ASSUME NEW k \in 1 .. last - 1
      PROVE  /\ b[C[k]] \in PbufRec /\ b[C[k]].tot_len = left[k] /\ b[C[k]].len = pb[C[k]].len
             /\ b[C[k]].next = pb[C[k]].next /\ b[C[k]].ref = pb[C[k]].ref /\ b[C[k]].room = pb[C[k]].room
  <2>1. PICK r : r = C[k]
    OBVIOUS
  <2>2. r \in K /\ r \in DOMAIN pb /\ pb[r] \in PbufRec
    BY <1>1, <1>2, <1>3, <2>1, PbIs
  <2>3. left[k] = pb[r].tot_len + new - pb[p].tot_len /\ left[k] \in Nat
    BY <1>3, <2>1
  <2>4. b[r] = [pb[r] EXCEPT !.tot_len = left[k]]
    BY <1>2, <2>2, <2>3 DEF ShortPb
  <2>5. PICK a, x : a = pb[r] /\ x = left[k]
    OBVIOUS
  <2>6. b[r] = [a EXCEPT !.tot_len = x] /\ a \in PbufRec /\ x \in Nat
    BY <2>2, <2>3, <2>4, <2>5
  <2>7. /\ b[r] \in PbufRec /\ b[r].tot_len = x /\ b[r].len = a.len
        /\ b[r].next = a.next /\ b[r].ref = a.ref /\ b[r].room = a.room
    BY <2>6 DEF PbufRec
  <2> QED BY <2>1, <2>5, <2>7
<1>7. /\ b[q] \in PbufRec /\ b[q].tot_len = rem /\ b[q].len = rem /\ b[q].next = NULL
      /\ b[q].ref = pb[q].ref /\ b[q].room = pb[q].room
  <2>1. b[q] = [pb[q] EXCEPT !.len = rem, !.tot_len = rem, !.next = NULL]
    BY <1>2, <1>4 DEF ShortPb
  <2>2. PICK a : a = pb[q]
    OBVIOUS
  <2>3. a \in PbufRec /\ NULL \in Nat /\ b[q] = [a EXCEPT !.len = rem, !.tot_len = rem, !.next = NULL]
    BY <1>4, <2>1, <2>2, PbIs DEF NULL
  <2>4. /\ b[q] \in PbufRec /\ b[q].tot_len = rem /\ b[q].len = rem /\ b[q].next = NULL
        /\ b[q].ref = a.ref /\ b[q].room = a.room
    BY <1>4, <2>3 DEF PbufRec
  <2> QED BY <2>2, <2>4
<1>8. ASSUME NEW r \in DOMAIN pb, r \notin K, r # q PROVE b[r] = pb[r]
  BY <1>2, <1>8 DEF ShortPb
<1>9. ASSUME NEW r \in DOMAIN pb PROVE b[r] \in PbufRec /\ b[r].ref = pb[r].ref /\ b[r].room = pb[r].room
  <2>1. CASE r \in K
    BY <1>2, <1>6, <2>1
  <2>2. CASE r = q
    BY <1>7, <2>2
  <2>3. CASE r \notin K /\ r # q
    BY <1>8, <2>3, PbIs
  <2> QED BY <2>1, <2>2, <2>3
<1>10. PbOK(b)
  <2>1. \A r \in DOMAIN b : b[r] \in PbufRec
    BY <1>5, <1>9
  <2>2. b \in [DOMAIN b -> PbufRec]
    BY <1>5, <2>1
  <2> QED BY <1>5, <2>2 DEF PbOK
<1>11. \A k \in 1 .. last : b[C[k]].tot_len = left[k]
  BY <1>2, <1>3, <1>6, <1>7
<1>12. ASSUME NEW r \in DOMAIN pb, \A k \in 1 .. last : r # C[k] PROVE b[r] = pb[r]
  <2>1. r \notin K /\ r # q
    BY <1>2, <1>3, <1>12
  <2> QED BY <1>8, <2>1
<1> QED BY <1>2, <1>5, <1>6, <1>7, <1>9, <1>10, <1>11, <1>12 DEF Shortened

\* The lengths of the shortened chain agree.
LEMMA ShortTot ==
    ASSUME NEW pb, PbOK(pb), NEW e, RefsOK(pb, e), TotOK(pb, {}), NEW p, NEW C, NEW c, Straight(pb, p, C, c),
           NEW new, NEW left, LeftOK(pb, p, C, c, new, left), NEW last \in 1 .. c,
           \A k \in 1 .. c : k <= last => left[k] \in Nat,
           NEW b, Shortened(pb, C, last, left, b)
    PROVE  TotOK(b, {})
<1> SUFFICES ASSUME NEW r \in DOMAIN pb
             PROVE  b[r].tot_len = b[r].len + (IF b[r].next = NULL THEN 0 ELSE b[b[r].next].tot_len)
  BY DEF TotOK, Shortened
<1>1. /\ c \in Nat
      /\ \A k \in 1 .. c : C[k] \in DOMAIN pb
      /\ \A k \in 1 .. c : k < c => pb[C[k]].next = C[k + 1]
      /\ \A q \in DOMAIN pb, k \in 1 .. c : pb[q].next = C[k] => k > 1 /\ q = C[k - 1]
  BY DEF Straight
<1>2. CASE r = C[last]
  <2>1. last \in 1 .. last /\ left[last] \in Nat
    BY <1>1
  <2>2. b[r].tot_len = left[last] /\ b[r].len = left[last] /\ b[r].next = NULL
    BY <1>2, <2>1 DEF Shortened
  <2> QED BY <2>1, <2>2
<1>3. ASSUME NEW k \in 1 .. last - 1, r = C[k]
      PROVE  b[r].tot_len = b[r].len + (IF b[r].next = NULL THEN 0 ELSE b[b[r].next].tot_len)
  <2>1. k \in 1 .. c /\ k < c /\ k + 1 \in 1 .. last /\ k \in 1 .. last /\ k + 1 \in 1 .. c /\ k <= last
    BY <1>1
  <2>2. PICK n : n = C[k + 1]
    OBVIOUS
  <2>3. n \in DOMAIN pb /\ n # NULL /\ pb[r].next = n /\ pb[r].len \in Nat
    BY <1>1, <1>3, <2>1, <2>2, PbIs
  <2>4. b[r].tot_len = left[k] /\ b[r].len = pb[r].len /\ b[r].next = n
    BY <1>3, <2>1, <2>3 DEF Shortened
  <2>5. b[n].tot_len = left[k + 1]
    BY <2>1, <2>2 DEF Shortened
  <2>6. left[k + 1] = left[k] - pb[r].len /\ left[k] \in Nat
    BY <1>3, <2>1 DEF LeftOK
  <2>7. left[k] = pb[r].len + left[k + 1]
    BY <2>3, <2>6
  <2> QED BY <2>3, <2>4, <2>5, <2>7
<1>4. CASE \A k \in 1 .. last : r # C[k]
  <2>1. b[r] = pb[r]
    BY <1>4 DEF Shortened
  <2>2. pb[r].tot_len = pb[r].len + (IF pb[r].next = NULL THEN 0 ELSE pb[pb[r].next].tot_len)
    BY DEF TotOK
  <2>3. PICK n : n = pb[r].next
    OBVIOUS
  <2>4. n # NULL => n \in DOMAIN pb
    BY <2>3 DEF RefsOK
  <2>5. \A k \in 1 .. last : n # C[k]
    <3> SUFFICES ASSUME NEW k \in 1 .. last, n = C[k] PROVE FALSE
      OBVIOUS
    <3>1. k \in 1 .. c
      BY <1>1
    <3>2. k > 1 /\ r = C[k - 1]
      BY <1>1, <2>3, <3>1
    <3>3. k - 1 \in 1 .. last
      BY <1>1, <3>2
    <3> QED BY <1>4, <3>2, <3>3
  <2>6. n # NULL => b[n] = pb[n]
    BY <2>4, <2>5 DEF Shortened
  <2> QED BY <2>1, <2>2, <2>3, <2>6
<1>5. \A k \in 1 .. last : k = last \/ k \in 1 .. last - 1
  BY <1>1
<1> QED BY <1>2, <1>3, <1>4, <1>5

\* The heap when the block of q is trimmed to its new length, or left alone.
BlockTrimmed(w, q, b, g) ==
    /\ HeapOK(g) /\ Blocks(g) = Blocks(w.heap)
    /\ \A x \in Blocks(w.heap) : x # Block(q) => DataSize(g, x) = DataSize(w.heap, x)
    /\ InsideOK(g, q, b)

\* The heap stays in order, and the payload stays inside.
LEMMA ReallocHeap ==
    ASSUME NEW w, PbOK(w.pb), Stored(w), NEW q \in DOMAIN w.pb, NEW rem \in Nat, rem <= w.pb[q].len,
           NEW b, b.len = rem, b.room = w.pb[q].room,
           NEW g, g = IF Type(q) = "RAM" /\ rem # w.pb[q].len
                      THEN mem_trim(w.heap, Block(q), SIZEOF_STRUCT_PBUF + w.pb[q].room + rem) ELSE w.heap
    PROVE  BlockTrimmed(w, q, b, g)
<1>1. PICK room, len, h : room = w.pb[q].room /\ len = w.pb[q].len /\ h = w.heap
  OBVIOUS
<1>2. room \in Nat /\ len \in Nat /\ q \in Pointers /\ SIZEOF_STRUCT_PBUF \in Nat /\ BUFSIZE \in Nat
  BY <1>1, PbIs, Constants
<1>3. /\ StoreOK(w.pool, w.refs, w.heap, DOMAIN w.pb) /\ HeapOK(h) /\ DOMAIN w.pb \subseteq Pointers
      /\ Type(q) = "POOL" => room + len <= BUFSIZE
      /\ Type(q) = "RAM" => SIZEOF_STRUCT_PBUF + room + len <= DataSize(h, Block(q))
  BY <1>1 DEF Stored, StoreOK, InsideOK, PbOK
<1>4. Type(q) = "POOL" => b.room + b.len <= BUFSIZE
  BY <1>1, <1>2, <1>3
<1>5. CASE ~(Type(q) = "RAM" /\ rem # len)
  <2>1. g = h
    BY <1>1, <1>5
  <2>2. Type(q) = "RAM" => b.len = len /\ b.room = room
    BY <1>1, <1>5
  <2> QED BY <1>1, <1>3, <1>4, <2>1, <2>2 DEF BlockTrimmed, InsideOK
<1>6. CASE Type(q) = "RAM" /\ rem # len
  <2>1. PICK c, n : c = Block(q) /\ n = SIZEOF_STRUCT_PBUF + room + rem
    OBVIOUS
  <2>2. g = mem_trim(h, c, n) /\ n \in Nat
    BY <1>1, <1>2, <1>6, <2>1
  <2>3. q \notin POOL \cup REFS
    BY <1>2, <1>6, TypeIs
  <2>4. c \in Blocks(h)
    BY <1>1, <1>3, <2>1, <2>3, BlockOf
  <2>5. TrimOK(h, c, n, g)
    BY <1>3, <2>2, <2>4, mem_trimOK
  <2>6. DataSize(h, c) >= n
    <3>1. DataSize(h, c) \in Int
      <4>1. c \in Int /\ h.ram[c].next \in Int
        <5>1. RamOK(h.ram) /\ c \in DOMAIN h.ram
          BY <1>3, <2>4 DEF HeapOK, Blocks
        <5> QED BY <5>1, StructFields DEF RamOK
      <4> QED BY <4>1, MemAssumption DEF DataSize
    <3> QED BY <1>1, <1>2, <1>3, <1>6, <2>1, <3>1
  <2>7. DataSize(g, c) >= n
    BY <2>5, <2>6 DEF TrimOK
  <2>8. SIZEOF_STRUCT_PBUF + b.room + b.len = n
    BY <1>1, <2>1
  <2>9. SIZEOF_STRUCT_PBUF + b.room + b.len <= DataSize(g, Block(q))
    BY <2>1, <2>7, <2>8
  <2>10. InsideOK(g, q, b)
    BY <1>4, <2>9 DEF InsideOK
  <2> QED BY <1>1, <2>1, <2>5, <2>10 DEF BlockTrimmed, TrimOK
<1> QED BY <1>5, <1>6

\* pbuf_realloc, from what it finds to what it does.
ReallocTo(w, p, new, q, rem, K) ==
    LET g == IF Type(q) = "RAM" /\ rem # w.pb[q].len
             THEN mem_trim(w.heap, Block(q), SIZEOF_STRUCT_PBUF + w.pb[q].room + rem) ELSE w.heap
        u == [w EXCEPT !.heap = g, !.pb = ShortPb(w.pb, K, q, rem, new, p)]
    IN  IF new >= w.pb[p].tot_len THEN w ELSE IF w.pb[q].next = NULL THEN u ELSE pbuf_free(u, w.pb[q].next)
ReallocAt(w, p, new, C, left, last) ==
    ReallocTo(w, p, new, C[last], left[last], {C[k] : k \in 1 .. last - 1})
ReallocFrom(w, p, new, C, left) == ReallocAt(w, p, new, C, left, CutAt(w, C, left))
ReallocIn(w, p, new, C) == ReallocFrom(w, p, new, C, Left(w, C, new))

\* pbuf_realloc in terms of these.
LEMMA ReallocIs ==
    ASSUME NEW w, NEW p, NEW new
    PROVE  pbuf_realloc(w, p, new) = ReallocIn(w, p, new, Chain(w, p))
BY DEF pbuf_realloc, ReallocIn, ReallocFrom, ReallocAt, ReallocTo, CutAt, ShortPb

\* pbuf_realloc frees the rest of the chain and keeps the memory sound.
LEMMA ReallocSound ==
    ASSUME NEW w, NEW e \in [Pointers -> Nat], Sound(w, e, {}), NEW p \in DOMAIN w.pb,
           NEW c, Straight(w.pb, p, Chain(w, p), c), NEW new \in Nat
    PROVE  Sound(pbuf_realloc(w, p, new), e, {})
<1>1. PICK pb, C, left, last : /\ pb = w.pb /\ C = Chain(w, p) /\ left = Left(w, C, new)
                               /\ last = CutAt(w, C, left)
  OBVIOUS
<1>2. PICK q, rem, K : q = C[last] /\ rem = left[last] /\ K = {C[k] : k \in 1 .. last - 1}
  OBVIOUS
<1>3. PICK g, b : /\ g = IF Type(q) = "RAM" /\ rem # w.pb[q].len
                         THEN mem_trim(w.heap, Block(q), SIZEOF_STRUCT_PBUF + w.pb[q].room + rem) ELSE w.heap
                  /\ b = ShortPb(pb, K, q, rem, new, p)
  OBVIOUS
<1>4. PICK u : u = [w EXCEPT !.heap = g, !.pb = b]
  OBVIOUS
<1>5. pbuf_realloc(w, p, new) =
        IF new >= w.pb[p].tot_len THEN w ELSE IF w.pb[q].next = NULL THEN u ELSE pbuf_free(u, w.pb[q].next)
  <2>1. pbuf_realloc(w, p, new) = ReallocIn(w, p, new, C)
    BY <1>1, ReallocIs
  <2>2. ReallocIn(w, p, new, C) = ReallocAt(w, p, new, C, left, last)
    BY <1>1 DEF ReallocIn, ReallocFrom
  <2>3. ReallocAt(w, p, new, C, left, last) = ReallocTo(w, p, new, q, rem, K)
    BY <1>2 DEF ReallocAt
  <2>4. ReallocTo(w, p, new, q, rem, K) =
          IF new >= w.pb[p].tot_len THEN w ELSE IF w.pb[q].next = NULL THEN u ELSE pbuf_free(u, w.pb[q].next)
    BY <1>1, <1>3, <1>4 DEF ReallocTo
  <2> QED BY <2>1, <2>2, <2>3, <2>4
<1>6. Shape(w) /\ PbOK(pb) /\ RefsOK(pb, e) /\ TotOK(pb, {}) /\ Stored(w) /\ Straight(pb, p, C, c)
  BY <1>1 DEF Sound
<1>7. CASE new >= w.pb[p].tot_len
  BY <1>5, <1>7
<1>8. CASE ~(new >= w.pb[p].tot_len)
  <2>1. new < w.pb[p].tot_len
    BY <1>1, <1>6, <1>8, PbIs
  <2>2. LeftOK(pb, p, C, c, new, left)
    BY <1>1, <1>6, LeftIsTot
  <2>3. /\ last \in 1 .. c /\ rem <= pb[q].len
        /\ \A k \in 1 .. c : k <= last => left[k] \in Nat
    BY <1>1, <1>2, <1>6, <2>1, CutPoint
  <2>4. Shortened(pb, C, last, left, b)
    <3>1. \A k \in 1 .. c : left[k] = pb[C[k]].tot_len + new - pb[p].tot_len
      BY <2>2 DEF LeftOK
    <3>2. b = ShortPb(pb, {C[k] : k \in 1 .. last - 1}, C[last], left[last], new, p)
      BY <1>2, <1>3
    <3> QED BY <1>6, <2>3, <3>1, <3>2, ShortPbIs
  <2>5. TotOK(b, {})
    BY <1>6, <2>2, <2>3, <2>4, ShortTot
  <2>6. c \in Nat /\ q \in DOMAIN pb /\ rem \in Nat /\ last \in Nat /\ last >= 1
    <3>1. c \in Nat
      BY <1>6 DEF Straight
    <3> QED BY <1>2, <1>6, <2>3, <3>1 DEF Straight
  <2>7. /\ PbOK(b) /\ DOMAIN b = DOMAIN pb
        /\ \A r \in DOMAIN pb : b[r].ref = pb[r].ref /\ b[r].room = pb[r].room
        /\ b[q].len = rem /\ b[q].next = NULL
    BY <1>2, <2>4 DEF Shortened
  <2>8. ASSUME NEW r \in DOMAIN pb, r # q PROVE b[r].next = pb[r].next /\ b[r].len = pb[r].len
    <3>1. CASE \A k \in 1 .. last : r # C[k]
      BY <2>4, <3>1 DEF Shortened
    <3>2. ASSUME NEW k \in 1 .. last, r = C[k] PROVE b[r].next = pb[r].next /\ b[r].len = pb[r].len
      <4>1. k # last
        BY <1>2, <2>8, <3>2
      <4>2. k \in 1 .. last - 1
        BY <2>6, <4>1
      <4> QED BY <2>4, <3>2, <4>2 DEF Shortened
    <3> QED BY <3>1, <3>2
  <2>9. BlockTrimmed(w, q, b[q], g)
    <3>1. PICK a : a = b[q]
      OBVIOUS
    <3>2. a.len = rem /\ a.room = w.pb[q].room /\ PbOK(w.pb) /\ q \in DOMAIN w.pb /\ rem <= w.pb[q].len
      BY <1>1, <1>6, <2>3, <2>6, <2>7, <3>1
    <3>3. BlockTrimmed(w, q, a, g)
      BY <1>3, <1>6, <2>6, <3>2, ReallocHeap
    <3> QED BY <3>1, <3>3
  <2>10. u.pb = b /\ u.heap = g /\ u.pool = w.pool /\ u.refs = w.refs /\ u.was = w.was /\ Shape(u)
    BY <1>4, <1>6 DEF Shape
  <2>11. PICK D : D = DOMAIN pb
    OBVIOUS
  <2>12. StoreOK(w.pool, w.refs, w.heap, D) /\ D \subseteq Pointers
    BY <1>1, <1>6, <2>11 DEF Stored, PbOK
  <2>13. StoreOK(u.pool, u.refs, u.heap, D)
    BY <2>9, <2>10, <2>12 DEF StoreOK, BlockTrimmed
  <2>14. ASSUME NEW r \in D PROVE InsideOK(g, r, b[r])
    <3>1. CASE r = q
      BY <2>9, <3>1 DEF BlockTrimmed
    <3>2. CASE r # q
      <4>1. b[r].len = pb[r].len /\ b[r].room = pb[r].room /\ InsideOK(w.heap, r, pb[r]) /\ r \in Pointers
        BY <1>1, <1>6, <2>7, <2>8, <2>11, <2>12, <3>2 DEF Stored
      <4>2. ASSUME Type(r) = "RAM" PROVE DataSize(g, Block(r)) = DataSize(w.heap, Block(r))
        <5>1. r \notin POOL \cup REFS
          BY <4>1, <4>2, TypeIs
        <5>2. Block(r) \in Blocks(w.heap) /\ RAM(Block(r)) = r
          BY <2>12, <5>1, BlockOf
        <5>3. Block(r) # Block(q)
          <6> SUFFICES ASSUME Block(r) = Block(q) PROVE FALSE
            OBVIOUS
          <6>1. r \in Nat /\ q \in Nat
            BY <1>6, <2>6, <2>11, PbIs
          <6> QED BY <3>2, <6>1, Constants DEF Block
        <5> QED BY <2>9, <5>2, <5>3 DEF BlockTrimmed
      <4> QED BY <4>1, <4>2, InsideStays
    <3> QED BY <3>1, <3>2
  <2>15. Stored(u)
    BY <2>7, <2>10, <2>11, <2>13, <2>14 DEF Stored
  <2>16. PICK n, X : n = pb[q].next /\ X = {}
    OBVIOUS
  <2>17. CASE n = NULL
    <3>1. \A r \in DOMAIN pb : b[r].ref = pb[r].ref /\ b[r].next = pb[r].next
      BY <2>7, <2>8, <2>16, <2>17
    <3>2. RefsOK(b, e)
      BY <1>6, <2>7, <3>1, SameRefs
    <3>3. pbuf_realloc(w, p, new) = u
      BY <1>1, <1>5, <1>8, <2>16, <2>17
    <3> QED BY <2>5, <2>7, <2>10, <2>15, <3>2, <3>3 DEF Sound
  <2>18. CASE n # NULL
    <3>1. Relinked(pb, q, b)
      BY <2>7, <2>8 DEF Relinked
    <3>2. RefsOK(b, More(e, n))
      BY <1>6, <2>6, <2>7, <2>16, <2>18, <3>1, LinkCut
    <3>3. pbuf_realloc(w, p, new) = pbuf_free(u, n)
      BY <1>1, <1>5, <1>8, <2>16, <2>18
    <3>4. Sound(u, More(e, n), X)
      BY <2>5, <2>7, <2>10, <2>15, <2>16, <3>2 DEF Sound
    <3>5. n \in Pointers
      BY <1>6, <2>6, <2>16, <2>18, PbIs DEF RefsOK
    <3>6. Sound(pbuf_free(u, n), e, X)
      BY <3>4, <3>5, FreeSound
    <3> QED BY <2>16, <3>3, <3>6
  <2> QED BY <2>17, <2>18
<1> QED BY <1>7, <1>8

-----------------------------------------------------------------------------
(* What the layers hold.                                                   *)

Ext(hd) == [p \in Pointers |-> IF p \in DOMAIN hd THEN hd[p] ELSE 0]

HeldOK(hd) == DOMAIN hd \subseteq Pointers /\ hd \in [DOMAIN hd -> Nat \ {0}]

\* The inductive invariant: the memory is sound with respect to the references
\* that the layers hold.
MemInv == Sound(m, Ext(held), {}) /\ HeldOK(held) /\ ended < Full

\* The references that the layers hold, by pointer.
LEMMA ExtIs ==
    ASSUME NEW hd, HeldOK(hd)
    PROVE  Ext(hd) \in [Pointers -> Nat] /\ \A p \in DOMAIN hd : p \in Pointers /\ Ext(hd)[p] > 0 /\ hd[p] \in Nat \ {0}
<1>1. \A p \in DOMAIN hd : p \in Pointers /\ hd[p] \in Nat \ {0}
  BY DEF HeldOK
<1> QED BY <1>1 DEF Ext

\* A pbuf that is held is in use.
LEMMA HeldInUse ==
    ASSUME NEW w, NEW hd, Sound(w, Ext(hd), {}), HeldOK(hd), NEW p \in DOMAIN hd
    PROVE  p \in DOMAIN w.pb /\ p \in Pointers
BY ExtIs DEF Sound, RefsOK

\* A pbuf that is held for the first time.
LEMMA PutExt ==
    ASSUME NEW hd, HeldOK(hd), NEW p \in Pointers, p \notin DOMAIN hd
    PROVE  HeldOK(Put(hd, p, 1)) /\ Ext(Put(hd, p, 1)) = More(Ext(hd), p)
<1>1. PICK g, e, f : g = Put(hd, p, 1) /\ e = Ext(hd) /\ f = Ext(g)
  OBVIOUS
<1>2. /\ DOMAIN g = DOMAIN hd \cup {p} /\ g = [y \in DOMAIN g |-> g[y]]
      /\ \A q \in DOMAIN g : g[q] = IF q = p THEN 1 ELSE hd[q]
  BY <1>1 DEF Put
<1>3. \A q \in DOMAIN hd : hd[q] \in Nat \ {0} /\ q \in Pointers
  BY DEF HeldOK
<1>4. HeldOK(g)
  <2>1. \A q \in DOMAIN g : g[q] \in Nat \ {0}
    BY <1>2, <1>3
  <2>2. g \in [DOMAIN g -> Nat \ {0}]
    BY <1>2, <2>1
  <2> QED BY <1>2, <1>3, <2>2 DEF HeldOK
<1>5. e \in [Pointers -> Nat] /\ f \in [Pointers -> Nat]
  BY <1>1, <1>4, ExtIs
<1>6. /\ More(e, p) \in [Pointers -> Nat]
      /\ \A q \in Pointers : More(e, p)[q] = IF q = p THEN e[q] + 1 ELSE e[q]
  BY <1>5, MoreIs
<1>7. ASSUME NEW q \in Pointers PROVE f[q] = More(e, p)[q]
  <2>1. e[q] = (IF q \in DOMAIN hd THEN hd[q] ELSE 0) /\ f[q] = IF q \in DOMAIN g THEN g[q] ELSE 0
    BY <1>1 DEF Ext
  <2>2. CASE q = p
    <3>1. e[q] = 0 /\ f[q] = 1
      BY <1>2, <2>1, <2>2
    <3> QED BY <1>6, <2>2, <3>1
  <2>3. CASE q # p
    BY <1>2, <1>6, <2>1, <2>3
  <2> QED BY <2>2, <2>3
<1>8. f = More(e, p)
  BY <1>5, <1>6, <1>7
<1> QED BY <1>1, <1>4, <1>8

\* One reference more ...
LEMMA HoldExt ==
    ASSUME HeldOK(held), NEW p \in Pointers
    PROVE  HeldOK(Hold(p)) /\ Ext(Hold(p)) = More(Ext(held), p)
<1>1. PICK hd, g : hd = held /\ g = Hold(p)
  OBVIOUS
<1>2. HeldOK(hd)
  BY <1>1
<1>3. CASE p \notin DOMAIN hd
  <2>1. g = Put(hd, p, 1)
    BY <1>1, <1>3 DEF Hold
  <2> QED BY <1>1, <1>2, <1>3, <2>1, PutExt
<1>4. CASE p \in DOMAIN hd
  <2>1. g = [hd EXCEPT ![p] = @ + 1]
    BY <1>1, <1>4 DEF Hold
  <2>2. \A q \in DOMAIN hd : hd[q] \in Nat \ {0} /\ q \in Pointers
    BY <1>2 DEF HeldOK
  <2>3. /\ DOMAIN g = DOMAIN hd /\ g = [y \in DOMAIN g |-> g[y]]
        /\ \A q \in DOMAIN hd : g[q] = IF q = p THEN hd[q] + 1 ELSE hd[q]
    BY <1>2, <2>1 DEF HeldOK
  <2>4. HeldOK(g)
    <3>1. \A q \in DOMAIN g : g[q] \in Nat \ {0}
      BY <2>2, <2>3
    <3>2. g \in [DOMAIN g -> Nat \ {0}]
      BY <2>3, <3>1
    <3> QED BY <2>2, <2>3, <3>2 DEF HeldOK
  <2>5. PICK e, f : e = Ext(hd) /\ f = Ext(g)
    OBVIOUS
  <2>6. e \in [Pointers -> Nat] /\ f \in [Pointers -> Nat]
    BY <1>2, <2>4, <2>5, ExtIs
  <2>7. /\ More(e, p) \in [Pointers -> Nat]
        /\ \A q \in Pointers : More(e, p)[q] = IF q = p THEN e[q] + 1 ELSE e[q]
    BY <2>6, MoreIs
  <2>8. ASSUME NEW q \in Pointers PROVE f[q] = More(e, p)[q]
    <3>1. e[q] = (IF q \in DOMAIN hd THEN hd[q] ELSE 0) /\ f[q] = IF q \in DOMAIN g THEN g[q] ELSE 0
      BY <2>5 DEF Ext
    <3>2. CASE q = p
      <4>1. e[q] = hd[q] /\ f[q] = hd[q] + 1
        BY <1>4, <2>3, <3>1, <3>2
      <4> QED BY <2>7, <3>2, <4>1
    <3>3. CASE q # p
      BY <2>3, <2>7, <3>1, <3>3
    <3> QED BY <3>2, <3>3
  <2>9. f = More(e, p)
    BY <2>6, <2>7, <2>8
  <2> QED BY <1>1, <2>4, <2>5, <2>9
<1> QED BY <1>3, <1>4

\* ... and one less.
LEMMA DropExt ==
    ASSUME HeldOK(held), NEW p \in DOMAIN held
    PROVE  HeldOK(Drop(p)) /\ Ext(held) = More(Ext(Drop(p)), p) /\ DOMAIN Drop(p) \subseteq DOMAIN held
<1>1. PICK hd, g : hd = held /\ g = Drop(p)
  OBVIOUS
<1>2. HeldOK(hd) /\ p \in DOMAIN hd
  BY <1>1
<1>3. \A q \in DOMAIN hd : hd[q] \in Nat \ {0} /\ q \in Pointers
  BY <1>2 DEF HeldOK
<1>4. /\ HeldOK(g) /\ DOMAIN g \subseteq DOMAIN hd
      /\ \A q \in DOMAIN hd : q # p => q \in DOMAIN g /\ g[q] = hd[q]
      /\ (IF p \in DOMAIN g THEN g[p] ELSE 0) + 1 = hd[p]
  <2>1. CASE hd[p] > 1
    <3>1. g = [hd EXCEPT ![p] = @ - 1]
      BY <1>1, <2>1 DEF Drop
    <3>2. /\ DOMAIN g = DOMAIN hd /\ g = [y \in DOMAIN g |-> g[y]]
          /\ \A q \in DOMAIN hd : g[q] = IF q = p THEN hd[q] - 1 ELSE hd[q]
      BY <1>2, <3>1 DEF HeldOK
    <3>3. \A q \in DOMAIN g : g[q] \in Nat \ {0}
      BY <1>3, <2>1, <3>2
    <3>4. g \in [DOMAIN g -> Nat \ {0}]
      BY <3>2, <3>3
    <3>5. HeldOK(g)
      BY <1>3, <3>2, <3>4 DEF HeldOK
    <3>6. g[p] + 1 = hd[p] /\ p \in DOMAIN g
      BY <1>2, <1>3, <3>2
    <3> QED BY <3>2, <3>5, <3>6
  <2>2. CASE ~(hd[p] > 1)
    <3>1. g = Cut(hd, p)
      BY <1>1, <2>2 DEF Drop
    <3>2. /\ DOMAIN g = DOMAIN hd \ {p} /\ g = [y \in DOMAIN g |-> g[y]]
          /\ \A q \in DOMAIN g : g[q] = hd[q]
      BY <3>1 DEF Cut
    <3>3. \A q \in DOMAIN g : g[q] \in Nat \ {0}
      BY <1>3, <3>2
    <3>4. g \in [DOMAIN g -> Nat \ {0}]
      BY <3>2, <3>3
    <3>5. HeldOK(g)
      BY <1>3, <3>2, <3>4 DEF HeldOK
    <3>6. hd[p] = 1 /\ p \notin DOMAIN g
      BY <1>2, <1>3, <2>2, <3>2
    <3> QED BY <3>2, <3>5, <3>6
  <2> QED BY <2>1, <2>2
<1>5. PICK e, f : e = Ext(hd) /\ f = Ext(g)
  OBVIOUS
<1>6. e \in [Pointers -> Nat] /\ f \in [Pointers -> Nat] /\ p \in Pointers
  BY <1>2, <1>3, <1>4, <1>5, ExtIs
<1>7. /\ More(f, p) \in [Pointers -> Nat]
      /\ \A q \in Pointers : More(f, p)[q] = IF q = p THEN f[q] + 1 ELSE f[q]
  BY <1>6, MoreIs
<1>8. ASSUME NEW q \in Pointers PROVE e[q] = More(f, p)[q]
  <2>1. e[q] = (IF q \in DOMAIN hd THEN hd[q] ELSE 0) /\ f[q] = IF q \in DOMAIN g THEN g[q] ELSE 0
    BY <1>5 DEF Ext
  <2>2. CASE q = p
    BY <1>2, <1>4, <1>7, <2>1, <2>2
  <2>3. CASE q # p
    BY <1>4, <1>7, <2>1, <2>3
  <2> QED BY <2>2, <2>3
<1>9. e = More(f, p)
  BY <1>6, <1>7, <1>8
<1> QED BY <1>1, <1>4, <1>5, <1>9

-----------------------------------------------------------------------------
(* One lemma for each thing that the layers do.                            *)

\* What is left behind in free elements does not matter to the invariant.
LEMMA Settled ==
    ASSUME NEW w, NEW hd, Sound(w, Ext(hd), {}), HeldOK(hd), Settle(w), held' = hd, ended' < Full
    PROVE  MemInv'
<1>1. PICK u : u = [w EXCEPT !.was = [p \in POOL |-> 0]]
  OBVIOUS
<1>2. m' = u
  BY <1>1 DEF Settle
<1>3. u.pb = w.pb /\ u.pool = w.pool /\ u.refs = w.refs /\ u.heap = w.heap /\ u.was = [p \in POOL |-> 0]
  BY <1>1 DEF Sound, Shape
<1>4. Shape(u)
  <2>1. u.was \in [POOL -> Nat]
    BY <1>3
  <2>2. u = [pool |-> u.pool, refs |-> u.refs, heap |-> u.heap, pb |-> u.pb, was |-> u.was]
    BY <1>1 DEF Sound, Shape
  <2> QED BY <2>1, <2>2 DEF Shape
<1>5. Sound(u, Ext(hd), {})
  BY <1>3, <1>4 DEF Sound, Stored
<1> QED BY <1>2, <1>5 DEF MemInv

\* A step that ends no transfer leaves ended below Full.
LEMMA ZeroIsShort == NULL < Full
BY PbufUseAssumption DEF NULL

\* pbuf_alloc, with whatever result.
LEMMA AllocStep ==
    ASSUME MemInv, NEW offset \in 0 .. HLEN, NEW len \in Nat, NEW type \in Types, Alloc(offset, len, type)
    PROVE  MemInv'
<1>1. PICK got, e, hd : got = pbuf_alloc(m, offset, len, type) /\ e = Ext(held) /\ hd = held'
  OBVIOUS
<1>2. Sound(m, e, {}) /\ HeldOK(held) /\ e \in [Pointers -> Nat]
  BY <1>1, ExtIs DEF MemInv
<1>3. Given(m, e, got)
  BY <1>1, <1>2, AllocSound
<1>4. Settle(got.m) /\ held' = (IF got.p = NULL THEN held ELSE Hold(got.p)) /\ ended' = NULL
  BY <1>1 DEF Alloc
<1>5. Sound(got.m, More(e, got.p), {}) /\ (got.p # NULL => got.p \in Pointers)
  BY <1>3 DEF Given
<1>6. HeldOK(hd) /\ Ext(hd) = More(e, got.p)
  <2>1. CASE got.p = NULL
    BY <1>1, <1>2, <1>4, <2>1 DEF More
  <2>2. CASE got.p # NULL
    BY <1>1, <1>2, <1>4, <1>5, <2>2, HoldExt
  <2> QED BY <2>1, <2>2
<1>7. Sound(got.m, Ext(hd), {})
  BY <1>5, <1>6
<1>8. ended' < Full
  BY <1>4, ZeroIsShort
<1> QED BY <1>1, <1>4, <1>6, <1>7, <1>8, Settled

\* pbuf_free of a pbuf that is held.
LEMMA FreeAct ==
    ASSUME MemInv, NEW p \in DOMAIN held, Free(p)
    PROVE  MemInv'
<1>1. PICK hd, f, X : hd = Drop(p) /\ f = Ext(hd) /\ X = {}
  OBVIOUS
<1>2. HeldOK(hd) /\ Ext(held) = More(f, p)
  BY <1>1, DropExt DEF MemInv
<1>3. Sound(m, More(f, p), X) /\ f \in [Pointers -> Nat] /\ p \in Pointers
  BY <1>1, <1>2, ExtIs DEF MemInv
<1>4. PICK u : u = pbuf_free(m, p)
  OBVIOUS
<1>5. Sound(u, f, X)
  BY <1>3, <1>4, FreeSound
<1>6. Settle(u) /\ held' = hd /\ ended' < Full
  BY <1>1, <1>4, ZeroIsShort DEF Free
<1> QED BY <1>1, <1>2, <1>5, <1>6, Settled

\* pbuf_ref of a pbuf that is held.
LEMMA RefStep ==
    ASSUME MemInv, NEW p \in DOMAIN held, Ref(p)
    PROVE  MemInv'
<1>1. PICK hd, u, e : hd = Hold(p) /\ u = pbuf_ref(m, p) /\ e = Ext(held)
  OBVIOUS
<1>2. Sound(m, e, {}) /\ HeldOK(held) /\ e \in [Pointers -> Nat] /\ p \in Pointers /\ p \in DOMAIN m.pb
  BY <1>1, ExtIs, HeldInUse DEF MemInv
<1>3. HeldOK(hd) /\ Ext(hd) = More(e, p)
  BY <1>1, <1>2, HoldExt
<1>4. Sound(u, Ext(hd), {})
  BY <1>1, <1>2, <1>3, RefSound
<1>5. Settle(u) /\ held' = hd /\ ended' < Full
  BY <1>1, ZeroIsShort DEF Ref
<1> QED BY <1>3, <1>4, <1>5, Settled

\* Nothing leads to the head of a chain.
LEMMA HeadsAre ==
    ASSUME MemInv, NEW p \in Heads
    PROVE  p \in DOMAIN held /\ p \in DOMAIN m.pb /\ LinksTo(m.pb, p) = {}
<1>1. p \in DOMAIN held /\ p \notin Linked
  BY DEF Heads
<1>2. p \in DOMAIN m.pb /\ p \in Pointers
  BY <1>1, HeldInUse DEF MemInv
<1>3. p # NULL
  BY <1>2, PointersAre
<1>4. LinksTo(m.pb, p) = {}
  BY <1>1, <1>3 DEF Linked, InUse, LinksTo
<1> QED BY <1>1, <1>2, <1>4

\* The caller's own chain is straight.
LEMMA OwnIs ==
    ASSUME MemInv, NEW p, Own(p)
    PROVE  p \in DOMAIN held /\ p \in DOMAIN m.pb /\ \E c : Straight(m.pb, p, Chain(m, p), c)
<1>1. p \in DOMAIN held /\ p \in DOMAIN m.pb /\ LinksTo(m.pb, p) = {}
  BY HeadsAre DEF Own
<1>2. \A q \in Range(Chain(m, p)) : Cardinality(LinksTo(m.pb, q)) <= 1
  BY DEF Own, Links, InUse, LinksTo
<1>3. PICK w, e : w = m /\ e = Ext(held)
  OBVIOUS
<1>4. PbOK(w.pb) /\ RefsOK(w.pb, e)
  BY <1>3 DEF MemInv, Sound
<1>5. \E c : Straight(w.pb, p, Chain(w, p), c)
  BY <1>1, <1>2, <1>3, <1>4, OwnChain
<1> QED BY <1>1, <1>3, <1>5

\* pbuf_cat on a chain of the caller's own.
LEMMA CatStep ==
    ASSUME MemInv, NEW h \in DOMAIN held, NEW t \in DOMAIN held \ {h}, Cat(h, t)
    PROVE  MemInv'
<1>1. PICK hd, f, u, w : hd = Drop(t) /\ f = Ext(hd) /\ u = pbuf_cat(m, h, t) /\ w = m
  OBVIOUS
<1>2. HeldOK(hd) /\ Ext(held) = More(f, t)
  BY <1>1, DropExt DEF MemInv
<1>3. Sound(w, More(f, t), {}) /\ f \in [Pointers -> Nat] /\ t \in DOMAIN w.pb
  BY <1>1, <1>2, ExtIs, HeldInUse DEF MemInv
<1>4. PICK c : Straight(w.pb, h, Chain(w, h), c)
  BY <1>1, OwnIs DEF Cat
<1>5. t \notin Range(Chain(w, h))
  BY <1>1 DEF Cat
<1>6. Sound(u, f, {})
  BY <1>1, <1>3, <1>4, <1>5, CatSound
<1>7. Settle(u) /\ held' = hd /\ ended' < Full
  BY <1>1, ZeroIsShort DEF Cat
<1> QED BY <1>1, <1>2, <1>6, <1>7, Settled

\* pbuf_chain on a chain of the caller's own.
LEMMA ChainOnStep ==
    ASSUME MemInv, NEW h \in DOMAIN held, NEW t \in DOMAIN held \ {h}, ChainOn(h, t)
    PROVE  MemInv'
<1>1. PICK hd, e, u, w : hd = held /\ e = Ext(hd) /\ u = pbuf_chain(m, h, t) /\ w = m
  OBVIOUS
<1>2. Sound(w, e, {}) /\ e \in [Pointers -> Nat] /\ t \in DOMAIN w.pb /\ HeldOK(hd)
  BY <1>1, ExtIs, HeldInUse DEF MemInv
<1>3. PICK c : Straight(w.pb, h, Chain(w, h), c)
  BY <1>1, OwnIs DEF ChainOn
<1>4. t \in Range(Chain(w, t))
  BY <1>2, FirstInChain DEF Sound
<1>5. t \notin Range(Chain(w, h))
  BY <1>1, <1>4 DEF ChainOn
<1>6. Sound(u, e, {})
  BY <1>1, <1>2, <1>3, <1>5, ChainSound
<1>7. Settle(u) /\ held' = hd /\ ended' < Full
  BY <1>1, ZeroIsShort DEF ChainOn
<1> QED BY <1>1, <1>2, <1>6, <1>7, Settled

\* pbuf_dechain at the head of a chain.
LEMMA DechainStep ==
    ASSUME MemInv, NEW p \in DOMAIN held, Dechain(p)
    PROVE  MemInv'
<1>1. PICK hd, e, u, w : hd = held /\ e = Ext(hd) /\ u = pbuf_dechain(m, p) /\ w = m
  OBVIOUS
<1>2. Sound(w, e, {}) /\ e \in [Pointers -> Nat] /\ HeldOK(hd)
  BY <1>1, ExtIs DEF MemInv
<1>3. p \in DOMAIN w.pb /\ LinksTo(w.pb, p) = {}
  BY <1>1, HeadsAre DEF Dechain
<1>4. Sound(u, e, {})
  BY <1>1, <1>2, <1>3, DechainSound
<1>5. Settle(u) /\ held' = hd /\ ended' < Full
  BY <1>1, ZeroIsShort DEF Dechain
<1> QED BY <1>1, <1>2, <1>4, <1>5, Settled

\* pbuf_realloc of a chain of the caller's own.
LEMMA ReallocStep ==
    ASSUME MemInv, NEW p \in DOMAIN held, NEW n \in 1 .. MaxLength, Realloc(p, n)
    PROVE  MemInv'
<1>1. PICK hd, e, u, w : hd = held /\ e = Ext(hd) /\ u = pbuf_realloc(m, p, n) /\ w = m
  OBVIOUS
<1>2. Sound(w, e, {}) /\ e \in [Pointers -> Nat] /\ HeldOK(hd) /\ n \in Nat
  BY <1>1, ExtIs, Constants DEF MemInv
<1>3. p \in DOMAIN w.pb
  BY <1>1, OwnIs DEF Realloc
<1>4. PICK c : Straight(w.pb, p, Chain(w, p), c)
  BY <1>1, OwnIs DEF Realloc
<1>5. Sound(u, e, {})
  BY <1>1, <1>2, <1>3, <1>4, ReallocSound
<1>6. Settle(u) /\ held' = hd /\ ended' < Full
  BY <1>1, ZeroIsShort DEF Realloc
<1> QED BY <1>1, <1>2, <1>5, <1>6, Settled

\* pbuf_header at the head of a chain.
LEMMA HeaderStep ==
    ASSUME MemInv, NEW p \in DOMAIN held, NEW inc \in {-HLEN, HLEN}, Header(p, inc)
    PROVE  MemInv'
<1>1. PICK hd, e, u, w : hd = held /\ e = Ext(hd) /\ u = pbuf_header(m, p, inc) /\ w = m
  OBVIOUS
<1>2. Sound(w, e, {}) /\ e \in [Pointers -> Nat] /\ HeldOK(hd) /\ inc \in Int
  BY <1>1, ExtIs, Constants DEF MemInv
<1>3. p \in DOMAIN w.pb /\ LinksTo(w.pb, p) = {}
  BY <1>1, HeadsAre DEF Header
<1>4. Sound(u, e, {})
  BY <1>1, <1>2, <1>3, HeaderSound
<1>5. Settle(u) /\ held' = hd /\ ended' < Full
  BY <1>1, ZeroIsShort DEF Header
<1> QED BY <1>1, <1>2, <1>4, <1>5, Settled

\* pbuf_coalesce at the head of a chain.
LEMMA CoalesceStep ==
    ASSUME MemInv, NEW p \in DOMAIN held, Coalesce(p, HLEN)
    PROVE  MemInv'
<1>1. PICK got, hd, f, w : got = pbuf_coalesce(m, p, HLEN) /\ hd = Drop(p) /\ f = Ext(hd) /\ w = m
  OBVIOUS
<1>2. HeldOK(hd) /\ Ext(held) = More(f, p) /\ DOMAIN hd \subseteq DOMAIN held
  BY <1>1, DropExt DEF MemInv
<1>3. Sound(w, More(f, p), {}) /\ f \in [Pointers -> Nat] /\ p \in DOMAIN w.pb /\ DOMAIN held \subseteq DOMAIN w.pb
  BY <1>1, <1>2, ExtIs, HeldInUse DEF MemInv
<1>4. HLEN \in 0 .. HLEN
  BY Constants
<1>5. Coalesced(w, f, p, got)
  BY <1>1, <1>3, <1>4, CoalesceSound
<1>6. Settle(got.m) /\ held' = (IF got.p = p THEN held ELSE Put(Drop(p), got.p, 1)) /\ ended' < Full
  BY <1>1, ZeroIsShort DEF Coalesce
<1>7. CASE got.p = p /\ got.m = w
  <2>1. PICK g : g = held
    OBVIOUS
  <2>2. held' = g /\ HeldOK(g) /\ Sound(w, Ext(g), {}) /\ Settle(w)
    BY <1>1, <1>6, <1>7, <2>1 DEF MemInv
  <2> QED BY <1>6, <2>2, Settled
<1>8. CASE got.p \in Pointers \ DOMAIN w.pb /\ Sound(got.m, More(f, got.p), {})
  <2>1. got.p # p /\ got.p \notin DOMAIN hd
    BY <1>2, <1>3, <1>8
  <2>2. PICK g, q : g = Put(hd, got.p, 1) /\ q = got.p
    OBVIOUS
  <2>3. HeldOK(g) /\ Ext(g) = More(f, q)
    BY <1>1, <1>2, <1>8, <2>1, <2>2, PutExt
  <2>4. held' = g /\ Sound(got.m, Ext(g), {})
    BY <1>1, <1>6, <1>8, <2>1, <2>2, <2>3
  <2> QED BY <1>6, <2>3, <2>4, Settled
<1> QED BY <1>5, <1>7, <1>8 DEF Coalesced

\* The length that is read after the packet was freed is the packet's.
LEMMA tftp_recvStep ==
    ASSUME MemInv, NEW p \in DOMAIN held, tftp_recv(p)
    PROVE  MemInv'
<1>1. PICK hd, e, f, w, ack, X : /\ hd = Drop(p) /\ e = Ext(held) /\ f = Ext(hd) /\ w = m
                                 /\ ack = pbuf_alloc(m, HLEN, 1, "RAM") /\ X = {}
  OBVIOUS
<1>2. PICK acked, freed : acked = pbuf_free(ack.m, ack.p) /\ freed = pbuf_free(acked, p)
  OBVIOUS
<1>3. PICK read : read = IF p \in DOMAIN freed.pb THEN freed.pb[p].tot_len ELSE freed.was[p]
  OBVIOUS
<1>4. /\ p \in POOL /\ ack.p # NULL /\ Settle(freed) /\ held' = hd
      /\ ended' = IF read < Full THEN w.pb[p].tot_len ELSE NULL
  <2>1. p \in POOL /\ ack.p # NULL /\ held' = hd
    BY <1>1 DEF tftp_recv
  <2>2. Settle(freed)
    BY <1>1, <1>2, <2>1 DEF tftp_recv
  <2>3. ended' = IF read < Full THEN w.pb[p].tot_len ELSE NULL
    BY <1>1, <1>2, <1>3, <2>1 DEF tftp_recv
  <2> QED BY <2>1, <2>2, <2>3
<1>5. HeldOK(hd) /\ e = More(f, p)
  BY <1>1, DropExt DEF MemInv
<1>6. Sound(w, e, X) /\ e \in [Pointers -> Nat] /\ f \in [Pointers -> Nat] /\ p \in Pointers /\ p \in DOMAIN w.pb /\ e[p] > 0
  BY <1>1, <1>5, ExtIs, HeldInUse DEF MemInv
<1>7. Given(w, e, ack)
  <2>1. PICK o, l, type : o = HLEN /\ l = 1 /\ type = "RAM"
    OBVIOUS
  <2>2. o \in 0 .. HLEN /\ l \in Nat /\ type \in Types /\ Sound(w, e, {})
    BY <1>1, <1>6, <2>1, Constants DEF Types
  <2>3. Given(w, e, pbuf_alloc(w, o, l, type))
    BY <1>6, <2>2, AllocSound
  <2> QED BY <1>1, <2>1, <2>3
<1>8. Sound(ack.m, More(e, ack.p), X) /\ ack.p \in Pointers /\ p \in DOMAIN ack.m.pb /\ ack.m.pb[p] = w.pb[p]
  BY <1>1, <1>4, <1>6, <1>7 DEF Given
<1>9. Sound(acked, e, X) /\ Kept(ack.m, acked)
  BY <1>2, <1>6, <1>8, FreeSound
<1>10. p \in DOMAIN acked.pb
  BY <1>6, <1>9 DEF Sound, RefsOK
<1>11. acked.pb[p].tot_len = w.pb[p].tot_len
  BY <1>8, <1>9, <1>10 DEF Kept
<1>12. Sound(freed, f, X) /\ Kept(acked, freed)
  BY <1>2, <1>5, <1>6, <1>9, FreeSound
<1>13. read = w.pb[p].tot_len
  BY <1>3, <1>4, <1>10, <1>11, <1>12 DEF Kept
<1>14. ended' < Full
  <2>1. CASE read < Full
    BY <1>4, <1>13, <2>1
  <2>2. CASE ~(read < Full)
    BY <1>4, <2>2, ZeroIsShort
  <2> QED BY <2>1, <2>2
<1>15. Sound(freed, Ext(hd), {})
  BY <1>1, <1>12
<1> QED BY <1>4, <1>5, <1>14, <1>15, Settled

-----------------------------------------------------------------------------
(* The theorems.                                                           *)

\* The free list of a pool at the start, counted down from n + k.
LEMMA FirstList ==
    ASSUME NEW n \in Nat, NEW k \in Nat, NEW s, s = [i \in 1 .. n |-> k + n + 1 - i]
    PROVE  FreeList(s, k + 1 .. k + n)
<1>1. DOMAIN s = 1 .. n /\ \A i \in 1 .. n : s[i] = k + n + 1 - i /\ s[i] \in Nat
  OBVIOUS
<1>2. s \in Seq(Nat)
  <2>1. s \in [1 .. n -> Nat]
    BY <1>1
  <2> QED BY <2>1
<1>3. IsInjective(s)
  <2> SUFFICES ASSUME NEW i \in 1 .. n, NEW j \in 1 .. n, s[i] = s[j] PROVE i = j
    BY <1>1 DEF IsInjective
  <2>1. k + n + 1 - i = k + n + 1 - j
    BY <1>1
  <2> QED BY <2>1
<1>4. Range(s) = k + 1 .. k + n
  <2>1. \A i \in 1 .. n : s[i] \in k + 1 .. k + n
    BY <1>1
  <2>2. ASSUME NEW x \in k + 1 .. k + n PROVE x \in Range(s)
    <3>1. PICK i : i = k + n + 1 - x
      OBVIOUS
    <3>2. i \in 1 .. n /\ k + n + 1 - i = x
      BY <3>1
    <3>3. i \in DOMAIN s /\ s[i] = x
      BY <1>1, <3>2
    <3> QED BY <3>3 DEF Range
  <2> QED BY <1>1, <2>1, <2>2 DEF Range
<1> QED BY <1>2, <1>3, <1>4 DEF FreeList

\* At boot everything is free.
LEMMA InitMemInv ==
    ASSUME Init
    PROVE  MemInv
<1>1. PICK w, pool, refs, hd : /\ w = PbufInit /\ pool = [i \in 1 .. NPool |-> NPool + 1 - i] /\ hd = held
                               /\ refs = [i \in 1 .. NRef |-> NPool + NRef + 1 - i]
  OBVIOUS
<1>2. m = w /\ hd = <<>> /\ ended = NULL
  BY <1>1 DEF Init
<1>3. w = [pool |-> pool, refs |-> refs, heap |-> mem_init, pb |-> <<>>, was |-> [p \in POOL |-> 0]]
  BY <1>1 DEF PbufInit
<1>4. w.pool = pool /\ w.refs = refs /\ w.heap = mem_init /\ w.pb = <<>> /\ w.was = [p \in POOL |-> 0]
  BY <1>3
<1>5. Shape(w)
  BY <1>3, <1>4 DEF Shape
<1>6. DOMAIN w.pb = {} /\ DOMAIN hd = {}
  BY <1>2, <1>4
<1>7. PbOK(w.pb)
  BY <1>4, <1>6 DEF PbOK
<1>8. FreeList(pool, POOL)
  <2>1. PICK k : k = 0
    OBVIOUS
  <2>2. pool = [i \in 1 .. NPool |-> k + NPool + 1 - i] /\ k \in Nat /\ POOL = k + 1 .. k + NPool
    BY <1>1, <2>1, Constants DEF POOL
  <2> QED BY <2>2, FirstList, Constants
<1>9. FreeList(refs, REFS)
  BY <1>1, FirstList, Constants DEF REFS
<1>10. StoreOK(w.pool, w.refs, w.heap, {})
  <2>1. HeapOK(mem_init) /\ Blocks(mem_init) = {}
    BY mem_initOK
  <2>2. POOL \ {} = POOL /\ REFS \ {} = REFS /\ {RAM(b) : b \in Blocks(mem_init)} = {} \ (POOL \cup REFS)
    BY <2>1
  <2> QED BY <1>4, <1>8, <1>9, <2>1, <2>2 DEF StoreOK
<1>11. Stored(w)
  BY <1>6, <1>10 DEF Stored
<1>12. HeldOK(hd)
  BY <1>2, <1>6 DEF HeldOK
<1>13. PICK e : e = Ext(hd)
  OBVIOUS
<1>14. e \in [Pointers -> Nat] /\ \A p \in Pointers : e[p] = 0
  BY <1>6, <1>13 DEF Ext
<1>15. RefsOK(w.pb, e)
  BY <1>6, <1>14 DEF RefsOK
<1>16. TotOK(w.pb, {})
  BY <1>6 DEF TotOK
<1>17. Sound(w, e, {})
  BY <1>5, <1>7, <1>11, <1>15, <1>16 DEF Sound
<1> QED BY <1>1, <1>2, <1>12, <1>13, <1>17, ZeroIsShort DEF MemInv

\* Every step keeps the memory sound.
LEMMA NextMemInv ==
    ASSUME MemInv, [Next]_vars
    PROVE  MemInv'
<1>1. CASE \E r \in Requests : Alloc(r[1], r[2], r[3])
  <2>1. PICK r \in Requests : Alloc(r[1], r[2], r[3])
    BY <1>1
  <2>2. r[1] \in 0 .. HLEN /\ r[2] \in Nat /\ r[3] \in Types
    BY PbufUseAssumption
  <2> QED BY <2>1, <2>2, AllocStep
<1>2. ASSUME NEW p \in DOMAIN held,
             \/ Free(p) \/ Ref(p) \/ Dechain(p) \/ tftp_recv(p)
             \/ \E n \in 1 .. MaxLength : Realloc(p, n)
             \/ \E inc \in {-HLEN, HLEN} : Header(p, inc)
             \/ Coalesce(p, HLEN)
             \/ \E t \in DOMAIN held \ {p} : Cat(p, t) \/ ChainOn(p, t)
      PROVE  MemInv'
  <2>1. CASE Free(p)
    BY <2>1, FreeAct
  <2>2. CASE Ref(p)
    BY <2>2, RefStep
  <2>3. CASE Dechain(p)
    BY <2>3, DechainStep
  <2>4. CASE tftp_recv(p)
    BY <2>4, tftp_recvStep
  <2>5. CASE \E n \in 1 .. MaxLength : Realloc(p, n)
    BY <2>5, ReallocStep
  <2>6. CASE \E inc \in {-HLEN, HLEN} : Header(p, inc)
    BY <2>6, HeaderStep
  <2>7. CASE Coalesce(p, HLEN)
    BY <2>7, CoalesceStep
  <2>8. CASE \E t \in DOMAIN held \ {p} : Cat(p, t) \/ ChainOn(p, t)
    BY <2>8, CatStep, ChainOnStep
  <2> QED BY <1>2, <2>1, <2>2, <2>3, <2>4, <2>5, <2>6, <2>7, <2>8
<1>3. CASE UNCHANGED vars
  BY <1>3 DEF MemInv, vars
<1> QED BY <1>1, <1>2, <1>3 DEF Next

\* Sharing, joining, cutting and freeing pbufs in any order keeps the memory
\* sound (pbuf.c, mem.c).
THEOREM MemoryInv == Spec => []MemInv
<1>1. Init => MemInv
  BY InitMemInv
<1>2. MemInv /\ [Next]_vars => MemInv'
  BY NextMemInv
<1> QED BY <1>1, <1>2, PTL DEF Spec

\* The reference counter of a pbuf is the number of pointers that refer to it,
\* and only a pbuf in use is referred to (pbuf.c:602).
THEOREM RefsAreExact == Spec => []RefsExact
<1>1. ASSUME MemInv PROVE RefsExact
  <2>1. PICK e, pb : e = Ext(held) /\ pb = m.pb
    OBVIOUS
  <2>2. RefsOK(pb, e) /\ PbOK(pb) /\ HeldOK(held)
    BY <1>1, <2>1 DEF MemInv, Sound
  <2>3. DOMAIN held \subseteq InUse
    BY <1>1, HeldInUse DEF MemInv, InUse
  <2>4. Linked \subseteq InUse
    BY <2>1, <2>2 DEF Linked, InUse, RefsOK
  <2>5. ASSUME NEW p \in InUse
        PROVE  /\ m.pb[p].ref = Links(p) + (IF p \in DOMAIN held THEN held[p] ELSE 0)
               /\ m.pb[p].ref > 0
    <3>1. p \in DOMAIN pb /\ p \in Pointers
      BY <2>1, <2>2, PbIs DEF InUse
    <3>2. pb[p].ref = Cardinality(LinksTo(pb, p)) + e[p] /\ pb[p].ref > 0
      BY <2>2, <3>1 DEF RefsOK
    <3>3. e[p] = IF p \in DOMAIN held THEN held[p] ELSE 0
      BY <2>1, <3>1 DEF Ext
    <3>4. LinksTo(pb, p) = {q \in InUse : m.pb[q].next = p}
      BY <2>1 DEF LinksTo, InUse
    <3> QED BY <2>1, <3>2, <3>3, <3>4 DEF Links
  <2> QED BY <2>3, <2>4, <2>5 DEF RefsExact
<1> QED BY <1>1, MemoryInv, PTL

\* tot_len is the sum of the lengths to the end of the chain (pbuf.c:811).
THEOREM TotLenIsExact == Spec => []TotLenExact
<1>1. ASSUME MemInv PROVE TotLenExact
  BY <1>1 DEF MemInv, Sound, TotOK, TotLenExact, InUse
<1> QED BY <1>1, MemoryInv, PTL

\* Each pool element and each heap block is in use or free, and none is lost
\* when an allocation fails half way (pbuf_alloc, pbuf_free).
THEOREM NothingIsLost == Spec => []NothingLost
<1>1. ASSUME MemInv PROVE NothingLost
  <2>1. StoreOK(m.pool, m.refs, m.heap, DOMAIN m.pb)
    BY <1>1 DEF MemInv, Sound, Stored
  <2> QED BY <2>1 DEF StoreOK, FreeList, NothingLost, InUse
<1> QED BY <1>1, MemoryInv, PTL

\* The payload of a pbuf lies in its memory (pbuf_alloc, pbuf_header,
\* pbuf_realloc, mem_trim).
THEOREM PayloadIsInside == Spec => []PayloadInside
<1>1. ASSUME MemInv PROVE PayloadInside
  <2> SUFFICES ASSUME NEW p \in InUse
               PROVE  /\ m.pb[p].len >= 0 /\ m.pb[p].room >= 0
                      /\ Type(p) = "POOL" => m.pb[p].room + m.pb[p].len <= BUFSIZE
                      /\ Type(p) = "RAM" =>
                            SIZEOF_STRUCT_PBUF + m.pb[p].room + m.pb[p].len <= DataSize(m.heap, Block(p))
    BY DEF PayloadInside
  <2>1. p \in DOMAIN m.pb /\ PbOK(m.pb) /\ InsideOK(m.heap, p, m.pb[p])
    BY <1>1 DEF MemInv, Sound, Stored, InUse
  <2>2. m.pb[p].len \in Nat /\ m.pb[p].room \in Nat
    BY <2>1, PbIs
  <2> QED BY <2>1, <2>2 DEF InsideOK
<1> QED BY <1>1, MemoryInv, PTL

\* The heap's list is in order, its holes are joined and lfree is the lowest,
\* and mem_malloc fails only when no hole is large enough (mem.c).
THEOREM HeapIsSound == Spec => []HeapSound
<1>1. ASSUME MemInv PROVE HeapSound
  <2>1. PICK h : h = m.heap
    OBVIOUS
  <2>2. HeapOK(h)
    BY <1>1, <2>1 DEF MemInv, Sound, Stored, StoreOK
  <2>3. ListSound(h) /\ HolesSound(h) /\ NoRoomMissed(h)
    BY <2>2, HeapOKSound
  <2> QED BY <2>1, <2>3 DEF HeapSound
<1> QED BY <1>1, MemoryInv, PTL

\* The tot_len that tftp_recv reads after pbuf_free is that of the packet, so
\* only a short packet ends a transfer (tftp.c:145).
THEOREM ShortPacketEnds == Spec => []EndedByShortPacket
<1>1. ASSUME MemInv PROVE EndedByShortPacket
  BY <1>1 DEF MemInv, EndedByShortPacket
<1> QED BY <1>1, MemoryInv, PTL
=============================================================================
