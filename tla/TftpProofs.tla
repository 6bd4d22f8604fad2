---------------------------- MODULE TftpProofs -----------------------------
(***************************************************************************)
(* Theorems about Tftp for every number of pcbs but one, every block and   *)
(* file size, any number of transfers, losses and repetitions, for a user  *)
(* who waits for a transfer to end before he starts the next.              *)
(***************************************************************************)
EXTENDS Tftp, TLAPS, FiniteSetTheorems, WellFoundedInduction

-----------------------------------------------------------------------------
(* The pool.  A list is given by the function s on 1..n that lists its      *)
(* elements in the order of their links.                                    *)

Item(s, n, k) == IF k <= n THEN s[k] ELSE NULL

List(s, n, head, next) ==
    /\ n \in 0 .. NPcb
    /\ s \in [1 .. n -> Elements]
    /\ \A j, k \in 1 .. n : s[j] = s[k] => j = k
    /\ head = Item(s, n, 1)
    /\ \A k \in 1 .. n : next[s[k]] = Item(s, n, k + 1)

\* Without its first element, with a new first element, without its i-th.
Rest(s, n)    == [k \in 1 .. n - 1 |-> s[k + 1]]
Push(s, n, p) == [k \in 1 .. n + 1 |-> IF k = 1 THEN p ELSE s[k - 1]]
Cut(s, n, i)  == [k \in 1 .. n - 1 |-> IF k < i THEN s[k] ELSE s[k + 1]]

Pool == [memp_tab : Pointers, word : [Elements -> Pointers],
         udp_pcbs : Pointers, next : [Elements -> Pointers],
         local_port : [Elements -> Nat], udp_port : Nat]

\* f is the free list, l the list of bound pcbs: they are disjoint, nothing is
\* lost, and a bound pcb has IP_ADDR_ANY where a free one has its link.
PoolOK(v, f, n, l, m) ==
    /\ v \in Pool
    /\ n + m = NPcb
    /\ List(f, n, v.memp_tab, v.word)
    /\ List(l, m, v.udp_pcbs, v.next)
    /\ \A j \in 1 .. n, k \in 1 .. m : f[j] # l[k]
    /\ \A k \in 1 .. m : v.word[l[k]] = NULL

\* The bound pcbs are those that the holders H hold, each with its holder's port.
HolderOK(v, l, m, H, held) ==
    /\ \A h \in H : v.local_port[held[h]] = h /\ \E k \in 1 .. m : l[k] = held[h]
    /\ \A k \in 1 .. m : /\ v.local_port[l[k]] \in H
                         /\ held[v.local_port[l[k]]] = l[k]

Owned(v, H, held) ==
    \E n, m \in 0 .. NPcb : \E f \in [1 .. n -> Elements], l \in [1 .. m -> Elements] :
       PoolOK(v, f, n, l, m) /\ HolderOK(v, l, m, H, held)

\* A nonempty set of numbers has a least element.
LEMMA Least ==
    ASSUME NEW T \in SUBSET Nat, T # {}
    PROVE  \E x \in T : \A y \in T : x <= y
<1> DEFINE R == OpToRel(<, Nat)
<1>1. IsWellFoundedOn(R, Nat)
  BY NatLessThanWellFounded
<1>2. PICK x \in T : \A y \in T : ~ (<<y, x>> \in R)
  <2> HIDE DEF R
  <2> QED BY <1>1, WFMin
<1>3. \A y \in T : ~(y < x)
  BY <1>2 DEF OpToRel
<1> QED BY <1>3

\* The walk along the links, as an equation.
Walks(head, next, w) ==
    w = [k \in 0 .. NPcb |->
           IF k = 0 THEN head ELSE IF w[k - 1] = NULL THEN NULL ELSE next[w[k - 1]]]

\* Reach is what such a walk meets.
LEMMA ReachWalk ==
    ASSUME NEW head, NEW next
    PROVE  Reach(head, next) = {(CHOOSE w : Walks(head, next, w))[k] : k \in 0 .. NPcb} \ {NULL}
BY Zenon DEF Reach, Walks

\* The walk along a list meets its elements in order, then stays at NULL.
LEMMA WalkIs ==
    ASSUME NEW s, NEW n, NEW head, NEW next, List(s, n, head, next),
           NEW w, Walks(head, next, w)
    PROVE  w = [k \in 0 .. NPcb |-> Item(s, n, k + 1)]
<1> USE NPcbAssumption
<1>1. /\ w[0] = head
      /\ \A k \in 1 .. NPcb : w[k] = IF w[k - 1] = NULL THEN NULL ELSE next[w[k - 1]]
  <2> DEFINE W == [k \in 0 .. NPcb |->
           IF k = 0 THEN head ELSE IF w[k - 1] = NULL THEN NULL ELSE next[w[k - 1]]]
  <2>1. w = W
    BY DEF Walks
  <2>2. W[0] = head
    OBVIOUS
  <2>3. \A k \in 1 .. NPcb : W[k] = IF w[k - 1] = NULL THEN NULL ELSE next[w[k - 1]]
    OBVIOUS
  <2> HIDE DEF W
  <2> QED BY <2>1, <2>2, <2>3
<1> DEFINE T == {k \in 0 .. NPcb : w[k] # Item(s, n, k + 1)}
<1>2. T = {}
  <2> SUFFICES ASSUME T # {} PROVE FALSE
    OBVIOUS
  <2>0. T \in SUBSET Nat
    OBVIOUS
  <2>1. PICK k \in T : \A j \in T : k <= j
    BY <2>0, Least
  <2>2. k \in 0 .. NPcb /\ w[k] # Item(s, n, k + 1)
    OBVIOUS
  <2>3. k # 0
    BY <1>1, <2>2 DEF List
  <2>4. k - 1 \in 0 .. NPcb /\ k \in 1 .. NPcb /\ k - 1 \notin T
    BY <2>1, <2>2, <2>3
  <2>5. w[k - 1] = Item(s, n, k)
    <3>1. w[k - 1] = Item(s, n, (k - 1) + 1)
      BY <2>4
    <3>2. (k - 1) + 1 = k
      BY <2>2
    <3> QED BY <3>1, <3>2
  <2> HIDE DEF T
  <2>6. CASE k <= n
    <3>1. k \in 1 .. n
      BY <2>4, <2>6 DEF List
    <3>2. w[k - 1] = s[k] /\ s[k] # NULL
      BY <2>5, <2>6, <3>1 DEF List, Item, Elements, NULL
    <3>3. w[k] = next[s[k]]
      BY <1>1, <2>4, <3>2
    <3> QED BY <2>2, <3>1, <3>3 DEF List
  <2>7. CASE ~(k <= n)
    <3>1. ~(k + 1 <= n)
      BY <2>4, <2>7 DEF List
    <3>2. w[k] = NULL
      BY <1>1, <2>4, <2>5, <2>7 DEF Item
    <3> QED BY <2>2, <3>1, <3>2 DEF Item
  <2> QED BY <2>6, <2>7
<1>3. \A k \in 0 .. NPcb : w[k] = Item(s, n, k + 1)
  BY <1>2
<1>4. w = [k \in 0 .. NPcb |-> w[k]]
  BY DEF Walks
<1> QED BY <1>3, <1>4

\* Such a walk exists.
LEMMA WalkExists ==
    ASSUME NEW s, NEW n, NEW head, NEW next, List(s, n, head, next)
    PROVE  Walks(head, next, [k \in 0 .. NPcb |-> Item(s, n, k + 1)])
<1> USE NPcbAssumption
<1> DEFINE w == [k \in 0 .. NPcb |-> Item(s, n, k + 1)]
<1>1. ASSUME NEW k \in 0 .. NPcb
      PROVE  w[k] = IF k = 0 THEN head ELSE IF w[k - 1] = NULL THEN NULL ELSE next[w[k - 1]]
  <2>1. CASE k = 0
    BY <2>1 DEF List
  <2>2. CASE k # 0
    <3>1. k - 1 \in 0 .. NPcb /\ (k - 1) + 1 = k /\ k \in 1 .. NPcb
      BY <2>2
    <3>2. w[k - 1] = Item(s, n, k)
      BY <3>1
    <3>3. CASE k <= n
      <4>1. k \in 1 .. n
        BY <3>1, <3>3 DEF List
      <4>2. w[k - 1] = s[k] /\ s[k] # NULL
        BY <3>2, <3>3, <4>1 DEF List, Item, Elements, NULL
      <4>3. w[k] = Item(s, n, k + 1)
        OBVIOUS
      <4> HIDE DEF w
      <4> QED BY <2>2, <4>1, <4>2, <4>3 DEF List
    <3>4. CASE ~(k <= n)
      <4>1. ~(k + 1 <= n)
        BY <3>1, <3>4 DEF List
      <4>2. w[k] = NULL /\ w[k - 1] = NULL
        BY <3>2, <3>4, <4>1 DEF Item
      <4> QED BY <2>2, <4>2
    <3> QED BY <3>3, <3>4
  <2> QED BY <2>1, <2>2
<1>2. w = [k \in 0 .. NPcb |-> w[k]]
  OBVIOUS
<1> HIDE DEF w
<1>3. Walks(head, next, w)
  BY <1>1, <1>2 DEF Walks
<1> QED BY <1>3 DEF w

\* The elements reached along a list are its elements.
LEMMA ReachIs ==
    ASSUME NEW s, NEW n, NEW head, NEW next, List(s, n, head, next)
    PROVE  Reach(head, next) = {s[k] : k \in 1 .. n}
<1> USE NPcbAssumption
<1> DEFINE i == [k \in 0 .. NPcb |-> Item(s, n, k + 1)]
           c == CHOOSE w : Walks(head, next, w)
<1>1. c = i
  <2>1. Walks(head, next, i)
    BY WalkExists
  <2> HIDE DEF i
  <2>2. Walks(head, next, c)
    BY <2>1
  <2> HIDE DEF c
  <2> QED BY <2>2, WalkIs DEF i
<1>2. Reach(head, next) = {i[k] : k \in 0 .. NPcb} \ {NULL}
  BY <1>1, ReachWalk
<1>3. ASSUME NEW k \in 0 .. NPcb, i[k] # NULL PROVE \E j \in 1 .. n : i[k] = s[j]
  <2>1. k + 1 <= n /\ i[k] = s[k + 1]
    BY <1>3 DEF Item
  <2> HIDE DEF i
  <2> QED BY <2>1 DEF List
<1>4. ASSUME NEW j \in 1 .. n PROVE s[j] # NULL /\ \E k \in 0 .. NPcb : i[k] = s[j]
  <2>1. s[j] # NULL
    BY DEF List, Elements, NULL
  <2>2. j - 1 \in 0 .. NPcb /\ (j - 1) + 1 = j /\ j <= n
    BY DEF List
  <2>3. i[j - 1] = s[j]
    BY <2>2 DEF Item
  <2> HIDE DEF i
  <2> QED BY <2>1, <2>2, <2>3
<1> HIDE DEF i
<1> QED BY <1>2, <1>3, <1>4

\* Taking the first element off (memp_malloc), when its own link is overwritten.
LEMMA ListRest ==
    ASSUME NEW s, NEW n, NEW head, NEW next, NEW next2, List(s, n, head, next), n > 0,
           \A k \in 2 .. n : next2[s[k]] = next[s[k]]
    PROVE  List(Rest(s, n), n - 1, next[head], next2)
<1> USE NPcbAssumption
<1>1. n - 1 \in 0 .. NPcb /\ n \in Nat /\ 1 \in 1 .. n
  BY DEF List
<1>2. \A k \in 1 .. n - 1 : k + 1 \in 1 .. n /\ k + 1 \in 2 .. n /\ Rest(s, n)[k] = s[k + 1]
  BY <1>1 DEF Rest
<1>3. Rest(s, n) \in [1 .. n - 1 -> Elements]
  BY <1>2 DEF Rest, List
<1>4. ASSUME NEW j \in 1 .. n - 1, NEW k \in 1 .. n - 1, Rest(s, n)[j] = Rest(s, n)[k]
      PROVE  j = k
  <2>1. j + 1 = k + 1
    BY <1>2, <1>4 DEF List
  <2> QED BY <2>1
<1>5. \A k \in 1 .. n : Item(Rest(s, n), n - 1, k) = Item(s, n, k + 1)
  <2> TAKE k \in 1 .. n
  <2>1. CASE k <= n - 1
    <3>1. k \in 1 .. n - 1 /\ k + 1 <= n
      BY <1>1, <2>1
    <3> QED BY <1>2, <2>1, <3>1 DEF Item
  <2>2. CASE ~(k <= n - 1)
    <3>1. ~(k + 1 <= n)
      BY <1>1, <2>2
    <3> QED BY <2>2, <3>1 DEF Item
  <2> QED BY <2>1, <2>2
<1>6. next[head] = Item(Rest(s, n), n - 1, 1)
  <2>1. head = s[1] /\ next[s[1]] = Item(s, n, 1 + 1)
    BY <1>1 DEF List, Item
  <2> QED BY <1>1, <1>5, <2>1
<1>7. ASSUME NEW k \in 1 .. n - 1
      PROVE  next2[Rest(s, n)[k]] = Item(Rest(s, n), n - 1, k + 1)
  <2>1. next2[s[k + 1]] = Item(s, n, (k + 1) + 1)
    BY <1>2 DEF List
  <2> QED BY <1>2, <1>5, <2>1
<1> QED BY <1>1, <1>3, <1>4, <1>6, <1>7 DEF List

\* Putting an element in front (memp_free, udp_bind).
LEMMA ListPush ==
    ASSUME NEW s, NEW n, NEW head, NEW next, NEW next2, NEW p \in Elements,
           List(s, n, head, next), n < NPcb,
           \A k \in 1 .. n : s[k] # p /\ next2[s[k]] = next[s[k]],
           next2[p] = head
    PROVE  List(Push(s, n, p), n + 1, p, next2)
<1> USE NPcbAssumption
<1>1. n + 1 \in 0 .. NPcb /\ n \in Nat /\ 1 \in 1 .. n + 1
  BY DEF List
<1>2. /\ Push(s, n, p)[1] = p
      /\ \A k \in 1 .. n : k + 1 \in 1 .. n + 1 /\ Push(s, n, p)[k + 1] = s[k]
  <2>1. \A k \in 1 .. n : k + 1 \in 1 .. n + 1 /\ k + 1 # 1 /\ (k + 1) - 1 = k
    BY <1>1
  <2> QED BY <1>1, <2>1 DEF Push
<1>3. \A k \in 1 .. n + 1 : k = 1 \/ (k - 1 \in 1 .. n /\ Push(s, n, p)[k] = s[k - 1])
  BY <1>1 DEF Push
<1>4. Push(s, n, p) \in [1 .. n + 1 -> Elements]
  <2>1. \A k \in 1 .. n + 1 : Push(s, n, p)[k] \in Elements
    BY <1>2, <1>3 DEF List
  <2> QED BY <2>1 DEF Push
<1>5. ASSUME NEW j \in 1 .. n + 1, NEW k \in 1 .. n + 1, Push(s, n, p)[j] = Push(s, n, p)[k]
      PROVE  j = k
  <2>1. CASE j # 1 /\ k # 1
    <3>1. j - 1 = k - 1
      BY <1>3, <1>5, <2>1 DEF List
    <3> QED BY <3>1
  <2>2. CASE j = 1 \/ k = 1
    BY <1>2, <1>3, <1>5, <2>2
  <2> QED BY <2>1, <2>2
<1>6. \A k \in 1 .. n + 1 : Item(Push(s, n, p), n + 1, k + 1) = Item(s, n, k)
  <2> TAKE k \in 1 .. n + 1
  <2>1. CASE k <= n
    <3>1. k \in 1 .. n /\ k + 1 <= n + 1
      BY <1>1, <2>1
    <3> QED BY <1>2, <2>1, <3>1 DEF Item
  <2>2. CASE ~(k <= n)
    <3>1. ~(k + 1 <= n + 1)
      BY <1>1, <2>2
    <3> QED BY <2>2, <3>1 DEF Item
  <2> QED BY <2>1, <2>2
<1>7. p = Item(Push(s, n, p), n + 1, 1)
  BY <1>1, <1>2 DEF Item
<1>8. ASSUME NEW k \in 1 .. n + 1
      PROVE  next2[Push(s, n, p)[k]] = Item(Push(s, n, p), n + 1, k + 1)
  <2>1. CASE k = 1
    BY <1>2, <1>6, <2>1 DEF List
  <2>2. CASE k # 1
    <3>1. k - 1 \in 1 .. n /\ (k - 1) + 1 = k /\ Push(s, n, p)[k] = s[k - 1]
      BY <1>3, <2>2
    <3>2. next2[s[k - 1]] = Item(s, n, (k - 1) + 1)
      BY <3>1 DEF List
    <3> QED BY <1>6, <3>1, <3>2
  <2> QED BY <2>1, <2>2
<1> QED BY <1>1, <1>4, <1>5, <1>7, <1>8 DEF List

\* Linking past the i-th element (udp_remove).
LEMMA ListCut ==
    ASSUME NEW s, NEW n, NEW head, NEW next, NEW head2, NEW next2,
           List(s, n, head, next), NEW i \in 1 .. n,
           head2 = IF head = s[i] THEN next[s[i]] ELSE head,
           \A k \in 1 .. n : k # i =>
              next2[s[k]] = IF next[s[k]] = s[i] THEN next[s[i]] ELSE next[s[k]]
    PROVE  List(Cut(s, n, i), n - 1, head2, next2)
<1> USE NPcbAssumption
<1>1. n - 1 \in 0 .. NPcb /\ n \in Nat /\ i \in Nat /\ 1 \in 1 .. n /\ n > 0
  BY DEF List
<1> DEFINE c == Cut(s, n, i)
           at(k) == IF k < i THEN k ELSE k + 1
<1>2. \A k \in 1 .. n - 1 : at(k) \in 1 .. n /\ at(k) # i /\ c[k] = s[at(k)]
  BY <1>1 DEF Cut
<1>3. c \in [1 .. n - 1 -> Elements]
  <2>1. \A k \in 1 .. n - 1 : c[k] \in Elements
    BY <1>2 DEF List
  <2> QED BY <2>1 DEF Cut
<1>4. ASSUME NEW j \in 1 .. n - 1, NEW k \in 1 .. n - 1, c[j] = c[k]
      PROVE  j = k
  <2>1. at(j) = at(k)
    BY <1>2, <1>4 DEF List
  <2> QED BY <2>1
<1>6. \A k \in 1 .. n + 1 : Item(s, n, k) = s[i] => k = i
  <2> TAKE k \in 1 .. n + 1
  <2>1. CASE k <= n
    <3>1. k \in 1 .. n
      BY <1>1, <2>1
    <3> QED BY <2>1, <3>1 DEF List, Item
  <2>2. CASE ~(k <= n)
    BY <2>2 DEF List, Item, Elements, NULL
  <2> QED BY <2>1, <2>2
<1>7. Item(s, n, i) = s[i] /\ next[s[i]] = Item(s, n, i + 1)
  BY <1>1 DEF List, Item
<1>8. \A k \in 1 .. n : Item(c, n - 1, k) = IF k < i THEN Item(s, n, k) ELSE Item(s, n, k + 1)
  <2> TAKE k \in 1 .. n
  <2>1. CASE k <= n - 1
    <3>1. k \in 1 .. n - 1 /\ k <= n /\ k + 1 <= n
      BY <1>1, <2>1
    <3>2. Item(c, n - 1, k) = s[at(k)]
      BY <1>2, <2>1, <3>1 DEF Item
    <3> QED BY <3>1, <3>2 DEF Item
  <2>2. CASE ~(k <= n - 1)
    <3>1. ~(k + 1 <= n) /\ ~(k < i)
      BY <1>1, <2>2
    <3> QED BY <2>2, <3>1 DEF Item
  <2> QED BY <2>1, <2>2
<1> HIDE DEF c
<1>9. head2 = Item(c, n - 1, 1)
  <2>1. head = Item(s, n, 1) /\ 1 \in 1 .. n + 1
    BY <1>1 DEF List
  <2>2. CASE i = 1
    BY <1>1, <1>7, <1>8, <2>1, <2>2
  <2>3. CASE i # 1
    <3>1. 1 < i /\ head # s[i]
      BY <1>1, <1>6, <2>1, <2>3
    <3> QED BY <1>1, <1>8, <2>1, <3>1
  <2> QED BY <2>2, <2>3
<1>10. ASSUME NEW k \in 1 .. n - 1
       PROVE  next2[c[k]] = Item(c, n - 1, k + 1)
  <2>1. next[s[at(k)]] = Item(s, n, at(k) + 1) /\ at(k) + 1 \in 1 .. n + 1 /\ k + 1 \in 1 .. n
    BY <1>1, <1>2 DEF List
  <2>2. next2[c[k]] = IF next[s[at(k)]] = s[i] THEN next[s[i]] ELSE next[s[at(k)]]
    BY <1>2
  <2>3. CASE at(k) + 1 = i
    <3>1. k + 1 = i
      BY <2>3
    <3> QED BY <1>7, <1>8, <2>1, <2>2, <2>3, <3>1
  <2>4. CASE at(k) + 1 # i
    <3>1. next2[c[k]] = Item(s, n, at(k) + 1)
      BY <1>6, <2>1, <2>2, <2>4
    <3>2. CASE k < i
      <4>1. at(k) = k /\ k + 1 < i
        BY <2>4, <3>2
      <4> QED BY <1>8, <2>1, <3>1, <4>1
    <3>3. CASE ~(k < i)
      <4>1. at(k) = k + 1 /\ ~(k + 1 < i)
        BY <3>3
      <4> QED BY <1>8, <2>1, <3>1, <4>1
    <3> QED BY <3>2, <3>3
  <2> QED BY <2>3, <2>4
<1> QED BY <1>1, <1>3, <1>4, <1>9, <1>10 DEF List, c

\* The two lists of a sound pool, as the code finds them.
LEMMA PoolLists ==
    ASSUME NEW v, NEW f, NEW n, NEW l, NEW m, PoolOK(v, f, n, l, m)
    PROVE  /\ Free(v) = {f[k] : k \in 1 .. n}
           /\ Listed(v) = {l[k] : k \in 1 .. m}
BY ReachIs DEF PoolOK, Free, Listed

\* A pool by its fields.
Pcbs(t, w, c, x, a, e) ==
    [memp_tab |-> t, word |-> w, udp_pcbs |-> c, next |-> x, local_port |-> a, udp_port |-> e]

\* One element's field set to y.
Set(w, p, y) == [w EXCEPT ![p] = y]

\* The updates that udp_new, udp_bind (twice) and udp_remove make.
Taken(v, p, y)    == [v EXCEPT !.memp_tab = y, !.word[p] = NULL,
                               !.next[p] = NULL, !.local_port[p] = 0]
Bound(v, p, y, z) == [v EXCEPT !.word[p] = NULL, !.local_port[p] = y, !.udp_port = z]
Linked(v, p, y)   == [v EXCEPT !.next[p] = y, !.udp_pcbs = p]
Freed(v, p, y)    == [v EXCEPT !.word[p] = y, !.memp_tab = p]

\* The same by fields.
LEMMA TakenIs ==
    ASSUME NEW t, NEW w, NEW c, NEW x, NEW a, NEW e, NEW p, NEW y
    PROVE  Taken(Pcbs(t, w, c, x, a, e), p, y)
             = Pcbs(y, Set(w, p, NULL), c, Set(x, p, NULL), Set(a, p, 0), e)
<1> DEFINE w2 == Set(w, p, NULL)
           x2 == Set(x, p, NULL)
<1>1. [Pcbs(t, w, c, x, a, e) EXCEPT !.memp_tab = y] = Pcbs(y, w, c, x, a, e)
  BY DEF Pcbs, Set
<1>2. [Pcbs(y, w, c, x, a, e) EXCEPT !.word[p] = NULL] = Pcbs(y, w2, c, x, a, e)
  BY DEF Pcbs, Set
<1>3. [Pcbs(y, w2, c, x, a, e) EXCEPT !.next[p] = NULL] = Pcbs(y, w2, c, x2, a, e)
  BY DEF Pcbs, Set
<1>4. [Pcbs(y, w2, c, x2, a, e) EXCEPT !.local_port[p] = 0]
        = Pcbs(y, w2, c, x2, Set(a, p, 0), e)
  BY DEF Pcbs, Set
<1>5. Taken(Pcbs(t, w, c, x, a, e), p, y)
        = [[[[Pcbs(t, w, c, x, a, e) EXCEPT !.memp_tab = y] EXCEPT !.word[p] = NULL]
              EXCEPT !.next[p] = NULL] EXCEPT !.local_port[p] = 0]
  BY DEF Taken
<1> QED BY Zenon, <1>1, <1>2, <1>3, <1>4, <1>5

\* udp_bind of a pcb that is not listed writes it, ...
LEMMA BoundIs ==
    ASSUME NEW t, NEW w, NEW c, NEW x, NEW a, NEW e, NEW p, NEW y, NEW z
    PROVE  Bound(Pcbs(t, w, c, x, a, e), p, y, z)
             = Pcbs(t, Set(w, p, NULL), c, x, Set(a, p, y), z)
<1> DEFINE w2 == Set(w, p, NULL)
<1>1. [Pcbs(t, w, c, x, a, e) EXCEPT !.word[p] = NULL] = Pcbs(t, w2, c, x, a, e)
  BY DEF Pcbs, Set
<1>2. [Pcbs(t, w2, c, x, a, e) EXCEPT !.local_port[p] = y]
        = Pcbs(t, w2, c, x, Set(a, p, y), e)
  BY DEF Pcbs, Set
<1>3. [Pcbs(t, w2, c, x, Set(a, p, y), e) EXCEPT !.udp_port = z]
        = Pcbs(t, w2, c, x, Set(a, p, y), z)
  BY DEF Pcbs, Set
<1>4. Bound(Pcbs(t, w, c, x, a, e), p, y, z)
        = [[[Pcbs(t, w, c, x, a, e) EXCEPT !.word[p] = NULL] EXCEPT !.local_port[p] = y]
              EXCEPT !.udp_port = z]
  BY DEF Bound
<1> QED BY Zenon, <1>1, <1>2, <1>3, <1>4

\* ... and puts it in front of the list.
LEMMA LinkedIs ==
    ASSUME NEW t, NEW w, NEW c, NEW x, NEW a, NEW e, NEW p, NEW y
    PROVE  Linked(Pcbs(t, w, c, x, a, e), p, y) = Pcbs(t, w, p, Set(x, p, y), a, e)
<1>1. [Pcbs(t, w, c, x, a, e) EXCEPT !.next[p] = y] = Pcbs(t, w, c, Set(x, p, y), a, e)
  BY DEF Pcbs, Set
<1>2. [Pcbs(t, w, c, Set(x, p, y), a, e) EXCEPT !.udp_pcbs = p]
        = Pcbs(t, w, p, Set(x, p, y), a, e)
  BY DEF Pcbs, Set
<1>3. Linked(Pcbs(t, w, c, x, a, e), p, y)
        = [[Pcbs(t, w, c, x, a, e) EXCEPT !.next[p] = y] EXCEPT !.udp_pcbs = p]
  BY DEF Linked
<1> QED BY Zenon, <1>1, <1>2, <1>3

\* memp_free puts an element in front of the free list.
LEMMA FreedIs ==
    ASSUME NEW t, NEW w, NEW c, NEW x, NEW a, NEW e, NEW p, NEW y
    PROVE  Freed(Pcbs(t, w, c, x, a, e), p, y) = Pcbs(p, Set(w, p, y), c, x, a, e)
<1>1. [Pcbs(t, w, c, x, a, e) EXCEPT !.word[p] = y] = Pcbs(t, Set(w, p, y), c, x, a, e)
  BY DEF Pcbs, Set
<1>2. [Pcbs(t, Set(w, p, y), c, x, a, e) EXCEPT !.memp_tab = p]
        = Pcbs(p, Set(w, p, y), c, x, a, e)
  BY DEF Pcbs, Set
<1>3. Freed(Pcbs(t, w, c, x, a, e), p, y)
        = [[Pcbs(t, w, c, x, a, e) EXCEPT !.word[p] = y] EXCEPT !.memp_tab = p]
  BY DEF Freed
<1> QED BY Zenon, <1>1, <1>2, <1>3

\* After udp_new and udp_bind the first free element is the first bound one.
NewBound(v, f, n, l, m, port) ==
    LET p     == v.memp_tab
        given == IF port = 0 THEN v.udp_port + 1 ELSE port
        b     == Bind(New(v), Fresh(v), port)
    IN  /\ p \in Elements /\ p = f[1]
        /\ PoolOK(b, Rest(f, n), n - 1, Push(l, m, p), m + 1)
        /\ b.local_port = Set(v.local_port, p, given)
        /\ b.udp_port = IF port = 0 THEN given ELSE v.udp_port

\* That is so with an element in the pool and a port that no bound pcb has.
LEMMA BindNew ==
    ASSUME NEW v, NEW f, NEW n, NEW l, NEW m, PoolOK(v, f, n, l, m), n > 0,
           NEW port \in Nat, \A k \in 1 .. m : v.local_port[l[k]] # port
    PROVE  NewBound(v, f, n, l, m, port)
<1> USE NPcbAssumption
<1> DEFINE p     == v.memp_tab
           given == IF port = 0 THEN v.udp_port + 1 ELSE port
           a     == New(v)
           b     == Bind(a, p, port)
           w2    == Set(v.word, p, NULL)
           x2    == Set(v.next, p, v.udp_pcbs)
<1>1. /\ n \in 1 .. NPcb /\ m \in 0 .. NPcb /\ 1 \in 1 .. n /\ m < NPcb
      /\ n - 1 \in 0 .. NPcb /\ (n - 1) + (m + 1) = NPcb
  BY DEF PoolOK, List
<1>2. p = f[1] /\ p \in Elements
  BY <1>1 DEF PoolOK, List, Item
<1>3. \A k \in 1 .. m : l[k] \in Elements /\ l[k] # p
  BY <1>1, <1>2 DEF PoolOK, List
<1>4. /\ v = Pcbs(v.memp_tab, v.word, v.udp_pcbs, v.next, v.local_port, v.udp_port)
      /\ v.word \in [Elements -> Pointers] /\ v.next \in [Elements -> Pointers]
      /\ v.local_port \in [Elements -> Nat] /\ v.udp_port \in Nat
      /\ v.memp_tab \in Pointers /\ v.udp_pcbs \in Pointers
  BY DEF PoolOK, Pool, Pcbs
<1>5. a = Pcbs(v.word[p], w2, v.udp_pcbs, Set(v.next, p, NULL),
               Set(v.local_port, p, 0), v.udp_port)
  <2>1. a = Taken(v, p, v.word[p])
    BY DEF New, Taken
  <2> HIDE DEF a
  <2>2. Taken(Pcbs(v.memp_tab, v.word, v.udp_pcbs, v.next, v.local_port, v.udp_port), p, v.word[p])
          = Pcbs(v.word[p], w2, v.udp_pcbs, Set(v.next, p, NULL),
                 Set(v.local_port, p, 0), v.udp_port)
    BY TakenIs
  <2> HIDE DEF w2
  <2> QED BY Zenon, <1>4, <2>1, <2>2
<1>fields. /\ a.udp_pcbs = v.udp_pcbs /\ a.next = Set(v.next, p, NULL)
       /\ a.local_port = Set(v.local_port, p, 0) /\ a.udp_port = v.udp_port
  BY <1>5 DEF Pcbs
<1>6. Listed(a) = {l[k] : k \in 1 .. m}
  <2>1. a.udp_pcbs = v.udp_pcbs /\ a.next = Set(v.next, p, NULL)
    BY <1>fields
  <2>2. \A k \in 1 .. m : a.next[l[k]] = v.next[l[k]]
    BY <1>3, <1>4, <2>1 DEF Set
  <2>3. List(l, m, a.udp_pcbs, a.next)
    BY <2>1, <2>2 DEF PoolOK, List
  <2> QED BY <2>3, ReachIs DEF Listed
<1>7. p \notin Listed(a) /\ ~ \E q \in Listed(a) \ {p} : a.local_port[q] = port
  <2>1. \A k \in 1 .. m : a.local_port[l[k]] = v.local_port[l[k]]
    BY <1>3, <1>4, <1>fields DEF Set
  <2> QED BY <1>3, <1>6, <2>1
<1>8. b = Pcbs(v.word[p], w2, p, x2, Set(v.local_port, p, given),
               IF port = 0 THEN given ELSE v.udp_port)
  <2> DEFINE e2    == IF port = 0 THEN given ELSE v.udp_port
             bound == Bound(a, p, given, e2)
             lp0   == Set(v.local_port, p, 0)
             x0    == Set(v.next, p, NULL)
  <2>1. NewPort(a) = v.udp_port + 1 /\ a.udp_pcbs = v.udp_pcbs
    BY <1>fields DEF NewPort
  <2>2. b = Linked(bound, p, v.udp_pcbs)
    BY <1>fields, <1>7, <2>1 DEF Bind, Bound, Linked
  <2>3. bound = Pcbs(v.word[p], Set(w2, p, NULL), v.udp_pcbs, x0,
                     Set(lp0, p, given), e2)
    <3> HIDE DEF a, given, lp0, x0, e2
    <3>1. Bound(Pcbs(v.word[p], w2, v.udp_pcbs, x0, lp0, v.udp_port), p, given, e2)
            = Pcbs(v.word[p], Set(w2, p, NULL), v.udp_pcbs, x0,
                   Set(lp0, p, given), e2)
      BY BoundIs
    <3> QED BY Zenon, <1>5, <3>1 DEF x0, lp0
  <2>4. /\ Set(w2, p, NULL) = w2
        /\ Set(lp0, p, given) = Set(v.local_port, p, given)
        /\ Set(x0, p, v.udp_pcbs) = x2
    BY <1>2, <1>4 DEF Set
  <2> HIDE DEF bound, a, b, x0, e2, w2, x2, lp0, given
  <2>5. bound = Pcbs(v.word[p], w2, v.udp_pcbs, x0, Set(v.local_port, p, given), e2)
    BY Zenon, <2>3, <2>4
  <2>6. b = Pcbs(v.word[p], w2, p, Set(x0, p, v.udp_pcbs),
                 Set(v.local_port, p, given), e2)
    <3>1. Linked(Pcbs(v.word[p], w2, v.udp_pcbs, x0, Set(v.local_port, p, given), e2),
                 p, v.udp_pcbs)
            = Pcbs(v.word[p], w2, p, Set(x0, p, v.udp_pcbs),
                   Set(v.local_port, p, given), e2)
      BY LinkedIs
    <3> QED BY Zenon, <2>2, <2>5, <3>1
  <2>7. b = Pcbs(v.word[p], w2, p, x2, Set(v.local_port, p, given), e2)
    BY Zenon, <2>4, <2>6
  <2> QED BY <2>7 DEF e2
<1>9. /\ w2 \in [Elements -> Pointers] /\ x2 \in [Elements -> Pointers]
      /\ w2[p] = NULL /\ x2[p] = v.udp_pcbs
      /\ \A q \in Elements \ {p} : w2[q] = v.word[q] /\ x2[q] = v.next[q]
  BY <1>2, <1>4 DEF Pointers, NULL, Set
<1> HIDE DEF a, b, w2, x2
<1>10. /\ b.memp_tab = v.word[p] /\ b.word = w2 /\ b.udp_pcbs = p /\ b.next = x2
       /\ b.local_port = Set(v.local_port, p, given)
       /\ b.udp_port = IF port = 0 THEN given ELSE v.udp_port
  BY <1>8 DEF Pcbs
<1>11. b \in Pool
  <2>1. v.word[p] \in Pointers /\ p \in Pointers
    BY <1>2, <1>4
  <2>2. Set(v.local_port, p, given) \in [Elements -> Nat] /\ given \in Nat
    BY <1>2, <1>4 DEF Set
  <2> QED BY <1>4, <1>8, <1>9, <2>1, <2>2 DEF Pool, Pcbs
<1>12. List(Rest(f, n), n - 1, b.memp_tab, b.word)
  <2>1. \A k \in 2 .. n : f[k] # p /\ f[k] \in Elements
    BY <1>1, <1>2 DEF PoolOK, List
  <2>2. \A k \in 2 .. n : w2[f[k]] = v.word[f[k]]
    BY <1>9, <2>1
  <2>3. List(f, n, p, v.word)
    BY DEF PoolOK
  <2> QED BY <1>1, <1>10, <2>2, <2>3, ListRest
<1>13. List(Push(l, m, p), m + 1, b.udp_pcbs, b.next)
  <2>1. List(l, m, v.udp_pcbs, v.next)
    BY DEF PoolOK
  <2>2. \A k \in 1 .. m : l[k] # p /\ x2[l[k]] = v.next[l[k]]
    BY <1>3, <1>9
  <2>3. List(Push(l, m, p), m + 1, p, x2)
    BY <1>1, <1>2, <1>9, <2>1, <2>2, ListPush
  <2> QED BY <1>10, <2>3
<1>14. \A k \in 1 .. m + 1 : \/ (k = 1 /\ Push(l, m, p)[k] = p)
                             \/ (k - 1 \in 1 .. m /\ Push(l, m, p)[k] = l[k - 1])
  BY <1>1 DEF Push
<1>15. \A k \in 1 .. m + 1 : b.word[Push(l, m, p)[k]] = NULL
  <2>1. \A k \in 1 .. m : w2[l[k]] = NULL
    BY <1>3, <1>9 DEF PoolOK
  <2> QED BY <1>9, <1>10, <1>14, <2>1
<1>16. \A j \in 1 .. n - 1, k \in 1 .. m + 1 : Rest(f, n)[j] # Push(l, m, p)[k]
  <2>1. \A j \in 1 .. n - 1 : j + 1 \in 1 .. n /\ j + 1 # 1 /\ Rest(f, n)[j] = f[j + 1]
    BY <1>1 DEF Rest
  <2>2. \A j \in 1 .. n - 1 : f[j + 1] # p
    BY <1>1, <1>2, <2>1 DEF PoolOK, List
  <2>3. \A j \in 1 .. n - 1, k \in 1 .. m : f[j + 1] # l[k]
    BY <2>1 DEF PoolOK
  <2> QED BY <1>14, <2>1, <2>2, <2>3
<1>17. PoolOK(b, Rest(f, n), n - 1, Push(l, m, p), m + 1)
  BY <1>1, <1>11, <1>12, <1>13, <1>15, <1>16 DEF PoolOK
<1> QED BY <1>2, <1>10, <1>17 DEF a, b, Fresh, Set, NewBound

\* udp_remove of a bound pcb: it becomes the first of the free ones.
LEMMA RemoveBound ==
    ASSUME NEW v, NEW f, NEW n, NEW l, NEW m, PoolOK(v, f, n, l, m), NEW i \in 1 .. m
    PROVE  LET r == Remove(v, l[i])
           IN  /\ PoolOK(r, Push(f, n, l[i]), n + 1, Cut(l, m, i), m - 1)
               /\ r.local_port = v.local_port
               /\ r.udp_port = v.udp_port
<1> USE NPcbAssumption
<1> DEFINE p  == l[i]
           r  == Remove(v, p)
           w2 == Set(v.word, p, v.memp_tab)
           h2 == IF v.udp_pcbs = p THEN v.next[p] ELSE v.udp_pcbs
           x2 == IF v.udp_pcbs = p THEN v.next
                 ELSE [q \in Elements |->
                         IF q \in Listed(v) /\ v.next[q] = p THEN v.next[p] ELSE v.next[q]]
<1>1. /\ m \in 1 .. NPcb /\ n \in 0 .. NPcb /\ n < NPcb /\ m - 1 \in 0 .. NPcb
      /\ (n + 1) + (m - 1) = NPcb /\ 1 \in 1 .. m
  BY DEF PoolOK, List
<1>2. p \in Elements
  BY DEF PoolOK, List
<1>3. /\ v = Pcbs(v.memp_tab, v.word, v.udp_pcbs, v.next, v.local_port, v.udp_port)
      /\ v.word \in [Elements -> Pointers] /\ v.next \in [Elements -> Pointers]
      /\ v.local_port \in [Elements -> Nat] /\ v.udp_port \in Nat
      /\ v.memp_tab \in Pointers /\ v.udp_pcbs \in Pointers
  BY DEF PoolOK, Pool, Pcbs
<1>4. r = Pcbs(p, w2, h2, x2, v.local_port, v.udp_port)
  <2> DEFINE n2 == [q \in Elements |->
                      IF q \in Listed(v) /\ v.next[q] = p THEN v.next[p] ELSE v.next[q]]
             d  == IF v.udp_pcbs = p THEN [v EXCEPT !.udp_pcbs = v.next[p]]
                   ELSE [v EXCEPT !.next = n2]
  <2>1. r = Freed(d, p, v.memp_tab)
    BY DEF Remove, Freed
  <2>2. d = Pcbs(v.memp_tab, v.word, h2, x2, v.local_port, v.udp_port)
    <3> HIDE DEF n2, r
    <3>1. CASE v.udp_pcbs = p
      BY <1>3, <3>1 DEF Pcbs
    <3>2. CASE v.udp_pcbs # p
      <4>1. x2 = n2 /\ h2 = v.udp_pcbs
        BY <3>2 DEF n2
      <4>2. d = [v EXCEPT !.next = n2]
        BY <3>2
      <4> HIDE DEF d, x2, h2
      <4> QED BY <1>3, <4>1, <4>2 DEF Pcbs
    <3> QED BY <3>1, <3>2
  <2> HIDE DEF d, h2, x2, r
  <2>3. Freed(Pcbs(v.memp_tab, v.word, h2, x2, v.local_port, v.udp_port), p, v.memp_tab)
          = Pcbs(p, w2, h2, x2, v.local_port, v.udp_port)
    BY FreedIs
  <2> HIDE DEF w2
  <2> QED BY Zenon, <2>1, <2>2, <2>3
<1>5. /\ w2 \in [Elements -> Pointers] /\ w2[p] = v.memp_tab
      /\ \A q \in Elements \ {p} : w2[q] = v.word[q]
  BY <1>2, <1>3 DEF Set
<1>6. h2 \in Pointers /\ x2 \in [Elements -> Pointers]
  <2>1. v.next[p] \in Pointers
    BY <1>2, <1>3
  <2> QED BY <1>3, <2>1
<1>7. \A k \in 1 .. m : k # i =>
         x2[l[k]] = IF v.next[l[k]] = p THEN v.next[p] ELSE v.next[l[k]]
  <2> SUFFICES ASSUME NEW k \in 1 .. m, k # i
               PROVE  x2[l[k]] = IF v.next[l[k]] = p THEN v.next[p] ELSE v.next[l[k]]
    OBVIOUS
  <2>1. l[k] \in Elements /\ l[k] \in Listed(v)
    <3>1. Listed(v) = {l[j] : j \in 1 .. m}
      BY PoolLists
    <3> QED BY <3>1 DEF PoolOK, List
  <2>2. CASE v.udp_pcbs # p
    BY <2>1, <2>2
  <2>3. CASE v.udp_pcbs = p
    <3>1. i = 1
      BY <1>1, <2>3 DEF PoolOK, List, Item
    <3>2. v.next[l[k]] = Item(l, m, k + 1)
      BY DEF PoolOK, List
    <3>3. v.next[l[k]] # p
      <4>1. CASE k + 1 <= m
        <5>1. k + 1 \in 1 .. m /\ k + 1 # i
          BY <1>1, <3>1, <4>1
        <5> QED BY <3>2, <4>1, <5>1 DEF Item, PoolOK, List
      <4>2. CASE ~(k + 1 <= m)
        BY <1>2, <3>2, <4>2 DEF Item, Elements, NULL
      <4> QED BY <4>1, <4>2
    <3> QED BY <2>3, <3>3
  <2> QED BY <2>2, <2>3
<1> HIDE DEF r, w2, x2
<1>8. /\ r.memp_tab = p /\ r.word = w2 /\ r.udp_pcbs = h2 /\ r.next = x2
      /\ r.local_port = v.local_port /\ r.udp_port = v.udp_port
  BY <1>4 DEF Pcbs
<1>9. r \in Pool
  BY <1>2, <1>3, <1>4, <1>5, <1>6 DEF Pool, Pcbs, Elements, Pointers
<1>10. \A k \in 1 .. n : f[k] # p /\ f[k] \in Elements
  BY DEF PoolOK, List
<1>11. List(Push(f, n, p), n + 1, r.memp_tab, r.word)
  <2>1. List(f, n, v.memp_tab, v.word)
    BY DEF PoolOK
  <2>2. \A k \in 1 .. n : f[k] # p /\ w2[f[k]] = v.word[f[k]]
    BY <1>5, <1>10
  <2> QED BY <1>1, <1>2, <1>5, <1>8, <2>1, <2>2, ListPush
<1>12. List(Cut(l, m, i), m - 1, r.udp_pcbs, r.next)
  <2>1. List(l, m, v.udp_pcbs, v.next)
    BY DEF PoolOK
  <2>2. List(Cut(l, m, i), m - 1, h2, x2)
    BY <1>7, <2>1, ListCut
  <2> QED BY <1>8, <2>2
<1>13. \A k \in 1 .. m - 1 : \E j \in 1 .. m : j # i /\ Cut(l, m, i)[k] = l[j]
  <2> TAKE k \in 1 .. m - 1
  <2>1. CASE k < i
    <3>1. k \in 1 .. m /\ k # i /\ Cut(l, m, i)[k] = l[k]
      BY <1>1, <2>1 DEF Cut
    <3> QED BY <3>1
  <2>2. CASE ~(k < i)
    <3>1. k + 1 \in 1 .. m /\ k + 1 # i /\ Cut(l, m, i)[k] = l[k + 1]
      BY <1>1, <2>2 DEF Cut
    <3> QED BY <3>1
  <2> QED BY <2>1, <2>2
<1>14. \A j \in 1 .. m : j # i => l[j] # p /\ l[j] \in Elements
  BY DEF PoolOK, List
<1>15. \A k \in 1 .. m - 1 : r.word[Cut(l, m, i)[k]] = NULL
  <2>1. \A j \in 1 .. m : j # i => w2[l[j]] = NULL
    BY <1>5, <1>14 DEF PoolOK
  <2> QED BY <1>8, <1>13, <2>1
<1>16. \A j \in 1 .. n + 1, k \in 1 .. m - 1 : Push(f, n, p)[j] # Cut(l, m, i)[k]
  <2>1. \A j \in 1 .. n + 1 : Push(f, n, p)[j] = p
                            \/ \E g \in 1 .. n : Push(f, n, p)[j] = f[g]
    <3> TAKE j \in 1 .. n + 1
    <3>1. CASE j = 1
      BY <3>1 DEF Push
    <3>2. CASE j # 1
      <4>1. j - 1 \in 1 .. n /\ Push(f, n, p)[j] = f[j - 1]
        BY <1>1, <3>2 DEF Push
      <4> QED BY <4>1
    <3> QED BY <3>1, <3>2
  <2>2. \A g \in 1 .. n, j \in 1 .. m : f[g] # l[j]
    BY DEF PoolOK
  <2> QED BY <1>13, <1>14, <2>1, <2>2
<1>17. PoolOK(r, Push(f, n, p), n + 1, Cut(l, m, i), m - 1)
  BY <1>1, <1>9, <1>11, <1>12, <1>15, <1>16 DEF PoolOK
<1> QED BY <1>8, <1>17 DEF r

\* Who is in a list c that has p in front of s.
PushedItems(c, s, n, p) ==
    /\ \A k \in 1 .. n + 1 : c[k] = p \/ \E j \in 1 .. n : c[k] = s[j]
    /\ \E k \in 1 .. n + 1 : c[k] = p
    /\ \A j \in 1 .. n : \E k \in 1 .. n + 1 : c[k] = s[j]

\* An element put in front joins those that were there.
LEMMA PushItems ==
    ASSUME NEW s, NEW n \in Nat, NEW p
    PROVE  PushedItems(Push(s, n, p), s, n, p)
<1>1. 1 \in 1 .. n + 1 /\ Push(s, n, p)[1] = p
  BY DEF Push
<1>2. ASSUME NEW k \in 1 .. n + 1, k # 1
      PROVE  k - 1 \in 1 .. n /\ Push(s, n, p)[k] = s[k - 1]
  BY <1>2 DEF Push
<1>3. ASSUME NEW j \in 1 .. n
      PROVE  j + 1 \in 1 .. n + 1 /\ Push(s, n, p)[j + 1] = s[j]
  <2>1. j + 1 \in 1 .. n + 1 /\ j + 1 # 1 /\ (j + 1) - 1 = j
    OBVIOUS
  <2> QED BY <2>1 DEF Push
<1> QED BY <1>1, <1>2, <1>3 DEF PushedItems

\* Cutting out the i-th element leaves the others.
LEMMA CutItems ==
    ASSUME NEW s, NEW n \in Nat, NEW i \in 1 .. n
    PROVE  /\ \A k \in 1 .. n - 1 : \E j \in 1 .. n : j # i /\ Cut(s, n, i)[k] = s[j]
           /\ \A j \in 1 .. n : j # i => \E k \in 1 .. n - 1 : Cut(s, n, i)[k] = s[j]
<1>1. ASSUME NEW k \in 1 .. n - 1, k < i
      PROVE  k \in 1 .. n /\ k # i /\ Cut(s, n, i)[k] = s[k]
  BY <1>1 DEF Cut
<1>2. ASSUME NEW k \in 1 .. n - 1, ~(k < i)
      PROVE  k + 1 \in 1 .. n /\ k + 1 # i /\ Cut(s, n, i)[k] = s[k + 1]
  BY <1>2 DEF Cut
<1>3. ASSUME NEW j \in 1 .. n, j # i
      PROVE  \E k \in 1 .. n - 1 : Cut(s, n, i)[k] = s[j]
  <2>1. CASE j < i
    <3>1. j \in 1 .. n - 1
      BY <2>1
    <3> QED BY <1>1, <2>1, <3>1
  <2>2. CASE ~(j < i)
    <3>1. j - 1 \in 1 .. n - 1 /\ ~(j - 1 < i) /\ (j - 1) + 1 = j
      BY <1>3, <2>2
    <3>2. Cut(s, n, i)[j - 1] = s[(j - 1) + 1]
      BY <1>2, <3>1
    <3> QED BY <3>1, <3>2
  <2> QED BY <2>1, <2>2
<1> QED BY <1>1, <1>2, <1>3

\* memp_init: all elements are free.
LEMMA OwnedInit ==
    ASSUME NEW held PROVE Owned(PoolInit, {}, held)
<1> USE NPcbAssumption
<1> DEFINE f == [k \in 1 .. NPcb |-> NPcb + 1 - k]
           l == [k \in 1 .. 0 |-> 1]
<1>1. List(f, NPcb, PoolInit.memp_tab, PoolInit.word)
  <2>0. PoolInit.memp_tab = NPcb /\ PoolInit.word = [p \in Elements |-> p - 1]
    BY DEF PoolInit
  <2>1. f \in [1 .. NPcb -> Elements] /\ \A j, k \in 1 .. NPcb : f[j] = f[k] => j = k
    BY DEF Elements
  <2>2. NPcb = Item(f, NPcb, 1)
    BY DEF Item
  <2>3. ASSUME NEW k \in 1 .. NPcb
        PROVE  [p \in Elements |-> p - 1][f[k]] = Item(f, NPcb, k + 1)
    <3>1. f[k] \in Elements /\ [p \in Elements |-> p - 1][f[k]] = NPcb - k
      BY DEF Elements
    <3>2. CASE k + 1 <= NPcb
      BY <3>1, <3>2 DEF Item
    <3>3. CASE ~(k + 1 <= NPcb)
      <4>1. NPcb - k = 0
        BY <3>3
      <4> QED BY <3>1, <3>3, <4>1 DEF Item, NULL
    <3> QED BY <3>2, <3>3
  <2>4. NPcb \in 0 .. NPcb
    OBVIOUS
  <2> HIDE DEF f
  <2> QED BY <2>0, <2>1, <2>2, <2>3, <2>4 DEF List
<1>2. List(l, 0, PoolInit.udp_pcbs, PoolInit.next)
  BY DEF List, Item, PoolInit
<1>3. PoolInit \in Pool
  <2>1. [p \in Elements |-> p - 1] \in [Elements -> Pointers]
    BY DEF Elements, Pointers
  <2> QED BY <2>1 DEF PoolInit, Pool, Pointers, NULL
<1>4. f \in [1 .. NPcb -> Elements] /\ l \in [1 .. 0 -> Elements]
  BY <1>1, <1>2 DEF List
<1> HIDE DEF f, l
<1>5. PoolOK(PoolInit, f, NPcb, l, 0)
  <2>1. NPcb + 0 = NPcb /\ 1 .. 0 = {}
    OBVIOUS
  <2> QED BY <1>1, <1>2, <1>3, <2>1 DEF PoolOK
<1>6. HolderOK(PoolInit, l, 0, {}, held)
  BY DEF HolderOK
<1>7. NPcb \in 0 .. NPcb /\ 0 \in 0 .. NPcb
  OBVIOUS
<1> QED BY <1>4, <1>5, <1>6, <1>7 DEF Owned

\* udp_new and udp_bind give h the first free pcb.
LEMMA OwnedBind ==
    ASSUME NEW v, NEW H, NEW held, Owned(v, H, held), 0 \notin H, v.memp_tab # NULL,
           NEW port \in Nat, NEW h \in Nat \ {0}, h \notin H,
           h = IF port = 0 THEN v.udp_port + 1 ELSE port,
           NEW held2, held2[h] = v.memp_tab, \A g \in H : held2[g] = held[g]
    PROVE  LET b == Bind(New(v), Fresh(v), port)
           IN  /\ Owned(b, H \cup {h}, held2)
               /\ b.udp_port = IF port = 0 THEN h ELSE v.udp_port
               /\ v.memp_tab \in Elements
<1> USE NPcbAssumption
<1> DEFINE p == v.memp_tab
           b == Bind(New(v), Fresh(v), port)
<1>1. PICK n \in 0 .. NPcb, m \in 0 .. NPcb : 
         \E f \in [1 .. n -> Elements], l \in [1 .. m -> Elements] :
            PoolOK(v, f, n, l, m) /\ HolderOK(v, l, m, H, held)
  BY DEF Owned
<1>2. PICK f \in [1 .. n -> Elements], l \in [1 .. m -> Elements] :
         PoolOK(v, f, n, l, m) /\ HolderOK(v, l, m, H, held)
  BY <1>1
<1>3. n > 0
  BY <1>2 DEF PoolOK, List, Item
<1>4. \A k \in 1 .. m : v.local_port[l[k]] # port
  BY <1>2 DEF HolderOK
<1> HIDE DEF b
<1> DEFINE given == IF port = 0 THEN v.udp_port + 1 ELSE port
<1>5. /\ p \in Elements /\ p = f[1]
      /\ PoolOK(b, Rest(f, n), n - 1, Push(l, m, p), m + 1)
      /\ b.local_port = [v.local_port EXCEPT ![p] = h]
      /\ b.udp_port = IF port = 0 THEN h ELSE v.udp_port
  <2>1. /\ p \in Elements /\ p = f[1]
        /\ PoolOK(b, Rest(f, n), n - 1, Push(l, m, p), m + 1)
        /\ b.local_port = Set(v.local_port, p, given)
        /\ b.udp_port = IF port = 0 THEN given ELSE v.udp_port
    <3>1. NewBound(v, f, n, l, m, port)
      BY <1>2, <1>3, <1>4, BindNew
    <3> QED BY <3>1 DEF NewBound, b
  <2>2. given = h
    OBVIOUS
  <2> HIDE DEF given
  <2> QED BY <2>1, <2>2 DEF Set
<1>6. /\ b.local_port[p] = h
      /\ \A k \in 1 .. m : l[k] # p /\ b.local_port[l[k]] = v.local_port[l[k]]
  <2>1. v.local_port \in [Elements -> Nat]
    BY <1>2 DEF PoolOK, Pool
  <2>2. 1 \in 1 .. n
    BY <1>3
  <2>3. \A k \in 1 .. m : l[k] # p /\ l[k] \in Elements
    BY <1>2, <1>5, <2>2 DEF PoolOK
  <2> QED BY <1>5, <2>1, <2>3
<1>7. HolderOK(b, Push(l, m, p), m + 1, H \cup {h}, held2)
  <2>1. m \in Nat
    OBVIOUS
  <2>items. /\ \A k \in 1 .. m + 1 : \/ Push(l, m, p)[k] = p
                                     \/ \E j \in 1 .. m : Push(l, m, p)[k] = l[j]
            /\ \E k \in 1 .. m + 1 : Push(l, m, p)[k] = p
            /\ \A j \in 1 .. m : \E k \in 1 .. m + 1 : Push(l, m, p)[k] = l[j]
    <3>1. PushedItems(Push(l, m, p), l, m, p)
      BY <2>1, PushItems
    <3> HIDE DEF p
    <3> QED BY <3>1 DEF PushedItems
  <2>2. ASSUME NEW g \in H \cup {h}
        PROVE  /\ b.local_port[held2[g]] = g
               /\ \E k \in 1 .. m + 1 : Push(l, m, p)[k] = held2[g]
    <3>1. CASE g = h
      BY <1>6, <2>items, <3>1
    <3>2. CASE g \in H
      <4>1. PICK k \in 1 .. m : l[k] = held[g]
        BY <1>2, <3>2 DEF HolderOK
      <4>2. v.local_port[held[g]] = g
        BY <1>2, <3>2 DEF HolderOK
      <4>3. \E j \in 1 .. m + 1 : Push(l, m, p)[j] = l[k]
        BY <2>items
      <4> QED BY <1>6, <3>2, <4>1, <4>2, <4>3
    <3> QED BY <3>1, <3>2
  <2>3. ASSUME NEW k \in 1 .. m + 1
        PROVE  /\ b.local_port[Push(l, m, p)[k]] \in H \cup {h}
               /\ held2[b.local_port[Push(l, m, p)[k]]] = Push(l, m, p)[k]
    <3>1. CASE Push(l, m, p)[k] = p
      BY <1>6, <3>1
    <3>2. CASE \E j \in 1 .. m : Push(l, m, p)[k] = l[j]
      <4>1. PICK j \in 1 .. m : Push(l, m, p)[k] = l[j]
        BY <3>2
      <4>2. v.local_port[l[j]] \in H /\ held[v.local_port[l[j]]] = l[j]
        BY <1>2 DEF HolderOK
      <4> QED BY <1>6, <4>1, <4>2
    <3> QED BY <2>items, <3>1, <3>2
  <2> QED BY <2>2, <2>3 DEF HolderOK
<1>8. Rest(f, n) \in [1 .. n - 1 -> Elements] /\ Push(l, m, p) \in [1 .. m + 1 -> Elements]
  BY <1>5 DEF PoolOK, List
<1>9. n - 1 \in 0 .. NPcb /\ m + 1 \in 0 .. NPcb
  BY <1>5 DEF PoolOK, List
<1>10. Owned(b, H \cup {h}, held2)
  BY <1>5, <1>7, <1>8, <1>9 DEF Owned
<1> QED BY <1>5, <1>10 DEF b

\* udp_remove takes its pcb from h.
LEMMA OwnedRemove ==
    ASSUME NEW v, NEW H, NEW held, Owned(v, H, held), NEW h \in H,
           NEW held2, \A g \in H \ {h} : held2[g] = held[g]
    PROVE  LET r == Remove(v, held[h])
           IN  /\ Owned(r, H \ {h}, held2)
               /\ r.udp_port = v.udp_port
               /\ r.memp_tab = held[h] /\ held[h] \in Elements
<1> USE NPcbAssumption
<1> DEFINE r == Remove(v, held[h])
<1>1. PICK n \in 0 .. NPcb, m \in 0 .. NPcb : 
         \E f \in [1 .. n -> Elements], l \in [1 .. m -> Elements] :
            PoolOK(v, f, n, l, m) /\ HolderOK(v, l, m, H, held)
  BY DEF Owned
<1>2. PICK f \in [1 .. n -> Elements], l \in [1 .. m -> Elements] :
         PoolOK(v, f, n, l, m) /\ HolderOK(v, l, m, H, held)
  BY <1>1
<1>3. PICK i \in 1 .. m : l[i] = held[h]
  BY <1>2 DEF HolderOK
<1> HIDE DEF r
<1>4. /\ PoolOK(r, Push(f, n, l[i]), n + 1, Cut(l, m, i), m - 1)
      /\ r.local_port = v.local_port /\ r.udp_port = v.udp_port
  BY <1>2, <1>3, RemoveBound DEF r
<1>5. m \in Nat /\ n \in Nat
  OBVIOUS
<1>items. /\ \A k \in 1 .. m - 1 : \E j \in 1 .. m : j # i /\ Cut(l, m, i)[k] = l[j]
          /\ \A j \in 1 .. m : j # i => \E k \in 1 .. m - 1 : Cut(l, m, i)[k] = l[j]
  BY <1>5, CutItems
<1>6. HolderOK(r, Cut(l, m, i), m - 1, H \ {h}, held2)
  <2>1. ASSUME NEW g \in H \ {h}
        PROVE  /\ r.local_port[held2[g]] = g
               /\ \E k \in 1 .. m - 1 : Cut(l, m, i)[k] = held2[g]
    <3>1. PICK j \in 1 .. m : l[j] = held[g]
      BY <1>2 DEF HolderOK
    <3>2. v.local_port[held[g]] = g /\ v.local_port[held[h]] = h
      BY <1>2 DEF HolderOK
    <3>3. j # i
      BY <1>3, <3>1, <3>2
    <3>4. \E k \in 1 .. m - 1 : Cut(l, m, i)[k] = l[j]
      BY <1>items, <3>3
    <3> QED BY <1>4, <3>1, <3>2, <3>4
  <2>2. ASSUME NEW k \in 1 .. m - 1
        PROVE  /\ r.local_port[Cut(l, m, i)[k]] \in H \ {h}
               /\ held2[r.local_port[Cut(l, m, i)[k]]] = Cut(l, m, i)[k]
    <3>1. PICK j \in 1 .. m : j # i /\ Cut(l, m, i)[k] = l[j]
      BY <1>items
    <3>2. l[j] # l[i]
      BY <1>2, <3>1 DEF PoolOK, List
    <3>3. v.local_port[l[j]] \in H /\ held[v.local_port[l[j]]] = l[j]
      BY <1>2 DEF HolderOK
    <3>4. v.local_port[l[j]] # h
      BY <1>3, <3>2, <3>3
    <3> QED BY <1>4, <3>1, <3>3, <3>4
  <2> QED BY <2>1, <2>2 DEF HolderOK
<1>7. /\ Push(f, n, l[i]) \in [1 .. n + 1 -> Elements]
      /\ Cut(l, m, i) \in [1 .. m - 1 -> Elements]
      /\ n + 1 \in 0 .. NPcb /\ m - 1 \in 0 .. NPcb
  BY <1>4 DEF PoolOK, List
<1>8. Owned(r, H \ {h}, held2)
  BY <1>4, <1>6, <1>7 DEF Owned
<1>9. r.memp_tab = l[i] /\ l[i] \in Elements
  <2>1. 1 \in 1 .. n + 1 /\ Push(f, n, l[i])[1] = l[i]
    BY <1>5 DEF Push
  <2>2. r.memp_tab = Item(Push(f, n, l[i]), n + 1, 1)
    BY <1>4 DEF PoolOK, List
  <2> QED BY <1>5, <2>1, <2>2 DEF Item
<1> QED BY <1>3, <1>4, <1>8, <1>9 DEF r

\* With at most one holder the pool is not empty.
LEMMA OwnedRoom ==
    ASSUME NEW v, NEW H, NEW held, Owned(v, H, held), NPcb > 1,
           \A g, h \in H : g = h
    PROVE  v.memp_tab # NULL
<1> USE NPcbAssumption
<1>1. PICK n \in 0 .. NPcb, m \in 0 .. NPcb : 
         \E f \in [1 .. n -> Elements], l \in [1 .. m -> Elements] :
            PoolOK(v, f, n, l, m) /\ HolderOK(v, l, m, H, held)
  BY DEF Owned
<1>2. PICK f \in [1 .. n -> Elements], l \in [1 .. m -> Elements] :
         PoolOK(v, f, n, l, m) /\ HolderOK(v, l, m, H, held)
  BY <1>1
<1>3. m <= 1
  <2> SUFFICES ASSUME m > 1 PROVE FALSE
    OBVIOUS
  <2>1. 1 \in 1 .. m /\ 2 \in 1 .. m
    OBVIOUS
  <2>2. v.local_port[l[1]] \in H /\ v.local_port[l[2]] \in H
        /\ held[v.local_port[l[1]]] = l[1] /\ held[v.local_port[l[2]]] = l[2]
    BY <1>2, <2>1 DEF HolderOK
  <2>3. l[1] = l[2]
    BY <2>2
  <2> QED BY <1>2, <2>1, <2>3 DEF PoolOK, List
<1>4. n >= 1
  BY <1>2, <1>3 DEF PoolOK
<1>5. 1 \in 1 .. n
  BY <1>4
<1> QED BY <1>2, <1>4, <1>5 DEF PoolOK, List, Item, Elements, NULL

\* Whom udp_input finds for a port.
LEMMA OwnedReceivers ==
    ASSUME NEW v, NEW H, NEW held, Owned(v, H, held), NEW port
    PROVE  Receivers(v, port) # {} <=> port \in H
<1>1. PICK n \in 0 .. NPcb, m \in 0 .. NPcb : 
         \E f \in [1 .. n -> Elements], l \in [1 .. m -> Elements] :
            PoolOK(v, f, n, l, m) /\ HolderOK(v, l, m, H, held)
  BY DEF Owned
<1>2. PICK f \in [1 .. n -> Elements], l \in [1 .. m -> Elements] :
         PoolOK(v, f, n, l, m) /\ HolderOK(v, l, m, H, held)
  BY <1>1
<1>3. Listed(v) = {l[k] : k \in 1 .. m}
  BY <1>2, PoolLists
<1>4. ASSUME NEW p \in Receivers(v, port) PROVE port \in H
  BY <1>2, <1>3 DEF Receivers, HolderOK
<1>5. ASSUME port \in H PROVE held[port] \in Receivers(v, port)
  <2>1. PICK k \in 1 .. m : l[k] = held[port]
    BY <1>2, <1>5 DEF HolderOK
  <2>2. v.word[l[k]] = NULL /\ v.local_port[l[k]] = port
    BY <1>2, <1>5, <2>1 DEF PoolOK, HolderOK
  <2> QED BY <1>3, <2>1, <2>2 DEF Receivers
<1> QED BY <1>4, <1>5

\* A holder's pcb can send, from the holder's port.
LEMMA OwnedSends ==
    ASSUME NEW v, NEW H, NEW held, Owned(v, H, held), NEW h \in H
    PROVE  CanSend(v, held[h]) /\ v.local_port[held[h]] = h
<1>1. PICK n \in 0 .. NPcb, m \in 0 .. NPcb : 
         \E f \in [1 .. n -> Elements], l \in [1 .. m -> Elements] :
            PoolOK(v, f, n, l, m) /\ HolderOK(v, l, m, H, held)
  BY DEF Owned
<1>2. PICK f \in [1 .. n -> Elements], l \in [1 .. m -> Elements] :
         PoolOK(v, f, n, l, m) /\ HolderOK(v, l, m, H, held)
  BY <1>1
<1>3. PICK k \in 1 .. m : l[k] = held[h]
  BY <1>2 DEF HolderOK
<1> QED BY <1>2, <1>3 DEF PoolOK, HolderOK, CanSend

\* The pool as OnePcbPerConnection sees it.
LEMMA OwnedCount ==
    ASSUME NEW v, NEW H, NEW held, Owned(v, H, held)
    PROVE  /\ Free(v) \cap Listed(v) = {}
           /\ \A h \in H : held[h] \in Listed(v) /\ v.local_port[held[h]] = h
           /\ Cardinality(Free(v)) = NPcb - Cardinality(H)
<1> USE NPcbAssumption
<1>1. PICK n \in 0 .. NPcb, m \in 0 .. NPcb : 
         \E f \in [1 .. n -> Elements], l \in [1 .. m -> Elements] :
            PoolOK(v, f, n, l, m) /\ HolderOK(v, l, m, H, held)
  BY DEF Owned
<1>2. PICK f \in [1 .. n -> Elements], l \in [1 .. m -> Elements] :
         PoolOK(v, f, n, l, m) /\ HolderOK(v, l, m, H, held)
  BY <1>1
<1>3. Free(v) = {f[k] : k \in 1 .. n} /\ Listed(v) = {l[k] : k \in 1 .. m}
  BY <1>2, PoolLists
<1>4. Free(v) \cap Listed(v) = {}
  BY <1>2, <1>3 DEF PoolOK
<1>5. \A h \in H : held[h] \in Listed(v) /\ v.local_port[held[h]] = h
  BY <1>2, <1>3 DEF HolderOK
<1>6. Cardinality(Free(v)) = n
  <2>1. f \in [1 .. n -> Free(v)]
    BY <1>3
  <2>2. f \in Injection(1 .. n, Free(v))
    BY <1>2, <2>1 DEF PoolOK, List, Injection, IsInjective
  <2>3. f \in Surjection(1 .. n, Free(v))
    <3>1. \A x \in Free(v) : \E k \in 1 .. n : f[k] = x
      BY <1>3
    <3> QED BY <2>1, <3>1 DEF Surjection
  <2>4. ExistsBijection(1 .. n, Free(v))
    BY <2>2, <2>3 DEF ExistsBijection, Bijection
  <2>5. n \in Nat
    OBVIOUS
  <2> QED BY <2>4, <2>5, FS_CountingElements
<1>7. Cardinality(H) = m
  <2> DEFINE g == [k \in 1 .. m |-> v.local_port[l[k]]]
  <2>1. g \in [1 .. m -> H]
    BY <1>2 DEF HolderOK
  <2>2. \A j, k \in 1 .. m : g[j] = g[k] => j = k
    <3> SUFFICES ASSUME NEW j \in 1 .. m, NEW k \in 1 .. m, g[j] = g[k] PROVE j = k
      OBVIOUS
    <3>1. v.local_port[l[j]] = v.local_port[l[k]]
      OBVIOUS
    <3>2. l[j] = l[k]
      BY <1>2, <3>1 DEF HolderOK
    <3> QED BY <1>2, <3>2 DEF PoolOK, List
  <2>3. \A h \in H : \E k \in 1 .. m : g[k] = h
    BY <1>2 DEF HolderOK
  <2> HIDE DEF g
  <2>4. g \in Injection(1 .. m, H)
    BY <2>1, <2>2 DEF Injection, IsInjective
  <2>5. g \in Surjection(1 .. m, H)
    BY <2>1, <2>3 DEF Surjection
  <2>6. ExistsBijection(1 .. m, H)
    BY <2>4, <2>5 DEF ExistsBijection, Bijection
  <2>7. m \in Nat
    OBVIOUS
  <2> QED BY <2>6, <2>7, FS_CountingElements
<1>8. n = NPcb - m
  BY <1>2 DEF PoolOK
<1> QED BY <1>4, <1>5, <1>6, <1>7, <1>8

-----------------------------------------------------------------------------
(* Types, and the datagrams under way.                                     *)

Messages ==
    {Rrq(t) : t \in Transfers} \cup {Other(t, size) : t \in Transfers, size \in Sizes}
      \cup {Data(t, b) : t \in Transfers, b \in 1 .. Blocks}
      \cup {Ack(t, b, s) : t \in Transfers, b \in 1 .. Blocks, s \in Nat}

TypeOK ==
    /\ u \in Pool
    /\ tftp_upcb \in Pointers /\ dhcp_pcb \in Pointers
    /\ file_size \in Nat /\ halted = FALSE
    /\ net \subseteq Messages
    /\ srv \in [Transfers -> 0 .. GaveUp]
    /\ issued \in [Transfers -> Pointers]
    /\ done \subseteq Transfers /\ cut \subseteq done
    /\ got \in [Transfers -> SUBSET (1 .. Blocks)]
    /\ losses \in Nat /\ repeats \in Nat /\ strays \in Nat

\* Blocks and their lengths: all but the last are full.
LEMMA BlockFacts ==
    /\ Blocks \in Nat \ {0}
    /\ GaveUp \in Nat /\ GaveUp # 0 /\ GaveUp \notin 1 .. Blocks
    /\ \A b \in 1 .. Blocks : b <= GaveUp
    /\ FileSize % Block \in 0 .. Block - 1
    /\ FileSize = Block * (Blocks - 1) + (FileSize % Block)
    /\ \A b \in 1 .. Blocks : Length(b) \in 0 .. Block /\ (Length(b) < Block <=> b = Blocks)
<1> USE TftpAssumption
<1>1. FileSize \div Block \in Nat /\ FileSize % Block \in 0 .. Block - 1
  OBVIOUS
<1>2. FileSize = Block * (FileSize \div Block) + (FileSize % Block)
  OBVIOUS
<1>3. Blocks \in Nat \ {0} /\ Blocks - 1 = FileSize \div Block
  BY <1>1 DEF Blocks
<1>4. \A b \in 1 .. Blocks : Length(b) \in 0 .. Block /\ (Length(b) < Block <=> b = Blocks)
  BY <1>1, <1>3 DEF Length
<1>5. /\ GaveUp \in Nat /\ GaveUp # 0 /\ GaveUp \notin 1 .. Blocks
      /\ \A b \in 1 .. Blocks : b <= GaveUp
  BY <1>3 DEF GaveUp
<1> QED BY <1>1, <1>2, <1>3, <1>4, <1>5

\* What a datagram of each kind is.
LEMMA MessageFacts ==
    ASSUME NEW m \in Messages
    PROVE  /\ m.port \in Transfers
           /\ m.kind = "RRQ" => m = Rrq(m.port)
           /\ m.kind = "OTHER" => m.size \in Sizes /\ m = Other(m.port, m.size)
           /\ m.kind = "DATA" => m.block \in 1 .. Blocks /\ m = Data(m.port, m.block)
           /\ m.kind = "ACK" => /\ m.block \in 1 .. Blocks /\ m.src \in Nat
                                /\ m = Ack(m.port, m.block, m.src)
<1>1. CASE m \in {Rrq(t) : t \in Transfers}
  BY <1>1 DEF Rrq
<1>2. CASE m \in {Other(t, size) : t \in Transfers, size \in Sizes}
  BY <1>2 DEF Other
<1>3. CASE m \in {Data(t, b) : t \in Transfers, b \in 1 .. Blocks}
  BY <1>3 DEF Data
<1>4. CASE m \in {Ack(t, b, s) : t \in Transfers, b \in 1 .. Blocks, s \in Nat}
  BY <1>4 DEF Ack
<1> QED BY <1>1, <1>2, <1>3, <1>4 DEF Messages

\* Datagrams of different kinds, or for different transfers, are different.
LEMMA MessagesDiffer ==
    ASSUME NEW t, NEW b, NEW s, NEW f, NEW t2, NEW b2, NEW s2
    PROVE  /\ Rrq(t) # Data(t2, b2) /\ Rrq(t) # Ack(t2, b2, s2)
           /\ Data(t, b) # Ack(t2, b2, s2)
           /\ Rrq(t) = Rrq(t2) => t = t2
           /\ Data(t, b) = Data(t2, b2) => t = t2 /\ b = b2
           /\ Ack(t, b, s) = Ack(t2, b2, s2) => t = t2 /\ b = b2 /\ s = s2
           /\ Rrq(t).port = t /\ Other(t, f).port = t
           /\ Data(t, b).port = t /\ Ack(t, b, s).port = t
           /\ Rrq(t).kind = "RRQ" /\ Other(t, f).kind = "OTHER"
           /\ Data(t, b).kind = "DATA" /\ Ack(t, b, s).kind = "ACK"
BY DEF Rrq, Other, Data, Ack

-----------------------------------------------------------------------------
(* The board: who holds which pcb.                                          *)

Owners == [h \in Holders |-> Held(h)]

BoardInv == Owned(u, Holders, Owners)

\* Ports are handed out in order, and only the latest transfer may be running.
TransferInv ==
    /\ u.udp_port \in 0 .. MaxTransfers
    /\ \A t \in Transfers : issued[t] # NULL <=> t <= u.udp_port
    /\ \A t \in Transfers : t < u.udp_port => t \in done
    /\ \A t \in done : t <= u.udp_port
    /\ \A t \in Running : tftp_upcb = issued[t]

Base == TypeOK /\ TransferInv /\ BoardInv

\* The user waits, and the pool has a pcb besides the DHCP client's
\* (MEMP_NUM_UDP_PCB, lwipopts.h:68, is 6).
Patient == ~Impatient /\ NPcb > 1

\* Holders by name.
LEMMA HolderFacts ==
    /\ 0 \notin Holders
    /\ DHCP_CLIENT_PORT \in Nat \ {0} /\ DHCP_CLIENT_PORT \notin Transfers
    /\ DHCP_CLIENT_PORT \in Holders <=> dhcp_pcb # NULL
    /\ \A t \in Transfers : (t \in Holders <=> t \in Running) /\ Held(t) = issued[t]
    /\ Held(DHCP_CLIENT_PORT) = dhcp_pcb
    /\ \A h \in Holders : h \in Running \/ h = DHCP_CLIENT_PORT
    /\ \A h \in Holders : Owners[h] = Held(h)
<1> USE TftpAssumption
<1>1. DHCP_CLIENT_PORT \in Nat \ {0} /\ DHCP_CLIENT_PORT \notin Transfers /\ 0 \notin Transfers
  BY DEF DHCP_CLIENT_PORT, Transfers
<1>2. Running \subseteq Transfers
  BY DEF Running
<1>3. \A h \in Holders : h \in Running \/ h = DHCP_CLIENT_PORT
  BY DEF Holders
<1>4. \A t \in Transfers : (t \in Holders <=> t \in Running) /\ Held(t) = issued[t]
  BY <1>1 DEF Holders, Held
<1>5. DHCP_CLIENT_PORT \in Holders <=> dhcp_pcb # NULL
  BY <1>1, <1>2 DEF Holders
<1>6. Held(DHCP_CLIENT_PORT) = dhcp_pcb
  BY DEF Held
<1>7. \A h \in Holders : Owners[h] = Held(h)
  BY DEF Owners
<1> QED BY <1>1, <1>2, <1>3, <1>4, <1>5, <1>6, <1>7

\* udp_input finds a pcb for a transfer only while it runs; it is the latest
\* one, and its pcb is the one that tftp_ack and tftp_deinit use.
LEMMA RunningFacts ==
    ASSUME TransferInv, NEW t \in Running
    PROVE  t \in Transfers /\ t = u.udp_port /\ t \notin done /\ tftp_upcb = issued[t]
<1>1. t \in Transfers /\ t \notin done /\ issued[t] # NULL
  BY DEF Running
<1>2. t <= u.udp_port /\ ~(t < u.udp_port)
  BY <1>1 DEF TransferInv
<1>3. t = u.udp_port
  BY <1>1, <1>2, TftpAssumption DEF TransferInv, Transfers
<1> QED BY <1>1, <1>3 DEF TransferInv

\* The pcb of the running transfer is bound to its port.
LEMMA ReceiverFacts ==
    ASSUME Base, NEW t \in Transfers
    PROVE  /\ Receivers(u, t) # {} <=> t \in Running
           /\ t \in Running => /\ CanSend(u, tftp_upcb)
                               /\ u.local_port[tftp_upcb] = t
                               /\ tftp_upcb = Owners[t] /\ t \in Holders
<1>1. Receivers(u, t) # {} <=> t \in Holders
  BY OwnedReceivers DEF Base, BoardInv
<1>2. t \in Holders <=> t \in Running
  BY HolderFacts
<1>3. ASSUME t \in Running
      PROVE  /\ CanSend(u, tftp_upcb)
             /\ u.local_port[tftp_upcb] = t
             /\ tftp_upcb = Owners[t] /\ t \in Holders
  <2>1. tftp_upcb = issued[t]
    BY <1>3, RunningFacts DEF Base
  <2>2. t \in Holders /\ Owners[t] = issued[t]
    BY <1>3, HolderFacts
  <2>3. CanSend(u, Owners[t]) /\ u.local_port[Owners[t]] = t
    BY <2>2, OwnedSends DEF Base, BoardInv
  <2> QED BY <2>1, <2>2, <2>3
<1> QED BY <1>1, <1>2, <1>3

\* The start: nothing is held.
LEMMA InitBase == Init => Base
<1> USE TftpAssumption, NPcbAssumption
<1> SUFFICES ASSUME Init PROVE Base
  OBVIOUS
<1>1. PoolInit.udp_port = 0
  BY DEF PoolInit
<1>2. PoolInit \in Pool
  BY OwnedInit DEF Owned, PoolOK
<1>3. TypeOK
  <2>1. 0 \in 0 .. GaveUp
    BY BlockFacts
  <2> QED BY <1>2, <2>1 DEF Init, TypeOK, Pointers, NULL
<1>4. Running = {} /\ Holders = {}
  BY DEF Init, Running, Holders, NULL
<1>5. TransferInv
  BY <1>1, <1>4 DEF Init, TransferInv, Transfers, NULL
<1>6. BoardInv
  BY <1>4, OwnedInit DEF BoardInv, Init
<1> QED BY <1>3, <1>5, <1>6 DEF Base

\* Steps that leave the holders and their pcbs alone.
LEMMA BoardUntouched ==
    ASSUME TransferInv, BoardInv, UNCHANGED <<u, tftp_upcb, dhcp_pcb, issued, done>>
    PROVE  TransferInv' /\ BoardInv'
<1>1. Running' = Running
  BY DEF Running
<1>2. Holders' = Holders /\ \A h : Held(h)' = Held(h)
  BY <1>1 DEF Holders, Held
<1>3. Owners' = Owners
  BY <1>2 DEF Owners
<1>4. BoardInv'
  BY <1>2, <1>3 DEF BoardInv
<1>5. TransferInv'
  BY <1>1 DEF TransferInv
<1> QED BY <1>4, <1>5

\* A pool with owners is a pool.
LEMMA OwnedPool ==
    ASSUME NEW v, NEW H, NEW held, Owned(v, H, held)
    PROVE  v \in Pool
BY DEF Owned, PoolOK

\* The command: no transfer runs, so that the DHCP client holds at most one pcb
\* and there is another.
LEMMA TftpFacts ==
    ASSUME Patient, Base, tftp
    PROVE  /\ Fresh(u) \in Elements /\ u' = Bind(New(u), Fresh(u), 0)
           /\ NextTransfer = u.udp_port + 1 /\ u'.udp_port = NextTransfer
           /\ NextTransfer \in Transfers
           /\ net' = net \cup {Rrq(NextTransfer)}
           /\ issued' = [issued EXCEPT ![NextTransfer] = Fresh(u)]
           /\ halted' = halted
           /\ \A t \in Transfers : t <= u.udp_port => t \in done
           /\ TransferInv' /\ BoardInv'
<1> USE TftpAssumption, NPcbAssumption
<1>0. PICK t : t = NextTransfer
  OBVIOUS
<1>1. t = u.udp_port + 1 /\ t \in Transfers
  BY <1>0 DEF tftp, NextTransfer, NewPort
<1>2. \A s \in Transfers : issued[s] = NULL \/ s \in done
  BY DEF tftp, Patient
<1>3. Running = {}
  BY <1>2 DEF Running
<1>4. \A g, h \in Holders : g = h
  BY <1>3, HolderFacts
<1>5. u.memp_tab # NULL
  BY <1>4, OwnedRoom DEF Base, BoardInv, Patient
<1>6. /\ u' = Bind(New(u), Fresh(u), 0)
      /\ net' = net \cup {Rrq(t)}
      /\ issued' = [issued EXCEPT ![t] = Fresh(u)]
      /\ halted' = halted /\ tftp_upcb' = Fresh(u) /\ dhcp_pcb' = dhcp_pcb /\ done' = done
  BY <1>0, <1>5 DEF tftp, Fresh
<1>7. issued[t] = NULL /\ t \notin done /\ t \notin Holders /\ t \in Nat \ {0}
  <2>1. u.udp_port \in Nat /\ ~(t <= u.udp_port)
    BY <1>1 DEF Base, TransferInv
  <2>2. issued[t] = NULL /\ t \notin done
    BY <1>1, <2>1 DEF Base, TransferInv
  <2>3. t \notin Holders
    BY <1>1, <1>3, HolderFacts
  <2> QED BY <1>1, <2>1, <2>2, <2>3
<1>8. issued \in [Transfers -> Pointers]
  BY DEF Base, TypeOK
<1>9. issued'[t] = Fresh(u) /\ \A s \in Transfers \ {t} : issued'[s] = issued[s]
  BY <1>1, <1>6, <1>8
<1>10. Running' = {t}
  <2>1. t \in Running'
    BY <1>1, <1>5, <1>6, <1>7, <1>9 DEF Running, Fresh
  <2>2. \A s \in Running' : s = t
    BY <1>2, <1>6, <1>9 DEF Running
  <2> QED BY <2>1, <2>2
<1>11. Holders' = Holders \cup {t}
  BY <1>3, <1>6, <1>10 DEF Holders
<1>12. Owners'[t] = u.memp_tab /\ \A g \in Holders : Owners'[g] = Owners[g]
  <2>1. \A g \in Holders \cup {t} : Owners'[g] = Held(g)'
    BY <1>11 DEF Owners
  <2>2. Held(t)' = u.memp_tab
    BY <1>1, <1>9, HolderFacts DEF Held, Fresh
  <2>3. \A g \in Holders : g = DHCP_CLIENT_PORT /\ Held(g)' = Held(g) /\ Owners[g] = Held(g)
    BY <1>3, <1>6, HolderFacts DEF Held
  <2> QED BY <2>1, <2>2, <2>3
<1>13. 0 \notin Holders
  BY HolderFacts
<1>14. /\ Owned(u', Holders \cup {t}, Owners')
       /\ u'.udp_port = t /\ u.memp_tab \in Elements
  <2>1. Owned(u, Holders, Owners)
    BY DEF Base, BoardInv
  <2>2. t = IF 0 = 0 THEN u.udp_port + 1 ELSE 0
    BY <1>1
  <2> DEFINE b == Bind(New(u), Fresh(u), 0)
  <2>3. Owned(b, Holders \cup {t}, Owners') /\ b.udp_port = t /\ u.memp_tab \in Elements
    <3>1. PICK v, H, o, w : v = u /\ H = Holders /\ o = Owners /\ w = Owners'
      OBVIOUS
    <3>2. /\ Owned(v, H, o) /\ 0 \notin H /\ v.memp_tab # NULL
          /\ t \in Nat \ {0} /\ t \notin H
          /\ t = (IF 0 = 0 THEN v.udp_port + 1 ELSE 0)
          /\ w[t] = v.memp_tab /\ \A g \in H : w[g] = o[g]
      BY <1>5, <1>7, <1>12, <1>13, <2>1, <2>2, <3>1
    <3>3. LET c == Bind(New(v), Fresh(v), 0)
          IN  Owned(c, H \cup {t}, w) /\ c.udp_port = t /\ v.memp_tab \in Elements
      <4>1. 0 \in Nat
        OBVIOUS
      <4> QED BY <3>2, <4>1, OwnedBind
    <3> QED BY <3>1, <3>3
  <2> QED BY <1>6, <2>3
<1>15. BoardInv'
  BY <1>11, <1>14 DEF BoardInv
<1>16. \A s \in Transfers : s <= u.udp_port => s \in done
  BY <1>2 DEF Base, TransferInv
<1>17. TransferInv'
  <2>1. u'.udp_port \in 0 .. MaxTransfers
    BY <1>1, <1>14 DEF Transfers
  <2>2. u.udp_port \in Nat /\ u'.udp_port = u.udp_port + 1
    BY <1>1, <1>14 DEF Base, TransferInv
  <2>3. ASSUME NEW s \in Transfers
        PROVE  /\ issued'[s] # NULL <=> s <= u'.udp_port
               /\ s < u'.udp_port => s \in done'
               /\ s \in done' => s <= u'.udp_port
    <3>1. s \in Nat /\ (s <= u.udp_port + 1 <=> s <= u.udp_port \/ s = u.udp_port + 1)
          /\ (s < u.udp_port + 1 <=> s <= u.udp_port)
      BY <2>2 DEF Transfers
    <3>2. CASE s = t
      <4>1. issued'[s] # NULL
        BY <1>5, <1>9, <3>2 DEF Fresh
      <4>2. s = u'.udp_port
        BY <1>14, <3>2
      <4> QED BY <3>1, <4>1, <4>2
    <3>3. CASE s # t
      <4>1. issued'[s] = issued[s] /\ s # u.udp_port + 1
        BY <1>1, <1>9, <3>3
      <4>2. (issued[s] # NULL <=> s <= u.udp_port) /\ (s \in done => s <= u.udp_port)
        BY DEF Base, TransferInv
      <4> QED BY <1>6, <1>16, <2>2, <3>1, <4>1, <4>2
    <3> QED BY <3>2, <3>3
  <2>4. \A s \in done' : s \in Transfers
    BY <1>6 DEF Base, TypeOK
  <2>5. \A s \in Running' : tftp_upcb' = issued'[s]
    BY <1>6, <1>9, <1>10
  <2> QED BY <2>1, <2>3, <2>4, <2>5 DEF TransferInv
<1> QED BY <1>0, <1>1, <1>6, <1>14, <1>15, <1>16, <1>17 DEF Fresh

\* tftp_deinit at the end of the running transfer t.
LEMMA DeinitStep ==
    ASSUME Base, NEW t \in Running, tftp_deinit, done' = done \cup {t},
           UNCHANGED <<tftp_upcb, dhcp_pcb, issued>>
    PROVE  u'.udp_port = u.udp_port /\ TransferInv' /\ BoardInv'
<1> USE TftpAssumption, NPcbAssumption
<1>1. t \in Transfers /\ t = u.udp_port /\ t \notin done
  BY RunningFacts DEF Base
<1>2. tftp_upcb = Owners[t] /\ t \in Holders
  BY <1>1, ReceiverFacts
<1>3. Running' = Running \ {t}
  BY DEF Running
<1>4. Holders' = Holders \ {t}
  <2>1. t # DHCP_CLIENT_PORT
    BY <1>1, HolderFacts
  <2> QED BY <1>3, <2>1 DEF Holders
<1>5. \A g \in Holders \ {t} : Owners'[g] = Owners[g]
  BY <1>4 DEF Owners, Held
<1>6. Owned(u', Holders \ {t}, Owners') /\ u'.udp_port = u.udp_port
  <2>1. u' = Remove(u, Owners[t])
    BY <1>2 DEF tftp_deinit
  <2>2. Owned(u, Holders, Owners)
    BY DEF Base, BoardInv
  <2> DEFINE r == Remove(u, Owners[t])
  <2>3. Owned(r, Holders \ {t}, Owners') /\ r.udp_port = u.udp_port
    <3> HIDE DEF r
    <3> QED BY <1>2, <1>5, <2>2, OwnedRemove DEF r
  <2> QED BY <2>1, <2>3
<1>7. BoardInv'
  BY <1>4, <1>6 DEF BoardInv
<1>8. TransferInv'
  <2>1. \A s \in Running' : s \in Running
    BY <1>3
  <2>2. t <= u.udp_port
    BY <1>1 DEF Base, TransferInv
  <2> QED BY <1>6, <2>1, <2>2 DEF Base, TransferInv
<1> QED BY <1>6, <1>7, <1>8

\* dhcp_start and dhcp_stop release the client's pcb and may take another.
LEMMA DhcpStep ==
    ASSUME Base, DhcpStart \/ DhcpStop
    PROVE  /\ u'.udp_port = u.udp_port /\ dhcp_pcb' \in Pointers
           /\ TransferInv' /\ BoardInv'
<1> USE TftpAssumption, NPcbAssumption
<1> DEFINE D == DHCP_CLIENT_PORT
           H == Holders \ {D}
           freed == IF dhcp_pcb = NULL THEN u ELSE Remove(u, dhcp_pcb)
<1>1. UNCHANGED <<issued, done, tftp_upcb>>
  BY DEF DhcpStart, DhcpStop, history
<1>2. Running' = Running /\ D \notin Running
  <2>1. Running' = Running
    BY <1>1 DEF Running
  <2> QED BY <2>1, HolderFacts DEF Running
<1>3. H = Running /\ \A g \in H : g # D /\ Owners[g] = issued[g]
  <2>1. H = Running
    BY <1>2 DEF Holders
  <2>2. \A g \in Running : g \in Holders /\ g # D /\ Held(g) = issued[g]
    BY <1>2 DEF Holders, Held
  <2> QED BY <2>1, <2>2, HolderFacts
<1>4. Holders' = H \cup {c \in {D} : dhcp_pcb' # NULL}
  BY <1>2, <1>3 DEF Holders
<1>5. /\ \A g \in H : Owners'[g] = Owners[g]
      /\ dhcp_pcb' # NULL => Owners'[D] = dhcp_pcb'
  <2>1. \A g \in H : Held(g)' = issued[g]
    BY <1>1, <1>3 DEF Held
  <2>2. Held(D)' = dhcp_pcb'
    BY DEF Held, DHCP_CLIENT_PORT
  <2>3. \A g \in Holders' : Owners'[g] = Held(g)'
    BY DEF Owners
  <2> HIDE DEF H, D
  <2> QED BY <1>3, <1>4, <2>1, <2>2, <2>3
<1>6. Owned(freed, H, Owners') /\ freed.udp_port = u.udp_port
  <2>1. Owned(u, Holders, Owners)
    BY DEF Base, BoardInv
  <2>2. CASE dhcp_pcb = NULL
    <3>1. H = Holders
      BY <2>2, HolderFacts
    <3>2. \A g \in Holders : Owners'[g] = Owners[g]
      BY <1>5, <3>1
    <3>3. Owned(u, Holders, Owners')
      <4>1. ASSUME NEW l, NEW m, HolderOK(u, l, m, Holders, Owners)
            PROVE  HolderOK(u, l, m, Holders, Owners')
        BY <3>2, <4>1 DEF HolderOK
      <4> QED BY <2>1, <4>1 DEF Owned
    <3> QED BY <2>2, <3>1, <3>3
  <2>3. CASE dhcp_pcb # NULL
    <3>1. D \in Holders /\ Owners[D] = dhcp_pcb
      BY <2>3, HolderFacts
    <3> DEFINE r == Remove(u, Owners[D])
    <3>2. Owned(r, Holders \ {D}, Owners') /\ r.udp_port = u.udp_port
      <4>1. \A g \in Holders \ {D} : Owners'[g] = Owners[g]
        BY <1>5
      <4>2. PICK d : d = D
        OBVIOUS
      <4>3. /\ d \in Holders /\ \A g \in Holders \ {d} : Owners'[g] = Owners[g]
            /\ r = Remove(u, Owners[d])
        BY <3>1, <4>1, <4>2
      <4> HIDE DEF r, D, H
      <4>4. PICK o : o = Owners'
        OBVIOUS
      <4>5. \A g \in Holders \ {d} : o[g] = Owners[g]
        BY <4>3, <4>4
      <4>6. Owned(Remove(u, Owners[d]), Holders \ {d}, o)
        BY <2>1, <4>3, <4>5, OwnedRemove
      <4>7. Remove(u, Owners[d]).udp_port = u.udp_port
        BY OwnedPool, <2>1 DEF Remove, Pool
      <4> QED BY <4>2, <4>3, <4>4, <4>6, <4>7
    <3> QED BY <2>3, <3>1, <3>2
  <2> QED BY <2>2, <2>3
<1>7. freed \in Pool
  BY <1>6, OwnedPool
<1> HIDE DEF freed, H
<1>8. /\ Owned(u', Holders', Owners') /\ u'.udp_port = u.udp_port
      /\ dhcp_pcb' \in Pointers
  <2>1. CASE DhcpStop
    <3>1. u' = freed /\ dhcp_pcb' = NULL
      BY <2>1 DEF DhcpStop, freed
    <3>2. Holders' = H
      BY <1>4, <3>1
    <3> QED BY <1>6, <3>1, <3>2 DEF Pointers, NULL
  <2>2. CASE DhcpStart /\ Fresh(freed) = NULL
    <3>1. u' = freed /\ dhcp_pcb' = NULL
      BY <2>2 DEF DhcpStart, freed
    <3>2. Holders' = H
      BY <1>4, <3>1
    <3> QED BY <1>6, <3>1, <3>2 DEF Pointers, NULL
  <2>3. CASE DhcpStart /\ Fresh(freed) # NULL
    <3>1. u' = Bind(New(freed), Fresh(freed), D) /\ dhcp_pcb' = freed.memp_tab
      BY <2>3 DEF DhcpStart, freed, Fresh
    <3>2. freed.memp_tab # NULL /\ freed.memp_tab \in Pointers
      BY <1>7, <2>3 DEF Fresh, Pool
    <3>3. D \in Nat \ {0} /\ D \notin H /\ 0 \notin H
      BY HolderFacts DEF H
    <3>4. D = IF D = 0 THEN freed.udp_port + 1 ELSE D
      BY <3>3
    <3>5. Owners'[D] = freed.memp_tab
      BY <1>5, <3>1, <3>2
    <3> DEFINE b == Bind(New(freed), Fresh(freed), D)
    <3>6. Owned(b, H \cup {D}, Owners')
          /\ b.udp_port = IF D = 0 THEN D ELSE freed.udp_port
      <4>1. D \in Nat /\ \A g \in H : Owners'[g] = Owners'[g]
        BY <3>3
      <4> HIDE DEF b, D
      <4> QED BY <1>6, <3>2, <3>3, <3>4, <3>5, <4>1, OwnedBind DEF b
    <3>7. Holders' = H \cup {D}
      BY <1>4, <3>1, <3>2
    <3> HIDE DEF D
    <3> QED BY <1>6, <3>1, <3>2, <3>3, <3>6, <3>7
  <2> QED BY <2>1, <2>2, <2>3
<1>9. TransferInv'
  BY <1>1, <1>2, <1>8 DEF Base, TransferInv
<1> QED BY <1>8, <1>9 DEF BoardInv

\* What a received datagram does to the pcbs.
LEMMA RecvBoard ==
    ASSUME Base, NEW m \in net, RecvData(m) \/ RecvOther(m) \/ RecvUnreachable(m)
    PROVE  u'.udp_port = u.udp_port /\ TransferInv' /\ BoardInv'
<1>1. m.port \in Transfers
  BY MessageFacts DEF Base, TypeOK
<1>2. UNCHANGED <<tftp_upcb, dhcp_pcb, issued>>
  BY DEF RecvData, RecvOther, RecvUnreachable, Deliver
<1>3. CASE UNCHANGED <<u, done>>
  BY <1>2, <1>3, BoardUntouched DEF Base
<1>4. CASE /\ Receivers(u, m.port) # {}
           /\ tftp_deinit /\ done' = done \cup {m.port}
  <2>1. m.port \in Running
    BY <1>1, <1>4, ReceiverFacts
  <2> QED BY <1>2, <1>4, <2>1, DeinitStep
<1> QED BY <1>3, <1>4 DEF RecvData, RecvOther, RecvUnreachable

\* The answer to a DATA datagram is an ACK from the transfer's own port.
LEMMA AckFacts ==
    ASSUME Base, NEW m \in net, m.kind = "DATA", Receivers(u, m.port) # {}
    PROVE  /\ m.port \in Running /\ m.port \in Transfers /\ m.block \in 1 .. Blocks
           /\ m = Data(m.port, m.block)
           /\ tftp_ack(m) = {Ack(m.port, m.block, m.port)}
<1>1. m.port \in Transfers /\ m.block \in 1 .. Blocks /\ m = Data(m.port, m.block)
  BY MessageFacts DEF Base, TypeOK
<1>2. m.port \in Running
  BY <1>1, ReceiverFacts
<1>3. CanSend(u, tftp_upcb) /\ u.local_port[tftp_upcb] = m.port
  BY <1>1, <1>2, ReceiverFacts
<1> QED BY <1>1, <1>2, <1>3 DEF tftp_ack

\* Datagrams that the actions send.
LEMMA MessagesIn ==
    ASSUME NEW t \in Transfers
    PROVE  /\ Rrq(t) \in Messages /\ (\A size \in Sizes : Other(t, size) \in Messages)
           /\ \A b \in 1 .. Blocks : Data(t, b) \in Messages
           /\ \A b \in 1 .. Blocks, s \in Nat : Ack(t, b, s) \in Messages
BY DEF Messages

\* Every step keeps the pcbs with their holders.
LEMMA BaseNext == Patient /\ Base /\ [Next]_vars => Base'
<1> USE TftpAssumption, NPcbAssumption
<1> SUFFICES ASSUME Patient, Base, [Next]_vars PROVE Base'
  OBVIOUS
<1>0. /\ TypeOK /\ TransferInv /\ BoardInv
      /\ Transfers \subseteq Nat
  BY DEF Base, Transfers
<1>pool. ASSUME BoardInv' PROVE u' \in Pool
  BY <1>pool, OwnedPool DEF BoardInv
<1>1. CASE tftp
  <2>1. /\ TransferInv' /\ BoardInv' /\ Fresh(u) \in Elements /\ halted' = halted
        /\ NextTransfer \in Transfers
        /\ net' = net \cup {Rrq(NextTransfer)}
        /\ issued' = [issued EXCEPT ![NextTransfer] = Fresh(u)]
    BY <1>1, TftpFacts
  <2>2. UNCHANGED <<dhcp_pcb, srv, done, cut, got, losses, repeats, strays>> /\ file_size' = 0
        /\ tftp_upcb' = Fresh(u)
    BY <1>1 DEF tftp, budget
  <2>3. net' \subseteq Messages
    BY <1>0, <2>1, MessagesIn DEF TypeOK
  <2>4. issued' \in [Transfers -> Pointers] /\ tftp_upcb' \in Pointers
    BY <1>0, <2>1, <2>2 DEF TypeOK, Elements, Pointers
  <2>5. TypeOK'
    BY <1>0, <1>pool, <2>1, <2>2, <2>3, <2>4 DEF TypeOK
  <2> QED BY <2>1, <2>5 DEF Base
<1>2. CASE DhcpStart \/ DhcpStop
  <2>1. dhcp_pcb' \in Pointers /\ TransferInv' /\ BoardInv'
    BY <1>2, DhcpStep
  <2>2. /\ UNCHANGED <<tftp_upcb, file_size, halted, net, srv, issued, done, cut, got>>
        /\ UNCHANGED <<losses, repeats, strays>>
    BY <1>2 DEF DhcpStart, DhcpStop, history, budget
  <2>3. TypeOK'
    BY <1>0, <1>pool, <2>1, <2>2 DEF TypeOK
  <2> QED BY <2>1, <2>3 DEF Base
<1>3. ASSUME NEW m \in net, RecvData(m) \/ RecvOther(m) \/ RecvUnreachable(m)
      PROVE  Base'
  <2>1. TransferInv' /\ BoardInv'
    BY <1>3, RecvBoard
  <2>2. UNCHANGED <<srv, dhcp_pcb, halted, issued, losses, strays, tftp_upcb>>
    BY <1>3 DEF RecvData, RecvOther, RecvUnreachable, Deliver
  <2>3. m.port \in Transfers /\ m \in Messages
    BY <1>0, MessageFacts DEF TypeOK
  <2>4. done' \subseteq Transfers /\ cut' \subseteq done'
    BY <1>0, <1>3, <2>3 DEF RecvData, RecvOther, RecvUnreachable, TypeOK
  <2>5. /\ net' \subseteq Messages /\ repeats' \in Nat
        /\ file_size' \in Nat /\ got' \in [Transfers -> SUBSET (1 .. Blocks)]
    <3>1. CASE RecvData(m)
      <4>1. m.kind = "DATA" /\ Receivers(u, m.port) # {} /\ Consume(m, tftp_ack(m))
        BY <3>1 DEF RecvData
      <4>2. m.block \in 1 .. Blocks /\ tftp_ack(m) = {Ack(m.port, m.block, m.port)}
        BY <4>1, AckFacts
      <4>3. tftp_ack(m) \subseteq Messages
        BY <1>0, <2>3, <4>2, MessagesIn
      <4>4. net' \subseteq Messages /\ repeats' \in Nat
        BY <1>0, <4>1, <4>3 DEF Consume, TypeOK
      <4>5. Length(m.block) \in Nat
        BY <4>2, BlockFacts
      <4>6. file_size' \in Nat
        BY <1>0, <3>1, <4>5 DEF RecvData, TypeOK
      <4>7. got' = [got EXCEPT ![m.port] = got[m.port] \cup {m.block}]
        BY <3>1 DEF RecvData
      <4>8. got' \in [Transfers -> SUBSET (1 .. Blocks)]
        BY <1>0, <2>3, <4>2, <4>7 DEF TypeOK
      <4> QED BY <4>4, <4>6, <4>8
    <3>2. CASE RecvOther(m)
      BY <1>0, <3>2 DEF RecvOther, Consume, TypeOK
    <3>3. CASE RecvUnreachable(m)
      BY <1>0, <3>3 DEF RecvUnreachable, TypeOK
    <3> QED BY <1>3, <3>1, <3>2, <3>3
  <2>6. TypeOK'
    BY <1>0, <1>pool, <2>1, <2>2, <2>4, <2>5 DEF TypeOK
  <2> QED BY <2>1, <2>6 DEF Base
<1>4. ASSUME UNCHANGED board, UNCHANGED history, net' \subseteq Messages,
             srv' \in [Transfers -> 0 .. GaveUp],
             losses' \in Nat, repeats' \in Nat, strays' \in Nat
      PROVE  Base'
  <2>1. TransferInv' /\ BoardInv'
    BY <1>0, <1>4, BoardUntouched DEF board, history
  <2>2. TypeOK'
    BY <1>0, <1>4 DEF TypeOK, board, history
  <2> QED BY <2>1, <2>2 DEF Base
<1>5. ASSUME NEW t \in Transfers, Server(t) PROVE Base'
  <2>1. UNCHANGED <<board, history, losses, repeats, strays>>
    BY <1>5 DEF Server, ServerRrq, ServerAck, ServerRepeat, budget
  <2>2. net' \subseteq Messages /\ srv' \in [Transfers -> 0 .. GaveUp]
    <3>1. CASE ServerRrq(t)
      <4>1. 1 \in 1 .. Blocks /\ 1 \in 0 .. GaveUp /\ GaveUp \in 0 .. GaveUp
        BY BlockFacts DEF GaveUp
      <4>2. Data(t, 1) \in Messages /\ Other(t, "short") \in Messages
        BY <4>1, MessagesIn DEF Sizes
      <4> QED BY <1>0, <3>1, <4>1, <4>2 DEF ServerRrq, TypeOK
    <3>2. CASE ServerAck(t)
      <4>1. Ack(t, srv[t], t) \in Messages
        BY <1>0, <3>2 DEF ServerAck, TypeOK
      <4>2. srv[t] \in 1 .. Blocks
        <5>1. Ack(t, srv[t], t).kind = "ACK" /\ Ack(t, srv[t], t).block = srv[t]
          BY DEF Ack
        <5> QED BY <4>1, <5>1, MessageFacts
      <4>3. srv[t] + 1 \in 0 .. GaveUp /\ (srv[t] < Blocks => srv[t] + 1 \in 1 .. Blocks)
        BY <4>2, BlockFacts DEF GaveUp
      <4>4. srv[t] < Blocks => Data(t, srv[t] + 1) \in Messages
        BY <4>3, MessagesIn
      <4>5. srv' \in [Transfers -> 0 .. GaveUp]
        BY <1>0, <3>2, <4>3 DEF ServerAck, TypeOK
      <4> QED BY <1>0, <3>2, <4>4, <4>5 DEF ServerAck, TypeOK
    <3>3. CASE ServerRepeat(t)
      <4>1. Data(t, srv[t]) \in Messages
        BY <3>3, MessagesIn DEF ServerRepeat
      <4> QED BY <1>0, <3>3, <4>1 DEF ServerRepeat, TypeOK
    <3> QED BY <1>5, <3>1, <3>2, <3>3 DEF Server
  <2> QED BY <1>0, <1>4, <2>1, <2>2 DEF TypeOK
<1>6. ASSUME NEW m \in net, ServerIgnore(m) \/ Lose(m) PROVE Base'
  <2>1. UNCHANGED <<board, history, srv, repeats, strays>> /\ losses' \in Nat /\ net' \subseteq Messages
    BY <1>0, <1>6 DEF ServerIgnore, Lose, budget, TypeOK
  <2> QED BY <1>0, <1>4, <2>1 DEF TypeOK
<1>7. CASE UNCHANGED vars
  <2>1. UNCHANGED <<board, history, net, srv, losses, repeats, strays>>
    BY <1>7 DEF vars, budget
  <2> QED BY <1>0, <1>4, <2>1 DEF TypeOK
<1>8. ASSUME NEW t \in Transfers, ServerError(t) \/ \E size \in Sizes : Stray(t, size)
      PROVE  Base'
  <2>0. PICK o \in Messages : net' = net \cup {o}
    <3>1. CASE ServerError(t)
      <4>1. Other(t, "short") \in Messages
        BY MessagesIn DEF Sizes
      <4> QED BY <3>1, <4>1 DEF ServerError
    <3>2. ASSUME NEW size \in Sizes, Stray(t, size) PROVE \E o \in Messages : net' = net \cup {o}
      <4>1. Other(t, size) \in Messages
        BY MessagesIn
      <4> QED BY <3>2, <4>1 DEF Stray
    <3> QED BY <1>8, <3>1, <3>2
  <2>1. UNCHANGED <<board, history, losses, repeats>> /\ strays' \in Nat
    <3>1. UNCHANGED <<board, history, losses, repeats>> /\ strays' = strays + 1
      BY <1>8 DEF ServerError, Stray
    <3> QED BY <1>0, <3>1 DEF TypeOK
  <2>2. net' \subseteq Messages
    BY <1>0, <2>0 DEF TypeOK
  <2>3. GaveUp \in 0 .. GaveUp
    BY BlockFacts
  <2>4. srv' \in [Transfers -> 0 .. GaveUp]
    BY <1>0, <1>8, <2>3 DEF ServerError, Stray, TypeOK
  <2> QED BY <1>0, <1>4, <2>1, <2>2, <2>4 DEF TypeOK
<1> QED BY <1>1, <1>2, <1>3, <1>5, <1>6, <1>7, <1>8 DEF Next, Recv

\* Under these conditions the pcbs are always with their holders.
LEMMA HoldersKept == ASSUME Patient PROVE Spec => []Base
<1>1. Base /\ [Next]_vars => Base'
  BY BaseNext
<1> QED BY InitBase, <1>1, PTL DEF Spec

\* Every pcb is free, on a list without a loop, or held by the transfer or the
\* client that it is bound for (udp_new, udp_bind and udp_remove of udp.c:977, 766
\* and 946, as tftp_init and tftp_deinit of tftp.c:27 and 39 and dhcp.c use them).
THEOREM PcbsAccounted == ASSUME Patient PROVE Spec => []OnePcbPerConnection
<1>1. Base => OnePcbPerConnection
  <2> SUFFICES ASSUME Base PROVE OnePcbPerConnection
    OBVIOUS
  <2>1. Owned(u, Holders, Owners)
    BY DEF Base, BoardInv
  <2>2. /\ Free(u) \cap Listed(u) = {}
        /\ \A h \in Holders : Owners[h] \in Listed(u) /\ u.local_port[Owners[h]] = h
        /\ Cardinality(Free(u)) = NPcb - Cardinality(Holders)
    BY <2>1, OwnedCount
  <2>3. \A h \in Holders : Owners[h] = Held(h)
    BY HolderFacts
  <2>4. \A h \in Holders : Held(h) \in Listed(u) /\ u.local_port[Held(h)] = h
    BY <2>2, <2>3
  <2>5. \A g, h \in Holders : Held(g) = Held(h) => g = h
    BY <2>4
  <2> QED BY <2>2, <2>4, <2>5 DEF OnePcbPerConnection
<1> QED BY <1>1, HoldersKept, PTL

\* Once no transfer runs, no late or repeated datagram changes file_size: the pcb
\* that tftp_deinit (tftp.c:149) removed is no longer found by udp_input.
THEOREM LateDataHarmless == ASSUME Patient PROVE Spec => LateDataIgnored
<1> DEFINE Quiet == Running = {} /\ issued' = issued => file_size' = file_size
<1>1. Base /\ [Next]_vars => [Quiet]_vars
  <2> SUFFICES ASSUME Base, Next, Running = {}, issued' = issued
               PROVE  file_size' = file_size
    BY DEF vars, board
  <2>1. CASE tftp
    <3>1. /\ issued' = [issued EXCEPT ![NextTransfer] = Fresh(u)] /\ Fresh(u) \in Elements
          /\ NextTransfer \in Transfers /\ NextTransfer = u.udp_port + 1
      BY <2>1, TftpFacts
    <3>2. issued'[NextTransfer] # NULL
      BY <3>1 DEF Base, TypeOK, Elements, NULL
    <3>3. issued[NextTransfer] = NULL
      <4>1. u.udp_port \in Nat
        BY TftpAssumption DEF Base, TransferInv
      <4> QED BY <3>1, <4>1 DEF Base, TransferInv
    <3> QED BY <3>2, <3>3
  <2>2. CASE \E m \in net : RecvData(m) \/ RecvOther(m) \/ RecvUnreachable(m)
    <3>1. PICK m \in net : RecvData(m) \/ RecvOther(m) \/ RecvUnreachable(m)
      BY <2>2
    <3>2. m.port \in Transfers
      BY MessageFacts DEF Base, TypeOK
    <3>3. Receivers(u, m.port) = {}
      BY <3>2, ReceiverFacts
    <3> QED BY <3>1, <3>3 DEF RecvData, RecvOther, RecvUnreachable
  <2>3. CASE DhcpStart \/ DhcpStop
    BY <2>3 DEF DhcpStart, DhcpStop
  <2>4. CASE \E t \in Transfers : Server(t)
    BY <2>4 DEF Server, ServerRrq, ServerAck, ServerRepeat, board
  <2>5. CASE \E m \in net : ServerIgnore(m) \/ Lose(m)
    BY <2>5 DEF ServerIgnore, Lose, board
  <2>6. CASE \E t \in Transfers : ServerError(t) \/ \E size \in Sizes : Stray(t, size)
    BY <2>6 DEF ServerError, Stray, board
  <2> QED BY <2>1, <2>2, <2>3, <2>4, <2>5, <2>6 DEF Next, Recv
<1> QED BY <1>1, HoldersKept, PTL DEF LateDataIgnored, Spec

-----------------------------------------------------------------------------
(* The transfers: what was received, against what is under way.             *)

\* The blocks received are the first j, no more than the server has sent; a block
\* under way follows ones that were received, an ACK under way acknowledges one.
BlocksInv(t) ==
    /\ \E j \in 0 .. Blocks : got[t] = 1 .. j
    /\ \A c \in got[t] : c <= srv[t]
    /\ t > u.udp_port => srv[t] = 0 /\ Rrq(t) \notin net
    /\ srv[t] # 0 => Rrq(t) \notin net
    /\ srv[t] \in 1 .. Blocks => 1 .. srv[t] - 1 \subseteq got[t]
    /\ \A b \in 1 .. Blocks :
          /\ Data(t, b) \in net => b <= srv[t] /\ 1 .. b - 1 \subseteq got[t]
          /\ \A s \in Nat : Ack(t, b, s) \in net => 1 .. b \subseteq got[t]

\* The end of a transfer: every block, or a short packet that was not DATA.
EndInv(t) == t \in done => got[t] = 1 .. Blocks \/ t \in cut

\* On a network that neither loses nor repeats there is always one datagram
\* under way for the block the server waits for, and it is a new one, until a
\* packet that is not DATA ends the transfer or the server gives up.
ExactInv(t) ==
    losses + repeats = 0 /\ t \notin cut =>
       /\ srv[t] \in 1 .. Blocks => Data(t, srv[t]) \in net \/ Ack(t, srv[t], t) \in net
       /\ \A b \in 1 .. Blocks :
             /\ Data(t, b) \in net => b \notin got[t] /\ (b = srv[t] \/ srv[t] = GaveUp)
             /\ \A s \in Nat : Ack(t, b, s) \in net => s = t /\ (b = srv[t] \/ srv[t] = GaveUp)

TransferOK(t) == BlocksInv(t) /\ EndInv(t) /\ ExactInv(t)

\* file_size covers the blocks received of the latest transfer.
SizeInv ==
    u.udp_port # 0 =>
       \E j \in 0 .. Blocks :
          /\ got[u.udp_port] = 1 .. j
          /\ file_size >= Counted(j)
          /\ losses + repeats = 0 => file_size = Counted(j)

Inv == Base /\ (\A t \in Transfers : TransferOK(t)) /\ SizeInv

\* Counting one block more.
LEMMA CountedStep ==
    /\ Counted(0) = 0 /\ Counted(Blocks) = FileSize
    /\ \A j \in 0 .. Blocks - 1 : Counted(j) + Length(j + 1) = Counted(j + 1)
    /\ \A j \in 0 .. Blocks : Counted(j) \in Nat
<1> USE TftpAssumption
<1>1. Blocks \in Nat \ {0}
  BY BlockFacts
<1>2. Counted(0) = 0 /\ Counted(Blocks) = FileSize
  BY <1>1 DEF Counted
<1>3. ASSUME NEW j \in 0 .. Blocks - 1
      PROVE  Counted(j) + Length(j + 1) = Counted(j + 1)
  <2>1. CASE j + 1 < Blocks
    <3>1. Block * j + Block = Block * (j + 1)
      OBVIOUS
    <3>2. j < Blocks
      BY <1>1, <2>1
    <3> QED BY <2>1, <3>1, <3>2 DEF Counted, Length
  <2>2. CASE ~(j + 1 < Blocks)
    <3>1. j = Blocks - 1 /\ j < Blocks
      BY <1>1, <2>2
    <3>2. Block * j + (FileSize % Block) = FileSize
      BY <3>1, BlockFacts
    <3> QED BY <2>2, <3>1, <3>2 DEF Counted, Length
  <2> QED BY <2>1, <2>2
<1>4. \A j \in 0 .. Blocks : Counted(j) \in Nat
  BY <1>1 DEF Counted
<1> QED BY <1>2, <1>3, <1>4

\* Blocks received in order.
LEMMA IntervalFacts ==
    /\ \A j, k \in Nat : 1 .. j = 1 .. k => j = k
    /\ \A j, k \in Nat : 1 .. k \subseteq 1 .. j => k <= j
    /\ \A j \in Nat, b \in Nat \ {0} : 1 .. b - 1 \subseteq 1 .. j => b <= j + 1
    /\ \A j \in Nat, b \in Nat \ {0} :
          b <= j + 1 => (1 .. j) \cup {b} = 1 .. (IF b <= j THEN j ELSE b)
    /\ \A j \in Nat : 1 .. j = {} => j = 0
<1>1. ASSUME NEW j \in Nat, NEW k \in Nat, 1 .. k \subseteq 1 .. j PROVE k <= j
  <2>1. CASE k = 0
    BY <2>1
  <2>2. CASE k # 0
    <3>1. k \in 1 .. k
      BY <2>2
    <3>2. k \in 1 .. j
      BY <1>1, <3>1
    <3> QED BY <3>2
  <2> QED BY <2>1, <2>2
<1>2. ASSUME NEW j \in Nat, NEW k \in Nat, 1 .. j = 1 .. k PROVE j = k
  <2>1. 1 .. j \subseteq 1 .. k /\ 1 .. k \subseteq 1 .. j
    BY <1>2
  <2>2. j <= k /\ k <= j
    BY <1>1, <2>1
  <2> QED BY <2>2
<1>3. ASSUME NEW j \in Nat, NEW b \in Nat \ {0}, 1 .. b - 1 \subseteq 1 .. j PROVE b <= j + 1
  <2>1. b - 1 \in Nat
    OBVIOUS
  <2>2. b - 1 <= j
    BY <1>1, <1>3, <2>1
  <2> QED BY <2>2
<1>4. ASSUME NEW j \in Nat, NEW b \in Nat \ {0}, b <= j + 1
      PROVE  (1 .. j) \cup {b} = 1 .. (IF b <= j THEN j ELSE b)
  <2>1. CASE b <= j
    BY <2>1
  <2>2. CASE ~(b <= j)
    <3>1. b = j + 1
      BY <1>4, <2>2
    <3> QED BY <2>2, <3>1
  <2> QED BY <2>1, <2>2
<1>5. ASSUME NEW j \in Nat, 1 .. j = {} PROVE j = 0
  BY <1>5
<1> QED BY <1>1, <1>2, <1>3, <1>4, <1>5

\* A transfer that a step passes by, or of which it only takes datagrams away.
LEMMA PassedBy ==
    ASSUME NEW t \in Transfers, TransferOK(t),
           srv'[t] = srv[t], got'[t] = got[t],
           t \in done' <=> t \in done, t \in cut' <=> t \in cut,
           \A m \in net' : m.port = t /\ m.kind # "OTHER" => m \in net,
           t > u'.udp_port => t > u.udp_port,
           losses' + repeats' = 0 =>
              /\ losses + repeats = 0
              /\ t \notin cut /\ srv[t] \in 1 .. Blocks =>
                    \/ (Data(t, srv[t]) \in net /\ Data(t, srv[t]) \in net')
                    \/ (Ack(t, srv[t], t) \in net /\ Ack(t, srv[t], t) \in net')
    PROVE  TransferOK(t)'
<1>1. /\ Rrq(t) \in net' => Rrq(t) \in net
      /\ \A b : Data(t, b) \in net' => Data(t, b) \in net
      /\ \A b, s : Ack(t, b, s) \in net' => Ack(t, b, s) \in net
  BY MessagesDiffer
<1>2. BlocksInv(t)'
  BY <1>1 DEF TransferOK, BlocksInv
<1>3. EndInv(t)'
  BY DEF TransferOK, EndInv
<1>4. ExactInv(t)'
  BY <1>1 DEF TransferOK, ExactInv
<1> QED BY <1>2, <1>3, <1>4 DEF TransferOK

\* Of a transfer for which the server sent no block none was received, and
\* neither a block nor an ACK is under way.
LEMMA NothingSent ==
    ASSUME NEW t \in Transfers, TransferOK(t), srv[t] = 0
    PROVE  /\ got[t] = {} /\ got[t] = 1 .. 0
           /\ \A b \in 1 .. Blocks : /\ Data(t, b) \notin net
                                     /\ \A s \in Nat : Ack(t, b, s) \notin net
<1>1. \A c \in got[t] : c <= 0
  BY DEF TransferOK, BlocksInv
<1>2. PICK j \in 0 .. Blocks : got[t] = 1 .. j
  BY DEF TransferOK, BlocksInv
<1>3. \A c \in 1 .. j : c \in Nat /\ ~(c <= 0)
  BY <1>2, BlockFacts
<1>4. got[t] = {}
  BY <1>1, <1>2, <1>3
<1>5. 1 .. 0 = {}
  OBVIOUS
<1>6. ASSUME NEW b \in 1 .. Blocks
      PROVE  Data(t, b) \notin net /\ \A s \in Nat : Ack(t, b, s) \notin net
  <2>1. ~(b <= 0) /\ b \in 1 .. b
    BY BlockFacts
  <2> QED BY <1>4, <2>1 DEF TransferOK, BlocksInv
<1> QED BY <1>4, <1>5, <1>6

\* The command starts a transfer that nothing was ever sent for.
LEMMA TftpTransfers ==
    ASSUME Patient, Inv, tftp
    PROVE  (\A t \in Transfers : TransferOK(t)') /\ SizeInv'
<1> USE TftpAssumption
<1>0. PICK n : n = NextTransfer
  OBVIOUS
<1>1. /\ n \in Transfers /\ u'.udp_port = n /\ n = u.udp_port + 1
      /\ net' = net \cup {Rrq(n)} /\ u.udp_port \in Nat
      /\ UNCHANGED <<srv, done, cut, got, losses, repeats>> /\ file_size' = 0
  <2>1. u.udp_port \in Nat
    BY DEF Inv, Base, TransferInv
  <2> QED BY <1>0, <2>1, TftpFacts DEF Inv, tftp, budget
<1>2. /\ srv[n] = 0 /\ n \notin done /\ got[n] = {} /\ got[n] = 1 .. 0
      /\ \A b \in 1 .. Blocks : /\ Data(n, b) \notin net
                                /\ \A s \in Nat : Ack(n, b, s) \notin net
  <2>1. TransferOK(n) /\ n > u.udp_port
    BY <1>1 DEF Inv, Transfers
  <2>2. srv[n] = 0
    BY <2>1 DEF TransferOK, BlocksInv
  <2>3. n \notin done
    BY <1>1 DEF Inv, Base, TransferInv
  <2> QED BY <1>1, <2>1, <2>2, <2>3, NothingSent
<1>3. ASSUME NEW t \in Transfers, t # n PROVE TransferOK(t)'
  <2>1. \A m \in net' : m.port = t => m \in net
    BY <1>1, <1>3, MessagesDiffer
  <2>2. t > u'.udp_port => t > u.udp_port
    BY <1>1 DEF Transfers
  <2>3. TransferOK(t)
    BY DEF Inv
  <2>4. losses' + repeats' = 0 =>
              /\ losses + repeats = 0
              /\ t \notin cut /\ srv[t] \in 1 .. Blocks =>
                    \/ (Data(t, srv[t]) \in net /\ Data(t, srv[t]) \in net')
                    \/ (Ack(t, srv[t], t) \in net /\ Ack(t, srv[t], t) \in net')
    BY <1>1, <2>3 DEF TransferOK, ExactInv
  <2> QED BY <1>1, <2>1, <2>2, <2>3, <2>4, PassedBy
<1>4. TransferOK(n)'
  <2>2. \A b \in 1 .. Blocks : /\ Data(n, b) \notin net'
                               /\ \A s \in Nat : Ack(n, b, s) \notin net'
    BY <1>1, <1>2, MessagesDiffer
  <2>3. BlocksInv(n)'
    <3>1. 0 \in 0 .. Blocks
      BY BlockFacts
    <3>2. ~(n > u'.udp_port) /\ ~(srv[n] \in 1 .. Blocks)
      BY <1>1, <1>2
    <3> QED BY <1>1, <1>2, <2>2, <3>1, <3>2 DEF BlocksInv
  <2>4. EndInv(n)'
    BY <1>1, <1>2 DEF EndInv
  <2>5. ExactInv(n)'
    <3>1. ~(srv[n] \in 1 .. Blocks)
      BY <1>2
    <3> QED BY <1>1, <2>2, <3>1 DEF ExactInv
  <2> QED BY <2>3, <2>4, <2>5 DEF TransferOK
<1>5. SizeInv'
  <2>1. 0 \in 0 .. Blocks
    BY BlockFacts
  <2>2. got'[u'.udp_port] = 1 .. 0 /\ file_size' = Counted(0) /\ file_size' >= Counted(0)
    BY <1>1, <1>2, CountedStep
  <2> QED BY <2>1, <2>2 DEF SizeInv
<1> QED BY <1>3, <1>4, <1>5

\* Steps after which the size and what it is compared with are as before.
LEMMA SizeKept ==
    ASSUME SizeInv, u'.udp_port = u.udp_port, UNCHANGED <<file_size, got>>,
           losses' + repeats' = 0 => losses + repeats = 0
    PROVE  SizeInv'
BY DEF SizeInv

\* A transfer of whose blocks and ACKs a step neither adds nor takes away any.
LEMMA OtherTransfer ==
    ASSUME NEW t \in Transfers, TransferOK(t),
           srv'[t] = srv[t], got'[t] = got[t],
           t \in done' <=> t \in done, t \in cut' <=> t \in cut,
           \A m : m.port = t /\ m.kind # "OTHER" => (m \in net' <=> m \in net),
           u'.udp_port = u.udp_port,
           losses' + repeats' = 0 => losses + repeats = 0
    PROVE  TransferOK(t)'
<1>1. \A b, s : /\ Data(t, b) \in net' <=> Data(t, b) \in net
                /\ Ack(t, b, s) \in net' <=> Ack(t, b, s) \in net
  BY MessagesDiffer
<1>2. losses' + repeats' = 0 =>
              /\ losses + repeats = 0
              /\ t \notin cut /\ srv[t] \in 1 .. Blocks =>
                    \/ (Data(t, srv[t]) \in net /\ Data(t, srv[t]) \in net')
                    \/ (Ack(t, srv[t], t) \in net /\ Ack(t, srv[t], t) \in net')
  BY <1>1 DEF TransferOK, ExactInv
<1> QED BY <1>2, PassedBy

\* The server's first answer, a block or a refusal.
LEMMA ServerRrqTransfers ==
    ASSUME Inv, NEW n \in Transfers, ServerRrq(n)
    PROVE  \A t \in Transfers : TransferOK(t)'
<1>1. TransferOK(n) /\ Rrq(n) \in net /\ UNCHANGED <<u, done, cut, got, losses, repeats>>
  BY DEF Inv, ServerRrq, board, history, budget
<1>2. srv[n] = 0 /\ ~(n > u.udp_port)
  BY <1>1 DEF TransferOK, BlocksInv
<1>3. /\ got[n] = {} /\ got[n] = 1 .. 0
      /\ \A b \in 1 .. Blocks : /\ Data(n, b) \notin net
                                /\ \A s \in Nat : Ack(n, b, s) \notin net
  BY <1>1, <1>2, NothingSent
<1>4. EndInv(n)'
  BY <1>1 DEF TransferOK, EndInv
<1>5. srv \in [Transfers -> 0 .. GaveUp] /\ Blocks \in Nat \ {0}
  BY BlockFacts DEF Inv, Base, TypeOK
<1>6. ASSUME NEW t \in Transfers, t # n PROVE TransferOK(t)'
  <2>1. srv'[t] = srv[t]
    BY <1>5, <1>6 DEF ServerRrq
  <2>2. \A m : m.port = t => (m \in net' <=> m \in net)
    <3>1. Rrq(n).port = n /\ Data(n, 1).port = n /\ Other(n, "short").port = n
      BY DEF Rrq, Data, Other
    <3> QED BY <1>6, <3>1 DEF ServerRrq
  <2>3. TransferOK(t)
    BY DEF Inv
  <2> QED BY <1>1, <2>1, <2>2, <2>3, OtherTransfer
<1>7. 0 \in 0 .. Blocks
  BY <1>5
<1>8. CASE srv' = [srv EXCEPT ![n] = 1] /\ net' = (net \ {Rrq(n)}) \cup {Data(n, 1)}
  <2>1. srv'[n] = 1
    BY <1>5, <1>8
  <2>2. /\ Rrq(n) \notin net' /\ Data(n, 1) \in net'
        /\ \A b \in 1 .. Blocks : /\ Data(n, b) \in net' => b = 1
                                  /\ \A s \in Nat : Ack(n, b, s) \notin net'
    BY <1>3, <1>8, MessagesDiffer
  <2>3. 1 .. 1 - 1 \subseteq got[n]
    BY <1>3
  <2>4. BlocksInv(n)'
    BY <1>1, <1>2, <1>3, <1>7, <2>1, <2>2, <2>3 DEF BlocksInv
  <2>5. ExactInv(n)'
    BY <1>1, <1>3, <2>1, <2>2 DEF ExactInv
  <2> QED BY <1>4, <1>6, <2>4, <2>5 DEF TransferOK
<1>9. CASE /\ srv' = [srv EXCEPT ![n] = GaveUp]
           /\ net' = (net \ {Rrq(n)}) \cup {Other(n, "short")}
  <2>1. srv'[n] = GaveUp /\ srv'[n] # 0 /\ ~(srv'[n] \in 1 .. Blocks)
    BY <1>5, <1>9, BlockFacts
  <2>2. /\ Rrq(n) \notin net'
        /\ \A b \in 1 .. Blocks : /\ Data(n, b) \notin net'
                                  /\ \A s \in Nat : Ack(n, b, s) \notin net'
    <3>1. Other(n, "short").kind = "OTHER"
      BY DEF Other
    <3> QED BY <1>3, <1>9, <3>1, MessagesDiffer
  <2>3. BlocksInv(n)'
    BY <1>1, <1>2, <1>3, <1>7, <2>1, <2>2 DEF BlocksInv
  <2>4. ExactInv(n)'
    BY <1>1, <2>1, <2>2 DEF ExactInv
  <2> QED BY <1>4, <1>6, <2>3, <2>4 DEF TransferOK
<1> QED BY <1>8, <1>9 DEF ServerRrq

\* The next block is sent when the one before it was received.
LEMMA ServerAckTransfers ==
    ASSUME Inv, NEW n \in Transfers, ServerAck(n)
    PROVE  \A t \in Transfers : TransferOK(t)'
<1>0. PICK s : s = srv[n]
  OBVIOUS
<1>1. /\ TransferOK(n) /\ Ack(n, s, n) \in net /\ UNCHANGED <<u, done, cut, got, losses, repeats>>
      /\ srv' = [srv EXCEPT ![n] = s + 1]
      /\ net' = (net \ {Ack(n, s, n)}) \cup (IF s < Blocks THEN {Data(n, s + 1)} ELSE {})
  BY <1>0 DEF Inv, ServerAck, board, history, budget
<1>2. srv \in [Transfers -> 0 .. GaveUp] /\ Blocks \in Nat \ {0} /\ net \subseteq Messages
  BY BlockFacts DEF Inv, Base, TypeOK
<1>3. s \in 1 .. Blocks /\ s \in Nat /\ n \in Nat
  <2>1. Ack(n, s, n).kind = "ACK" /\ Ack(n, s, n).block = s
    BY DEF Ack
  <2> QED BY <1>1, <1>2, <2>1, MessageFacts DEF Transfers
<1>4. /\ 1 .. s \subseteq got[n] /\ s \in got[n]
      /\ \A c \in got[n] : c <= s
      /\ ~(n > u.udp_port) /\ Rrq(n) \notin net
  <2>1. 1 .. s \subseteq got[n]
    BY <1>1, <1>3 DEF TransferOK, BlocksInv
  <2>2. s \in 1 .. s /\ s # 0
    BY <1>3
  <2> QED BY <1>0, <1>1, <2>1, <2>2 DEF TransferOK, BlocksInv
<1>5. srv'[n] = s + 1 /\ s + 1 # 0 /\ s + 1 - 1 = s /\ s # GaveUp
  BY <1>1, <1>2, <1>3, BlockFacts
<1>6. ASSUME NEW t \in Transfers, t # n PROVE TransferOK(t)'
  <2>1. srv'[t] = srv[t]
    BY <1>1, <1>2, <1>6
  <2>2. \A m : m.port = t => (m \in net' <=> m \in net)
    BY <1>1, <1>6, MessagesDiffer
  <2>3. TransferOK(t)
    BY DEF Inv
  <2> QED BY <1>1, <2>1, <2>2, <2>3, OtherTransfer
<1>7. /\ Rrq(n) \notin net'
      /\ \A b : Data(n, b) \in net' => Data(n, b) \in net \/ b = s + 1
      /\ \A b, r : Ack(n, b, r) \in net' => Ack(n, b, r) \in net /\ ~(b = s /\ r = n)
      /\ s + 1 \in 1 .. Blocks => Data(n, s + 1) \in net'
  <2>1. s + 1 \in 1 .. Blocks => s < Blocks
    BY <1>2, <1>3
  <2> QED BY <1>1, <1>4, <2>1, MessagesDiffer
<1>8. BlocksInv(n)'
  <2>1. \A c \in got[n] : c <= s + 1
    <3>1. \E j \in 0 .. Blocks : got[n] = 1 .. j
      BY <1>1 DEF TransferOK, BlocksInv
    <3>2. \A c \in got[n] : c \in Nat
      BY <1>2, <3>1
    <3> QED BY <1>3, <1>4, <3>2
  <2>2. ASSUME NEW b \in 1 .. Blocks, Data(n, b) \in net'
        PROVE  b <= s + 1 /\ 1 .. b - 1 \subseteq got[n]
    <3>1. CASE b = s + 1
      BY <1>3, <1>4, <1>5, <3>1
    <3>2. CASE Data(n, b) \in net
      <4>1. b <= s /\ 1 .. b - 1 \subseteq got[n]
        BY <1>0, <1>1, <3>2 DEF TransferOK, BlocksInv
      <4> QED BY <1>2, <1>3, <4>1
    <3> QED BY <1>7, <2>2, <3>1, <3>2
  <2> QED BY <1>1, <1>4, <1>5, <1>7, <2>1, <2>2 DEF TransferOK, BlocksInv
<1>9. EndInv(n)'
  BY <1>1 DEF TransferOK, EndInv
<1>10. ExactInv(n)'
  <2> SUFFICES ASSUME losses + repeats = 0, n \notin cut
               PROVE  /\ s + 1 \in 1 .. Blocks => Data(n, s + 1) \in net'
                      /\ \A b \in 1 .. Blocks :
                           /\ Data(n, b) \in net' => b = s + 1 /\ b \notin got[n]
                           /\ \A r \in Nat : Ack(n, b, r) \in net' => b = s + 1 /\ r = n
    BY <1>1, <1>5 DEF ExactInv
  <2>1. s + 1 \notin got[n]
    BY <1>3, <1>4
  <2>2. \A b \in 1 .. Blocks : Data(n, b) \notin net
    BY <1>0, <1>1, <1>4, <1>5 DEF TransferOK, ExactInv
  <2>3. \A b \in 1 .. Blocks, r \in Nat : Ack(n, b, r) \notin net'
    BY <1>0, <1>1, <1>5, <1>7 DEF TransferOK, ExactInv
  <2> QED BY <1>7, <2>1, <2>2, <2>3
<1> QED BY <1>6, <1>8, <1>9, <1>10 DEF TransferOK

\* A repeated block is one the server still waits for.
LEMMA ServerRepeatTransfers ==
    ASSUME Inv, NEW n \in Transfers, ServerRepeat(n)
    PROVE  \A t \in Transfers : TransferOK(t)'
<1>0. PICK s : s = srv[n]
  OBVIOUS
<1>1. /\ TransferOK(n) /\ UNCHANGED <<u, srv, done, cut, got, losses, repeats>>
      /\ s \in 1 .. Blocks
      /\ Data(n, s) \notin net /\ Ack(n, s, n) \notin net
      /\ net' = net \cup {Data(n, s)}
  BY <1>0 DEF Inv, ServerRepeat, board, history, budget
<1>2. Blocks \in Nat \ {0}
  BY BlockFacts
<1>3. s # 0 /\ s <= s
  BY <1>1, <1>2
<1>4. ASSUME NEW t \in Transfers, t # n PROVE TransferOK(t)'
  <2>1. \A m : m.port = t => (m \in net' <=> m \in net)
    BY <1>1, <1>4, MessagesDiffer
  <2>2. TransferOK(t)
    BY DEF Inv
  <2> QED BY <1>1, <2>1, <2>2, OtherTransfer
<1>5. /\ Rrq(n) \in net' => Rrq(n) \in net
      /\ \A b : Data(n, b) \in net' => Data(n, b) \in net \/ b = s
      /\ \A b, r : Ack(n, b, r) \in net' => Ack(n, b, r) \in net
  BY <1>1, MessagesDiffer
<1>6. BlocksInv(n)'
  <2>1. 1 .. s - 1 \subseteq got[n]
    BY <1>0, <1>1 DEF TransferOK, BlocksInv
  <2> QED BY <1>0, <1>1, <1>3, <1>5, <2>1 DEF TransferOK, BlocksInv
<1>7. EndInv(n)'
  BY <1>1 DEF TransferOK, EndInv
<1>8. ExactInv(n)'
  BY <1>0, <1>1 DEF TransferOK, ExactInv
<1> QED BY <1>4, <1>6, <1>7, <1>8 DEF TransferOK

\* The server gives up: it answers no ACK any more, and sends no block.
LEMMA ServerErrorTransfers ==
    ASSUME Inv, NEW n \in Transfers, ServerError(n)
    PROVE  \A t \in Transfers : TransferOK(t)'
<1>o. Other(n, "short").kind = "OTHER" /\ Other(n, "short").port = n
  BY DEF Other
<1>0. PICK o : o = Other(n, "short")
  OBVIOUS
<1>1. /\ TransferOK(n) /\ UNCHANGED <<u, done, cut, got, losses, repeats>>
      /\ srv[n] \in 1 .. Blocks
      /\ srv' = [srv EXCEPT ![n] = GaveUp] /\ net' = net \cup {o}
  BY <1>0 DEF Inv, ServerError, board, history
<1>2. srv \in [Transfers -> 0 .. GaveUp] /\ Blocks \in Nat \ {0}
      /\ got \in [Transfers -> SUBSET (1 .. Blocks)]
  BY BlockFacts DEF Inv, Base, TypeOK
<1>3. ASSUME NEW t \in Transfers, t # n PROVE TransferOK(t)'
  <2>1. srv'[t] = srv[t]
    BY <1>1, <1>2, <1>3
  <2>2. \A m : m.port = t => (m \in net' <=> m \in net)
    BY <1>o, <1>0, <1>1, <1>3
  <2>3. TransferOK(t)
    BY DEF Inv
  <2> QED BY <1>1, <2>1, <2>2, <2>3, OtherTransfer
<1>4. /\ srv'[n] = GaveUp /\ srv'[n] # 0 /\ ~(srv'[n] \in 1 .. Blocks) /\ srv[n] # 0
      /\ \A b \in 1 .. Blocks : b <= srv'[n]
  BY <1>1, <1>2, BlockFacts
<1>5. /\ Rrq(n) \in net' => Rrq(n) \in net
      /\ \A b : Data(n, b) \in net' => Data(n, b) \in net
      /\ \A b, r : Ack(n, b, r) \in net' => Ack(n, b, r) \in net
  BY <1>o, <1>0, <1>1, MessagesDiffer
<1>6. BlocksInv(n)'
  <2>1. \A c \in got[n] : c <= srv'[n]
    BY <1>2, <1>4
  <2> QED BY <1>1, <1>4, <1>5, <2>1 DEF TransferOK, BlocksInv
<1>7. EndInv(n)'
  BY <1>1 DEF TransferOK, EndInv
<1>8. ExactInv(n)'
  BY <1>1, <1>4, <1>5 DEF TransferOK, ExactInv
<1> QED BY <1>3, <1>6, <1>7, <1>8 DEF TransferOK

\* Datagrams that go unused: an ACK nobody waits for, a loss, a late datagram.
LEMMA DroppedTransfers ==
    ASSUME Inv, NEW m \in net, ServerIgnore(m) \/ Lose(m) \/ RecvUnreachable(m)
    PROVE  (\A t \in Transfers : TransferOK(t)') /\ SizeInv'
<1>1. /\ UNCHANGED <<u, file_size, srv, done, cut, got, repeats>> /\ net' = net \ {m}
      /\ losses' = losses \/ losses' = losses + 1
  BY DEF ServerIgnore, Lose, RecvUnreachable, Deliver, board, history, budget
<1>2. losses \in Nat /\ repeats \in Nat /\ m \in Messages
  BY DEF Inv, Base, TypeOK
<1>3. losses' + repeats' = 0 => losses' = losses /\ losses + repeats = 0
  BY <1>1, <1>2
<1>4. ASSUME NEW t \in Transfers, losses' + repeats' = 0, t \notin cut
      PROVE  m # Data(t, srv[t]) /\ m # Ack(t, srv[t], t)
  <2>0. PICK s : s = srv[t]
    OBVIOUS
  <2>1. CASE ServerIgnore(m)
    <3>1. /\ Ack(t, s, t).src = t /\ Ack(t, s, t).port = t /\ Ack(t, s, t).block = s
          /\ Data(t, s).kind = "DATA" /\ m.kind = "ACK"
      BY <2>1 DEF Ack, Data, ServerIgnore
    <3>2. m.src # m.port \/ m.block # srv[m.port]
      BY <2>1 DEF ServerIgnore
    <3> QED BY <2>0, <3>1, <3>2
  <2>2. CASE Lose(m)
    BY <1>2, <1>3, <1>4, <2>2 DEF Lose
  <2>3. CASE RecvUnreachable(m)
    <3>1. m.kind \in {"DATA", "OTHER"} /\ Receivers(u, m.port) = {}
      BY <2>3 DEF RecvUnreachable
    <3>2. Ack(t, s, t).kind = "ACK" /\ Data(t, s).port = t /\ Data(t, s).block = s
          /\ Data(t, s).kind = "DATA"
      BY DEF Ack, Data
    <3>3. ASSUME m = Data(t, s) PROVE FALSE
      <4>1. TransferOK(t) /\ s \in 1 .. Blocks
        BY <1>2, <3>2, <3>3, MessageFacts DEF Inv
      <4>2. t \notin Running
        BY <3>1, <3>2, <3>3, ReceiverFacts DEF Inv
      <4>3. t <= u.udp_port
        <5>1. ~(t > u.udp_port)
          <6>1. s # 0
            BY <4>1
          <6> QED BY <2>0, <4>1, <6>1 DEF TransferOK, BlocksInv
        <5>2. u.udp_port \in Int
          BY TftpAssumption DEF Inv, Base, TransferInv
        <5> QED BY <5>1, <5>2 DEF Transfers
      <4>4. t \in done
        BY <4>2, <4>3 DEF Inv, Base, TransferInv, Running
      <4>5. got[t] = 1 .. Blocks
        BY <1>4, <4>1, <4>4 DEF TransferOK, EndInv
      <4>6. s \notin got[t]
        BY <1>3, <1>4, <3>3, <4>1 DEF TransferOK, ExactInv
      <4> QED BY <4>1, <4>5, <4>6
    <3> QED BY <2>0, <3>1, <3>2, <3>3
  <2> QED BY <2>1, <2>2, <2>3
<1>5. ASSUME NEW t \in Transfers PROVE TransferOK(t)'
  <2>1. TransferOK(t)
    BY DEF Inv
  <2>2. losses' + repeats' = 0 =>
              /\ losses + repeats = 0
              /\ t \notin cut /\ srv[t] \in 1 .. Blocks =>
                    \/ (Data(t, srv[t]) \in net /\ Data(t, srv[t]) \in net')
                    \/ (Ack(t, srv[t], t) \in net /\ Ack(t, srv[t], t) \in net')
    <3>1. losses' + repeats' = 0 /\ t \notin cut /\ srv[t] \in 1 .. Blocks =>
             Data(t, srv[t]) \in net \/ Ack(t, srv[t], t) \in net
      BY <1>3, <2>1 DEF TransferOK, ExactInv
    <3> QED BY <1>1, <1>3, <1>4, <3>1
  <2>3. \A x \in net' : x.port = t => x \in net
    BY <1>1
  <2> QED BY <1>1, <2>1, <2>2, <2>3, PassedBy
<1>6. SizeInv'
  BY <1>1, <1>3, SizeKept DEF Inv
<1> QED BY <1>5, <1>6

\* What became of a received datagram and its answer.
LEMMA ConsumeFacts ==
    ASSUME TypeOK, NEW m \in net, NEW answer, Consume(m, answer), losses' = losses
    PROVE  /\ net' \subseteq net \cup answer
           /\ net \cup answer \subseteq net' \cup {m}
           /\ answer \subseteq net'
           /\ losses' + repeats' = 0 => losses + repeats = 0 /\ net' = (net \ {m}) \cup answer
<1>1. losses \in Nat /\ repeats \in Nat
  BY DEF TypeOK
<1>2. losses' + repeats' = 0 => repeats' # repeats + 1 /\ losses + repeats' = 0
  BY <1>1 DEF Consume
<1> QED BY <1>2 DEF Consume

\* A packet that is not DATA adds no block; a short one ends the transfer.
LEMMA RecvOtherTransfers ==
    ASSUME Inv, NEW m \in net, RecvOther(m)
    PROVE  (\A t \in Transfers : TransferOK(t)') /\ SizeInv'
<1>0. PICK n : n = m.port
  OBVIOUS
<1>1. /\ n \in Transfers /\ m.kind = "OTHER" /\ TypeOK
      /\ UNCHANGED <<srv, losses, file_size, got>> /\ Consume(m, {})
      /\ \/ UNCHANGED <<done, cut>>
         \/ done' = done \cup {n} /\ cut' = cut \cup {n}
  <2>1. m.kind = "OTHER" /\ m \in Messages
    BY DEF RecvOther, Inv, Base, TypeOK
  <2>2. n \in Transfers
    BY <1>0, <2>1, MessageFacts
  <2> QED BY <1>0, <2>1, <2>2 DEF Inv, Base, RecvOther, Deliver
<1>2. u'.udp_port = u.udp_port
  BY RecvBoard DEF Inv
<1>3. /\ net' \subseteq net /\ net \subseteq net' \cup {m}
      /\ losses' + repeats' = 0 => losses + repeats = 0
  BY <1>1, ConsumeFacts
<1>4. \A x : x.kind # "OTHER" => (x \in net' <=> x \in net)
  BY <1>1, <1>3
<1>5. ASSUME NEW t \in Transfers, t # n \/ UNCHANGED <<done, cut>> PROVE TransferOK(t)'
  <2>1. TransferOK(t)
    BY DEF Inv
  <2>2. (t \in done' <=> t \in done) /\ (t \in cut' <=> t \in cut)
    BY <1>1, <1>5
  <2> QED BY <1>1, <1>2, <1>3, <1>4, <2>1, <2>2, OtherTransfer
<1>6. ASSUME n \in cut' PROVE TransferOK(n)'
  <2>1. TransferOK(n)
    BY <1>1 DEF Inv
  <2>2. BlocksInv(n)'
    BY <1>1, <1>2, <1>3, <2>1 DEF TransferOK, BlocksInv
  <2> QED BY <1>6, <2>2 DEF TransferOK, EndInv, ExactInv
<1>7. SizeInv'
  BY <1>1, <1>2, <1>3, SizeKept DEF Inv
<1> QED BY <1>1, <1>5, <1>6, <1>7

\* A block is received after the ones before it, and acknowledged: it is either
\* the next one or one that was received already.
LEMMA RecvDataTransfers ==
    ASSUME Inv, NEW m \in net, RecvData(m)
    PROVE  (\A t \in Transfers : TransferOK(t)') /\ SizeInv'
<1> USE TftpAssumption
<1>0. PICK n, b : n = m.port /\ b = m.block
  OBVIOUS
<1>1. m.kind = "DATA" /\ Receivers(u, m.port) # {} /\ Base /\ TypeOK
  BY DEF RecvData, Inv, Base
<1>2. /\ n \in Running /\ n \in Transfers /\ b \in 1 .. Blocks /\ m = Data(n, b)
      /\ tftp_ack(m) = {Ack(n, b, n)}
  BY <1>0, <1>1, AckFacts
<1>3. n = u.udp_port /\ n \notin done /\ n \notin cut /\ n # 0
  BY <1>1, <1>2, RunningFacts DEF Base, TypeOK, Transfers
<1>4. /\ TransferOK(n) /\ UNCHANGED <<srv, losses, cut>>
      /\ got' = [got EXCEPT ![n] = got[n] \cup {b}]
      /\ Consume(m, {Ack(n, b, n)}) /\ file_size' = file_size + Length(b)
      /\ IF Length(b) < Block THEN done' = done \cup {n} ELSE done' = done
  BY <1>0, <1>2 DEF Inv, RecvData, Deliver
<1>5. u'.udp_port = u.udp_port
  BY <1>1, RecvBoard DEF Inv
<1>6. /\ net' \subseteq net \cup {Ack(n, b, n)} /\ Ack(n, b, n) \in net'
      /\ net \subseteq net' \cup {m}
      /\ losses' + repeats' = 0 => /\ losses + repeats = 0
                                   /\ net' = (net \ {m}) \cup {Ack(n, b, n)}
  BY <1>1, <1>4, ConsumeFacts
<1>7. Blocks \in Nat \ {0} /\ got \in [Transfers -> SUBSET (1 .. Blocks)]
      /\ got'[n] = got[n] \cup {b} /\ file_size \in Nat /\ Length(b) \in Nat
      /\ (Length(b) < Block <=> b = Blocks)
  <2>1. Blocks \in Nat \ {0} /\ Length(b) \in Nat /\ (Length(b) < Block <=> b = Blocks)
    BY <1>2, BlockFacts
  <2>2. got \in [Transfers -> SUBSET (1 .. Blocks)] /\ file_size \in Nat
    BY <1>1 DEF TypeOK
  <2> QED BY <1>2, <1>4, <2>1, <2>2
<1>8. /\ b <= srv[n] /\ 1 .. b - 1 \subseteq got[n] /\ srv[n] # 0 /\ Rrq(n) \notin net
      /\ losses + repeats = 0 => b \notin got[n] /\ (b = srv[n] \/ srv[n] = GaveUp)
  <2>1. /\ b <= srv[n] /\ 1 .. b - 1 \subseteq got[n]
        /\ losses + repeats = 0 => b \notin got[n] /\ (b = srv[n] \/ srv[n] = GaveUp)
    BY <1>2, <1>3, <1>4 DEF TransferOK, BlocksInv, ExactInv
  <2>2. srv[n] # 0
    BY <1>2, <1>7, <2>1
  <2> QED BY <1>4, <2>1, <2>2 DEF TransferOK, BlocksInv
<1>9. PICK j \in 0 .. Blocks :
         /\ got[n] = 1 .. j /\ file_size >= Counted(j)
         /\ losses + repeats = 0 => file_size = Counted(j)
  BY <1>3 DEF Inv, SizeInv
<1>10. PICK k : k = IF b <= j THEN j ELSE b
  OBVIOUS
<1>11. /\ b <= j + 1 /\ k \in 1 .. Blocks /\ got'[n] = 1 .. k /\ b <= k
       /\ (b = Blocks => k = Blocks)
       /\ b <= j \/ (b = j + 1 /\ k = j + 1 /\ j \in 0 .. Blocks - 1)
  <2>1. j \in Nat /\ b \in Nat \ {0}
    BY <1>2, <1>7
  <2>2. b <= j + 1
    BY <1>8, <1>9, <2>1, IntervalFacts
  <2>3. (1 .. j) \cup {b} = 1 .. k
    BY <1>10, <2>1, <2>2, IntervalFacts
  <2>4. k \in 1 .. Blocks /\ b <= k /\ (b = Blocks => k = Blocks)
    BY <1>2, <1>7, <1>10, <2>1
  <2>5. b <= j \/ (b = j + 1 /\ k = j + 1 /\ j \in 0 .. Blocks - 1)
    BY <1>2, <1>7, <1>10, <2>1, <2>2
  <2> QED BY <1>7, <1>9, <2>2, <2>3, <2>4, <2>5
<1>12. ASSUME NEW t \in Transfers, t # n PROVE TransferOK(t)'
  <2>1. \A x : x.port = t => (x \in net' <=> x \in net)
    <3>1. Ack(n, b, n).port = n /\ m.port = n
      BY <1>2, MessagesDiffer
    <3> QED BY <1>6, <1>12, <3>1
  <2>2. TransferOK(t)
    BY DEF Inv
  <2>3. (t \in done' <=> t \in done) /\ got'[t] = got[t]
    BY <1>4, <1>7, <1>12
  <2> QED BY <1>4, <1>5, <1>6, <2>1, <2>2, <2>3, OtherTransfer
<1>13. /\ Rrq(n) \notin net'
       /\ \A c : Data(n, c) \in net' => Data(n, c) \in net
       /\ \A c, s : Ack(n, c, s) \in net' => Ack(n, c, s) \in net \/ (c = b /\ s = n)
  BY <1>6, <1>8, MessagesDiffer
<1>14. BlocksInv(n)'
  <2>1. 1 .. b \subseteq got'[n] /\ got[n] \subseteq got'[n]
    BY <1>2, <1>7, <1>11
  <2>2. \A c \in got'[n] : c <= srv[n]
    BY <1>4, <1>7, <1>8 DEF TransferOK, BlocksInv
  <2>3. ~(n > u'.udp_port) /\ k \in 0 .. Blocks
    BY <1>2, <1>3, <1>5, <1>11 DEF Transfers
  <2> QED BY <1>4, <1>8, <1>11, <1>13, <2>1, <2>2, <2>3 DEF TransferOK, BlocksInv
<1>15. EndInv(n)'
  BY <1>3, <1>4, <1>7, <1>11 DEF EndInv
<1>16. ExactInv(n)'
  <2> SUFFICES ASSUME losses' + repeats' = 0
               PROVE  /\ srv[n] \in 1 .. Blocks => Ack(n, srv[n], n) \in net'
                      /\ \A c \in 1 .. Blocks :
                           /\ Data(n, c) \in net' =>
                                 c \notin got'[n] /\ (c = srv[n] \/ srv[n] = GaveUp)
                           /\ \A s \in Nat : Ack(n, c, s) \in net' =>
                                 s = n /\ (c = srv[n] \/ srv[n] = GaveUp)
    BY <1>4 DEF ExactInv
  <2>1. /\ losses + repeats = 0 /\ (b = srv[n] \/ srv[n] = GaveUp)
        /\ net' = (net \ {m}) \cup {Ack(n, b, n)}
    BY <1>6, <1>8
  <2>2. ASSUME NEW c \in 1 .. Blocks, Data(n, c) \in net'
        PROVE  c \notin got'[n] /\ (c = srv[n] \/ srv[n] = GaveUp)
    <3>1. c # b
      BY <1>2, <2>1, <2>2, MessagesDiffer
    <3>2. c \notin got[n] /\ (c = srv[n] \/ srv[n] = GaveUp)
      BY <1>3, <1>4, <1>13, <2>1, <2>2 DEF TransferOK, ExactInv
    <3> QED BY <1>7, <3>1, <3>2
  <2>3. \A c \in 1 .. Blocks, s \in Nat : Ack(n, c, s) \in net' =>
             s = n /\ (c = srv[n] \/ srv[n] = GaveUp)
    BY <1>3, <1>4, <1>13, <2>1 DEF TransferOK, ExactInv
  <2>4. srv[n] \in 1 .. Blocks => Ack(n, srv[n], n) \in net'
    BY <1>6, <2>1, BlockFacts
  <2> QED BY <2>2, <2>3, <2>4
<1>17. SizeInv'
  <2>1. Counted(j) \in Nat
    BY <1>9, CountedStep
  <2>2. k \in 0 .. Blocks /\ k # 0
    BY <1>7, <1>11
  <2>3. file_size' >= Counted(k)
    <3>1. CASE b <= j
      <4>1. k = j
        BY <1>10, <3>1
      <4> QED BY <1>4, <1>7, <1>9, <2>1, <4>1
    <3>2. CASE b = j + 1 /\ k = j + 1 /\ j \in 0 .. Blocks - 1
      <4>1. Counted(j) + Length(b) = Counted(k)
        BY <3>2, CountedStep
      <4> QED BY <1>4, <1>7, <1>9, <2>1, <4>1
    <3> QED BY <1>11, <3>1, <3>2
  <2>4. losses' + repeats' = 0 => file_size' = Counted(k)
    <3> SUFFICES ASSUME losses' + repeats' = 0 PROVE file_size' = Counted(k)
      OBVIOUS
    <3>1. ~(b <= j)
      BY <1>2, <1>6, <1>7, <1>8, <1>9
    <3>2. Counted(j) + Length(b) = Counted(k)
      BY <1>11, <3>1, CountedStep
    <3> QED BY <1>4, <1>6, <1>9, <3>2
  <2> QED BY <1>3, <1>5, <1>11, <2>2, <2>3, <2>4 DEF SizeInv
<1> QED BY <1>12, <1>14, <1>15, <1>16, <1>17 DEF TransferOK

\* At the start nothing was sent.
LEMMA InitInv == Init => Inv
<1> SUFFICES ASSUME Init PROVE Inv
  OBVIOUS
<1>1. Base /\ u.udp_port = 0
  BY InitBase DEF Init, PoolInit
<1>2. ASSUME NEW t \in Transfers PROVE TransferOK(t)
  <2>1. srv[t] = 0 /\ got[t] = {} /\ net = {} /\ done = {}
    BY DEF Init
  <2>2. got[t] = 1 .. 0 /\ 0 \in 0 .. Blocks /\ ~(0 \in 1 .. Blocks)
    BY <2>1, BlockFacts
  <2>3. BlocksInv(t)
    BY <2>1, <2>2 DEF BlocksInv
  <2> QED BY <2>1, <2>2, <2>3 DEF TransferOK, EndInv, ExactInv
<1> QED BY <1>1, <1>2 DEF Inv, SizeInv

\* Every step keeps the transfers in order.
LEMMA NextInv == Patient /\ Inv /\ [Next]_vars => Inv'
<1> SUFFICES ASSUME Patient, Inv, [Next]_vars
             PROVE  (\A t \in Transfers : TransferOK(t)') /\ SizeInv'
  BY BaseNext DEF Inv
<1>1. ASSUME UNCHANGED <<net, srv, done, cut, got, file_size, losses, repeats>>,
             u'.udp_port = u.udp_port
      PROVE  (\A t \in Transfers : TransferOK(t)') /\ SizeInv'
  <2>1. ASSUME NEW t \in Transfers PROVE TransferOK(t)'
    <3>1. TransferOK(t)
      BY DEF Inv
    <3> QED BY <1>1, <3>1, OtherTransfer
  <2> QED BY <1>1, <2>1, SizeKept DEF Inv
<1>2. CASE tftp
  BY <1>2, TftpTransfers
<1>3. CASE DhcpStart \/ DhcpStop
  <2>1. u'.udp_port = u.udp_port
    BY <1>3, DhcpStep DEF Inv
  <2>2. UNCHANGED <<net, srv, done, cut, got, file_size, losses, repeats>>
    BY <1>3 DEF DhcpStart, DhcpStop, history, budget
  <2> QED BY <1>1, <2>1, <2>2
<1>4. ASSUME NEW n \in Transfers, Server(n)
      PROVE  (\A t \in Transfers : TransferOK(t)') /\ SizeInv'
  <2>1. \A t \in Transfers : TransferOK(t)'
    BY <1>4, ServerRrqTransfers, ServerAckTransfers, ServerRepeatTransfers DEF Server
  <2>2. UNCHANGED <<u, file_size, got, losses, repeats>>
    BY <1>4 DEF Server, ServerRrq, ServerAck, ServerRepeat, board, history, budget
  <2> QED BY <2>1, <2>2, SizeKept DEF Inv
<1>5. ASSUME NEW m \in net, \/ RecvData(m) \/ RecvOther(m) \/ RecvUnreachable(m)
                            \/ ServerIgnore(m) \/ Lose(m)
      PROVE  (\A t \in Transfers : TransferOK(t)') /\ SizeInv'
  BY <1>5, RecvDataTransfers, RecvOtherTransfers, DroppedTransfers
<1>6. CASE UNCHANGED vars
  BY <1>1, <1>6 DEF vars, board, history, budget
<1>7. ASSUME NEW n \in Transfers, ServerError(n)
      PROVE  (\A t \in Transfers : TransferOK(t)') /\ SizeInv'
  <2>1. UNCHANGED <<u, file_size, got, losses, repeats>>
    BY <1>7 DEF ServerError, board, history
  <2> QED BY <1>7, <2>1, ServerErrorTransfers, SizeKept DEF Inv
<1>8. ASSUME NEW n \in Transfers, NEW size \in Sizes, Stray(n, size)
      PROVE  (\A t \in Transfers : TransferOK(t)') /\ SizeInv'
  <2>1. /\ UNCHANGED <<u, srv, done, cut, got, file_size, losses, repeats>>
        /\ net' = net \cup {Other(n, size)}
    BY <1>8 DEF Stray, board, history
  <2>2. \A x : x.kind # "OTHER" => (x \in net' <=> x \in net)
    BY <2>1, MessagesDiffer
  <2>3. ASSUME NEW t \in Transfers PROVE TransferOK(t)'
    <3>1. TransferOK(t)
      BY DEF Inv
    <3> QED BY <2>1, <2>2, <3>1, OtherTransfer
  <2> QED BY <2>1, <2>3, SizeKept DEF Inv
<1> QED BY <1>2, <1>3, <1>4, <1>5, <1>6, <1>7, <1>8 DEF Next, Recv

\* What was received, what is under way and what was counted always agree.
LEMMA TransfersSound == ASSUME Patient PROVE Spec => []Inv
<1>1. Inv /\ [Next]_vars => Inv'
  BY NextInv
<1> QED BY InitInv, <1>1, PTL DEF Spec

\* What a transfer has received is always a beginning of the file, and all of it
\* when a DATA packet ended it, although tftp_recv (tftp.c:107) never looks at a
\* block number, wherever an ERROR or a stray packet falls (tftp.c:129-145).
THEOREM DoneComplete == ASSUME Patient PROVE Spec => []DoneMeansAllBlocks
<1>1. Inv => DoneMeansAllBlocks
  BY DEF Inv, Base, TypeOK, TransferOK, BlocksInv, EndInv, DoneMeansAllBlocks
<1> QED BY <1>1, TransfersSound, PTL

\* file_size, which tftp_recv adds to for every DATA datagram (tftp.c:126), is in
\* the end at least the bytes of the blocks received, so at least the size of the
\* file when DATA ended it, and exactly those bytes when the network lost and
\* repeated nothing.
THEOREM SizeCovers == ASSUME Patient PROVE Spec => []SizeCoversFile
<1>1. Inv => SizeCoversFile
  <2> SUFFICES ASSUME Inv, NEW t \in done, t = u.udp_port
               PROVE  /\ file_size >= Counted(Cardinality(got[t]))
                      /\ losses + repeats = 0 => file_size = Counted(Cardinality(got[t]))
                      /\ t \notin cut => file_size >= FileSize
    BY DEF SizeCoversFile
  <2>1. t \in Transfers /\ t # 0 /\ TransferOK(t)
    <3>1. t \in Transfers
      BY DEF Inv, Base, TypeOK
    <3> QED BY <3>1, TftpAssumption DEF Inv, Transfers
  <2>2. PICK j \in 0 .. Blocks :
           /\ got[t] = 1 .. j /\ file_size >= Counted(j)
           /\ losses + repeats = 0 => file_size = Counted(j)
    BY <2>1 DEF Inv, SizeInv
  <2>3. j \in Nat /\ Blocks \in Nat
    BY <2>2, BlockFacts
  <2>4. Cardinality(got[t]) = j
    BY <2>2, <2>3, FS_Interval
  <2>5. ASSUME t \notin cut PROVE file_size >= FileSize
    <3>1. 1 .. j = 1 .. Blocks
      BY <2>1, <2>2, <2>5 DEF TransferOK, EndInv
    <3>2. j = Blocks
      BY <2>3, <3>1, IntervalFacts
    <3> QED BY <2>2, <3>2, CountedStep
  <2> QED BY <2>2, <2>4, <2>5
<1> QED BY <1>1, TransfersSound, PTL
=============================================================================
