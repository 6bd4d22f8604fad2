---------------------------- MODULE EtharpProofs -----------------------------
(***************************************************************************)
(* Proofs about Etharp, for every size of the table, every ageing limit    *)
(* and all sets of hosts and stations.                                     *)
(***************************************************************************)
EXTENDS Etharp, FiniteSetTheorems, WellFoundedInduction, TLAPS

States == {"EMPTY", "PENDING", "STABLE", "REREQUESTING"}

Entry == [q : Addr \union {None}, ipaddr : Addr \union {None},
          netif : BOOLEAN, ethaddr : Macs \union {None},
          state : States, ctime : 0 .. ARP_MAXAGE]

\* An entry is alone a legal one: what is alive has an address and an age
\* below the limit, a packet waits in a pending entry of its own next hop.
EntryOK(e) ==
    /\ e \in Entry
    /\ e.state # "EMPTY" => e.ipaddr \in Addr /\ e.ctime < ARP_MAXAGE
    /\ e.q # None => e.state = "PENDING" /\ e.q = e.ipaddr

\* The table and its copies.
TableOK(a) ==
    /\ a = [table |-> a.table, copies |-> a.copies]
    /\ a.table \in [Index -> Entry]
    /\ \A i \in Index : EntryOK(a.table[i])
    /\ a.copies = Cardinality(Queued(a))

Unique(a) ==
    \A i, j \in Index :
        /\ a.table[i].state # "EMPTY" /\ a.table[j].state # "EMPTY"
        /\ a.table[i].ipaddr = a.table[j].ipaddr
        => i = j

\* Stable entries name the station that last spoke for their address.
Current(a, ann) ==
    \A i \in Index : a.table[i].state \in Stable =>
                        a.table[i].ethaddr = ann[a.table[i].ipaddr]

Inv ==
    /\ TableOK(arp) /\ Unique(arp) /\ Current(arp, announced)
    /\ hint \in Index
    /\ announced \in [Addr -> Macs \union {None}]
    /\ RightStation

-----------------------------------------------------------------------------
(* Minima and maxima exist.                                                *)

LEMMA Least ==
    ASSUME NEW T \in SUBSET Nat, T # {}
    PROVE  \E x \in T : \A y \in T : x <= y
<1> DEFINE R == OpToRel(<, Nat)
<1>1. IsWellFoundedOn(R, Nat)
  BY NatLessThanWellFounded
<1>2. PICK x \in T : \A y \in T : ~ (<<y, x>> \in R)
  <2> HIDE DEF R
  <2> QED BY <1>1, WFMin
<1>3. \A y \in T : ~(y < x)
  BY <1>2 DEF OpToRel
<1> QED
  BY <1>3

\* A bounded set of numbers has a greatest element.
LEMMA Greatest ==
    ASSUME NEW n \in Nat, NEW T \in SUBSET (0 .. n), T # {}
    PROVE  \E x \in T : \A y \in T : x >= y
<1> DEFINE U == {k \in Nat : \E x \in T : k = n - x}
<1>1. U \in SUBSET Nat /\ U # {}
  <2>1. PICK x \in T : TRUE
    OBVIOUS
  <2>2. n - x \in U
    BY <2>1
  <2> QED
    BY <2>2
<1>2. PICK k \in U : \A l \in U : k <= l
  BY <1>1, Least
<1>3. PICK x \in T : k = n - x
  OBVIOUS
<1>4. \A y \in T : n - y \in U
  OBVIOUS
<1>5. \A y \in T : n - x <= n - y
  BY <1>2, <1>3, <1>4
<1> QED
  BY <1>3, <1>5

\* Min and Max of FiniteSetsExt pick an element of the set.
LEMMA MinIn ==
    ASSUME NEW T \in SUBSET Nat, T # {}
    PROVE  Min(T) \in T
  BY Least DEF Min

\* The same of Max.
LEMMA MaxIn ==
    ASSUME NEW n \in Nat, NEW T \in SUBSET (0 .. n), T # {}
    PROVE  Max(T) \in T
  BY Greatest DEF Max

\* The indices of the table.
LEMMA IndexFacts ==
    /\ ARP_TABLE_SIZE - 1 \in Nat
    /\ Index \subseteq Nat
    /\ Index = 0 .. (ARP_TABLE_SIZE - 1)
    /\ IsFiniteSet(Index)
    /\ \A S \in SUBSET Index : IsFiniteSet(S) /\ Cardinality(S) \in Nat
    /\ ERR_MEM \notin Index
<1>1. ARP_TABLE_SIZE \in 1 .. 127
  BY EtharpAssumption
<1>2. IsFiniteSet(Index)
  BY <1>1, FS_Interval DEF Index
<1>3. \A S \in SUBSET Index : IsFiniteSet(S) /\ Cardinality(S) \in Nat
  BY <1>2, FS_Subset, FS_CardinalityType
<1> QED
  BY <1>1, <1>2, <1>3 DEF Index, ERR_MEM

(* The sweep of etharp_find_entry finds an oldest entry among any.         *)
LEMMA OldestIn ==
    ASSUME NEW a, TableOK(a), NEW S \in SUBSET Index, S # {}
    PROVE  Oldest(a, S) \in S
<1> DEFINE ages == {n \in 0 .. ARP_MAXAGE : \E i \in S : n = a.table[i].ctime}
           old == {i \in S : \A j \in S : a.table[i].ctime >= a.table[j].ctime}
<1>1. ARP_MAXAGE \in Nat
  BY EtharpAssumption
<1>2. \A i \in S : a.table[i].ctime \in 0 .. ARP_MAXAGE
  BY DEF TableOK, Entry
<1>3. ages # {}
  BY <1>2
<1>4. PICK n \in ages : \A k \in ages : n >= k
  BY <1>1, <1>3, Greatest
<1>5. PICK i \in S : n = a.table[i].ctime
  OBVIOUS
<1>6. \A j \in S : a.table[j].ctime \in ages
  BY <1>2
<1>7. i \in old
  BY <1>4, <1>5, <1>6
<1>8. old \in SUBSET (0 .. (ARP_TABLE_SIZE - 1))
  BY IndexFacts
<1> HIDE DEF old
<1>9. Max(old) \in old
  BY <1>7, <1>8, MaxIn, IndexFacts
<1> QED
  BY <1>9 DEF Oldest, old

-----------------------------------------------------------------------------
(* Every function changes the table in one place: entry i becomes e, and   *)
(* copies follows the packet that i held and the one that e holds.         *)

Held(e) == IF e.q = None THEN 0 ELSE 1

Replaced(a, i, e) ==
    [table  |-> [a.table EXCEPT ![i] = e],
     copies |-> a.copies - Held(a.table[i]) + Held(e)]

\* Replacing one entry by a legal one keeps table and count right.
LEMMA ReplaceTable ==
    ASSUME NEW a, TableOK(a), NEW i \in Index, NEW e, EntryOK(e)
    PROVE  TableOK(Replaced(a, i, e))
<1> DEFINE b == Replaced(a, i, e)
<1>1. b = [table |-> b.table, copies |-> b.copies]
  BY DEF Replaced
<1>2. b.table = [a.table EXCEPT ![i] = e]
  BY DEF Replaced
<1>3. b.table \in [Index -> Entry] /\ \A j \in Index : EntryOK(b.table[j])
  BY <1>2 DEF TableOK, EntryOK
<1>4. b.table[i] = e /\ \A j \in Index \ {i} : b.table[j] = a.table[j]
  BY <1>2 DEF TableOK
<1>5. Queued(a) \in SUBSET Index /\ IsFiniteSet(Queued(a) \ {i})
  BY IndexFacts, FS_RemoveElement DEF Queued
<1>6. Cardinality(Queued(a) \ {i}) = a.copies - Held(a.table[i])
  <2>1. /\ a.copies = Cardinality(Queued(a))
        /\ Cardinality(Queued(a)) \in Nat
        /\ IsFiniteSet(Queued(a))
    BY <1>5, IndexFacts DEF TableOK
  <2>2. i \in Queued(a) <=> a.table[i].q # None
    BY DEF Queued
  <2>3. Cardinality(Queued(a) \ {i}) =
            IF i \in Queued(a) THEN Cardinality(Queued(a)) - 1
            ELSE Cardinality(Queued(a))
    BY <2>1, FS_RemoveElement
  <2>4. CASE a.table[i].q = None
    BY <2>1, <2>2, <2>3, <2>4 DEF Held
  <2>5. CASE a.table[i].q # None
    BY <2>1, <2>2, <2>3, <2>5 DEF Held
  <2> QED
    BY <2>4, <2>5
<1>7. Queued(b) = IF e.q = None THEN Queued(a) \ {i}
                  ELSE (Queued(a) \ {i}) \union {i}
  BY <1>4 DEF Queued
<1>8. Cardinality(Queued(b)) = Cardinality(Queued(a) \ {i}) + Held(e)
  <2>1. CASE e.q = None
    <3>1. Cardinality(Queued(a) \ {i}) \in Nat
      BY <1>5, FS_CardinalityType
    <3> QED
      BY <2>1, <3>1, <1>7 DEF Held
  <2>2. CASE e.q # None
    BY <2>2, <1>5, <1>7, FS_AddElement DEF Held
  <2> QED
    BY <2>1, <2>2
<1>9. b.copies = Cardinality(Queued(b))
  BY <1>6, <1>8 DEF Replaced
<1> QED
  BY <1>1, <1>3, <1>9 DEF TableOK

(* The two relations between entries survive when e is dead, or alone with *)
(* its address and, if stable, current.                                    *)
LEMMA ReplaceUnique ==
    ASSUME NEW a, TableOK(a), Unique(a), NEW i \in Index, NEW e,
           e.state # "EMPTY" =>
              \A j \in Index \ {i} : a.table[j].state # "EMPTY" =>
                                        a.table[j].ipaddr # e.ipaddr
    PROVE  Unique(Replaced(a, i, e))
<1> DEFINE b == Replaced(a, i, e)
<1>1. b.table[i] = e /\ \A j \in Index \ {i} : b.table[j] = a.table[j]
  BY DEF TableOK, Replaced
<1> HIDE DEF b
<1>2. Unique(b)
  BY <1>1 DEF Unique
<1> QED
  BY <1>2 DEF b

\* The same for a set of announcements that may be newer.
LEMMA ReplaceCurrent ==
    ASSUME NEW a, TableOK(a), NEW ann, NEW i \in Index, NEW e,
           \A j \in Index \ {i} : a.table[j].state \in Stable =>
                a.table[j].ethaddr = ann[a.table[j].ipaddr],
           e.state \in Stable => e.ethaddr = ann[e.ipaddr]
    PROVE  Current(Replaced(a, i, e), ann)
<1> DEFINE b == Replaced(a, i, e)
<1>1. b.table[i] = e /\ \A j \in Index \ {i} : b.table[j] = a.table[j]
  BY DEF TableOK, Replaced
<1> HIDE DEF b
<1>2. Current(b, ann)
  BY <1>1 DEF Current
<1> QED
  BY <1>2 DEF b

Good(a, ann) == TableOK(a) /\ Unique(a) /\ Current(a, ann)

\* The three together.
LEMMA ReplaceGood ==
    ASSUME NEW a, NEW ann, Good(a, ann), NEW i \in Index, NEW e, EntryOK(e),
           e.state # "EMPTY" =>
              \A j \in Index \ {i} : a.table[j].state # "EMPTY" =>
                                        a.table[j].ipaddr # e.ipaddr,
           e.state \in Stable => e.ethaddr = ann[e.ipaddr]
    PROVE  Good(Replaced(a, i, e), ann)
<1>1. \A j \in Index \ {i} : a.table[j].state \in Stable =>
                a.table[j].ethaddr = ann[a.table[j].ipaddr]
  BY DEF Good, Current
<1>2. TableOK(Replaced(a, i, e))
  BY ReplaceTable DEF Good
<1>3. Unique(Replaced(a, i, e))
  BY ReplaceUnique DEF Good
<1>4. Current(Replaced(a, i, e), ann)
  BY <1>1, ReplaceCurrent DEF Good
<1> QED
  BY <1>2, <1>3, <1>4 DEF Good

\* The count of copies is a number.
LEMMA CopiesNat ==
    ASSUME NEW a, TableOK(a)
    PROVE  a.copies \in Nat
<1>1. Queued(a) \in SUBSET Index
  BY DEF Queued
<1> QED
  BY <1>1, IndexFacts DEF TableOK

-----------------------------------------------------------------------------
(* etharp_find_entry.                                                      *)

\* etharp_free_entry replaces one entry by a dead one.
LEMMA FreeIsReplace ==
    ASSUME NEW a, TableOK(a), NEW i \in Index
    PROVE  etharp_free_entry(a, i) =
               Replaced(a, i, [a.table[i] EXCEPT !.q = None, !.state = "EMPTY"])
<1> DEFINE e == [a.table[i] EXCEPT !.q = None, !.state = "EMPTY"]
<1>1. a.table[i] \in Entry /\ a.table \in [Index -> Entry]
  BY DEF TableOK
<1>2. e.q = None
  BY <1>1 DEF Entry
<1>3. [a.table EXCEPT ![i].q = None, ![i].state = "EMPTY"]
        = [a.table EXCEPT ![i] = e]
  BY <1>1
<1>4. Dropped(a, i) = a.copies - Held(a.table[i]) + Held(e)
  BY <1>2, CopiesNat DEF Dropped, Held
<1> QED
  BY <1>3, <1>4 DEF etharp_free_entry, Replaced

\* It therefore keeps the table good.
LEMMA FreeGood ==
    ASSUME NEW a, NEW ann, Good(a, ann), NEW i \in Index
    PROVE  LET b == etharp_free_entry(a, i)
           IN  /\ Good(b, ann)
               /\ b.table[i].state = "EMPTY"
               /\ \A j \in Index \ {i} : b.table[j] = a.table[j]
<1> DEFINE e == [a.table[i] EXCEPT !.q = None, !.state = "EMPTY"]
<1>1. TableOK(a) /\ a.table[i] \in Entry
  BY DEF Good, TableOK
<1>2. /\ e \in Entry /\ e.q = None /\ e.state = "EMPTY"
  BY <1>1 DEF Entry, States
<1>3. EntryOK(e)
  BY <1>2 DEF EntryOK
<1>4. etharp_free_entry(a, i) = Replaced(a, i, e)
  BY <1>1, FreeIsReplace
<1> HIDE DEF e
<1>5. "EMPTY" \notin Stable
  BY DEF Stable
<1>6. Good(Replaced(a, i, e), ann)
  BY <1>2, <1>3, <1>5, ReplaceGood
<1>7. /\ Replaced(a, i, e).table[i] = e
      /\ \A j \in Index \ {i} : Replaced(a, i, e).table[j] = a.table[j]
  BY <1>1 DEF Replaced, TableOK
<1> QED
  BY <1>2, <1>4, <1>6, <1>7

(* Something can always be recycled in a table without an empty entry.     *)
LEMMA RecycledIn ==
    ASSUME NEW a, TableOK(a), InState(a, {"EMPTY"}) = {}
    PROVE  Recycled(a) \in Index
<1> DEFINE stable  == InState(a, Stable)
           pending == InState(a, {"PENDING"}) \ Queued(a)
           queued  == InState(a, {"PENDING"}) \intersect Queued(a)
<1>1. stable \subseteq Index /\ pending \subseteq Index /\ queued \subseteq Index
  BY DEF InState
<1>2. stable # {} \/ pending # {} \/ queued # {}
  <2>1. 0 \in Index
    BY IndexFacts
  <2>2. a.table[0].state \in States /\ a.table[0].state # "EMPTY"
    BY <2>1 DEF TableOK, Entry, InState
  <2> QED
    BY <2>1, <2>2 DEF InState, States, Stable
<1> DEFINE S == IF stable # {} THEN stable
                ELSE IF pending # {} THEN pending ELSE queued
<1>3. S \in SUBSET Index /\ S # {}
  BY <1>1, <1>2
<1>4. Recycled(a) = Oldest(a, S)
  BY DEF Recycled
<1> QED
  BY <1>3, <1>4, OldestIn

(* The two assignments that make a fresh entry of the empty entry i.       *)
Made(c, b, ann, i, ip) ==
    /\ Good(c, ann)
    /\ c.table[i].state = "EMPTY"
    /\ c.table[i].ipaddr = ip
    /\ c.table[i].ctime = 0
    /\ \A j \in Index \ {i} : c.table[j] = b.table[j]

\* They change nothing else, and keep the table good.
LEMMA MakeGood ==
    ASSUME NEW b, NEW ann, Good(b, ann), NEW i \in Index, NEW ip \in Addr,
           b.table[i].state = "EMPTY"
    PROVE  Made([b EXCEPT !.table[i].ipaddr = ip, !.table[i].ctime = 0], b, ann, i, ip)
<1> DEFINE e == [b.table[i] EXCEPT !.ipaddr = ip, !.ctime = 0]
           c == [b EXCEPT !.table[i].ipaddr = ip, !.table[i].ctime = 0]
           r == [table |-> b.table, copies |-> b.copies]
           T == [[b.table EXCEPT ![i].ipaddr = ip] EXCEPT ![i].ctime = 0]
<1>1. /\ TableOK(b) /\ EntryOK(b.table[i]) /\ b.table[i] \in Entry
      /\ b.table \in [Index -> Entry] /\ b = r
  BY DEF Good, TableOK
<1>2. b.table[i].q = None
  BY <1>1 DEF EntryOK
<1>3. 0 \in 0 .. ARP_MAXAGE
  BY EtharpAssumption
<1>4. /\ e \in Entry /\ e.q = None /\ e.state = "EMPTY"
      /\ e.ipaddr = ip /\ e.ctime = 0
  BY <1>1, <1>2, <1>3 DEF Entry
<1>5. EntryOK(e)
  BY <1>4 DEF EntryOK
<1>6. c = Replaced(b, i, e)
  <2>1. [r EXCEPT !.table = T] = [table |-> T, copies |-> b.copies]
    OBVIOUS
  <2>2. c = [r EXCEPT !.table = T]
    BY <1>1
  <2>3. T = [b.table EXCEPT ![i] = e]
    BY <1>1
  <2>4. b.copies = b.copies - Held(b.table[i]) + Held(e)
    BY <1>1, <1>2, <1>4, CopiesNat DEF Held
  <2> HIDE DEF c, e, r, T
  <2> QED
    BY <2>1, <2>2, <2>3, <2>4 DEF Replaced
<1> HIDE DEF e
<1>7. Good(Replaced(b, i, e), ann)
  <2>1. "EMPTY" \notin Stable
    BY DEF Stable
  <2> QED
    BY <1>4, <1>5, <2>1, ReplaceGood
<1>8. /\ Replaced(b, i, e).table[i] = e
      /\ \A j \in Index \ {i} : Replaced(b, i, e).table[j] = b.table[j]
  BY <1>1 DEF Replaced
<1> HIDE DEF c
<1>9. /\ Good(c, ann) /\ c.table[i] = e
      /\ \A j \in Index \ {i} : c.table[j] = b.table[j]
  BY <1>6, <1>7, <1>8
<1>10. Made(c, b, ann, i, ip)
  BY <1>4, <1>9 DEF Made
<1> QED
  BY <1>10 DEF c

\* A fresh entry is empty, has address ip, and all others are as before.
LEMMA FreshGood ==
    ASSUME NEW a, NEW ann, Good(a, ann), NEW ip \in Addr
    PROVE  LET f == Fresh(a, ip)
           IN  /\ f.i \in Index
               /\ Good(f.a, ann)
               /\ f.a.table[f.i].state = "EMPTY"
               /\ f.a.table[f.i].ipaddr = ip
               /\ f.a.table[f.i].ctime = 0
               /\ \A j \in Index \ {f.i} : f.a.table[j] = a.table[j]
<1> DEFINE empty == InState(a, {"EMPTY"})
<1>1. TableOK(a)
  BY DEF Good
<1>2. PICK i, b : /\ Fresh(a, ip) =
                       [i |-> i, a |-> [b EXCEPT !.table[i].ipaddr = ip,
                                                 !.table[i].ctime = 0]]
                  /\ i \in Index
                  /\ Good(b, ann)
                  /\ b.table[i].state = "EMPTY"
                  /\ \A j \in Index \ {i} : b.table[j] = a.table[j]
  <2>1. CASE empty # {}
    <3>1. empty \in SUBSET Nat
      BY IndexFacts DEF InState
    <3>2. Min(empty) \in Index /\ a.table[Min(empty)].state = "EMPTY"
      <4>1. Min(empty) \in empty
        BY <2>1, <3>1, MinIn
      <4> QED
        BY <4>1 DEF InState
    <3>3. Fresh(a, ip) =
             [i |-> Min(empty), a |-> [a EXCEPT !.table[Min(empty)].ipaddr = ip,
                                                !.table[Min(empty)].ctime = 0]]
      BY <2>1 DEF Fresh
    <3> QED
      BY <3>2, <3>3
  <2>2. CASE empty = {}
    <3>1. Recycled(a) \in Index
      BY <1>1, <2>2, RecycledIn
    <3> DEFINE b == etharp_free_entry(a, Recycled(a))
    <3>2. Fresh(a, ip) =
             [i |-> Recycled(a), a |-> [b EXCEPT !.table[Recycled(a)].ipaddr = ip,
                                                 !.table[Recycled(a)].ctime = 0]]
      BY <2>2 DEF Fresh
    <3>3. /\ Good(b, ann)
          /\ b.table[Recycled(a)].state = "EMPTY"
          /\ \A j \in Index \ {Recycled(a)} : b.table[j] = a.table[j]
      BY <3>1, FreeGood
    <3> QED
      BY <3>1, <3>2, <3>3
  <2> QED
    BY <2>1, <2>2
<1> DEFINE c == [b EXCEPT !.table[i].ipaddr = ip, !.table[i].ctime = 0]
<1>3. /\ Good(c, ann)
      /\ c.table[i].state = "EMPTY"
      /\ c.table[i].ipaddr = ip
      /\ c.table[i].ctime = 0
      /\ \A j \in Index \ {i} : c.table[j] = b.table[j]
  <2>1. Made(c, b, ann, i, ip)
    BY <1>2, MakeGood
  <2> HIDE DEF c
  <2> QED
    BY <2>1 DEF Made
<1>4. Fresh(a, ip).i = i /\ Fresh(a, ip).a = c
  BY <1>2
<1> HIDE DEF c
<1> QED
  BY <1>2, <1>3, <1>4

(* What etharp_find_entry returns: nothing, or the only entry that ip has. *)
Found(f, a, ip) ==
    /\ f.i \in Index
    /\ f.a.table[f.i].ipaddr = ip
    /\ \A j \in Index \ {f.i} : f.a.table[j].state # "EMPTY" =>
                                    f.a.table[j].ipaddr # ip
    /\ \/ f.a.table[f.i].state = "EMPTY" /\ f.a.table[f.i].ctime = 0
       \/ f.a = a /\ f.i \in Matching(a, ip)

\* etharp_find_entry keeps the table good, whatever it recycles.
LEMMA FindGood ==
    ASSUME NEW a, NEW ann, Good(a, ann), NEW ip \in Addr, NEW flags
    PROVE  LET f == etharp_find_entry(a, ip, flags)
           IN  \/ /\ f.i = ERR_MEM /\ f.a = a /\ flags = "FIND_ONLY"
                  /\ Matching(a, ip) = {}
               \/ Good(f.a, ann) /\ Found(f, a, ip)
<1> DEFINE f == etharp_find_entry(a, ip, flags)
           match == Matching(a, ip)
<1>1. CASE match # {}
  <2>1. f = [i |-> Min(match), a |-> a]
    BY <1>1 DEF etharp_find_entry
  <2>2. match \in SUBSET Index
    BY DEF Matching
  <2>3. Min(match) \in match
    BY <1>1, <2>2, MinIn, IndexFacts
  <2>4. /\ Min(match) \in Index /\ a.table[Min(match)].ipaddr = ip
        /\ a.table[Min(match)].state # "EMPTY"
    BY <2>3 DEF Matching
  <2>5. \A j \in Index \ {Min(match)} : a.table[j].state # "EMPTY" =>
                                           a.table[j].ipaddr # ip
    BY <2>4 DEF Good, Unique
  <2> QED
    BY <2>1, <2>3, <2>4, <2>5 DEF Found
<1>2. CASE match = {} /\ flags = "FIND_ONLY"
  <2>1. f = [i |-> ERR_MEM, a |-> a]
    BY <1>2 DEF etharp_find_entry
  <2> QED
    BY <1>2, <2>1
<1>3. CASE match = {} /\ flags # "FIND_ONLY"
  <2>1. f = Fresh(a, ip)
    BY <1>3 DEF etharp_find_entry
  <2>2. \A j \in Index : a.table[j].state # "EMPTY" => a.table[j].ipaddr # ip
    BY <1>3 DEF Matching
  <2> HIDE DEF f
  <2>3. /\ f.i \in Index
        /\ Good(f.a, ann)
        /\ f.a.table[f.i].state = "EMPTY"
        /\ f.a.table[f.i].ipaddr = ip
        /\ f.a.table[f.i].ctime = 0
        /\ \A j \in Index \ {f.i} : f.a.table[j] = a.table[j]
    BY <2>1, FreshGood
  <2>4. Found(f, a, ip)
    BY <2>2, <2>3 DEF Found
  <2> QED
    BY <2>3, <2>4 DEF f
<1> QED
  BY <1>1, <1>2, <1>3

-----------------------------------------------------------------------------
(* The functions that send and receive.                                    *)

(* etharp_update_arp_entry: the table follows the announcement, and so does*)
(* the packet that waited for it.                                          *)
LEMMA UpdateGood ==
    ASSUME Good(arp, announced),
           announced \in [Addr -> Macs \union {None}],
           NEW ip \in Addr, NEW mac \in Macs, NEW flags,
           etharp_update_arp_entry(ip, mac, flags),
           announced' = [announced EXCEPT ![ip] = mac]
    PROVE  Good(arp', announced') /\ RightStation'
<1> DEFINE f == etharp_find_entry(arp, ip, flags)
           e == [q |-> None, ipaddr |-> ip, netif |-> TRUE,
                 ethaddr |-> mac, state |-> "STABLE", ctime |-> 0]
<1>1. /\ announced'[ip] = mac
      /\ \A x \in Addr \ {ip} : announced'[x] = announced[x]
  OBVIOUS
<1>2. /\ f.i = ERR_MEM => arp' = f.a /\ out' = {}
      /\ f.i # ERR_MEM =>
           /\ arp' = [table |-> [f.a.table EXCEPT ![f.i] = e],
                      copies |-> Dropped(f.a, f.i)]
           /\ out' = IF f.a.table[f.i].q = None THEN {}
                     ELSE {IpFrame(f.a.table[f.i].q, mac)}
  BY DEF etharp_update_arp_entry
<1>3. \/ f.i = ERR_MEM /\ f.a = arp /\ Matching(arp, ip) = {}
      \/ Good(f.a, announced) /\ Found(f, arp, ip)
  BY FindGood
<1> HIDE DEF f
<1>4. CASE f.i = ERR_MEM /\ f.a = arp /\ Matching(arp, ip) = {}
  <2>1. arp' = arp /\ out' = {}
    BY <1>2, <1>4
  <2>2. \A j \in Index : arp.table[j].state \in Stable =>
            /\ arp.table[j].ipaddr \in Addr \ {ip}
            /\ arp.table[j].ethaddr = announced[arp.table[j].ipaddr]
    BY <1>4 DEF Matching, Good, TableOK, EntryOK, Current, Stable
  <2>3. Current(arp, announced')
    BY <1>1, <2>2 DEF Current
  <2> QED
    BY <2>1, <2>3 DEF Good, RightStation
<1>5. CASE Good(f.a, announced) /\ Found(f, arp, ip)
  <2>1. f.i \in Index /\ f.i # ERR_MEM
    BY <1>5, IndexFacts DEF Found
  <2>2. EntryOK(e)
    BY EtharpAssumption DEF EntryOK, Entry, States
  <2>3. TableOK(f.a) /\ Unique(f.a) /\ f.a.copies \in Nat
    BY <1>5, CopiesNat DEF Good
  <2>4. arp' = Replaced(f.a, f.i, e)
    <3>1. Dropped(f.a, f.i) = f.a.copies - Held(f.a.table[f.i]) + Held(e)
      BY <2>3 DEF Dropped, Held
    <3> QED
      BY <1>2, <2>1, <3>1 DEF Replaced
  <2>5. \A j \in Index \ {f.i} : f.a.table[j].state # "EMPTY" =>
                                    f.a.table[j].ipaddr # ip
    BY <1>5 DEF Found
  <2>6. \A j \in Index \ {f.i} : f.a.table[j].state \in Stable =>
            f.a.table[j].ethaddr = announced'[f.a.table[j].ipaddr]
    <3>1. \A j \in Index : f.a.table[j].state \in Stable =>
            /\ f.a.table[j].state # "EMPTY"
            /\ f.a.table[j].ipaddr \in Addr
            /\ f.a.table[j].ethaddr = announced[f.a.table[j].ipaddr]
      BY <1>5 DEF Good, TableOK, EntryOK, Current, Stable
    <3> QED
      BY <1>1, <2>5, <3>1
  <2>7. Good(arp', announced')
    <3>1. TableOK(Replaced(f.a, f.i, e))
      BY <2>1, <2>2, <2>3, ReplaceTable
    <3>2. Unique(Replaced(f.a, f.i, e))
      BY <2>1, <2>3, <2>5, ReplaceUnique
    <3>3. e.ethaddr = announced'[e.ipaddr]
      BY <1>1
    <3> HIDE DEF e
    <3>4. Current(Replaced(f.a, f.i, e), announced')
      <4>1. \A ann :
              /\ \A j \in Index \ {f.i} : f.a.table[j].state \in Stable =>
                     f.a.table[j].ethaddr = ann[f.a.table[j].ipaddr]
              /\ e.ethaddr = ann[e.ipaddr]
              => Current(Replaced(f.a, f.i, e), ann)
        BY <2>1, <2>3, ReplaceCurrent
      <4> QED
        BY <2>6, <3>3, <4>1
    <3> QED
      BY <2>4, <3>1, <3>2, <3>4 DEF Good
  <2>8. f.a.table[f.i].q # None => f.a.table[f.i].q = ip
    BY <1>5, <2>1, <2>3 DEF TableOK, EntryOK, Found
  <2>9. RightStation'
    BY <1>1, <1>2, <2>1, <2>8 DEF RightStation, IpFrame
  <2> QED
    BY <2>7, <2>9
<1> QED
  BY <1>3, <1>4, <1>5

(* The entry that etharp_query makes or finds is alive and has address ip. *)
LEMMA PendingGood ==
    ASSUME NEW a, NEW ann, Good(a, ann), NEW i \in Index,
           a.table[i].ipaddr \in Addr,
           \A j \in Index \ {i} : a.table[j].state # "EMPTY" =>
                                     a.table[j].ipaddr # a.table[i].ipaddr,
           a.table[i].state = "EMPTY" => a.table[i].ctime = 0
    PROVE  LET b == AsPending(a, i)
           IN  /\ Good(b, ann)
               /\ b.table[i].ipaddr = a.table[i].ipaddr
               /\ \A j \in Index \ {i} : b.table[j] = a.table[j]
               /\ b.table[i].state = IF a.table[i].state = "EMPTY"
                                     THEN "PENDING" ELSE a.table[i].state
<1>1. CASE a.table[i].state # "EMPTY"
  BY <1>1 DEF AsPending
<1>2. CASE a.table[i].state = "EMPTY"
  <2> DEFINE e == [a.table[i] EXCEPT !.state = "PENDING"]
             c == [a EXCEPT !.table[i].state = "PENDING"]
             r == [table |-> a.table, copies |-> a.copies]
  <2>1. /\ TableOK(a) /\ EntryOK(a.table[i]) /\ a.table[i] \in Entry
        /\ a.table \in [Index -> Entry] /\ a = r
    BY DEF Good, TableOK
  <2>2. a.table[i].q = None
    BY <1>2, <2>1 DEF EntryOK
  <2>3. /\ e \in Entry /\ e.q = None /\ e.state = "PENDING"
        /\ e.ipaddr = a.table[i].ipaddr /\ e.ctime = 0
    BY <1>2, <2>1, <2>2 DEF Entry, States
  <2>4. EntryOK(e)
    BY <2>3, EtharpAssumption DEF EntryOK
  <2>5. c = Replaced(a, i, e)
    <3>1. [r EXCEPT !.table = [a.table EXCEPT ![i] = e]]
             = [table |-> [a.table EXCEPT ![i] = e], copies |-> a.copies]
      OBVIOUS
    <3>2. c = [r EXCEPT !.table = [a.table EXCEPT ![i] = e]]
      BY <2>1
    <3>3. a.copies = a.copies - Held(a.table[i]) + Held(e)
      BY <2>1, <2>2, <2>3, CopiesNat DEF Held
    <3> HIDE DEF c, e, r
    <3> QED
      BY <3>1, <3>2, <3>3 DEF Replaced
  <2> HIDE DEF e
  <2>6. Good(Replaced(a, i, e), ann)
    <3>1. "PENDING" \notin Stable
      BY DEF Stable
    <3> QED
      BY <2>3, <2>4, <3>1, ReplaceGood
  <2>7. /\ Replaced(a, i, e).table[i] = e
        /\ \A j \in Index \ {i} : Replaced(a, i, e).table[j] = a.table[j]
    BY <2>1 DEF Replaced
  <2> HIDE DEF c
  <2>8. AsPending(a, i) = c
    BY <1>2 DEF AsPending, c
  <2> QED
    BY <1>2, <2>3, <2>5, <2>6, <2>7, <2>8
<1> QED
  BY <1>1, <1>2

(* The packet that waited is freed when the new one takes its place.       *)
LEMMA EnqueueGood ==
    ASSUME NEW a, NEW ann, Good(a, ann), NEW i \in Index, NEW ok \in BOOLEAN,
           a.table[i].state = "PENDING", NEW ip \in Addr,
           a.table[i].ipaddr = ip
    PROVE  Good(Enqueue(a, i, ip, ok), ann)
<1>1. CASE ~ok
  BY <1>1 DEF Enqueue
<1>2. CASE ok
  <2> DEFINE e == [a.table[i] EXCEPT !.q = ip]
  <2>1. /\ TableOK(a) /\ EntryOK(a.table[i]) /\ a.table[i] \in Entry
        /\ a.table \in [Index -> Entry] /\ a.copies \in Nat
    BY CopiesNat DEF Good, TableOK
  <2>2. ip # None
    BY EtharpAssumption
  <2>3. /\ e \in Entry /\ e.q = ip /\ e.state = "PENDING"
        /\ e.ipaddr = ip /\ e.ctime = a.table[i].ctime
    BY <2>1 DEF Entry
  <2>4. EntryOK(e)
    BY <2>1, <2>3 DEF EntryOK
  <2>5. Enqueue(a, i, ip, ok) = Replaced(a, i, e)
    <3>1. [a.table EXCEPT ![i].q = ip] = [a.table EXCEPT ![i] = e]
      BY <2>1
    <3>2. Dropped(a, i) + 1 = a.copies - Held(a.table[i]) + Held(e)
      BY <2>1, <2>2, <2>3 DEF Dropped, Held
    <3> QED
      BY <1>2, <3>1, <3>2 DEF Enqueue, Replaced
  <2>6. \A j \in Index \ {i} : a.table[j].state # "EMPTY" =>
                                  a.table[j].ipaddr # ip
    BY DEF Good, Unique
  <2> HIDE DEF e
  <2>7. "PENDING" \notin Stable
    BY DEF Stable
  <2> QED
    BY <2>3, <2>4, <2>5, <2>6, <2>7, ReplaceGood
<1> QED
  BY <1>1, <1>2

\* etharp_query, with and without a packet.
LEMMA QueryGood ==
    ASSUME Good(arp, announced), NEW ip \in Addr,
           NEW packet \in BOOLEAN, NEW ok \in BOOLEAN,
           packet => StableFor(ip) = {},
           etharp_query(ip, packet, ok)
    PROVE  Good(arp', announced) /\ out' = {} /\ hint' = hint
<1> DEFINE f == etharp_find_entry(arp, ip, "TRY_HARD")
           b == AsPending(f.a, f.i)
<1>1. /\ arp' = IF packet THEN Enqueue(b, f.i, ip, ok) ELSE b
      /\ out' = {} /\ hint' = hint
  BY DEF etharp_query
<1>2. Good(f.a, announced) /\ Found(f, arp, ip)
  BY FindGood
<1> HIDE DEF f
<1>3. /\ f.i \in Index /\ f.a.table[f.i].ipaddr = ip
      /\ \A j \in Index \ {f.i} : f.a.table[j].state # "EMPTY" =>
                                     f.a.table[j].ipaddr # ip
  BY <1>2 DEF Found
<1>4. f.a.table[f.i].state = "EMPTY" => f.a.table[f.i].ctime = 0
  BY <1>2 DEF Found, Matching
<1>5. /\ Good(b, announced)
      /\ b.table[f.i].ipaddr = ip
      /\ b.table[f.i].state = IF f.a.table[f.i].state = "EMPTY"
                              THEN "PENDING" ELSE f.a.table[f.i].state
  BY <1>2, <1>3, <1>4, PendingGood
<1> HIDE DEF b
<1>6. packet => b.table[f.i].state = "PENDING"
  <2>1. CASE f.a.table[f.i].state = "EMPTY"
    BY <1>5, <2>1
  <2>2. CASE f.a.table[f.i].state # "EMPTY"
    <3>1. f.a = arp /\ f.i \in Matching(arp, ip)
      BY <1>2, <2>2 DEF Found
    <3>2. packet => arp.table[f.i].state \notin Stable
      BY <3>1 DEF StableFor
    <3>3. arp.table[f.i].state \in States
      BY <1>3 DEF Good, TableOK, Entry
    <3> QED
      BY <1>5, <2>2, <3>1, <3>2, <3>3 DEF States, Stable
  <2> QED
    BY <2>1, <2>2
<1>7. packet => Good(Enqueue(b, f.i, ip, ok), announced)
  BY <1>3, <1>5, <1>6, EnqueueGood
<1> QED
  BY <1>1, <1>5, <1>7

(* Sending through a stable entry of the next hop.                         *)
LEMMA SendGood ==
    ASSUME Good(arp, announced), NEW hop \in Addr, NEW asked \in BOOLEAN,
           NEW i \in StableFor(hop),
           etharp_output_to_arp_index(i, hop, asked)
    PROVE  /\ Good(arp', announced)
           /\ \A g \in out' : g.mac = announced[g.hop]
<1>1. /\ i \in Index /\ arp.table[i].ipaddr = hop
      /\ arp.table[i].state \in Stable /\ arp.table[i].state # "EMPTY"
  BY DEF StableFor, Matching
<1>2. arp.table[i].ethaddr = announced[hop]
  BY <1>1 DEF Good, Current
<1>3. \A g \in out' : g.mac = announced[g.hop]
  BY <1>2 DEF etharp_output_to_arp_index, IpFrame
<1>4. Good(arp', announced)
  <2> DEFINE e == [arp.table[i] EXCEPT !.state = "REREQUESTING"]
             c == [arp EXCEPT !.table[i].state = "REREQUESTING"]
             r == [table |-> arp.table, copies |-> arp.copies]
  <2>1. arp' = arp \/ arp' = c
    BY DEF etharp_output_to_arp_index
  <2>2. /\ TableOK(arp) /\ EntryOK(arp.table[i]) /\ arp.table[i] \in Entry
        /\ arp.table \in [Index -> Entry] /\ arp = r /\ arp.copies \in Nat
    BY <1>1, CopiesNat DEF Good, TableOK
  <2>3. arp.table[i].q = None
    BY <1>1, <2>2 DEF EntryOK, Stable
  <2>4. /\ e \in Entry /\ e.q = None /\ e.state = "REREQUESTING"
        /\ e.ipaddr = hop /\ e.ctime = arp.table[i].ctime
        /\ e.ethaddr = arp.table[i].ethaddr
    BY <1>1, <2>2, <2>3 DEF Entry, States
  <2>5. EntryOK(e)
    BY <1>1, <2>2, <2>4 DEF EntryOK
  <2>6. c = Replaced(arp, i, e)
    <3>1. [r EXCEPT !.table = [arp.table EXCEPT ![i] = e]]
             = [table |-> [arp.table EXCEPT ![i] = e], copies |-> arp.copies]
      OBVIOUS
    <3>2. c = [r EXCEPT !.table = [arp.table EXCEPT ![i] = e]]
      BY <2>2
    <3>3. arp.copies = arp.copies - Held(arp.table[i]) + Held(e)
      BY <2>2, <2>3, <2>4 DEF Held
    <3> HIDE DEF c, e, r
    <3> QED
      BY <3>1, <3>2, <3>3 DEF Replaced
  <2>7. \A j \in Index \ {i} : arp.table[j].state # "EMPTY" =>
                                  arp.table[j].ipaddr # hop
    BY <1>1 DEF Good, Unique
  <2> HIDE DEF e, c
  <2>8. Good(Replaced(arp, i, e), announced)
    BY <1>1, <1>2, <2>4, <2>5, <2>7, ReplaceGood
  <2> QED
    BY <2>1, <2>6, <2>8
<1> QED
  BY <1>3, <1>4

-----------------------------------------------------------------------------
(* Steps that go through the whole table only let entries die: those that  *)
(* live keep address and station, and the packets in F are freed.          *)
LEMMA ThinnedGood ==
    ASSUME NEW a, NEW ann, Good(a, ann), NEW T \in [Index -> Entry],
           \A i \in Index :
              /\ EntryOK(T[i])
              /\ T[i].state # "EMPTY" => /\ a.table[i].state # "EMPTY"
                                         /\ T[i].ipaddr = a.table[i].ipaddr
              /\ T[i].state \in Stable => /\ a.table[i].state \in Stable
                                          /\ T[i].ethaddr = a.table[i].ethaddr
              /\ T[i].q = a.table[i].q \/ T[i].q = None,
           NEW F, F = {i \in Queued(a) : T[i].q = None}
    PROVE  Good([table |-> T, copies |-> a.copies - Cardinality(F)], ann)
<1> DEFINE b == [table |-> T, copies |-> a.copies - Cardinality(F)]
<1>1. /\ b.table = T /\ b.copies = a.copies - Cardinality(F)
      /\ b = [table |-> b.table, copies |-> b.copies]
  OBVIOUS
<1> HIDE DEF b
<1>2. b.copies = Cardinality(Queued(b))
  <2>1. Queued(a) \in SUBSET Index /\ IsFiniteSet(Queued(a))
    BY IndexFacts DEF Queued
  <2>2. Queued(b) = Queued(a) \ F
    BY <1>1 DEF Queued
  <2>3. Queued(a) \intersect F = F
    OBVIOUS
  <2>4. Cardinality(Queued(a) \ F) = Cardinality(Queued(a)) - Cardinality(F)
    <3>1. Cardinality(Queued(a) \ F)
            = Cardinality(Queued(a)) - Cardinality(Queued(a) \intersect F)
      <4> HIDE DEF b
      <4>1. IsFiniteSet(Queued(a))
        BY <2>1
      <4> QED
        BY ONLY <4>1, FS_Difference
    <3> QED
      BY <2>3, <3>1
  <2>5. a.copies = Cardinality(Queued(a))
    BY DEF Good, TableOK
  <2> QED
    BY <1>1, <2>2, <2>4, <2>5
<1>3. TableOK(b)
  BY <1>1, <1>2 DEF TableOK
<1>4. Unique(b)
  BY <1>1 DEF Good, Unique
<1>5. Current(b, ann)
  <2>1. \A i \in Index : T[i].state \in Stable => T[i].ipaddr = a.table[i].ipaddr
    BY DEF Stable
  <2> QED
    BY <1>1, <2>1 DEF Good, Current
<1> QED
  BY <1>3, <1>4, <1>5 DEF Good, b

(* One entry, one tick later.                                              *)
LEMMA AgedEntry ==
    ASSUME NEW e, EntryOK(e)
    PROVE  /\ EntryOK(Aged(e))
           /\ Aged(e).state # "EMPTY" => /\ e.state # "EMPTY"
                                         /\ Aged(e).ipaddr = e.ipaddr
           /\ Aged(e).state \in Stable => /\ e.state \in Stable
                                          /\ Aged(e).ethaddr = e.ethaddr
           /\ Aged(e).q = e.q \/ Aged(e).q = None
<1>1. CASE e.state = "EMPTY"
  BY <1>1 DEF Aged, Stable
<1>2. CASE e.state # "EMPTY"
  <2>1. /\ e \in Entry /\ e.ctime \in 0 .. ARP_MAXAGE /\ e.ctime < ARP_MAXAGE
        /\ e.state \in States /\ ARP_MAXAGE \in Nat
    BY <1>2, EtharpAssumption DEF EntryOK, Entry
  <2> DEFINE g == Aged(e)
             x == Expired(e)
  <2>2. /\ g \in Entry
        /\ g.ctime = e.ctime + 1
        /\ g.q = (IF x THEN None ELSE e.q)
        /\ g.ipaddr = e.ipaddr /\ g.ethaddr = e.ethaddr
        /\ g.state = (IF x THEN "EMPTY"
                      ELSE IF e.state = "REREQUESTING" THEN "STABLE"
                      ELSE e.state)
    <3> HIDE DEF x
    <3>1. Aged(e) = [e EXCEPT !.ctime = @ + 1,
                              !.q = IF x THEN None ELSE @,
                              !.state = IF x THEN "EMPTY"
                                        ELSE IF @ = "REREQUESTING" THEN "STABLE"
                                        ELSE @]
      BY <1>2 DEF Aged, x
    <3>2. e.ctime + 1 \in 0 .. ARP_MAXAGE
      BY <2>1
    <3> QED
      BY <2>1, <3>1, <3>2 DEF Entry, States
  <2>3. ~x => e.ctime + 1 < ARP_MAXAGE
    BY <2>1 DEF Expired
  <2>4. e.q # None => e.state = "PENDING" /\ e.q = e.ipaddr
    BY DEF EntryOK
  <2>5. e.ipaddr \in Addr
    BY <1>2 DEF EntryOK
  <2> HIDE DEF g, x
  <2>6. EntryOK(g)
    BY <1>2, <2>2, <2>3, <2>4, <2>5 DEF EntryOK
  <2>7. g.state \in Stable => e.state \in Stable
    BY <2>1, <2>2 DEF States, Stable
  <2> QED
    BY <1>2, <2>2, <2>6, <2>7 DEF g
<1> QED
  BY <1>1, <1>2

\* etharp_tmr only lets entries die.
LEMMA TimerGood ==
    ASSUME Good(arp, announced), etharp_tmr
    PROVE  Good(arp', announced) /\ out' = {}
<1> DEFINE T == [i \in Index |-> Aged(arp.table[i])]
           F == {i \in Queued(arp) : T[i].q = None}
<1>1. arp' = [table |-> T, copies |-> arp.copies - Cardinality(F)] /\ out' = {}
  BY DEF etharp_tmr
<1>2. \A i \in Index : EntryOK(arp.table[i])
  BY DEF Good, TableOK
<1>3. \A i \in Index :
              /\ EntryOK(T[i])
              /\ T[i].state # "EMPTY" => /\ arp.table[i].state # "EMPTY"
                                         /\ T[i].ipaddr = arp.table[i].ipaddr
              /\ T[i].state \in Stable => /\ arp.table[i].state \in Stable
                                          /\ T[i].ethaddr = arp.table[i].ethaddr
              /\ T[i].q = arp.table[i].q \/ T[i].q = None
  BY <1>2, AgedEntry
<1>4. T \in [Index -> Entry]
  <2>1. \A i \in Index : T[i] \in Entry
    BY <1>3 DEF EntryOK
  <2> QED
    BY <2>1
<1> HIDE DEF T, F
<1>5. F = {i \in Queued(arp) : T[i].q = None}
  BY DEF F
<1>6. Good([table |-> T, copies |-> arp.copies - Cardinality(F)], announced)
  BY <1>3, <1>4, <1>5, ThinnedGood
<1> QED
  BY <1>1, <1>6

\* So does netif_set_down.
LEMMA DownGood ==
    ASSUME Good(arp, announced), netif_set_down
    PROVE  Good(arp', announced) /\ out' = {}
<1> DEFINE mine == {i \in Index : /\ arp.table[i].state # "EMPTY"
                                  /\ arp.table[i].netif}
           T == [i \in Index |->
                   IF i \in mine THEN etharp_free_entry(arp, i).table[i]
                   ELSE arp.table[i]]
           F == mine \intersect Queued(arp)
<1>1. arp' = [table |-> T, copies |-> arp.copies - Cardinality(F)] /\ out' = {}
  BY DEF netif_set_down, etharp_cleanup_netif
<1>2. /\ arp.table \in [Index -> Entry]
      /\ \A i \in Index : EntryOK(arp.table[i])
  BY DEF Good, TableOK
<1>3. \A i \in Index :
        LET e == etharp_free_entry(arp, i).table[i]
        IN  EntryOK(e) /\ e \in Entry /\ e.state = "EMPTY" /\ e.q = None
  <2> TAKE i \in Index
  <2> DEFINE e == [arp.table[i] EXCEPT !.q = None, !.state = "EMPTY"]
  <2>1. etharp_free_entry(arp, i).table[i] = e
    BY <1>2 DEF etharp_free_entry
  <2>2. /\ e \in Entry /\ e.q = None /\ e.state = "EMPTY"
    BY <1>2 DEF Entry, States
  <2>3. EntryOK(e)
    BY <2>2 DEF EntryOK
  <2> QED
    BY <2>1, <2>2, <2>3
<1>4. "EMPTY" \notin Stable
  BY DEF Stable
<1>5. \A i \in Index :
        /\ i \in mine => /\ EntryOK(T[i]) /\ T[i] \in Entry
                         /\ T[i].state = "EMPTY" /\ T[i].q = None
        /\ i \notin mine => T[i] = arp.table[i]
  <2> HIDE DEF mine
  <2> QED
    BY <1>3
<1>6. T \in [Index -> Entry]
  <2>1. \A i \in Index : T[i] \in Entry
    BY <1>2, <1>5
  <2> QED
    BY <2>1
<1> HIDE DEF T, mine
<1>7. F = {i \in Queued(arp) : T[i].q = None}
  <2>1. mine \subseteq Index
    BY DEF mine
  <2> QED
    BY <1>5, <2>1 DEF Queued
<1>8. \A i \in Index :
              /\ EntryOK(T[i])
              /\ T[i].state # "EMPTY" => /\ arp.table[i].state # "EMPTY"
                                         /\ T[i].ipaddr = arp.table[i].ipaddr
              /\ T[i].state \in Stable => /\ arp.table[i].state \in Stable
                                          /\ T[i].ethaddr = arp.table[i].ethaddr
              /\ T[i].q = arp.table[i].q \/ T[i].q = None
  BY <1>2, <1>4, <1>5
<1> HIDE DEF F
<1>9. Good([table |-> T, copies |-> arp.copies - Cardinality(F)], announced)
  BY <1>6, <1>7, <1>8, ThinnedGood
<1> QED
  BY <1>1, <1>9

-----------------------------------------------------------------------------
(* Every step keeps the invariant.                                         *)

\* A packet is sent to an address.
LEMMA NextHopAddr ==
    ASSUME NEW dst \in Addr, NextHop(dst) # None
    PROVE  NextHop(dst) \in Addr
  BY EtharpAssumption DEF NextHop, Addr

\* etharp_output, by the hint, by a search, or by asking.
LEMMA OutputInv ==
    ASSUME Inv, etharp_output
    PROVE  Inv'
<1>1. PICK dst \in Addr, ok \in BOOLEAN, asked \in BOOLEAN :
          LET hop == NextHop(dst)
          IN  /\ hop # None
              /\ IF HintHits(hop)
                 THEN /\ etharp_output_to_arp_index(hint, hop, asked)
                      /\ UNCHANGED hint
                 ELSE IF StableFor(hop) # {}
                 THEN /\ hint' = Min(StableFor(hop))
                      /\ etharp_output_to_arp_index(Min(StableFor(hop)), hop, asked)
                 ELSE etharp_query(hop, TRUE, ok)
  BY DEF etharp_output, etharp_request
<1>2. announced' = announced
  BY DEF etharp_output
<1> DEFINE hop == NextHop(dst)
<1>3. hop \in Addr
  BY <1>1, NextHopAddr
<1>4. Good(arp, announced)
  BY DEF Inv, Good
<1>5. StableFor(hop) \in SUBSET Index
  BY DEF StableFor, Matching
<1> HIDE DEF hop
<1>6. /\ Good(arp', announced)
      /\ \A g \in out' : g.mac = announced[g.hop]
      /\ hint' \in Index
  <2>1. CASE HintHits(hop)
    <3>1. /\ hint \in StableFor(hop) /\ hint' = hint
          /\ etharp_output_to_arp_index(hint, hop, asked)
      BY <1>1, <2>1 DEF HintHits, hop
    <3> QED
      BY <1>3, <1>4, <1>5, <3>1, SendGood
  <2>2. CASE ~HintHits(hop) /\ StableFor(hop) # {}
    <3>1. Min(StableFor(hop)) \in StableFor(hop)
      BY <1>5, <2>2, MinIn, IndexFacts
    <3>2. /\ hint' = Min(StableFor(hop))
          /\ etharp_output_to_arp_index(Min(StableFor(hop)), hop, asked)
      BY <1>1, <2>2 DEF hop
    <3> QED
      BY <1>3, <1>4, <1>5, <3>1, <3>2, SendGood
  <2>3. CASE ~HintHits(hop) /\ StableFor(hop) = {}
    <3>1. etharp_query(hop, TRUE, ok)
      BY <1>1, <2>3 DEF hop
    <3>2. Good(arp', announced) /\ out' = {} /\ hint' = hint
      BY <1>3, <1>4, <2>3, <3>1, QueryGood
    <3> QED
      BY <3>2 DEF Inv
  <2> QED
    BY <2>1, <2>2, <2>3
<1> QED
  BY <1>2, <1>6 DEF Inv, Good, RightStation

\* Inv is inductive.
LEMMA NextInv ==
    ASSUME Inv, [Next]_vars
    PROVE  Inv'
<1>1. Good(arp, announced)
  BY DEF Inv, Good
<1>2. CASE etharp_output
  BY <1>2, OutputInv
<1>3. CASE dhcp_check
  <2>1. PICK ip \in Hosts : etharp_query(ip, FALSE, TRUE)
    BY <1>3 DEF dhcp_check
  <2>2. ip \in Addr
    BY DEF Addr
  <2>3. Good(arp', announced) /\ out' = {} /\ hint' = hint
    BY <1>1, <2>1, <2>2, QueryGood
  <2> QED
    BY <1>3, <2>3 DEF Inv, Good, RightStation, dhcp_check
<1>4. CASE etharp_arp_input
  <2>1. PICK ip \in Hosts, mac \in Macs, flags \in {"TRY_HARD", "FIND_ONLY"} :
          /\ etharp_update_arp_entry(ip, mac, flags)
          /\ announced' = [announced EXCEPT ![ip] = mac]
    BY <1>4 DEF etharp_arp_input
  <2>2. ip \in Addr /\ announced \in [Addr -> Macs \union {None}]
    BY DEF Addr, Inv
  <2>3. Good(arp', announced') /\ RightStation'
    BY <1>1, <2>1, <2>2, UpdateGood
  <2>4. announced' \in [Addr -> Macs \union {None}]
    BY <2>1, <2>2
  <2> QED
    BY <1>4, <2>3, <2>4 DEF Inv, Good, etharp_arp_input
<1>5. CASE etharp_tmr
  <2>1. Good(arp', announced) /\ out' = {}
    BY <1>1, <1>5, TimerGood
  <2> QED
    BY <1>5, <2>1 DEF Inv, Good, RightStation, etharp_tmr
<1>6. CASE netif_set_down
  <2>1. Good(arp', announced) /\ out' = {}
    BY <1>1, <1>6, DownGood
  <2> QED
    BY <1>6, <2>1 DEF Inv, Good, RightStation, netif_set_down
<1>7. CASE netif_set_up \/ netif_set_addr
  <2>1. UNCHANGED <<arp, hint, announced>> /\ out' = {}
    BY <1>7 DEF netif_set_up, netif_set_addr
  <2> QED
    BY <2>1 DEF Inv, RightStation
<1>8. CASE UNCHANGED vars
  <2>1. UNCHANGED <<arp, hint, announced, out>>
    BY <1>8 DEF vars
  <2> QED
    BY <2>1 DEF Inv, RightStation
<1> QED
  BY <1>2, <1>3, <1>4, <1>5, <1>6, <1>7, <1>8 DEF Next

(* arp_table is zero at boot.                                              *)
LEMMA InitInv ==
    ASSUME Init
    PROVE  Inv
<1>1. /\ arp.table = [i \in Index |-> EmptyEntry] /\ arp.copies = 0
      /\ arp = [table |-> arp.table, copies |-> arp.copies]
      /\ hint = 0 /\ out = {} /\ announced = [a \in Addr |-> None]
  BY DEF Init
<1>2. EntryOK(EmptyEntry) /\ EmptyEntry \in Entry
  BY EtharpAssumption DEF EmptyEntry, EntryOK, Entry, States
<1>3. EmptyEntry.state = "EMPTY" /\ EmptyEntry.q = None
  BY DEF EmptyEntry
<1>4. Queued(arp) = {}
  BY <1>1, <1>3 DEF Queued
<1>5. TableOK(arp)
  BY <1>1, <1>2, <1>4, FS_EmptySet DEF TableOK
<1>6. Unique(arp) /\ Current(arp, announced)
  BY <1>1, <1>3 DEF Unique, Current, Stable
<1>7. hint \in Index
  BY <1>1, IndexFacts
<1> QED
  BY <1>1, <1>5, <1>6, <1>7 DEF Inv, RightStation

\* Inv holds in every state.
LEMMA Invariance == Spec => []Inv
<1>1. Init => Inv
  BY InitInv
<1>2. Inv /\ [Next]_vars => Inv'
  BY NextInv
<1> QED
  BY <1>1, <1>2, PTL DEF Spec

-----------------------------------------------------------------------------
(* etharp_find_entry (etharp.c:302): however entries are made, aged and    *)
(* recycled, no address has two live ones.                                 *)
THEOREM NoSecondEntry == Spec => []OneEntryPerAddress
<1>1. Inv => OneEntryPerAddress
  BY DEF Inv, Unique, OneEntryPerAddress, InState, Stable
<1> QED
  BY <1>1, Invariance, PTL

(* etharp.c:364, 369: each packet copied to the heap is held by exactly one*)
(* pending entry; recycling, replacing, expiry and sending leak none.      *)
THEOREM NoPacketLeaked == Spec => []CopiesOwned
<1>1. Inv => CopiesOwned
  BY DEF Inv, TableOK, EntryOK, CopiesOwned, Queued, InState
<1> QED
  BY <1>1, Invariance, PTL

(* etharp_output (etharp.c:950): every IP frame goes to the station that   *)
(* last spoke for its next hop, also through a stale hint and after the    *)
(* entry was recycled.                                                     *)
THEOREM FramesFollowAnnouncements == Spec => []RightStation
<1>1. Inv => RightStation
  BY DEF Inv
<1> QED
  BY <1>1, Invariance, PTL
=============================================================================
