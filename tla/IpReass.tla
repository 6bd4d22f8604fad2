------------------------------ MODULE IpReass --------------------------------
(***************************************************************************)
(* IP fragments (lwip/core/ipv4/ip_frag.c): ip_reass puts the fragments of *)
(* datagrams together.  The fragments are those that ip_frag makes of one  *)
(* datagram, on routes with different MTUs; the network loses, repeats and *)
(* reorders them, and datagrams of several senders mix.                    *)
(*                                                                         *)
(* Nothing in this program calls ip_reass_tmr (sys_timeouts is compiled    *)
(* out and LwIP_Periodic_Handle leaves it out), so the timer of a datagram *)
(* never moves and the oldest datagram is the last one of the list.        *)
(***************************************************************************)
EXTENDS Integers, Sequences, FiniteSets, FiniteSetsExt, SequencesExt

CONSTANTS
    MEMP_NUM_REASSDATA,     \* datagrams in reassembly
    IP_REASS_MAX_PBUFS,     \* pbufs they may hold together
    BufSize,                \* bytes of a fragment per pbuf
    DatagramLen,            \* bytes after the IP header, of every datagram
    Payloads,               \* mtu - IP_HLEN of the routes
    Ids                     \* datagrams: source, destination and IP id

ASSUME IpReassAssumption ==
    /\ MEMP_NUM_REASSDATA \in Nat \ {0} /\ IP_REASS_MAX_PBUFS \in Nat
    /\ BufSize \in Nat \ {0} /\ DatagramLen \in Nat \ {0}
    /\ Payloads \subseteq 8 .. DatagramLen - 1

VARIABLES
    reassdatagrams,     \* the list, first element first
    ip_reass_pbufcount,
    broken,             \* the list was cut with a wrong predecessor
    delivered           \* history: the fragments of the last datagram passed up

vars == <<reassdatagrams, ip_reass_pbufcount, broken, delivered>>

Init ==
    /\ reassdatagrams = <<>>
    /\ ip_reass_pbufcount = 0
    /\ broken = FALSE
    /\ delivered = <<>>

-----------------------------------------------------------------------------
(* ip_frag: all fragments but the last hold a multiple of 8 bytes.  These  *)
(* are the fragments of a call that finds memory for every one; one that   *)
(* does not sends the first few, which to the receiver is a loss.          *)

nfb(m) == m \div 8

ip_frag(len, m) ==
    {[start |-> s, end |-> IF len - s <= m THEN len ELSE s + 8 * nfb(m),
      more |-> len - s > m] :
        s \in {8 * nfb(m) * k : k \in {j \in 0 .. len :
                    j = 0 \/ len - 8 * nfb(m) * (j - 1) > m}}}

Fragments == UNION {ip_frag(DatagramLen, m) : m \in Payloads}

\* pbuf_clen of a fragment.
Clen(f) == (f.end - f.start + BufSize - 1) \div BufSize

\* Sum of a sequence of numbers.
Total(w) ==
    LET sum[n \in 0 .. Len(w)] == IF n = 0 THEN 0 ELSE sum[n - 1] + w[n]
    IN  sum[Len(w)]

ClenAll(fs) == Total([i \in DOMAIN fs |-> Clen(fs[i])])

-----------------------------------------------------------------------------
(* The list of datagrams.                                                  *)

Of(list, id) == {i \in DOMAIN list : list[i].id = id}

\* ip_reass_free_complete_datagram for the oldest datagram other than id.
\* The predecessor it is given is always the last but one of the list, which
\* matters unless the datagram is the first; f holds the list, the number of
\* pbufs freed so far, and whether a wrong element was cut.
FreeOldest(f, id) ==
    LET i == Max(DOMAIN f.list \ Of(f.list, id))
    IN  [list   |-> RemoveAt(f.list, i),
         freed  |-> f.freed + ClenAll(f.list[i].p),
         broken |-> f.broken \/ (i # 1 /\ i # Len(f.list))]

ip_reass_remove_oldest_datagram(list, id, needed) ==
    LET f[k \in 0 .. Len(list)] ==
          IF k = 0 THEN [list |-> list, freed |-> 0, broken |-> FALSE]
          ELSE IF /\ k = 1 \/ f[k - 1].freed < needed
                  /\ DOMAIN f[k - 1].list # Of(f[k - 1].list, id)
               THEN FreeOldest(f[k - 1], id)
               ELSE f[k - 1]
    IN  f[Len(list)]

\* Too many pbufs with the new fragment.
Over(count, n) == count + n > IP_REASS_MAX_PBUFS

\* ip_reass_enqueue_new_datagram puts it at the front of the list.
NewDatagram(id) == [id |-> id, p |-> <<>>, last |-> FALSE]

-----------------------------------------------------------------------------
(* ip_reass_chain_frag_into_datagram_and_validate.                         *)

\* Index after which fragment f goes into the fragments p.
Place(p, f) == Cardinality({i \in DOMAIN p : p[i].start < f.start})

\* The new fragment overlaps or repeats.  What follows it is looked at only
\* if something precedes it.
Overlaps(p, f) ==
    LET k == Place(p, f)
    IN  \/ \E i \in DOMAIN p : \/ p[i].start = f.start
                               \/ p[i].start < f.start /\ f.start < p[i].end
        \/ 0 < k /\ k < Len(p) /\ f.end > p[k + 1].start

\* Mutant: the fragment is appended.
BugChainAppends(p, f) == Append(p, f)

Chained(p, f) == InsertAt(p, Place(p, f) + 1, f)

Adjacent(p, i) == p[i].end = p[i + 1].start

\* Mutant: the first fragment is not asked for.
BugValidWithoutFirst(p, f) ==
    LET k == Place(p, f)
        c == Chained(p, f)
    IN  /\ \A i \in 1 .. k - 1 : Adjacent(c, i)
        /\ 0 < k /\ k = Len(p) => Adjacent(c, k)
        /\ \A i \in k + 1 .. Len(c) - 1 : Adjacent(c, i)

\* No hole was seen on the way: between the fragments before the new one,
\* between it and those after it, and before it only if it is the last.
Valid(p, f) ==
    LET k == Place(p, f)
        c == Chained(p, f)
    IN  /\ \A i \in 1 .. k - 1 : Adjacent(c, i)
        /\ 0 < k /\ k = Len(p) => Adjacent(c, k)
        /\ c[1].start = 0
        /\ \A i \in k + 1 .. Len(c) - 1 : Adjacent(c, i)

-----------------------------------------------------------------------------
(* ip_reass of fragment f of datagram id.                                  *)

\* Mutant: a fragment thrown away stays counted.
BugChainKeepsCount(list, count, i, f) ==
    LET d == [list[i] EXCEPT !.last = @ \/ ~f.more]
    IN  IF Overlaps(d.p, f)
        THEN /\ reassdatagrams' = [list EXCEPT ![i] = d]
             /\ ip_reass_pbufcount' = count + Clen(f)
             /\ delivered' = <<>>
        ELSE /\ reassdatagrams' = [list EXCEPT ![i] = [d EXCEPT !.p = Chained(d.p, f)]]
             /\ ip_reass_pbufcount' = count + Clen(f)
             /\ delivered' = <<>>

\* list is the list with the datagram of f at i, count the pbufs without f.
Chain(list, count, i, f) ==
    LET d == [list[i] EXCEPT !.last = @ \/ ~f.more]
    IN  IF Overlaps(d.p, f)
        THEN /\ reassdatagrams' = [list EXCEPT ![i] = d]
             /\ ip_reass_pbufcount' = count
             /\ delivered' = <<>>
        ELSE IF d.last /\ Valid(d.p, f)
        THEN /\ reassdatagrams' = RemoveAt(list, i)
             /\ ip_reass_pbufcount' = count - ClenAll(d.p)
             /\ delivered' = Chained(d.p, f)
        ELSE /\ reassdatagrams' = [list EXCEPT ![i] = [d EXCEPT !.p = Chained(d.p, f)]]
             /\ ip_reass_pbufcount' = count + Clen(f)
             /\ delivered' = <<>>

\* nullreturn: the fragment is dropped, what was removed stays removed.
Drop(list, count) ==
    /\ reassdatagrams' = list
    /\ ip_reass_pbufcount' = count
    /\ delivered' = <<>>

Enqueue(list, count, id, f) ==
    LET full == Len(list) = MEMP_NUM_REASSDATA
        r == IF full THEN ip_reass_remove_oldest_datagram(list, id, Clen(f))
             ELSE [list |-> list, freed |-> 0, broken |-> FALSE]
    IN  IF full /\ r.freed < Clen(f) THEN Drop(r.list, count - r.freed)
        ELSE Chain(<<NewDatagram(id)>> \o r.list, count - r.freed, 1, f)

\* After the list was cut at the wrong element it holds one that is back in
\* the pool: what follows is undefined, and the model stops.
ip_reass ==
    /\ ~broken
    /\ \E id \in Ids, f \in Fragments :
          LET over == Over(ip_reass_pbufcount, Clen(f))
              r == IF over
                   THEN ip_reass_remove_oldest_datagram(reassdatagrams, id,
                                                        Clen(f))
                   ELSE [list |-> reassdatagrams, freed |-> 0,
                         broken |-> FALSE]
              count == ip_reass_pbufcount - r.freed
          IN  /\ broken' = r.broken
              /\ IF over /\ (r.freed = 0 \/ Over(count, Clen(f)))
                 THEN Drop(r.list, count)
                 ELSE IF Of(r.list, id) = {}
                 THEN Enqueue(r.list, count, id, f)
                 ELSE Chain(r.list, count, Min(Of(r.list, id)), f)

Next == ip_reass

Spec == Init /\ [][Next]_vars

-----------------------------------------------------------------------------
Pieces(list) == Total([i \in DOMAIN list |-> ClenAll(list[i].p)])

(* ip_reass_pbufcount is the number of pbufs in the queues and within its  *)
(* limit, through every way a fragment is kept, thrown away, evicted or    *)
(* passed up: were it to drift, reassembly would hold the whole pool of    *)
(* receive buffers, or refuse every fragment.  It is so up to an eviction  *)
(* through a wrong predecessor (ip_frag.c:254, `broken'), not beyond it.   *)
CountExact ==
    ~broken => /\ ip_reass_pbufcount = Pieces(reassdatagrams)
               /\ ip_reass_pbufcount <= IP_REASS_MAX_PBUFS

(* What the walks over the list rely on: a datagram is in it once, has at  *)
(* least one fragment (free_complete_datagram reads the first without a    *)
(* test, ip_frag.c:173), and its fragments ascend; again up to an eviction *)
(* through a wrong predecessor, which leaves a freed element in the list.  *)
QueueSound ==
    ~broken =>
      /\ Len(reassdatagrams) <= MEMP_NUM_REASSDATA
      /\ \A id \in Ids : Cardinality(Of(reassdatagrams, id)) <= 1
      /\ \A i \in DOMAIN reassdatagrams :
            LET p == reassdatagrams[i].p
            IN  /\ p # <<>>
                /\ \A j \in 1 .. Len(p) - 1 : p[j].start < p[j + 1].start

(* A datagram that is passed up begins with its first byte and has no byte *)
(* twice, although an overlapping fragment can get into a queue: what      *)
(* follows a new first fragment is not looked at (ip_frag.c:371), and only *)
(* the validation keeps such a queue from being passed up.                 *)
DeliveredDisjoint ==
    delivered # <<>> =>
      /\ delivered[1].start = 0
      /\ \A i \in 1 .. Len(delivered) - 1 :
            delivered[i].end <= delivered[i + 1].start

(* ip_frag.c:568: a datagram is passed up when "the totally last fragment  *)
(* (flag more fragments = 0) was received at least once AND all fragments  *)
(* are received", so nothing is missing in it.                             *)
DeliveredWhole ==
    delivered # <<>> =>
      /\ \A i \in 1 .. Len(delivered) - 1 : Adjacent(delivered, i)
      /\ delivered[Len(delivered)].end = DatagramLen
=============================================================================
