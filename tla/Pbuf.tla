-------------------------------- MODULE Pbuf --------------------------------
(***************************************************************************)
(* Packet buffers (lwip/core/pbuf.c) over the pool of PBUF_POOL elements,  *)
(* the pool of bare pbuf structs (PBUF_REF, PBUF_ROM) and the heap of Mem  *)
(* (PBUF_RAM), as functions from one memory m to the next.                 *)
(*                                                                         *)
(* A pointer is a number: 0 is NULL, then come the elements of the two     *)
(* pools, then the pbufs in the heap, by the offset of their block.        *)
(*                                                                         *)
(* m.pool    the free elements of each of the two pools, the next one to   *)
(* m.refs    take first                                                    *)
(* m.heap    the heap                                                      *)
(* m.pb      the pbufs in use: pointer -> [next, len, tot_len, ref, room]; *)
(*           room is the distance of the payload from the end of the struct*)
(* m.was     the tot_len left behind in a freed element: memp_free writes  *)
(*           only the first word, which is next.                           *)
(***************************************************************************)
EXTENDS Mem, Sequences, SequencesExt

CONSTANTS
    NPool, NRef,        \* PBUF_POOL_SIZE, MEMP_NUM_PBUF
    BUFSIZE,            \* PBUF_POOL_BUFSIZE_ALIGNED
    SIZEOF_STRUCT_PBUF,
    HLEN,               \* headers before the payload of PBUF_TRANSPORT
    MaxLength           \* model bound: largest payload

ASSUME PbufAssumption ==
    /\ NPool \in Nat /\ NRef \in Nat /\ MaxLength \in Nat
    /\ SIZEOF_STRUCT_PBUF \in Nat \ {0} /\ HLEN \in Nat
    /\ BUFSIZE \in Nat /\ BUFSIZE > HLEN

NULL == 0
POOL == 1 .. NPool
REFS == NPool + 1 .. NPool + NRef
RAM(block) == NPool + NRef + 1 + block      \* the pbuf in a heap block
Block(p)   == p - (NPool + NRef + 1)

Types  == {"POOL", "REF", "RAM"}
Type(p) == IF p \in POOL THEN "POOL" ELSE IF p \in REFS THEN "REF" ELSE "RAM"

PbufInit ==
    [pool |-> [i \in 1 .. NPool |-> NPool + 1 - i],
     refs |-> [i \in 1 .. NRef |-> NPool + NRef + 1 - i],
     heap |-> mem_init,
     pb   |-> <<>>,
     was  |-> [p \in POOL |-> 0]]

New(next, len, tot_len, room) ==
    [next |-> next, len |-> len, tot_len |-> tot_len, ref |-> 1, room |-> room]

\* The pbuf that is k links away from p, NULL past the end.
Along(m, p) ==
    LET at[k \in 0 .. Cardinality(DOMAIN m.pb)] ==
            IF k = 0 THEN p
            ELSE IF at[k - 1] = NULL THEN NULL ELSE m.pb[at[k - 1]].next
    IN  at

\* The pbufs of the chain that starts at p.
Chain(m, p) ==
    LET at == Along(m, p)
    IN  [k \in 1 .. Cardinality({j \in DOMAIN at : at[j] # NULL}) |-> at[k - 1]]

-----------------------------------------------------------------------------
(* pbuf_free *)

\* Mutant: the link of the free list is written over the length.
BugDeallocOverwrites(m, p) ==
    LET pb == Cut(m.pb, p)
    IN  CASE Type(p) = "POOL" ->
                [m EXCEPT !.pb = pb, !.pool = <<p>> \o @, !.was[p] = NULL]
          [] Type(p) = "REF" -> [m EXCEPT !.pb = pb, !.refs = <<p>> \o @]
          [] OTHER -> [m EXCEPT !.pb = pb, !.heap = mem_free(@, Block(p))]

\* Mutant: a pbuf struct goes to the pool of buffers.
BugDeallocWrongPool(m, p) ==
    LET pb == Cut(m.pb, p)
    IN  IF Type(p) \in {"POOL", "REF"}
        THEN [m EXCEPT !.pb = pb, !.pool = <<p>> \o @]
        ELSE [m EXCEPT !.pb = pb, !.heap = mem_free(@, Block(p))]

\* The memory of one pbuf goes back to where it came from.  Custom pbufs,
\* which only ip_frag makes, are left out.
Dealloc(m, p) ==
    LET pb == Cut(m.pb, p)
    IN  CASE Type(p) = "POOL" ->
                [m EXCEPT !.pb = pb, !.pool = <<p>> \o @,
                          !.was[p] = m.pb[p].tot_len]
          [] Type(p) = "REF" -> [m EXCEPT !.pb = pb, !.refs = <<p>> \o @]
          [] OTHER -> [m EXCEPT !.pb = pb, !.heap = mem_free(@, Block(p))]

\* Mutant: the reference held by a freed pbuf is not dropped.
BugFreeTurnKeepsTail(x) ==
    IF x.m.pb[x.p].ref = 1 THEN [m |-> Dealloc(x.m, x.p), p |-> NULL]
    ELSE [m |-> [x.m EXCEPT !.pb[x.p].ref = @ - 1], p |-> NULL]

\* One turn of the loop of pbuf_free, at x.p: it loses a reference; without
\* any it is deallocated, and the reference that it held is the next to go.
FreeTurn(x) ==
    IF x.m.pb[x.p].ref = 1
    THEN [m |-> Dealloc(x.m, x.p), p |-> x.m.pb[x.p].next]
    ELSE [m |-> [x.m EXCEPT !.pb[x.p].ref = @ - 1], p |-> NULL]

\* The loop: where it is after k turns.
FreeTurns(m, p) ==
    LET turn[k \in 0 .. Cardinality(DOMAIN m.pb)] ==
            IF k = 0 THEN [m |-> m, p |-> p]
            ELSE IF turn[k - 1].p = NULL THEN turn[k - 1] ELSE FreeTurn(turn[k - 1])
    IN  turn

\* Drop one reference to p.
pbuf_free(m, p) == FreeTurns(m, p)[Cardinality(DOMAIN m.pb)].m

-----------------------------------------------------------------------------
(* pbuf_alloc *)

\* How many pool elements hold len bytes after offset.
PoolCount(offset, len) ==
    Min({n \in 1 .. offset + len + 1 : offset + len <= n * BUFSIZE})

\* The i-th of them: what is left to hold from there on, and what it holds.
PoolRest(offset, len, i) == IF i = 1 THEN len ELSE offset + len - (i - 1) * BUFSIZE
PoolLen(offset, len, i) ==
    Min({PoolRest(offset, len, i), IF i = 1 THEN BUFSIZE - offset ELSE BUFSIZE})

\* The chain is built from the front; when the pool runs out, what was taken
\* is freed again.
AllocPool(m, offset, len) ==
    LET want  == PoolCount(offset, len)
        have  == Min({want, Len(m.pool)})
        taken == {m.pool[i] : i \in 1 .. have}
        Place(q) == CHOOSE i \in 1 .. have : m.pool[i] = q
        built == [m EXCEPT
                    !.pool = SubSeq(@, have + 1, Len(@)),
                    !.pb = [q \in DOMAIN m.pb \cup taken |->
                              IF q \in taken
                              THEN New(IF Place(q) < have THEN m.pool[Place(q) + 1] ELSE NULL,
                                       PoolLen(offset, len, Place(q)),
                                       PoolRest(offset, len, Place(q)),
                                       IF Place(q) = 1 THEN offset ELSE 0)
                              ELSE m.pb[q]]]
    IN  CASE have = 0 -> [p |-> NULL, m |-> m]
          [] have > 0 /\ have < want -> [p |-> NULL, m |-> pbuf_free(built, m.pool[1])]
          [] OTHER -> [p |-> m.pool[1], m |-> built]

AllocRef(m, len) ==
    IF m.refs = <<>> THEN [p |-> NULL, m |-> m]
    ELSE LET p == Head(m.refs)
         IN  [p |-> p, m |-> [m EXCEPT !.refs = Tail(@),
                                       !.pb = Put(@, p, New(NULL, len, len, 0))]]

\* Mutant: no room for the headers is asked of the heap.
BugAllocRamNoHeaders(m, offset, len) ==
    LET size  == SIZEOF_STRUCT_PBUF + len
        block == mem_malloc_at(m.heap, size)
    IN  IF block = FAIL THEN [p |-> NULL, m |-> m]
        ELSE [p |-> RAM(block),
              m |-> [m EXCEPT !.heap = mem_malloc(@, size),
                              !.pb = Put(@, RAM(block), New(NULL, len, len, offset))]]

AllocRam(m, offset, len) ==
    LET size  == SIZEOF_STRUCT_PBUF + offset + len
        block == mem_malloc_at(m.heap, size)
    IN  IF block = FAIL THEN [p |-> NULL, m |-> m]
        ELSE [p |-> RAM(block),
              m |-> [m EXCEPT !.heap = mem_malloc(@, size),
                              !.pb = Put(@, RAM(block), New(NULL, len, len, offset))]]

\* The pbuf, NULL when there is no memory, and the memory afterwards.
pbuf_alloc(m, offset, len, type) ==
    CASE type = "POOL" -> AllocPool(m, offset, len)
      [] type = "REF"  -> AllocRef(m, len)
      [] type = "RAM"  -> AllocRam(m, offset, len)

-----------------------------------------------------------------------------
(* Operations on chains *)

pbuf_ref(m, p) == [m EXCEPT !.pb[p].ref = @ + 1]

\* Mutant: only the first pbuf learns the new length.
BugCatFirstOnly(m, h, t) ==
    LET chain == Chain(m, h)
    IN  [m EXCEPT !.pb[h].tot_len = @ + m.pb[t].tot_len, !.pb[Last(chain)].next = t]

\* Append t to the chain h; the caller's reference to t becomes the link's.
pbuf_cat(m, h, t) ==
    LET chain == Chain(m, h)
    IN  [m EXCEPT !.pb = [q \in DOMAIN m.pb |->
            IF q \in Range(chain)
            THEN [m.pb[q] EXCEPT !.tot_len = @ + m.pb[t].tot_len,
                                 !.next = IF q = Last(chain) THEN t ELSE @]
            ELSE m.pb[q]]]

pbuf_chain(m, h, t) == pbuf_ref(pbuf_cat(m, h, t), t)

\* Separate p from the rest of its chain, which loses p's reference.
pbuf_dechain(m, p) ==
    LET q == m.pb[p].next
    IN  IF q = NULL THEN m
        ELSE pbuf_free([m EXCEPT !.pb[q].tot_len = m.pb[p].tot_len - m.pb[p].len,
                                 !.pb[p].next = NULL,
                                 !.pb[p].tot_len = m.pb[p].len], q)

\* What of new_len is left for the k-th pbuf of the chain.
Left(m, chain, new_len) ==
    LET left[k \in 1 .. Len(chain)] ==
            IF k = 1 THEN new_len ELSE left[k - 1] - m.pb[chain[k - 1]].len
    IN  left

\* Shorten the chain p to new_len: pbufs that stay adjust their tot_len, the
\* new last one its lengths (and its heap block), the others are freed.
pbuf_realloc(m, p, new_len) ==
    LET chain == Chain(m, p)
        left  == Left(m, chain, new_len)
        last  == Min({k \in 1 .. Len(chain) : left[k] <= m.pb[chain[k]].len})
        q     == chain[last]
        rem   == left[last]
        kept  == {chain[k] : k \in 1 .. last - 1}
        heap  == IF Type(q) = "RAM" /\ rem # m.pb[q].len
                 THEN mem_trim(m.heap, Block(q), SIZEOF_STRUCT_PBUF + m.pb[q].room + rem)
                 ELSE m.heap
        pb    == [r \in DOMAIN m.pb |->
                    IF r \in kept
                    THEN [m.pb[r] EXCEPT !.tot_len = @ + new_len - m.pb[p].tot_len]
                    ELSE IF r = q
                    THEN [m.pb[r] EXCEPT !.len = rem, !.tot_len = rem, !.next = NULL]
                    ELSE m.pb[r]]
        cut   == [m EXCEPT !.heap = heap, !.pb = pb]
    IN  IF new_len >= m.pb[p].tot_len THEN m
        ELSE IF m.pb[q].next = NULL THEN cut ELSE pbuf_free(cut, m.pb[q].next)

\* pbuf_header(p, inc) succeeds.
HeaderOK(m, p, inc) ==
    /\ inc < 0 => -inc <= m.pb[p].len
    /\ IF Type(p) = "REF" THEN inc < 0 ELSE m.pb[p].room >= inc

\* Reveal (inc > 0) or hide inc bytes at the front; nothing on failure.
pbuf_header(m, p, inc) ==
    IF ~HeaderOK(m, p, inc) THEN m
    ELSE [m EXCEPT !.pb[p].len = @ + inc, !.pb[p].tot_len = @ + inc,
                   !.pb[p].room = IF Type(p) = "REF" THEN @ ELSE @ - inc]

\* One RAM pbuf for a whole chain; the old chain stays when there is no memory.
pbuf_coalesce(m, p, offset) ==
    LET q == pbuf_alloc(m, offset, m.pb[p].tot_len, "RAM")
    IN  IF m.pb[p].next = NULL \/ q.p = NULL THEN [p |-> p, m |-> m]
        ELSE [p |-> q.p, m |-> pbuf_free(q.m, p)]
=============================================================================
