------------------------------ MODULE PbufUse ------------------------------
(***************************************************************************)
(* Everything the layers of the stack may do with packet buffers, in any   *)
(* order: allocate, share, join, cut, and free.  A layer holds references; *)
(* held counts them for each pbuf.  The guards are what the comments of    *)
(* pbuf.c ask of a caller: operate on what you hold, change lengths only   *)
(* at the front of a chain, cut or extend only a chain that is yours.      *)
(* tftp_recv is the receive callback of src/tftp.c.                        *)
(***************************************************************************)
EXTENDS Pbuf

CONSTANTS
    Requests,       \* <<offset, length, type>> that are asked for
    MaxRefs,        \* model bound: references held at a time
    MaxUse,         \* model bound: pbufs in use when another is asked for
    Full            \* tot_len of a full TFTP packet, 512 + 4 in the code

ASSUME PbufUseAssumption ==
    /\ Requests \subseteq (0 .. HLEN) \X Nat \X Types
    /\ Full \in Nat \ {0}

VARIABLES
    m,              \* the memory
    held,           \* references held by the layers, by pbuf
    ended           \* history: tot_len of the packet that tftp_recv took
                    \* for the last one of a transfer, NULL when it took none

vars == <<m, held, ended>>

Init == m = PbufInit /\ held = <<>> /\ ended = NULL

-----------------------------------------------------------------------------
InUse   == DOMAIN m.pb
Linked  == {m.pb[p].next : p \in InUse} \ {NULL}
Heads   == DOMAIN held \ Linked
Links(p) == Cardinality({q \in InUse : m.pb[q].next = p})

\* The caller may change the lengths in the chain p: no other chain ends in it.
Own(p) == p \in Heads /\ \A q \in Range(Chain(m, p)) : Links(q) <= 1

Hold(p) == IF p \in DOMAIN held THEN [held EXCEPT ![p] = @ + 1] ELSE Put(held, p, 1)
Drop(p) == IF held[p] > 1 THEN [held EXCEPT ![p] = @ - 1]
           ELSE Cut(held, p)
Holding == FoldFunction(LAMBDA x, y : x + y, 0, held)

\* Only tftp_recv reads what a freed pbuf leaves behind, and at once.
Settle(mem) == m' = [mem EXCEPT !.was = [p \in POOL |-> 0]]

Alloc(offset, len, type) ==
    LET got == pbuf_alloc(m, offset, len, type)
    IN  /\ Holding < MaxRefs /\ Cardinality(InUse) <= MaxUse
        /\ Settle(got.m)
        /\ held' = IF got.p = NULL THEN held ELSE Hold(got.p)
        /\ ended' = NULL

Free(p) ==
    /\ Settle(pbuf_free(m, p)) /\ held' = Drop(p) /\ ended' = NULL

Ref(p) ==
    /\ Holding < MaxRefs
    /\ Settle(pbuf_ref(m, p)) /\ held' = Hold(p) /\ ended' = NULL

\* pbuf_cat: "The caller MAY NOT reference the tail pbuf afterwards."
Cat(h, t) ==
    /\ Own(h) /\ t \notin Range(Chain(m, h))
    /\ Range(Chain(m, t)) \cap Range(Chain(m, h)) = {}
    /\ m.pb[h].tot_len + m.pb[t].tot_len <= MaxLength
    /\ Settle(pbuf_cat(m, h, t)) /\ held' = Drop(t) /\ ended' = NULL

ChainOn(h, t) ==
    /\ Own(h)
    /\ Range(Chain(m, t)) \cap Range(Chain(m, h)) = {}
    /\ m.pb[h].tot_len + m.pb[t].tot_len <= MaxLength
    /\ Settle(pbuf_chain(m, h, t)) /\ UNCHANGED held /\ ended' = NULL

Dechain(p) ==
    /\ p \in Heads
    /\ Settle(pbuf_dechain(m, p)) /\ UNCHANGED held /\ ended' = NULL

Realloc(p, new_len) ==
    /\ Own(p)
    /\ Settle(pbuf_realloc(m, p, new_len)) /\ UNCHANGED held /\ ended' = NULL

Header(p, inc) ==
    /\ p \in Heads
    /\ Settle(pbuf_header(m, p, inc)) /\ UNCHANGED held /\ ended' = NULL

Coalesce(p, offset) ==
    LET got == pbuf_coalesce(m, p, offset)
    IN  /\ p \in Heads
        /\ Settle(got.m)
        /\ held' = IF got.p = p THEN held ELSE Put(Drop(p), got.p, 1)
        /\ ended' = NULL

\* The callback owns one reference to the packet.  The ACK is allocated, sent
\* and freed, the packet is freed, and then its tot_len is read once more.
\* Without memory for the ACK the program writes through NULL: no step.
tftp_recv(p) ==
    LET ack   == pbuf_alloc(m, HLEN, 1, "RAM")
        acked == IF ack.p = NULL THEN m ELSE pbuf_free(ack.m, ack.p)
        freed == pbuf_free(acked, p)
        read  == IF p \in DOMAIN freed.pb THEN freed.pb[p].tot_len ELSE freed.was[p]
    IN  /\ p \in Heads \cap POOL
        /\ ack.p # NULL
        /\ Settle(freed) /\ held' = Drop(p)
        /\ ended' = IF read < Full THEN m.pb[p].tot_len ELSE NULL

Next ==
    \/ \E r \in Requests : Alloc(r[1], r[2], r[3])
    \/ \E p \in DOMAIN held :
          \/ Free(p) \/ Ref(p) \/ Dechain(p) \/ tftp_recv(p)
          \/ \E n \in 1 .. MaxLength : Realloc(p, n)
          \/ \E inc \in {-HLEN, HLEN} : Header(p, inc)
          \/ Coalesce(p, HLEN)
          \/ \E t \in DOMAIN held \ {p} : Cat(p, t) \/ ChainOn(p, t)

Spec == Init /\ [][Next]_vars

-----------------------------------------------------------------------------
(* pbuf.c:602, "the reference counter of a pbuf equals the number of       *)
(* pointers that refer to the pbuf": those the layers hold and the links.  *)
(* No layer holds, and no link leads to, a pbuf that was freed, and none   *)
(* is in use that nobody refers to.                                        *)
RefsExact ==
    /\ DOMAIN held \cup Linked \subseteq InUse
    /\ \A p \in InUse :
          /\ m.pb[p].ref = Links(p) + (IF p \in DOMAIN held THEN held[p] ELSE 0)
          /\ m.pb[p].ref > 0

(* pbuf.c:811, the "tot_len invariant": tot_len is the sum of the lengths  *)
(* from a pbuf to the end of its chain, whichever chains it was part of.   *)
TotLenExact ==
    \A p \in InUse :
        LET q == m.pb[p].next
        IN  m.pb[p].tot_len = m.pb[p].len + (IF q = NULL THEN 0 ELSE m.pb[q].tot_len)

(* No memory is lost: an element of a pool is in use or on its free list,  *)
(* once, and the blocks of the heap are exactly the RAM pbufs.             *)
NothingLost ==
    /\ IsInjective(m.pool) /\ Range(m.pool) = POOL \ InUse
    /\ IsInjective(m.refs) /\ Range(m.refs) = REFS \ InUse
    /\ {RAM(b) : b \in Blocks(m.heap)} = InUse \ (POOL \cup REFS)

(* The payload lies in the memory of its pbuf, also after the heap block   *)
(* was trimmed and headers were hidden and revealed again.                 *)
PayloadInside ==
    \A p \in InUse :
        /\ m.pb[p].len >= 0 /\ m.pb[p].room >= 0
        /\ Type(p) = "POOL" => m.pb[p].room + m.pb[p].len <= BUFSIZE
        /\ Type(p) = "RAM" =>
              SIZEOF_STRUCT_PBUF + m.pb[p].room + m.pb[p].len
                  <= DataSize(m.heap, Block(p))

(* The heap keeps its list in order and its holes joined, and finds room   *)
(* whenever there is some, whatever was allocated, trimmed and freed.      *)
HeapSound == ListSound(m.heap) /\ HolesSound(m.heap) /\ NoRoomMissed(m.heap)

(* tftp.c:145 reads p->tot_len after pbuf_free(p).  It still finds the     *)
(* length of the packet, so that only a short packet ends a transfer.      *)
EndedByShortPacket == ended < Full
=============================================================================
