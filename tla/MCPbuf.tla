------------------------------- MODULE MCPbuf -------------------------------
(* PbufUse for TLC: sizes are small but the proportions are those of the   *)
(* build: two pool elements for a full packet, a few packets in the heap.  *)
EXTENDS PbufUse

MCRequests == {<<HLEN, 3, "POOL">>,
               <<HLEN, 2, "RAM">>, <<0, 1, "REF">>}
=============================================================================
