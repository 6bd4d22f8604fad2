------------------------------- MODULE MCTftp -------------------------------
(* Instances of Tftp for TLC: blocks of two bytes.  A file of two bytes is *)
(* a full block followed by an empty one, the edge case of the protocol.   *)
EXTENDS Tftp
=============================================================================
