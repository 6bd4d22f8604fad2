------------------------------ MODULE MCULoader ------------------------------
(* Instance of ULoader for TLC: a few polls, a small ring and two lines.   *)
EXTENDS ULoader
=============================================================================
