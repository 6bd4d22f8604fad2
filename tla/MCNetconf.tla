------------------------------ MODULE MCNetconf ------------------------------
(* Instances of Netconf for TLC: the real timeouts and the real number of  *)
(* tries, a few commands and refusals.                                     *)
EXTENDS Netconf
=============================================================================
