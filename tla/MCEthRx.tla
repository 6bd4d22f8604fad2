------------------------------ MODULE MCEthRx ------------------------------
(* Instances of EthRx for TLC.                                             *)
EXTENDS EthRx
=============================================================================
