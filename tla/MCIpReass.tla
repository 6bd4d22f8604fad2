------------------------------ MODULE MCIpReass ------------------------------
(* Instance of IpReass for TLC: four datagrams compete for the room of     *)
(* three, cut in four fragments on one route and in two on another.        *)
EXTENDS IpReass, TLC

\* Datagrams differ in name only.
Symmetry == Permutations(Ids)
=============================================================================
