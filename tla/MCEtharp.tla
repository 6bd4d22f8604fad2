------------------------------ MODULE MCEtharp -------------------------------
(* Instance of Etharp for TLC: a table smaller than the number of hosts.   *)
EXTENDS Etharp

\* The addresses are set together, except that the command static sets
\* ip_addr alone.
MCConfigs ==
    {[ip_addr |-> FALSE, netmask |-> FALSE, gw |-> FALSE],
     [ip_addr |-> TRUE, netmask |-> FALSE, gw |-> FALSE],
     [ip_addr |-> TRUE, netmask |-> TRUE, gw |-> TRUE]}
=============================================================================
