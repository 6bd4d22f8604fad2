------------------------------- MODULE Etharp --------------------------------
(***************************************************************************)
(* The ARP cache of lwIP (lwip/netif/etharp.c) as this build configures    *)
(* it: one queued packet per entry (ARP_QUEUEING 0), no static entries, no *)
(* trust in IP sources (ETHARP_TRUST_IP_MAC 0), one hint for all.  Every   *)
(* function runs to its end on the main loop; what interleaves are packets *)
(* the board sends, ARP messages it hears, the timer, and the interface    *)
(* going down or changing its address.  Frames may be lost: no action is   *)
(* ever certain to follow a request.                                       *)
(*                                                                         *)
(* A packet is named by the next hop it was meant for.  What is on the     *)
(* wire of a message or in its headers is left out.                        *)
(***************************************************************************)
EXTENDS Integers, FiniteSets, FiniteSetsExt

CONSTANTS
    ARP_TABLE_SIZE,
    ARP_MAXAGE, ARP_AGE_REREQUEST_USED, ARP_MAXPENDING,
    Hosts,          \* addresses on the local network
    Gateway,        \* the one that netif->gw holds once it is set
    Remote,         \* an address outside the local network
    Macs,
    Configs         \* values of the interface's addresses that occur

Addr == Hosts \union {Remote}
None == "none"      \* NULL, an address or a station that is not known

ASSUME EtharpAssumption ==
    /\ ARP_TABLE_SIZE \in 1 .. 127 /\ ARP_MAXAGE \in 2 .. 255
    /\ ARP_MAXPENDING \in 2 .. ARP_MAXAGE
    /\ ARP_AGE_REREQUEST_USED \in 1 .. ARP_MAXAGE - 1
    /\ Gateway \in Hosts /\ Remote \notin Hosts /\ None \notin Addr
    /\ Configs \subseteq [ip_addr : BOOLEAN, netmask : BOOLEAN, gw : BOOLEAN]

VARIABLES
    arp,        \* the table and the packets of the heap that it holds
    hint,       \* etharp_cached_entry
    netif,      \* whether it is up, and which of its addresses are set
    announced,  \* history: the station that last spoke for an address
    out         \* history: the IP frames that the last step sent

vars == <<arp, hint, netif, announced, out>>

Index == 0 .. ARP_TABLE_SIZE - 1
Stable == {"STABLE", "REREQUESTING"}

\* All of arp_table is zero at boot.
EmptyEntry == [q |-> None, ipaddr |-> None, netif |-> FALSE, ethaddr |-> None,
               state |-> "EMPTY", ctime |-> 0]

Init ==
    /\ arp = [table |-> [i \in Index |-> EmptyEntry], copies |-> 0]
    /\ hint = 0
    /\ netif = [up |-> TRUE,
                conf |-> [ip_addr |-> FALSE, netmask |-> FALSE, gw |-> FALSE]]
    /\ announced = [a \in Addr |-> None]
    /\ out = {}

-----------------------------------------------------------------------------
(* The table.  Operators take and return the value a of variable arp.      *)

\* pbuf_free of the packet that entry i holds, if any.
Dropped(a, i) == IF a.table[i].q = None THEN a.copies ELSE a.copies - 1

etharp_free_entry(a, i) ==
    [table  |-> [a.table EXCEPT ![i].q = None, ![i].state = "EMPTY"],
     copies |-> Dropped(a, i)]

InState(a, states) == {i \in Index : a.table[i].state \in states}
Queued(a) == {i \in Index : a.table[i].q # None}

\* The sweep keeps the last of the entries that are the oldest.
Oldest(a, S) ==
    Max({i \in S : \A j \in S : a.table[i].ctime >= a.table[j].ctime})

\* The least destructive choice, in the order of the code.
Recycled(a) ==
    LET stable  == InState(a, Stable)
        pending == InState(a, {"PENDING"}) \ Queued(a)
        queued  == InState(a, {"PENDING"}) \intersect Queued(a)
    IN  Oldest(a, IF stable # {} THEN stable
                  ELSE IF pending # {} THEN pending ELSE queued)

Matching(a, ip) ==
    {i \in Index : a.table[i].state # "EMPTY" /\ a.table[i].ipaddr = ip}

\* A fresh entry for ip: i is the index, a the table with the entry made.
Fresh(a, ip) ==
    LET empty == InState(a, {"EMPTY"})
        i == IF empty # {} THEN Min(empty) ELSE Recycled(a)
        b == IF empty # {} THEN a ELSE etharp_free_entry(a, i)
    IN  [i |-> i, a |-> [b EXCEPT !.table[i].ipaddr = ip,
                                  !.table[i].ctime = 0]]

ERR_MEM == -1

\* Mutant: the sweep ends at the first empty entry.
BugFindStopsAtEmpty(a, ip, flags) ==
    LET empty == InState(a, {"EMPTY"})
        match == {i \in Matching(a, ip) : \A j \in empty : i < j}
    IN  IF match # {} THEN [i |-> Min(match), a |-> a]
        ELSE IF flags = "FIND_ONLY" THEN [i |-> ERR_MEM, a |-> a]
        ELSE Fresh(a, ip)

\* flags is "FIND_ONLY" or "TRY_HARD".
etharp_find_entry(a, ip, flags) ==
    LET match == Matching(a, ip)
    IN  IF match # {} THEN [i |-> Min(match), a |-> a]
        ELSE IF flags = "FIND_ONLY" THEN [i |-> ERR_MEM, a |-> a]
        ELSE Fresh(a, ip)

IpFrame(hop, mac) == [hop |-> hop, mac |-> mac]

\* The entry becomes stable, and the packet it held is sent and freed.
etharp_update_arp_entry(ip, mac, flags) ==
    LET f == etharp_find_entry(arp, ip, flags)
        q == f.a.table[f.i].q
    IN  IF f.i = ERR_MEM
        THEN arp' = f.a /\ out' = {}
        ELSE /\ arp' = [table |-> [f.a.table EXCEPT ![f.i] =
                           [q |-> None, ipaddr |-> ip, netif |-> TRUE,
                            ethaddr |-> mac, state |-> "STABLE", ctime |-> 0]],
                        copies |-> Dropped(f.a, f.i)]
             /\ out' = IF q = None THEN {} ELSE {IpFrame(q, mac)}

-----------------------------------------------------------------------------
(* Sending.                                                                *)

\* Whether a request gets out: etharp_raw takes a packet from the heap for
\* it and linkoutput a descriptor of the ring.
etharp_request == BOOLEAN

\* Mutant: the packet that waits is forgotten, not freed.
BugQueueForgets(a, i, ip, ok) ==
    IF ok THEN [table  |-> [a.table EXCEPT ![i].q = ip],
                copies |-> a.copies + 1]
    ELSE a

\* Copy the packet to the heap and queue it on pending entry i, in place of
\* the one that waits there; ok: the heap has room for the copy.
Enqueue(a, i, ip, ok) ==
    IF ok THEN [table  |-> [a.table EXCEPT ![i].q = ip],
                copies |-> Dropped(a, i) + 1]
    ELSE a

AsPending(a, i) ==
    IF a.table[i].state = "EMPTY" THEN [a EXCEPT !.table[i].state = "PENDING"]
    ELSE a

\* Mutant: a repeated query starts the wait for the answer again.
BugQueryRestartsWait(ip, packet, ok) ==
    LET f == etharp_find_entry(arp, ip, "TRY_HARD")
        a == [AsPending(f.a, f.i) EXCEPT !.table[f.i].ctime = 0]
    IN  /\ arp' = IF packet THEN Enqueue(a, f.i, ip, ok) ELSE a
        /\ out' = {}
        /\ UNCHANGED hint

\* Also sends an ARP request, whose loss or failure changes nothing here.
\* A packet comes only from etharp_output, which found no stable entry.
etharp_query(ip, packet, ok) ==
    LET f == etharp_find_entry(arp, ip, "TRY_HARD")
        a == AsPending(f.a, f.i)
    IN  /\ arp' = IF packet THEN Enqueue(a, f.i, ip, ok) ELSE a
        /\ out' = {}
        /\ UNCHANGED hint

\* Entry i is used: soon before it expires it is asked for again, once per
\* tick of the timer, if that request can be sent.
etharp_output_to_arp_index(i, hop, asked) ==
    /\ arp' = IF /\ arp.table[i].state = "STABLE"
                 /\ arp.table[i].ctime >= ARP_AGE_REREQUEST_USED
                 /\ asked
              THEN [arp EXCEPT !.table[i].state = "REREQUESTING"] ELSE arp
    /\ out' = {IpFrame(hop, arp.table[i].ethaddr)}

\* Without a netmask every address counts as local.
NextHop(dst) ==
    IF dst \in Hosts \/ ~netif.conf.netmask THEN dst
    ELSE IF netif.conf.gw THEN Gateway ELSE None

StableFor(hop) == {i \in Matching(arp, hop) : arp.table[i].state \in Stable}

\* Mutant: the hint is taken whenever its entry is stable.
BugHintHits(hop) == arp.table[hint].state \in Stable

HintHits(hop) == hint \in StableFor(hop)

\* ip_route passes packets to an interface that is up only.  Broadcasts and
\* multicasts, which do not touch the table, are left out.
etharp_output ==
    /\ netif.up
    /\ \E dst \in Addr, ok \in BOOLEAN, asked \in etharp_request :
          LET hop == NextHop(dst)
              stable == StableFor(hop)
          IN  /\ hop # None
              /\ IF HintHits(hop)
                 THEN /\ etharp_output_to_arp_index(hint, hop, asked)
                      /\ UNCHANGED hint
                 ELSE IF stable # {}
                 THEN /\ hint' = Min(stable)
                      /\ etharp_output_to_arp_index(Min(stable), hop, asked)
                 ELSE etharp_query(hop, TRUE, ok)
    /\ UNCHANGED <<netif, announced>>

\* dhcp_check asks for the address it was offered, with no packet.
dhcp_check ==
    /\ \E ip \in Hosts : etharp_query(ip, FALSE, TRUE)
    /\ UNCHANGED <<netif, announced>>

-----------------------------------------------------------------------------
(* Receiving, the timer and the interface.                                 *)

\* A message of ip at mac; the reply to a request for us is not an IP frame.
etharp_arp_input ==
    /\ \E ip \in Hosts, mac \in Macs, directed \in BOOLEAN :
          /\ etharp_update_arp_entry(ip, mac,
                IF netif.conf.ip_addr /\ directed THEN "TRY_HARD"
                ELSE "FIND_ONLY")
          /\ announced' = [announced EXCEPT ![ip] = mac]
    /\ UNCHANGED <<hint, netif>>

\* One entry of the table, one tick later.
Expired(e) ==
    \/ e.ctime + 1 >= ARP_MAXAGE
    \/ e.state = "PENDING" /\ e.ctime + 1 >= ARP_MAXPENDING

Aged(e) ==
    IF e.state = "EMPTY" THEN e
    ELSE [e EXCEPT !.ctime = @ + 1,
                   !.q = IF Expired(e) THEN None ELSE @,
                   !.state = IF Expired(e) THEN "EMPTY"
                             ELSE IF @ = "REREQUESTING" THEN "STABLE" ELSE @]

etharp_tmr ==
    LET aged == [i \in Index |-> Aged(arp.table[i])]
        freed == {i \in Queued(arp) : aged[i].q = None}
    IN  /\ arp' = [table |-> aged, copies |-> arp.copies - Cardinality(freed)]
        /\ out' = {}
        /\ UNCHANGED <<hint, netif, announced>>

\* netif_set_down frees the entries that are marked with the interface:
\* etharp_query leaves that mark as it was, only an update sets it.
etharp_cleanup_netif(a) ==
    LET mine == {i \in Index : /\ a.table[i].state # "EMPTY"
                               /\ a.table[i].netif}
    IN  [table |-> [i \in Index |->
                      IF i \in mine THEN etharp_free_entry(a, i).table[i]
                      ELSE a.table[i]],
         copies |-> a.copies - Cardinality(mine \intersect Queued(a))]

netif_set_down ==
    /\ netif.up
    /\ netif' = [netif EXCEPT !.up = FALSE]
    /\ arp' = etharp_cleanup_netif(arp)
    /\ out' = {}
    /\ UNCHANGED <<hint, announced>>

\* NETIF_FLAG_LINK_UP is never set in this program, so the announcement that
\* netif_set_up would send is left out.
netif_set_up ==
    /\ ~netif.up
    /\ netif' = [netif EXCEPT !.up = TRUE]
    /\ out' = {}
    /\ UNCHANGED <<arp, hint, announced>>

\* The table is not told of new addresses.
netif_set_addr ==
    /\ \E c \in Configs : netif' = [netif EXCEPT !.conf = c]
    /\ out' = {}
    /\ UNCHANGED <<arp, hint, announced>>

Next ==
    \/ etharp_output \/ dhcp_check \/ etharp_arp_input \/ etharp_tmr
    \/ netif_set_down \/ netif_set_up \/ netif_set_addr

(* LwIP_Periodic_Handle calls etharp_tmr every 5 s for ever; nothing is    *)
(* assumed of the traffic or of the other hosts.                           *)
Spec == Init /\ [][Next]_vars /\ WF_vars(etharp_tmr)

-----------------------------------------------------------------------------
(* No address has two live entries: etharp_find_entry looks at all of the  *)
(* table before it makes a new one (etharp.c:288), so an update can never  *)
(* refresh one entry while packets follow another.                         *)
OneEntryPerAddress ==
    \A i, j \in InState(arp, {"PENDING"} \union Stable) :
        arp.table[i].ipaddr = arp.table[j].ipaddr => i = j

(* Every packet the cache copied to the heap is held by exactly one entry, *)
(* which is pending (the assertion of etharp.c:369): none is leaked when   *)
(* it is replaced, recycled, expired or sent, so ARP keeps at most         *)
(* ARP_TABLE_SIZE packets of the heap from the other allocations.          *)
CopiesOwned ==
    /\ arp.copies = Cardinality(Queued(arp))
    /\ Queued(arp) \subseteq InState(arp, {"PENDING"})

(* An IP frame goes to the station that last spoke for its next hop,       *)
(* whatever entry the hint points at, however often entries were recycled  *)
(* since and whatever became of the routes while the packet waited.        *)
RightStation == \A f \in out : f.mac = announced[f.hop]

(* A packet that waits for an answer is sent or freed in the end, even if  *)
(* nobody answers and the board keeps sending to the same address: a       *)
(* repeated query does not start the wait again (etharp.c:219).            *)
WaitEnds ==
    \A hop \in Addr : LET waits == \E i \in Queued(arp) : arp.table[i].q = hop
                     IN  waits ~> ~waits

(* etharp_cleanup_netif (etharp.c:575) says "Remove all ARP table entries  *)
(* of the specified netif.": there is one interface, so none is left.      *)
DownClearsTable ==
    [][netif.up /\ ~netif'.up => InState(arp', {"EMPTY"}) = Index]_vars
=============================================================================
