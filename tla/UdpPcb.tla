------------------------------- MODULE UdpPcb -------------------------------
(***************************************************************************)
(* The UDP control blocks of lwIP: the pool they come from                 *)
(* (lwip/core/memp.c) and the list of the bound ones (lwip/core/udp.c), as *)
(* functions from one state u of both to the next.  The elements are the   *)
(* numbers 1..NPcb and 0 is NULL.                                          *)
(*                                                                         *)
(* u.memp_tab, u.word  the free list.  Its link is kept in the first word  *)
(*           of the element, which is local_ip while the element is a pcb: *)
(*           0 there means IP_ADDR_ANY to udp.c and end of list to memp.c. *)
(* u.udp_pcbs, u.next  the list of bound pcbs.                             *)
(* u.local_port        of each pcb, 0 when not bound.                      *)
(* u.udp_port          the last ephemeral port handed out.                 *)
(***************************************************************************)
EXTENDS Integers

CONSTANT NPcb       \* MEMP_NUM_UDP_PCB

ASSUME NPcbAssumption == NPcb \in Nat \ {0}

NULL == 0
Elements == 1 .. NPcb
Pointers == 0 .. NPcb

\* memp_init chains the elements, the last one first; no pcb is bound.
PoolInit ==
    [memp_tab   |-> NPcb,
     word       |-> [p \in Elements |-> p - 1],
     udp_pcbs   |-> NULL,
     next       |-> [p \in Elements |-> NULL],
     local_port |-> [p \in Elements |-> 0],
     udp_port   |-> 0]

\* The elements met on the way from head through the links of next.
Reach(head, next) ==
    LET walk[k \in 0 .. NPcb] ==
          IF k = 0 THEN head
          ELSE IF walk[k - 1] = NULL THEN NULL ELSE next[walk[k - 1]]
    IN  {walk[k] : k \in 0 .. NPcb} \ {NULL}

Free(u)   == Reach(u.memp_tab, u.word)
Listed(u) == Reach(u.udp_pcbs, u.next)

\* udp_new returns this element, or NULL when the pool is empty.
Fresh(u) == u.memp_tab

\* udp_new with an element in the pool: take it off the free list, zero it.
New(u) ==
    LET p == u.memp_tab
    IN  [u EXCEPT !.memp_tab = u.word[p], !.word[p] = NULL,
                  !.next[p] = NULL, !.local_port[p] = 0]

\* The next ephemeral port.  Fewer than 2^14 are used in a behaviour, so
\* the counter does not come round to one that is taken.
NewPort(u) == u.udp_port + 1

\* Mutant: the pcb is bound but not put on the list.
BugBindUnlisted(u, p, port) ==
    LET given == IF port = 0 THEN NewPort(u) ELSE port
    IN  [u EXCEPT !.word[p] = NULL, !.local_port[p] = given,
                  !.udp_port = IF port = 0 THEN given ELSE @]

\* udp_bind of p to IP_ADDR_ANY and `port', 0 for an ephemeral one.  A port
\* that another listed pcb has is refused; a listed pcb is bound again.
Bind(u, p, port) ==
    LET given == IF port = 0 THEN NewPort(u) ELSE port
        bound == [u EXCEPT !.word[p] = NULL, !.local_port[p] = given,
                           !.udp_port = IF port = 0 THEN given ELSE @]
    IN  IF \E q \in Listed(u) \ {p} : u.local_port[q] = port THEN u
        ELSE IF p \in Listed(u) THEN bound
        ELSE [bound EXCEPT !.next[p] = u.udp_pcbs, !.udp_pcbs = p]

\* udp_remove: unlink p if it is listed, hand it to memp_free either way.
Remove(u, p) ==
    LET unlinked ==
          IF u.udp_pcbs = p THEN [u EXCEPT !.udp_pcbs = u.next[p]]
          ELSE [u EXCEPT !.next =
                  [q \in Elements |->
                      IF q \in Listed(u) /\ u.next[q] = p THEN u.next[p]
                      ELSE u.next[q]]]
    IN  [unlinked EXCEPT !.word[p] = u.memp_tab, !.memp_tab = p]

\* udp_input finds a pcb for a datagram to `port': listed, bound to it, and
\* with IP_ADDR_ANY for its own address.
Receivers(u, port) ==
    {p \in Listed(u) : u.local_port[p] = port /\ u.word[p] = NULL}

\* udp_sendto drops a datagram of a pcb whose own address is not the netif's.
CanSend(u, p) == u.word[p] = NULL
=============================================================================
