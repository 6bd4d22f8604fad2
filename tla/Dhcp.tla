-------------------------------- MODULE Dhcp --------------------------------
(***************************************************************************)
(* The DHCP client of lwip/core/dhcp.c as functions from one netif record  *)
(* to the next.  Every handler runs to its end on the main loop, so a      *)
(* handler is one such function; Netconf makes actions of them.            *)
(*                                                                         *)
(* A netif n holds ip_addr and netmask (which of its two sources they came *)
(* from, "any" for 0.0.0.0; the gateway always travels with the netmask),  *)
(* up (NETIF_FLAG_UP) and n.dhcp, the struct dhcp:                         *)
(*   state, tries, request_timeout (in ticks of 500 ms), pcb (not NULL),   *)
(*   armed   t1_timeout or t2_timeout was loaded by dhcp_bind,             *)
(*   asked   the kinds of message sent under the current transaction id: a *)
(*           reply to any other transaction is dropped by dhcp_recv.       *)
(* `ok' tells whether pbuf_alloc found memory for the outgoing message.    *)
(*                                                                         *)
(* An ACK leases an address: one whose yiaddr is 0.0.0.0, which dhcp.c     *)
(* would bind like any other (netconf.c would then wait on), is left out.  *)
(***************************************************************************)
EXTENDS Integers

ClientStates == {"OFF", "SELECTING", "REQUESTING", "CHECKING",
                 "BACKING_OFF", "BOUND", "RENEWING", "REBINDING"}
MessageKinds == {"DISCOVER", "REQUEST", "DECLINE", "RELEASE"}
Addresses    == {"any", "static", "lease"}

\* struct dhcp after the memset of dhcp_start, and netif->dhcp == NULL at boot.
Cleared == [state |-> "OFF", tries |-> 0, request_timeout |-> 0,
            pcb |-> FALSE, armed |-> FALSE, asked |-> {}]

\* Mutant: the counters are reset even when the state stays the same.
BugSetStateAlways(n, s) ==
    [n EXCEPT !.dhcp.state = s, !.dhcp.tries = 0, !.dhcp.request_timeout = 0]

\* A change of state restarts the count of tries and stops the timer.
SetState(n, s) ==
    IF n.dhcp.state = s THEN n
    ELSE [n EXCEPT !.dhcp.state = s, !.dhcp.tries = 0,
                   !.dhcp.request_timeout = 0]

\* The first try of a state takes a new transaction id, a retry keeps it.
\* Without memory nothing is sent and the old id stays.
CreateMsg(n, kind, ok) ==
    IF ok THEN [n EXCEPT !.dhcp.asked =
                    {kind} \cup (IF n.dhcp.tries = 0 THEN {} ELSE @)]
    ELSE n

\* One more try, and the timer to give up on it.
Arm(n, ticks) ==
    [n EXCEPT !.dhcp.tries = @ + 1, !.dhcp.request_timeout = ticks]

\* 2^tries seconds for the first five tries, then a minute.
Backoff(tries) == IF tries < 6 THEN 2 * 2^tries ELSE 120

\* The interface loses its address and goes down.
Unconfigure(n) ==
    [n EXCEPT !.up = FALSE, !.ip_addr = "any", !.netmask = "any"]

Discover(n, ok) ==
    LET s == CreateMsg(SetState(n, "SELECTING"), "DISCOVER", ok)
    IN  Arm(s, Backoff(s.dhcp.tries + 1))

Select(n, ok) ==
    LET s == CreateMsg(SetState(n, "REQUESTING"), "REQUEST", ok)
    IN  Arm(s, Backoff(s.dhcp.tries + 1))

\* Probe the acknowledged address with ARP, 500 ms a try.
Check(n) == Arm(SetState(n, "CHECKING"), 1)

\* Mutant: the declined address stays under check and will be bound.
BugDeclineKeepsChecking(n, ok) == Arm(CreateMsg(n, "DECLINE", ok), 20)

\* Another host answered for the address: refuse it, back off ten seconds.
Decline(n, ok) ==
    Arm(CreateMsg(SetState(n, "BACKING_OFF"), "DECLINE", ok), 20)

Release(n, ok) ==
    LET s == CreateMsg(SetState(n, "OFF"), "RELEASE", ok)
    IN  Unconfigure(Arm(s, 2 * (s.dhcp.tries + 1)))

HandleNak(n, ok) == Discover(SetState(Unconfigure(n), "BACKING_OFF"), ok)

\* An offer that names no server is not taken up, and the timer is off.
HandleOffer(n, serverId, ok) ==
    LET s == [n EXCEPT !.dhcp.request_timeout = 0]
    IN  IF serverId THEN Select(s, ok) ELSE s

Bind(n) ==
    SetState([n EXCEPT !.ip_addr = "lease", !.netmask = "lease", !.up = TRUE,
                       !.dhcp.armed = TRUE], "BOUND")

Stop(n) == SetState([n EXCEPT !.dhcp.pcb = FALSE], "OFF")

\* dhcp_start: an old pcb is removed, the struct cleared, a new pcb taken
\* from the pool when there is one.
Start(n, pcb, ok) ==
    LET s == [n EXCEPT !.dhcp = Cleared]
        d == Discover([s EXCEPT !.dhcp.pcb = TRUE], ok)
    IN  CASE ~pcb       -> s
          [] pcb /\ ok  -> d
          [] pcb /\ ~ok -> Stop(d)

\* dhcp_timeout: the answer did not come in time.
Timeout(n, okRelease, ok) ==
    CASE n.dhcp.state \in {"BACKING_OFF", "SELECTING"} -> Discover(n, ok)
      [] n.dhcp.state = "REQUESTING" ->
            IF n.dhcp.tries <= 5 THEN Select(n, ok)
            ELSE Discover(Release(n, okRelease), ok)
      [] n.dhcp.state = "CHECKING" ->
            IF n.dhcp.tries <= 1 THEN Check(n) ELSE Bind(n)
      [] OTHER -> n

\* dhcp_fine_tmr: 0 is a timer that is off.
FineTmr(n, okRelease, ok) ==
    LET s == [n EXCEPT !.dhcp.request_timeout = @ - 1]
    IN  CASE n.dhcp.request_timeout = 0 -> n
          [] n.dhcp.request_timeout = 1 -> Timeout(s, okRelease, ok)
          [] n.dhcp.request_timeout > 1 -> s

\* dhcp_coarse_tmr when t1 or t2 runs out: a client with a lease asks again.
LeaseTmr(n, renewal) ==
    LET s == [n EXCEPT !.dhcp.armed = (renewal = "RENEWING")]
    IN  IF s.dhcp.state \in {"REQUESTING", "BOUND", "RENEWING"}
        THEN SetState(s, renewal) ELSE s
=============================================================================
