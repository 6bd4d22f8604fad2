------------------------------- MODULE Netconf -------------------------------
(***************************************************************************)
(* How the board comes by its address (src/netconf.c): the DHCP client of  *)
(* Dhcp, the state machine LwIP_DHCP_Process_Handle that starts it, waits  *)
(* for it and falls back to a static address, and the shell commands dhcp  *)
(* and static that interfere with both.  All of it runs on the main loop,  *)
(* one handler at a time; what interleaves is the order of timer ticks,    *)
(* replies of the server, ARP answers and commands.                        *)
(***************************************************************************)
EXTENDS Dhcp

CONSTANTS
    MaxDhcpTries,   \* MAX_DHCP_TRIES
    Faults,         \* what else can go wrong, a subset of FaultKinds
    MaxRefusals,    \* model bound: NAKs and address conflicts in a behaviour
    MaxCmds         \* model bound: shell commands in a behaviour

\* No memory for a message, no UDP pcb, an offer without server id.
FaultKinds == {"nomem", "nopcb", "badoffer"}

ASSUME NetconfAssumption ==
    /\ MaxDhcpTries \in 1 .. 4
    /\ Faults \subseteq FaultKinds
    /\ MaxRefusals \in Nat /\ MaxCmds \in Nat

VARIABLES
    netif,          \* struct netif and the struct dhcp it points to
    DHCP_state,     \* where LwIP_DHCP_Process_Handle is
    ipaddr,         \* the global that printenv shows
    cmds, lastCmd,  \* history: number of commands, the last one
    refusals,       \* history: NAKs and conflicts
    contested,      \* history: the address under check was answered for
    faults          \* the faults of this behaviour: none, or those of Faults

netVars == <<netif, DHCP_state, ipaddr, cmds, lastCmd, refusals, contested,
          faults>>

Settled == DHCP_state \in {"ASSIGNED", "TIMEOUT"}

\* What an allocation may return.
Granted(fault) == IF fault \in faults THEN BOOLEAN ELSE {TRUE}
Mem == Granted("nomem")

\* udp_new in dhcp_start: the pool is full at boot, and a client that still
\* has a pcb has just put it back; otherwise others may hold them all.
Pcb(n) == IF cmds = 0 \/ n.dhcp.pcb THEN {TRUE} ELSE Granted("nopcb")

\* LwIP_Init: no address yet, the interface up, no DHCP client.
NetInit ==
    /\ netif = [ip_addr |-> "any", netmask |-> "any", up |-> TRUE,
                dhcp |-> Cleared]
    /\ DHCP_state = "START"
    /\ ipaddr = "any"
    /\ cmds = 0 /\ lastCmd = "none"
    /\ refusals = 0 /\ contested = FALSE
    /\ faults \in {{}, Faults}

-----------------------------------------------------------------------------
(* LwIP_Periodic_Handle, every 500 ms: dhcp_fine_tmr and then, in the same *)
(* call, the state machine, which sees the netif n that the timer left.    *)

ProcessStart(n) ==
    /\ DHCP_state = "START"
    /\ \E pcb \in Pcb(n), ok \in Mem :
          netif' = Start([n EXCEPT !.ip_addr = "any"], pcb, ok)
    /\ ipaddr' = "any"
    /\ DHCP_state' = "WAIT"

\* Mutant: dhcp_stop is left out once the address is there.
BugAssignedKeepsClient(n) ==
    /\ DHCP_state = "WAIT"
    /\ n.ip_addr # "any"
    /\ ipaddr' = n.ip_addr
    /\ DHCP_state' = "ASSIGNED"
    /\ netif' = n

ProcessAssigned(n) ==
    /\ DHCP_state = "WAIT"
    /\ n.ip_addr # "any"
    /\ ipaddr' = n.ip_addr
    /\ DHCP_state' = "ASSIGNED"
    /\ netif' = Stop(n)

\* Mutant: the client is left running under the static address.
BugTimeoutKeepsClient(n) ==
    /\ DHCP_state = "WAIT"
    /\ n.ip_addr = "any"
    /\ n.dhcp.tries > MaxDhcpTries
    /\ DHCP_state' = "TIMEOUT"
    /\ ipaddr' = "static"
    /\ netif' = [n EXCEPT !.ip_addr = "static", !.netmask = "static"]

ProcessTimeout(n) ==
    /\ DHCP_state = "WAIT"
    /\ n.ip_addr = "any"
    /\ n.dhcp.tries > MaxDhcpTries
    /\ DHCP_state' = "TIMEOUT"
    /\ ipaddr' = "static"
    /\ netif' = [Stop(n) EXCEPT !.ip_addr = "static", !.netmask = "static"]

ProcessWait(n) ==
    /\ DHCP_state = "WAIT"
    /\ n.ip_addr = "any"
    /\ n.dhcp.tries <= MaxDhcpTries
    /\ netif' = n
    /\ UNCHANGED <<DHCP_state, ipaddr>>

ProcessNothing(n) ==
    /\ Settled
    /\ netif' = n
    /\ UNCHANGED <<DHCP_state, ipaddr>>

Process(n) ==
    \/ ProcessStart(n)
    \/ ProcessAssigned(n)
    \/ ProcessTimeout(n)
    \/ ProcessWait(n)
    \/ ProcessNothing(n)

PeriodicFine ==
    /\ \E ok \in Mem, okRelease \in Mem :
          Process(FineTmr(netif, okRelease, ok))
    /\ UNCHANGED <<cmds, lastCmd, refusals, contested>>

\* Every 60 s dhcp_coarse_tmr counts the lease down; the action is the tick
\* at which t1 or t2 runs out.
PeriodicCoarse ==
    /\ netif.dhcp.armed
    /\ \E renewal \in {"RENEWING", "REBINDING"} :
          netif' = LeaseTmr(netif, renewal)
    /\ UNCHANGED <<DHCP_state, ipaddr, cmds, lastCmd, refusals, contested>>

-----------------------------------------------------------------------------
(* dhcp_recv.  The server answers what was asked under the transaction id  *)
(* the client holds now, late, more than once or never; replies to older   *)
(* ids are dropped and so not sent here.                                   *)

Reply(kind, s) ==
    /\ netif.dhcp.pcb
    /\ kind \in netif.dhcp.asked
    /\ netif.dhcp.state = s
    /\ UNCHANGED <<DHCP_state, ipaddr, cmds, lastCmd>>

RecvOffer ==
    /\ Reply("DISCOVER", "SELECTING")
    /\ \E serverId \in Granted("badoffer"), ok \in Mem :
          netif' = HandleOffer(netif, serverId, ok)
    /\ UNCHANGED <<refusals, contested>>

RecvAck ==
    /\ Reply("REQUEST", "REQUESTING")
    /\ netif' = Check(netif)
    /\ contested' = FALSE
    /\ UNCHANGED refusals

\* The environment's right to refuse once more.
Refusal ==
    /\ refusals < MaxRefusals
    /\ refusals' = refusals + 1

RecvNak ==
    /\ Reply("REQUEST", "REQUESTING")
    /\ Refusal
    /\ \E ok \in Mem : netif' = HandleNak(netif, ok)
    /\ UNCHANGED contested

\* dhcp_arp_reply: a host owns the address that is being checked.
ArpReply ==
    /\ netif.dhcp.state = "CHECKING"
    /\ Refusal
    /\ \E ok \in Mem : netif' = Decline(netif, ok)
    /\ contested' = TRUE
    /\ UNCHANGED <<DHCP_state, ipaddr, cmds, lastCmd>>

-----------------------------------------------------------------------------
(* Shell commands.                                                         *)

Command(c) ==
    /\ cmds < MaxCmds
    /\ cmds' = cmds + 1
    /\ lastCmd' = c
    /\ UNCHANGED <<refusals, contested>>

CmdDhcp ==
    /\ Command("dhcp")
    /\ DHCP_state' = "START"
    /\ UNCHANGED <<netif, ipaddr>>

\* Mutant: only the interface is told the static address.
BugStaticNotPrinted ==
    /\ Command("static")
    /\ netif' = [netif EXCEPT !.ip_addr = "static"]
    /\ UNCHANGED <<DHCP_state, ipaddr>>

\* "static" alone: the address of the configuration header.
CmdStatic ==
    /\ Command("static")
    /\ ipaddr' = "static"
    /\ netif' = [netif EXCEPT !.ip_addr = "static"]
    /\ UNCHANGED DHCP_state

\* "static" with an argument: parsing is commented out, ipaddr is kept.
CmdStaticArg ==
    /\ Command("static arg")
    /\ netif' = [netif EXCEPT !.ip_addr = ipaddr]
    /\ UNCHANGED <<DHCP_state, ipaddr>>

-----------------------------------------------------------------------------
NetNext ==
    /\ \/ PeriodicFine \/ PeriodicCoarse
       \/ RecvOffer \/ RecvAck \/ RecvNak \/ ArpReply
       \/ CmdDhcp \/ CmdStatic \/ CmdStaticArg
    /\ UNCHANGED faults

(* SysTick keeps counting and the main loop calls LwIP_Periodic_Handle on  *)
(* every turn, so the fine timer always ticks again.  Nothing is assumed   *)
(* of the server, of other hosts or of the user.                           *)
NetSpec == NetInit /\ [][NetNext]_netVars /\ WF_netVars(PeriodicFine /\ UNCHANGED faults)

-----------------------------------------------------------------------------
(* Once LwIP_DHCP_Process_Handle has settled, no late reply and no timer   *)
(* changes the address any more: only a command does (netconf.c:283, 308   *)
(* stop the client before anything can arrive).                            *)
SettledAddressStays ==
    [][Settled /\ cmds' = cmds => netif'.ip_addr = netif.ip_addr]_netVars

(* In the settled states printenv (uLoader.c:251) shows the address that   *)
(* the interface uses, whatever commands came before and in between.       *)
PrintedAddressIsUsed == Settled => ipaddr = netif.ip_addr

(* A bound client is stopped in the tick that bound it: no lease is ever   *)
(* renewed, neither by t1 nor by t2, since both find the client off.  The  *)
(* lease is an address: an ACK for 0.0.0.0 is left out (Dhcp).             *)
LeaseNeverRenewed ==
    /\ netif.dhcp.state \notin {"BOUND", "RENEWING", "REBINDING"}
    /\ netif.dhcp.armed => netif.dhcp.state = "OFF"

(* An address for which another host answered during the ARP check that    *)
(* follows its ACK is never given to the interface (dhcp.c:813).           *)
NoContestedLease == contested => netif.ip_addr # "lease"

(* The report promises that a board without an answering DHCP server falls *)
(* back to its static address: waiting always ends.  It does in behaviours *)
(* without faults, where every allocation succeeds, and with finitely many *)
(* refusals; each refusal starts the count of tries again.  An ACK for     *)
(* 0.0.0.0, which would be bound and not noticed, is left out (Dhcp).      *)
FallsBack == (faults = {} /\ DHCP_state = "WAIT") ~> Settled

(* netconf.c:187, "When the netif is fully configured this function must   *)
(* be called" of netif_set_up: a settled interface is up.                  *)
UpWhenConfigured == Settled => netif.up

(* The report: the two commands switch between dynamic and static          *)
(* addresses at run time.  After static the interface has the static one.  *)
StaticSticks == Settled /\ lastCmd = "static" => netif.ip_addr = "static"
=============================================================================
