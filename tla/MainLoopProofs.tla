--------------------------- MODULE MainLoopProofs ---------------------------
(***************************************************************************)
(* Proofs about what runs on the main loop: its time base, Timers, for     *)
(* every width of the counter, every tick period, every set of tasks and   *)
(* every hold-up of the loop that the assumption admits; the way into it,  *)
(* ULoader, for every limit on the polls and every behaviour of the cable; *)
(* and the address configuration, Netconf, for a limit of one to four      *)
(* tries, every set of faults and any number of commands and refusals.     *)
(***************************************************************************)
EXTENDS Timers, ULoader, Netconf, TLAPS

-----------------------------------------------------------------------------
(* The time base.                                                          *)

(* Remainder of a number below twice the modulus: all that the unsigned    *)
(* additions and subtractions of the time base need.                       *)
LEMMA ModOnce ==
    ASSUME NEW m \in Nat \ {0}, NEW x \in Nat, x < 2 * m
    PROVE  x % m = IF x < m THEN x ELSE x - m
<1>1. CASE x < m
  BY <1>1, SMT
<1>2. CASE x >= m
  BY <1>2, SMT
<1> QED
  BY <1>1, <1>2, SMT

(* The time that passes in n more ticks, n of them at most b.              *)
LEMMA TicksBelow ==
    ASSUME NEW n \in Nat, NEW b \in Nat, n < b, NEW t \in Nat
    PROVE  /\ (n + 1) * t = n * t + t
           /\ (n + 1) * t <= b * t
           /\ n * t \in Nat /\ b * t \in Nat
<1>1. (n + 1) * t = n * t + t
  BY SMT
<1>2. PICK d \in Nat : b = n + 1 + d
  <2>1. b - (n + 1) \in Nat /\ b = n + 1 + (b - (n + 1))
    BY SMT
  <2> QED
    BY <2>1
<1>3. b * t = (n + 1) * t + d * t
  BY <1>2, SMT
<1>4. d * t \in Nat /\ n * t \in Nat /\ (n + 1) * t \in Nat
  BY <1>2, SMT
<1> QED
  BY <1>1, <1>3, <1>4, SMT

-----------------------------------------------------------------------------
(* The age of a stamp is the distance from it to LocalTime on the circle   *)
(* of the counter: the reason why the unsigned subtraction is the elapsed  *)
(* time although the counter overflows.                                    *)
Distance(k) ==
    IF LocalTime >= stamp[k] THEN LocalTime - stamp[k]
    ELSE LocalTime + Modulus - stamp[k]

AgeIsDistance == \A k \in Tasks : age[k] = Distance(k)

TimeInv == TypeOK /\ AgeIsDistance /\ NeverOverdue

(* The comparison of LwIP_Periodic_Handle looks at the age.                *)
LEMMA DueIsAge ==
    ASSUME TypeOK, NEW k \in Tasks
    PROVE  Due(k) <=> Distance(k) >= Interval[k]
<1>1. /\ Modulus \in Nat \ {0}
      /\ LocalTime \in 0 .. Modulus - 1 /\ stamp[k] \in 0 .. Modulus - 1
  BY TimersAssumption DEF TypeOK
<1> DEFINE x == LocalTime + Modulus - stamp[k]
<1>2. x \in Nat /\ x < 2 * Modulus
  BY <1>1, SMT
<1>3. x % Modulus = IF x < Modulus THEN x ELSE x - Modulus
  <2> HIDE DEF x
  <2> QED
    BY <1>1, <1>2, ModOnce
<1>4. x % Modulus = Distance(k)
  BY <1>1, <1>3, SMT DEF Distance
<1> QED
  BY <1>4 DEF Due

(* The invariant holds at power-up.                                        *)
LEMMA InvInit == TimeInit => TimeInv
<1> SUFFICES ASSUME TimeInit PROVE TimeInv
  OBVIOUS
<1>1. TypeOK
  BY TimersAssumption, SMT DEF TimeInit, TypeOK
<1>2. AgeIsDistance
  BY SMT DEF TimeInit, AgeIsDistance, Distance
<1>3. NeverOverdue
  BY TimersAssumption, SMT DEF TimeInit, NeverOverdue
<1> QED
  BY <1>1, <1>2, <1>3 DEF TimeInv

(* A tick of SysTick keeps it, also the one in which LocalTime overflows.   *)
LEMMA InvTimeUpdate == TimeInv /\ Time_Update => TimeInv'
<1> SUFFICES ASSUME TimeInv, Time_Update PROVE TimeInv'
  OBVIOUS
<1>1. /\ Modulus \in Nat \ {0} /\ MaxStall \in Nat /\ TickPeriod \in Nat
      /\ TickPeriod < Modulus
      /\ LocalTime \in 0 .. Modulus - 1 /\ stall \in Nat /\ stall < MaxStall
      /\ LocalTime' = (LocalTime + TickPeriod) % Modulus
      /\ stall' = stall + 1
  BY TimersAssumption, SMT DEF TimeInv, TypeOK, Time_Update
<1>2. LocalTime' = IF LocalTime + TickPeriod < Modulus
                   THEN LocalTime + TickPeriod
                   ELSE LocalTime + TickPeriod - Modulus
  <2> DEFINE x == LocalTime + TickPeriod
  <2>1. x \in Nat /\ x < 2 * Modulus
    BY <1>1, SMT
  <2>2. x % Modulus = IF x < Modulus THEN x ELSE x - Modulus
    <3> HIDE DEF x
    <3> QED
      BY <1>1, <2>1, ModOnce
  <2> QED
    BY <1>1, <2>2
<1>3. TypeOK'
  BY <1>1, <1>2, SMT DEF TimeInv, TypeOK, Time_Update
<1>4. /\ stall' * TickPeriod = stall * TickPeriod + TickPeriod
      /\ stall' * TickPeriod <= MaxStall * TickPeriod
      /\ stall * TickPeriod \in Nat /\ MaxStall * TickPeriod \in Nat
  BY <1>1, TicksBelow
<1>5. ASSUME NEW k \in Tasks
      PROVE  /\ age'[k] = age[k] + TickPeriod
             /\ age'[k] < Interval[k] + stall' * TickPeriod
             /\ age'[k] < Modulus
  <2>1. age[k] \in Nat /\ Interval[k] \in Nat
    BY TimersAssumption DEF TimeInv, TypeOK
  <2>2. age'[k] = age[k] + TickPeriod
    BY DEF Time_Update
  <2>3. age[k] < Interval[k] + stall * TickPeriod
    BY DEF TimeInv, NeverOverdue
  <2>4. Interval[k] + MaxStall * TickPeriod < Modulus
    BY TimersAssumption
  <2> QED
    BY <1>1, <1>4, <2>1, <2>2, <2>3, <2>4, SMT
<1>6. AgeIsDistance'
  <2> SUFFICES ASSUME NEW k \in Tasks PROVE age'[k] = Distance(k)'
    BY DEF AgeIsDistance
  <2>1. stamp' = stamp /\ stamp[k] \in 0 .. Modulus - 1
    BY DEF TimeInv, TypeOK, Time_Update
  <2>2. age[k] = Distance(k) /\ age[k] \in Nat
    BY DEF TimeInv, TypeOK, AgeIsDistance
  <2> QED
    BY <1>1, <1>2, <1>5, <2>1, <2>2, SMT DEF Distance
<1>7. NeverOverdue'
  BY <1>5 DEF NeverOverdue
<1> QED
  BY <1>3, <1>6, <1>7 DEF TimeInv

(* So does a call of LwIP_Periodic_Handle, whichever tasks are due.         *)
LEMMA InvPeriodic == TimeInv /\ LwIP_Periodic_Handle => TimeInv'
<1> SUFFICES ASSUME TimeInv, LwIP_Periodic_Handle PROVE TimeInv'
  OBVIOUS
<1>1. /\ TypeOK /\ Modulus \in Nat \ {0}
      /\ LocalTime \in 0 .. Modulus - 1
      /\ LocalTime' = LocalTime /\ stall' = 0
  BY TimersAssumption DEF TimeInv, TypeOK, LwIP_Periodic_Handle
<1>2. TypeOK'
  BY <1>1, TimersAssumption, SMT DEF TypeOK, LwIP_Periodic_Handle
<1>3. ASSUME NEW k \in Tasks
      PROVE  /\ age'[k] = Distance(k)'
             /\ age'[k] < Interval[k] + stall' * TickPeriod
  <2>1. /\ age[k] \in Nat /\ Interval[k] \in Nat \ {0}
        /\ stamp[k] \in 0 .. Modulus - 1 /\ age[k] = Distance(k)
        /\ stall' * TickPeriod = 0
    BY <1>1, TimersAssumption, SMT DEF TimeInv, TypeOK, AgeIsDistance
  <2>2. CASE Due(k)
    <3>1. age'[k] = 0 /\ stamp'[k] = LocalTime
      BY <2>2 DEF LwIP_Periodic_Handle
    <3> QED
      BY <1>1, <2>1, <3>1, SMT DEF Distance
  <2>3. CASE ~Due(k)
    <3>1. age'[k] = age[k] /\ stamp'[k] = stamp[k]
      BY <2>3 DEF LwIP_Periodic_Handle
    <3>2. ~(Distance(k) >= Interval[k])
      BY <1>1, <2>3, DueIsAge
    <3>3. Distance(k)' = Distance(k)
      BY <1>1, <3>1 DEF Distance
    <3> QED
      BY <2>1, <3>1, <3>2, <3>3, SMT
  <2> QED
    BY <2>2, <2>3
<1> QED
  BY <1>2, <1>3 DEF TimeInv, AgeIsDistance, NeverOverdue

(* Every step of the specification keeps it.                               *)
LEMMA InvNext == TimeInv /\ [TimeNext]_timeVars => TimeInv'
<1> SUFFICES ASSUME TimeInv, [TimeNext]_timeVars PROVE TimeInv'
  OBVIOUS
<1>1. CASE Time_Update
  BY <1>1, InvTimeUpdate
<1>2. CASE LwIP_Periodic_Handle
  BY <1>2, InvPeriodic
<1>3. CASE UNCHANGED timeVars
  BY <1>3 DEF timeVars, TimeInv, TypeOK, AgeIsDistance, Distance, NeverOverdue
<1> QED
  BY <1>1, <1>2, <1>3 DEF TimeNext

(* LocalTime and the stamps stay within their width in every behaviour.    *)
THEOREM TimersTyped == TimeSpec => []TypeOK
<1>1. TimeInv => TypeOK
  BY DEF TimeInv
<1> QED
  BY <1>1, InvInit, InvNext, PTL DEF TimeSpec

(* No periodic task of LwIP_Periodic_Handle is skipped or late by more     *)
(* than the hold-up of the main loop, whatever the width of the counter.   *)
THEOREM NoTaskOverdue == TimeSpec => []NeverOverdue
<1>1. TimeInv => NeverOverdue
  BY DEF TimeInv
<1> QED
  BY <1>1, InvInit, InvNext, PTL DEF TimeSpec

(* No periodic task of LwIP_Periodic_Handle runs early, also not when      *)
(* LocalTime overflows.                                                    *)
THEOREM NoTaskEarly == TimeSpec => NeverEarly
<1>1. ASSUME TimeInv, [TimeNext]_timeVars, NEW k \in Tasks, age'[k] < age[k]
      PROVE  age[k] >= Interval[k]
  <2>1. age[k] \in Nat /\ age[k] = Distance(k) /\ TickPeriod \in Nat
    BY <1>1, TimersAssumption DEF TimeInv, TypeOK, AgeIsDistance
  <2>2. CASE Time_Update
    <3>1. age'[k] = age[k] + TickPeriod
      BY <2>2 DEF Time_Update
    <3> QED
      BY <1>1, <2>1, <3>1, SMT
  <2>3. CASE LwIP_Periodic_Handle
    <3>1. Due(k) \/ age'[k] = age[k]
      BY <2>3 DEF LwIP_Periodic_Handle
    <3>2. Due(k) <=> Distance(k) >= Interval[k]
      BY <1>1, DueIsAge DEF TimeInv
    <3> QED
      BY <1>1, <2>1, <3>1, <3>2, SMT
  <2>4. CASE UNCHANGED timeVars
    BY <1>1, <2>1, <2>4, SMT DEF timeVars
  <2> QED
    BY <1>1, <2>2, <2>3, <2>4 DEF TimeNext
<1>2. TimeInv /\ [TimeNext]_timeVars =>
        [\A k \in Tasks : age'[k] < age[k] => age[k] >= Interval[k]]_timeVars
  BY <1>1
<1> QED
  BY <1>2, InvInit, InvNext, PTL DEF TimeSpec, NeverEarly

-----------------------------------------------------------------------------
(* The way into the loop, only through both waits for the PHY.             *)

\* What the place in main says of the bits that were waited for.
SeenByPlace ==
    /\ pc \in {"reset", "phy_reset", "link", "autonego", "nego", "start",
               "halt"} \union Loop
    /\ pc \in {"reset", "phy_reset", "link"} => seen = {}
    /\ pc \in {"autonego", "nego"} => seen = {"linked"}
    /\ pc \in {"start"} \union Loop => seen = {"linked", "negotiated"}

\* A step of the loop or of the surroundings neither enters nor leaves the
\* loop and does not touch seen.
LEMMA OutsideBoot ==
    ASSUME SeenByPlace,
           UNCHANGED seen,
           UNCHANGED pc \/ (pc \in Loop /\ pc' \in Loop)
    PROVE  SeenByPlace'
  BY DEF SeenByPlace, Loop

\* A poll keeps the place, gives up, or goes on with the bit it waited for.
LEMMA PollStep ==
    ASSUME NEW at, NEW bit, NEW next, Poll(at, bit, next)
    PROVE  /\ pc = at
           /\ \/ UNCHANGED <<pc, seen>>
              \/ pc' = "halt" /\ UNCHANGED seen
              \/ pc' = next /\ seen' = seen \union {bit}
  BY DEF Poll, Goto

\* Every step of ETH_BSP_Config leads to the place and the bits that fit.
LEMMA BootStep ==
    ASSUME SeenByPlace, ETH_BSP_Config
    PROVE  SeenByPlace'
<1>1. CASE WritePHY("phy_reset", "link")
  BY <1>1 DEF SeenByPlace, WritePHY, Goto, Loop
<1>2. CASE Poll("link", "linked", "autonego")
  <2>1. /\ pc = "link"
        /\ \/ UNCHANGED <<pc, seen>>
           \/ pc' = "halt" /\ UNCHANGED seen
           \/ pc' = "autonego" /\ seen' = seen \union {"linked"}
    BY <1>2, PollStep
  <2>2. QED  BY <2>1 DEF SeenByPlace, Loop
<1>3. CASE WritePHY("autonego", "nego")
  BY <1>3 DEF SeenByPlace, WritePHY, Goto, Loop
<1>4. CASE Poll("nego", "negotiated", "start")
  <2>1. /\ pc = "nego"
        /\ \/ UNCHANGED <<pc, seen>>
           \/ pc' = "halt" /\ UNCHANGED seen
           \/ pc' = "start" /\ seen' = seen \union {"negotiated"}
    BY <1>4, PollStep
  <2>2. QED  BY <2>1 DEF SeenByPlace, Loop
<1>5. CASE StartNetwork
  BY <1>5 DEF SeenByPlace, StartNetwork, Goto, Loop
<1>6. QED
  BY <1>1, <1>2, <1>3, <1>4, <1>5 DEF ETH_BSP_Config

\* A turn of the loop stays in the loop.
LEMMA LoopStep ==
    ASSUME SeenByPlace,
           HandleFrame \/ Periodic \/ GetsNothing \/ parser \/ cmd_read
    PROVE  SeenByPlace'
<1>1. UNCHANGED seen
  BY DEF HandleFrame, Periodic, GetsNothing, parser, cmd_read, boot
<1>2. pc \in Loop /\ pc' \in Loop
  BY DEF HandleFrame, Periodic, GetsNothing, parser, cmd_read, Loop
<1>3. QED
  BY <1>1, <1>2, OutsideBoot

\* SeenByPlace is inductive.
LEMMA NextSeen ==
    ASSUME SeenByPlace, [LoaderNext]_loaderVars
    PROVE  SeenByPlace'
<1>1. CASE SoftwareResetDone
  BY <1>1 DEF SeenByPlace, SoftwareResetDone, Goto, Loop
<1>2. CASE Main
  BY <1>2, BootStep, LoopStep DEF Main
<1>3. CASE LinkChanges \/ FrameArrives \/ SysTick \/ LineArrives
  BY <1>3, OutsideBoot
  DEF LinkChanges, FrameArrives, SysTick, LineArrives, boot
<1>4. CASE UNCHANGED loaderVars
  BY <1>4, OutsideBoot DEF loaderVars
<1>5. QED
  BY <1>1, <1>2, <1>3, <1>4 DEF LoaderNext

(* ETH_Init (stm32f4x7_eth.c:404, 425): main enters its loop only after the*)
(* PHY reported a link and a finished negotiation, for every PHY_READ_TO   *)
(* and however the cable is plugged and pulled meanwhile.                  *)
THEOREM StartsNegotiated == LoaderSpec => []RunsOnlyNegotiated
<1>1. LoaderInit => SeenByPlace
  BY DEF LoaderInit, SeenByPlace, Loop
<1>2. SeenByPlace /\ [LoaderNext]_loaderVars => SeenByPlace'
  BY NextSeen
<1>3. SeenByPlace => RunsOnlyNegotiated
  BY DEF SeenByPlace, RunsOnlyNegotiated, Running
<1>4. QED
  BY <1>1, <1>2, <1>3, PTL DEF LoaderSpec

-----------------------------------------------------------------------------
(* The address configuration.  The lemmas about the client say which       *)
(* fields of the netif a function of Dhcp may change, and to what.         *)

\* struct dhcp and struct netif.
DhcpRecord == [state : ClientStates, tries : Nat, request_timeout : Nat,
               pcb : BOOLEAN, armed : BOOLEAN, asked : SUBSET MessageKinds]
NetifRecord == [ip_addr : Addresses, netmask : Addresses, up : BOOLEAN,
                dhcp : DhcpRecord]

\* m differs from n in the struct dhcp alone, and its client is in state s.
OnlyClient(n, m, s) ==
    /\ m \in NetifRecord
    /\ m.ip_addr = n.ip_addr
    /\ m.dhcp.state = s
    /\ m.dhcp.armed = n.dhcp.armed

-----------------------------------------------------------------------------
(* The functions of Dhcp.                                                  *)

\* Two netif records with equal fields are equal.
LEMMA NetifFields ==
    ASSUME NEW n \in NetifRecord
    PROVE  /\ n = [ip_addr |-> n.ip_addr, netmask |-> n.netmask, up |-> n.up,
                   dhcp |-> n.dhcp]
           /\ n.dhcp = [state |-> n.dhcp.state, tries |-> n.dhcp.tries,
                        request_timeout |-> n.dhcp.request_timeout,
                        pcb |-> n.dhcp.pcb, armed |-> n.dhcp.armed,
                        asked |-> n.dhcp.asked]
           /\ n.ip_addr \in Addresses /\ n.netmask \in Addresses
           /\ n.up \in BOOLEAN /\ n.dhcp \in DhcpRecord
           /\ n.dhcp.state \in ClientStates /\ n.dhcp.tries \in Nat
           /\ n.dhcp.request_timeout \in Nat /\ n.dhcp.pcb \in BOOLEAN
           /\ n.dhcp.armed \in BOOLEAN /\ n.dhcp.asked \in SUBSET MessageKinds
BY DEF NetifRecord, DhcpRecord

\* dhcp_set_state.
LEMMA SetStateClient ==
    ASSUME NEW n \in NetifRecord, NEW s \in ClientStates
    PROVE  OnlyClient(n, SetState(n, s), s)
BY DEF SetState, OnlyClient, NetifRecord, DhcpRecord

\* dhcp_create_msg.
LEMMA CreateMsgClient ==
    ASSUME NEW n \in NetifRecord, NEW kind \in MessageKinds, NEW ok \in BOOLEAN
    PROVE  OnlyClient(n, CreateMsg(n, kind, ok), n.dhcp.state)
BY DEF CreateMsg, OnlyClient, NetifRecord, DhcpRecord

\* The end of every function that sends.
LEMMA ArmClient ==
    ASSUME NEW n \in NetifRecord, NEW ticks \in Nat
    PROVE  OnlyClient(n, Arm(n, ticks), n.dhcp.state)
<1>1. n.dhcp.tries \in Nat
  BY DEF NetifRecord, DhcpRecord
<1>2. n.dhcp.tries + 1 \in Nat
  BY <1>1
<1> QED BY <1>2 DEF Arm, OnlyClient, NetifRecord, DhcpRecord

\* The timeouts are numbers of ticks.
LEMMA BackoffNat ==
    ASSUME NEW tries \in Nat
    PROVE  Backoff(tries) \in Nat
<1>1. /\ 2^0 \in Nat /\ 2^1 \in Nat /\ 2^2 \in Nat
      /\ 2^3 \in Nat /\ 2^4 \in Nat /\ 2^5 \in Nat
  OBVIOUS
<1>2. tries < 6 => tries = 0 \/ tries = 1 \/ tries = 2
                   \/ tries = 3 \/ tries = 4 \/ tries = 5
  OBVIOUS
<1>3. tries < 6 => 2^tries \in Nat
  BY <1>1, <1>2, Zenon
<1>4. tries < 6 => 2 * 2^tries \in Nat
  BY <1>3
<1> QED BY <1>4 DEF Backoff

\* Losing the address: netif_set_down and three zero addresses.
LEMMA UnconfigureClient ==
    ASSUME NEW n \in NetifRecord
    PROVE  /\ Unconfigure(n) \in NetifRecord
           /\ Unconfigure(n).ip_addr = "any"
           /\ Unconfigure(n).dhcp = n.dhcp
BY DEF Unconfigure, NetifRecord, DhcpRecord, Addresses

\* Every function that sends goes through these three steps: the state is
\* changed, a message is made and the timer is loaded.
LEMMA SendClient ==
    ASSUME NEW n \in NetifRecord, NEW s \in ClientStates,
           NEW kind \in MessageKinds, NEW ok \in BOOLEAN, NEW ticks \in Nat
    PROVE  LET c == CreateMsg(SetState(n, s), kind, ok)
           IN  OnlyClient(n, c, s) /\ OnlyClient(n, Arm(c, ticks), s)
<1> DEFINE a == SetState(n, s)
           c == CreateMsg(a, kind, ok)
           t == Arm(c, ticks)
<1>1. OnlyClient(n, a, s)
  BY SetStateClient
<1> HIDE DEF a
<1>2. OnlyClient(a, c, s)
  BY <1>1, CreateMsgClient DEF OnlyClient
<1> HIDE DEF c
<1>3. OnlyClient(c, t, s)
  BY <1>2, ArmClient DEF OnlyClient
<1> HIDE DEF t
<1>4. OnlyClient(n, c, s) /\ OnlyClient(n, t, s)
  BY <1>1, <1>2, <1>3 DEF OnlyClient
<1> QED BY <1>4 DEF a, c, t

\* The same when the timeout depends on the tries counted so far.
LEMMA SendBackoff ==
    ASSUME NEW n \in NetifRecord, NEW s \in ClientStates,
           NEW kind \in MessageKinds, NEW ok \in BOOLEAN
    PROVE  LET c == CreateMsg(SetState(n, s), kind, ok)
           IN  /\ OnlyClient(n, Arm(c, Backoff(c.dhcp.tries + 1)), s)
               /\ OnlyClient(n, Arm(c, 2 * (c.dhcp.tries + 1)), s)
<1> DEFINE c == CreateMsg(SetState(n, s), kind, ok)
<1>1. \A ticks \in Nat : OnlyClient(n, c, s) /\ OnlyClient(n, Arm(c, ticks), s)
  BY SendClient
<1> HIDE DEF c
<1>2. c \in NetifRecord
  BY <1>1 DEF OnlyClient
<1>0. c.dhcp.tries \in Nat
  BY <1>2, NetifFields
<1>3. c.dhcp.tries + 1 \in Nat /\ 2 * (c.dhcp.tries + 1) \in Nat
  BY <1>0
<1>4. Backoff(c.dhcp.tries + 1) \in Nat
  BY <1>3, BackoffNat
<1>5. /\ OnlyClient(n, Arm(c, Backoff(c.dhcp.tries + 1)), s)
      /\ OnlyClient(n, Arm(c, 2 * (c.dhcp.tries + 1)), s)
  BY <1>1, <1>3, <1>4
<1> QED BY <1>5 DEF c

\* dhcp_discover leaves the address of the interface alone ...
LEMMA DiscoverClient ==
    ASSUME NEW n \in NetifRecord, NEW ok \in BOOLEAN
    PROVE  OnlyClient(n, Discover(n, ok), "SELECTING")
BY SendBackoff DEF Discover, ClientStates, MessageKinds

\* ... and so does dhcp_select ...
LEMMA SelectClient ==
    ASSUME NEW n \in NetifRecord, NEW ok \in BOOLEAN
    PROVE  OnlyClient(n, Select(n, ok), "REQUESTING")
BY SendBackoff DEF Select, ClientStates, MessageKinds

\* ... and dhcp_decline ...
LEMMA DeclineClient ==
    ASSUME NEW n \in NetifRecord, NEW ok \in BOOLEAN
    PROVE  OnlyClient(n, Decline(n, ok), "BACKING_OFF")
BY SendClient DEF Decline, ClientStates, MessageKinds

\* ... and dhcp_stop.
LEMMA StopClient ==
    ASSUME NEW n \in NetifRecord
    PROVE  OnlyClient(n, Stop(n), "OFF")
<1> DEFINE m == [n EXCEPT !.dhcp.pcb = FALSE]
<1>1. OnlyClient(n, m, n.dhcp.state)
  BY DEF OnlyClient, NetifRecord, DhcpRecord
<1> HIDE DEF m
<1>2. OnlyClient(m, SetState(m, "OFF"), "OFF")
  BY <1>1, SetStateClient DEF OnlyClient, ClientStates
<1>3. OnlyClient(n, SetState(m, "OFF"), "OFF")
  BY <1>1, <1>2 DEF OnlyClient
<1> QED BY <1>3 DEF Stop, m

\* dhcp_check, the ARP probe of an acknowledged address.
LEMMA CheckClient ==
    ASSUME NEW n \in NetifRecord
    PROVE  OnlyClient(n, Check(n), "CHECKING")
<1> DEFINE m == SetState(n, "CHECKING")
<1>1. OnlyClient(n, m, "CHECKING")
  BY SetStateClient DEF ClientStates
<1> HIDE DEF m
<1>2. OnlyClient(m, Arm(m, 1), "CHECKING")
  BY <1>1, ArmClient DEF OnlyClient
<1>3. OnlyClient(n, Arm(m, 1), "CHECKING")
  BY <1>1, <1>2 DEF OnlyClient
<1> QED BY <1>3 DEF Check, m

\* dhcp_release takes the address away and turns the client off.
LEMMA ReleaseClient ==
    ASSUME NEW n \in NetifRecord, NEW ok \in BOOLEAN
    PROVE  LET m == Release(n, ok)
           IN  /\ m \in NetifRecord
               /\ m.ip_addr = "any" /\ m.dhcp.state = "OFF"
               /\ m.dhcp.armed = n.dhcp.armed
<1> DEFINE c == CreateMsg(SetState(n, "OFF"), "RELEASE", ok)
           t == Arm(c, 2 * (c.dhcp.tries + 1))
<1>1. OnlyClient(n, t, "OFF")
  BY SendBackoff DEF ClientStates, MessageKinds
<1>2. Release(n, ok) = Unconfigure(t)
  BY DEF Release
<1> HIDE DEF t
<1> QED BY <1>1, <1>2, UnconfigureClient DEF OnlyClient

\* dhcp_handle_nak takes the address away and begins again.
LEMMA HandleNakClient ==
    ASSUME NEW n \in NetifRecord, NEW ok \in BOOLEAN
    PROVE  LET m == HandleNak(n, ok)
           IN  /\ m \in NetifRecord
               /\ m.ip_addr = "any" /\ m.dhcp.state = "SELECTING"
               /\ m.dhcp.armed = n.dhcp.armed
<1> DEFINE u == Unconfigure(n)
           b == SetState(u, "BACKING_OFF")
<1>1. u \in NetifRecord /\ u.ip_addr = "any" /\ u.dhcp = n.dhcp
  BY UnconfigureClient
<1> HIDE DEF u
<1>2. OnlyClient(u, b, "BACKING_OFF")
  BY <1>1, SetStateClient DEF ClientStates
<1> HIDE DEF b
<1>3. OnlyClient(b, Discover(b, ok), "SELECTING")
  BY <1>2, DiscoverClient DEF OnlyClient
<1>4. HandleNak(n, ok) = Discover(b, ok)
  BY DEF HandleNak, b, u
<1> QED BY <1>1, <1>2, <1>3, <1>4 DEF OnlyClient

\* dhcp_handle_offer goes on to REQUESTING or leaves the client selecting.
LEMMA HandleOfferClient ==
    ASSUME NEW n \in NetifRecord, NEW serverId \in BOOLEAN, NEW ok \in BOOLEAN
    PROVE  \/ OnlyClient(n, HandleOffer(n, serverId, ok), "REQUESTING")
           \/ OnlyClient(n, HandleOffer(n, serverId, ok), n.dhcp.state)
<1> DEFINE s == [n EXCEPT !.dhcp.request_timeout = 0]
<1>1. OnlyClient(n, s, n.dhcp.state)
  BY DEF OnlyClient, NetifRecord, DhcpRecord
<1>2. HandleOffer(n, serverId, ok) = IF serverId THEN Select(s, ok) ELSE s
  BY DEF HandleOffer
<1> HIDE DEF s
<1>3. OnlyClient(s, Select(s, ok), "REQUESTING")
  BY <1>1, SelectClient DEF OnlyClient
<1> QED BY <1>1, <1>2, <1>3 DEF OnlyClient

\* dhcp_bind.
LEMMA BindClient ==
    ASSUME NEW n \in NetifRecord
    PROVE  /\ Bind(n) \in NetifRecord
           /\ Bind(n).ip_addr = "lease" /\ Bind(n).dhcp.state = "BOUND"
<1> DEFINE m == [n EXCEPT !.ip_addr = "lease", !.netmask = "lease", !.up = TRUE,
                          !.dhcp.armed = TRUE]
<1>1. m \in NetifRecord /\ m.ip_addr = "lease"
  BY DEF NetifRecord, DhcpRecord, Addresses
<1>2. Bind(n) = SetState(m, "BOUND")
  BY DEF Bind
<1> HIDE DEF m
<1>3. OnlyClient(m, SetState(m, "BOUND"), "BOUND")
  BY <1>1, SetStateClient DEF ClientStates
<1> QED BY <1>1, <1>2, <1>3 DEF OnlyClient

\* dhcp_start forgets the old lease timers and begins, or stays off.
LEMMA StartClient ==
    ASSUME NEW n \in NetifRecord, NEW pcb \in BOOLEAN, NEW ok \in BOOLEAN
    PROVE  LET m == Start(n, pcb, ok)
           IN  /\ m \in NetifRecord
               /\ m.ip_addr = n.ip_addr /\ ~m.dhcp.armed
               /\ m.dhcp.state \in {"OFF", "SELECTING"}
<1> DEFINE s == [n EXCEPT !.dhcp = Cleared]
           p == [s EXCEPT !.dhcp.pcb = TRUE]
           d == Discover(p, ok)
<1>1. /\ s \in NetifRecord /\ s.ip_addr = n.ip_addr /\ s.dhcp = Cleared
      /\ s.dhcp.state = "OFF" /\ ~s.dhcp.armed
  BY DEF NetifRecord, DhcpRecord, Cleared, ClientStates
<1>2. Start(n, pcb, ok) = CASE ~pcb -> s [] pcb /\ ok -> d [] pcb /\ ~ok -> Stop(d)
  BY DEF Start
<1> HIDE DEF s
<1>3. OnlyClient(s, p, "OFF")
  BY <1>1 DEF OnlyClient, NetifRecord, DhcpRecord
<1> HIDE DEF p
<1>4. OnlyClient(p, d, "SELECTING")
  BY <1>3, DiscoverClient DEF OnlyClient
<1> HIDE DEF d
<1>5. OnlyClient(d, Stop(d), "OFF")
  BY <1>4, StopClient DEF OnlyClient
<1> QED BY <1>1, <1>2, <1>3, <1>4, <1>5 DEF OnlyClient

\* The states between handlers: a lease that was just bound is not among them.
Unbound == {"OFF", "SELECTING", "REQUESTING", "CHECKING", "BACKING_OFF"}

\* What a tick of dhcp_fine_tmr makes of n: either a lease is bound, which only
\* follows an ARP check, or the address is kept or lost.
Ticked(n, m) ==
    /\ m \in NetifRecord
    /\ \/ /\ n.dhcp.state = "CHECKING"
          /\ m.dhcp.state = "BOUND" /\ m.ip_addr = "lease"
       \/ /\ m.dhcp.state \in Unbound
          /\ m.ip_addr \in {n.ip_addr, "any"}
          /\ m.dhcp.armed = n.dhcp.armed
          /\ m.dhcp.state = "CHECKING" => n.dhcp.state = "CHECKING"
          /\ m.dhcp.state = "OFF" <=> n.dhcp.state = "OFF"
          /\ n.dhcp.state = "OFF" => m.ip_addr = n.ip_addr

\* dhcp_timeout, by the state the client is in.
LEMMA TimeoutTicked ==
    ASSUME NEW n \in NetifRecord, n.dhcp.state \in Unbound,
           NEW okRelease \in BOOLEAN, NEW ok \in BOOLEAN
    PROVE  Ticked(n, Timeout(n, okRelease, ok))
<1>1. CASE n.dhcp.state \in {"BACKING_OFF", "SELECTING"}
  <2>1. Timeout(n, okRelease, ok) = Discover(n, ok)
    BY <1>1 DEF Timeout
  <2> QED BY <1>1, <2>1, DiscoverClient DEF OnlyClient, Ticked, Unbound
<1>2. CASE n.dhcp.state = "REQUESTING" /\ n.dhcp.tries <= 5
  <2>1. Timeout(n, okRelease, ok) = Select(n, ok)
    BY <1>2 DEF Timeout
  <2> QED BY <1>2, <2>1, SelectClient DEF OnlyClient, Ticked, Unbound
<1>3. CASE n.dhcp.state = "REQUESTING" /\ ~(n.dhcp.tries <= 5)
  <2> DEFINE r == Release(n, okRelease)
  <2>1. Timeout(n, okRelease, ok) = Discover(r, ok)
    BY <1>3 DEF Timeout
  <2>2. /\ r \in NetifRecord /\ r.ip_addr = "any"
        /\ r.dhcp.armed = n.dhcp.armed
    BY ReleaseClient
  <2> HIDE DEF r
  <2>3. OnlyClient(r, Discover(r, ok), "SELECTING")
    BY <2>2, DiscoverClient
  <2> QED BY <1>3, <2>1, <2>2, <2>3 DEF OnlyClient, Ticked, Unbound
<1>4. CASE n.dhcp.state = "CHECKING" /\ n.dhcp.tries <= 1
  <2>1. Timeout(n, okRelease, ok) = Check(n)
    BY <1>4 DEF Timeout
  <2> QED BY <1>4, <2>1, CheckClient DEF OnlyClient, Ticked, Unbound
<1>5. CASE n.dhcp.state = "CHECKING" /\ ~(n.dhcp.tries <= 1)
  <2>1. Timeout(n, okRelease, ok) = Bind(n)
    BY <1>5 DEF Timeout
  <2> QED BY <1>5, <2>1, BindClient DEF Ticked
<1>6. CASE n.dhcp.state = "OFF"
  <2>1. Timeout(n, okRelease, ok) = n
    BY <1>6 DEF Timeout
  <2> QED BY <1>6, <2>1 DEF Ticked, Unbound
<1> QED BY <1>1, <1>2, <1>3, <1>4, <1>5, <1>6 DEF Unbound

\* dhcp_fine_tmr, whether or not its count runs out.
LEMMA FineTmrTicked ==
    ASSUME NEW n \in NetifRecord, n.dhcp.state \in Unbound,
           NEW okRelease \in BOOLEAN, NEW ok \in BOOLEAN
    PROVE  Ticked(n, FineTmr(n, okRelease, ok))
<1> DEFINE t == n.dhcp.request_timeout
           s == [n EXCEPT !.dhcp.request_timeout = @ - 1]
<1>1. t \in Nat
  BY NetifFields
<1>2. CASE t = 0
  <2>1. FineTmr(n, okRelease, ok) = n
    BY <1>2 DEF FineTmr
  <2> QED BY <2>1 DEF Ticked
<1>3. CASE t # 0
  <2>1. t - 1 \in Nat
    BY <1>1, <1>3
  <2>2. OnlyClient(n, s, n.dhcp.state)
    BY <2>1 DEF OnlyClient, NetifRecord, DhcpRecord
  <2>3. FineTmr(n, okRelease, ok) = IF t = 1 THEN Timeout(s, okRelease, ok) ELSE s
    <3>1. CASE t = 1
      BY <3>1 DEF FineTmr
    <3>2. CASE t # 1
      <4>1. t > 1
        BY <1>1, <1>3, <3>2
      <4> QED BY <1>3, <3>2, <4>1 DEF FineTmr
    <3> QED BY <3>1, <3>2
  <2> HIDE DEF s, t
  <2>4. Ticked(s, Timeout(s, okRelease, ok))
    BY <2>2, TimeoutTicked DEF OnlyClient
  <2>5. Ticked(n, Timeout(s, okRelease, ok)) /\ Ticked(n, s)
    BY <2>2, <2>4 DEF OnlyClient, Ticked
  <2> QED BY <2>3, <2>5
<1> QED BY <1>2, <1>3

-----------------------------------------------------------------------------
(* The inductive invariant.                                                *)

NetTypeOK ==
    /\ netif \in NetifRecord
    /\ DHCP_state \in {"START", "WAIT", "ASSIGNED", "TIMEOUT"}
    /\ ipaddr \in Addresses
    /\ cmds \in Nat
    /\ contested \in BOOLEAN

\* Between handlers no lease is held by a running client.
ClientInv ==
    /\ netif.dhcp.state \in Unbound
    /\ netif.dhcp.armed => netif.dhcp.state = "OFF"

\* A settled state machine has stopped its client.
SettledInv == Settled => netif.dhcp.state = "OFF" /\ ipaddr = netif.ip_addr

\* The lease of an earlier round is gone from the interface and from printenv
\* before the client runs again, so static with an argument cannot bring back
\* an address that another host has claimed in between.
LeaseInv ==
    /\ netif.dhcp.state # "OFF" => netif.ip_addr # "lease" /\ ipaddr # "lease"
    /\ contested => /\ netif.dhcp.state # "CHECKING"
                    /\ netif.ip_addr # "lease" /\ ipaddr # "lease"

NetInv == NetTypeOK /\ ClientInv /\ SettledInv /\ LeaseInv

\* LwIP_Init establishes it.
LEMMA InitInv == NetInit => NetInv
<1> SUFFICES ASSUME NetInit PROVE NetInv
  OBVIOUS
<1>1. Cleared \in DhcpRecord /\ Cleared.state = "OFF" /\ ~Cleared.armed
  BY DEF Cleared, DhcpRecord, ClientStates
<1>2. /\ netif \in NetifRecord
      /\ netif.dhcp = Cleared /\ netif.ip_addr = "any"
  BY <1>1 DEF NetInit, NetifRecord, Addresses
<1> QED BY <1>1, <1>2 DEF NetInit, NetInv, NetTypeOK, ClientInv, SettledInv, LeaseInv,
                         Settled, Unbound, Addresses

\* An allocation succeeds or fails.
LEMMA GrantedBoolean ==
    /\ Mem \subseteq BOOLEAN
    /\ Granted("badoffer") \subseteq BOOLEAN
    /\ \A n : Pcb(n) \subseteq BOOLEAN
BY DEF Mem, Granted, Pcb

\* LwIP_Periodic_Handle: the state machine sees what the timer left, which may
\* be a lease bound in this very tick.
LEMMA PeriodicFineInv == NetInv /\ PeriodicFine => NetInv'
<1> SUFFICES ASSUME NetInv, NEW ok \in BOOLEAN, NEW okRelease \in BOOLEAN,
                    Process(FineTmr(netif, okRelease, ok)),
                    UNCHANGED <<cmds, lastCmd, refusals, contested>>
             PROVE  NetInv'
  BY GrantedBoolean DEF PeriodicFine
<1> DEFINE n == FineTmr(netif, okRelease, ok)
<1>1. Ticked(netif, n)
  BY FineTmrTicked DEF NetInv, NetTypeOK, ClientInv
<1> HIDE DEF n
<1>2. Process(n)
  BY DEF n
<1>3. n \in NetifRecord
  BY <1>1 DEF Ticked
<1>4. OnlyClient(n, Stop(n), "OFF")
  BY <1>3, StopClient
<1>5. CASE ProcessStart(n)
  <2> DEFINE m == [n EXCEPT !.ip_addr = "any"]
  <2>1. m \in NetifRecord /\ m.ip_addr = "any"
    BY <1>3 DEF NetifRecord, DhcpRecord, Addresses
  <2>2. PICK pcb \in BOOLEAN, okMsg \in BOOLEAN : netif' = Start(m, pcb, okMsg)
    BY <1>5, GrantedBoolean DEF ProcessStart
  <2> HIDE DEF m
  <2>3. /\ netif' \in NetifRecord
        /\ netif'.ip_addr = "any" /\ ~netif'.dhcp.armed
        /\ netif'.dhcp.state \in {"OFF", "SELECTING"}
    BY <2>1, <2>2, StartClient
  <2> QED BY <1>5, <2>3 DEF ProcessStart, NetInv, NetTypeOK, ClientInv, SettledInv,
                            LeaseInv, Settled, Unbound, Addresses
<1>6. CASE ProcessAssigned(n)
  BY <1>1, <1>4, <1>6 DEF ProcessAssigned, OnlyClient, Ticked, NetInv, NetTypeOK,
     ClientInv, SettledInv, LeaseInv, Settled, Unbound, NetifRecord
<1>7. CASE ProcessTimeout(n)
  <2>1. /\ netif' \in NetifRecord /\ netif'.ip_addr = "static"
        /\ netif'.dhcp = Stop(n).dhcp
    BY <1>4, <1>7 DEF ProcessTimeout, OnlyClient, NetifRecord, DhcpRecord, Addresses
  <2> QED BY <1>1, <1>4, <1>7, <2>1 DEF ProcessTimeout, OnlyClient, Ticked, NetInv,
     NetTypeOK, ClientInv, SettledInv, LeaseInv, Settled, Unbound, Addresses
<1>8. CASE ProcessWait(n)
  BY <1>1, <1>8 DEF ProcessWait, Ticked, NetInv, NetTypeOK, ClientInv, SettledInv,
     LeaseInv, Settled, Unbound
<1>9. CASE ProcessNothing(n)
  BY <1>1, <1>9 DEF ProcessNothing, Ticked, NetInv, NetTypeOK, ClientInv, SettledInv,
     LeaseInv, Settled, Unbound
<1> QED BY <1>2, <1>5, <1>6, <1>7, <1>8, <1>9 DEF Process

\* dhcp_coarse_tmr finds the client off and sends nothing.
LEMMA PeriodicCoarseInv == NetInv /\ PeriodicCoarse => NetInv'
<1> SUFFICES ASSUME NetInv, PeriodicCoarse PROVE NetInv'
  OBVIOUS
<1>1. netif \in NetifRecord /\ netif.dhcp.state = "OFF"
  BY DEF NetInv, NetTypeOK, ClientInv, PeriodicCoarse
<1>2. PICK renewal \in {"RENEWING", "REBINDING"} : netif' = LeaseTmr(netif, renewal)
  BY DEF PeriodicCoarse
<1>3. /\ netif' \in NetifRecord
      /\ netif'.ip_addr = netif.ip_addr /\ netif'.dhcp.state = "OFF"
  BY <1>1, <1>2 DEF LeaseTmr, NetifRecord, DhcpRecord
<1> QED BY <1>1, <1>3 DEF PeriodicCoarse, NetInv, NetTypeOK, ClientInv, SettledInv,
                         LeaseInv, Settled, Unbound

\* dhcp_recv and dhcp_arp_reply: only a running client takes a reply, and only
\* an ACK starts a check.
LEMMA ReplyInv ==
    NetInv /\ (RecvOffer \/ RecvAck \/ RecvNak \/ ArpReply) => NetInv'
<1> SUFFICES ASSUME NetInv, RecvOffer \/ RecvAck \/ RecvNak \/ ArpReply PROVE NetInv'
  OBVIOUS
<1> USE DEF NetInv, NetTypeOK, ClientInv, SettledInv, LeaseInv, Settled, Unbound
<1>0. netif \in NetifRecord
  OBVIOUS
<1>1. CASE RecvOffer
  <2>1. \/ OnlyClient(netif, netif', "REQUESTING")
        \/ OnlyClient(netif, netif', "SELECTING")
    <3>1. PICK serverId \in BOOLEAN, ok \in BOOLEAN :
             netif' = HandleOffer(netif, serverId, ok)
      BY <1>1, GrantedBoolean DEF RecvOffer
    <3> QED BY <1>0, <1>1, <3>1, HandleOfferClient DEF RecvOffer, Reply
  <2> QED BY <1>1, <2>1 DEF RecvOffer, Reply, OnlyClient
<1>2. CASE RecvAck
  <2>1. OnlyClient(netif, netif', "CHECKING")
    BY <1>0, <1>2, CheckClient DEF RecvAck
  <2> QED BY <1>2, <2>1 DEF RecvAck, Reply, OnlyClient
<1>3. CASE RecvNak
  <2>1. /\ netif' \in NetifRecord
        /\ netif'.ip_addr = "any" /\ netif'.dhcp.state = "SELECTING"
        /\ netif'.dhcp.armed = netif.dhcp.armed
    <3>1. PICK ok \in BOOLEAN : netif' = HandleNak(netif, ok)
      BY <1>3, GrantedBoolean DEF RecvNak
    <3> QED BY <1>0, <3>1, HandleNakClient
  <2> QED BY <1>3, <2>1 DEF RecvNak, Reply
<1>4. CASE ArpReply
  <2>1. OnlyClient(netif, netif', "BACKING_OFF")
    <3>1. PICK ok \in BOOLEAN : netif' = Decline(netif, ok)
      BY <1>4, GrantedBoolean DEF ArpReply
    <3> QED BY <1>0, <3>1, DeclineClient
  <2> QED BY <1>4, <2>1 DEF ArpReply, OnlyClient
<1> QED BY <1>1, <1>2, <1>3, <1>4

\* The shell commands.
LEMMA CommandInv == NetInv /\ (CmdDhcp \/ CmdStatic \/ CmdStaticArg) => NetInv'
<1> SUFFICES ASSUME NetInv, CmdDhcp \/ CmdStatic \/ CmdStaticArg PROVE NetInv'
  OBVIOUS
<1>0. cmds' \in Nat
  <2>1. cmds \in Nat
    BY DEF NetInv, NetTypeOK
  <2>2. cmds' = cmds + 1
    BY DEF CmdDhcp, CmdStatic, CmdStaticArg, Command
  <2> QED BY <2>1, <2>2
<1> USE <1>0 DEF NetInv, NetTypeOK, ClientInv, SettledInv, LeaseInv, Settled, Command
<1>1. CASE CmdDhcp
  BY <1>1 DEF CmdDhcp
<1>2. CASE CmdStatic
  <2>1. /\ netif' \in NetifRecord
        /\ netif'.ip_addr = "static" /\ netif'.dhcp = netif.dhcp
    BY <1>2 DEF CmdStatic, NetifRecord, Addresses
  <2> QED BY <1>2, <2>1 DEF CmdStatic, Addresses
<1>3. CASE CmdStaticArg
  <2>1. /\ netif' \in NetifRecord
        /\ netif'.ip_addr = ipaddr /\ netif'.dhcp = netif.dhcp
    BY <1>3 DEF CmdStaticArg, NetifRecord
  <2> QED BY <1>3, <2>1 DEF CmdStaticArg
<1> QED BY <1>1, <1>2, <1>3

\* Every step keeps the invariant.
LEMMA NextInv == NetInv /\ [NetNext]_netVars => NetInv'
<1> SUFFICES ASSUME NetInv, [NetNext]_netVars PROVE NetInv'
  OBVIOUS
<1>1. CASE UNCHANGED netVars
  BY <1>1 DEF netVars, NetInv, NetTypeOK, ClientInv, SettledInv, LeaseInv, Settled
<1> QED BY <1>1, PeriodicFineInv, PeriodicCoarseInv, ReplyInv, CommandInv DEF NetNext

\* NetInv is an invariant of the address configuration.
THEOREM Invariance == NetSpec => []NetInv
<1> QED BY InitInv, NextInv, PTL DEF NetSpec

\* In the settled states printenv (uLoader.c:251) shows the address that the
\* interface uses, after any sequence of commands, replies and ticks.
THEOREM PrintedAddress == NetSpec => []PrintedAddressIsUsed
<1>1. NetInv => PrintedAddressIsUsed
  BY DEF NetInv, SettledInv, PrintedAddressIsUsed
<1> QED BY <1>1, Invariance, PTL

\* LwIP_DHCP_Process_Handle stops the client in the tick that bound it
\* (netconf.c:283), so no lease timer finds a client to renew for.  Every lease
\* is an address: an ACK for 0.0.0.0 is left out of Dhcp.
THEOREM NeverRenewed == NetSpec => []LeaseNeverRenewed
<1>1. NetInv => LeaseNeverRenewed
  BY DEF NetInv, ClientInv, LeaseNeverRenewed, Unbound
<1> QED BY <1>1, Invariance, PTL

\* An address that another host answered for during its ARP check
\* (dhcp.c:813) is not the interface's, through bind or through static.
THEOREM NeverContested == NetSpec => []NoContestedLease
<1>1. NetInv => NoContestedLease
  BY DEF NetInv, LeaseInv, NoContestedLease
<1> QED BY <1>1, Invariance, PTL

\* Once the state machine has settled, only a command changes the address:
\* neither a timer nor a late reply of the stopped client does.
THEOREM AddressStays == NetSpec => SettledAddressStays
<1>1. NetInv /\ [NetNext]_netVars
        => [Settled /\ cmds' = cmds => netif'.ip_addr = netif.ip_addr]_netVars
  <2> SUFFICES ASSUME NetInv, NetNext, Settled, cmds' = cmds
               PROVE  netif'.ip_addr = netif.ip_addr
    BY DEF netVars
  <2>1. /\ netif \in NetifRecord /\ cmds \in Nat
        /\ netif.dhcp.state = "OFF"
    BY DEF NetInv, NetTypeOK, SettledInv
  <2>2. CASE PeriodicFine
    <3>1. PICK ok \in BOOLEAN, okRelease \in BOOLEAN :
             Process(FineTmr(netif, okRelease, ok))
      BY <2>2, GrantedBoolean DEF PeriodicFine
    <3>2. netif' = FineTmr(netif, okRelease, ok)
      BY <3>1 DEF Process, ProcessStart, ProcessAssigned, ProcessTimeout,
                  ProcessWait, ProcessNothing, Settled
    <3>3. Ticked(netif, FineTmr(netif, okRelease, ok))
      BY <2>1, FineTmrTicked DEF Unbound
    <3> QED BY <2>1, <3>2, <3>3 DEF Ticked
  <2>3. CASE PeriodicCoarse
    BY <2>1, <2>3 DEF PeriodicCoarse, LeaseTmr, NetifRecord, DhcpRecord
  <2>4. ~(RecvOffer \/ RecvAck \/ RecvNak \/ ArpReply)
    BY <2>1 DEF RecvOffer, RecvAck, RecvNak, ArpReply, Reply
  <2>5. ~(CmdDhcp \/ CmdStatic \/ CmdStaticArg)
    <3>1. cmds' # cmds + 1
      BY <2>1
    <3> QED BY <3>1 DEF CmdDhcp, CmdStatic, CmdStaticArg, Command
  <2> QED BY <2>2, <2>3, <2>4, <2>5 DEF NetNext
<1> QED BY <1>1, Invariance, PTL DEF NetSpec, SettledAddressStays
=============================================================================
