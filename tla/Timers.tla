------------------------------- MODULE Timers -------------------------------
(***************************************************************************)
(* The time base: Time_Update, called from the SysTick interrupt, adds the *)
(* tick period to the 32-bit counter LocalTime; LwIP_Periodic_Handle, on   *)
(* the main loop, compares it with the stamp of each of its four periodic  *)
(* tasks (TCP, ARP, DHCP fine, DHCP coarse).  The loop may be held up for  *)
(* some ticks by a command, a frame or the console.                        *)
(***************************************************************************)
EXTENDS Naturals

CONSTANTS
    Modulus,        \* 2^32: LocalTime and the stamps are uint32_t
    TickPeriod,     \* SYSTEMTICK_PERIOD_MS, 10
    Tasks,          \* names of the four tasks
    Interval,       \* milliseconds between two runs of each task
    MaxStall        \* longest hold-up of the main loop, in ticks

ASSUME TimersAssumption ==
    /\ Modulus \in Nat \ {0} /\ MaxStall \in Nat \ {0}
    /\ TickPeriod \in Nat \ {0} /\ TickPeriod < Modulus
    /\ Interval \in [Tasks -> Nat \ {0}]
    \* The counter does not lap a stamp between two looks at it.
    /\ \A k \in Tasks : Interval[k] + MaxStall * TickPeriod < Modulus

VARIABLES
    LocalTime,      \* the counter
    stamp,          \* TCPTimer, ARPTimer, DHCPfineTimer, DHCPcoarseTimer
    age,            \* history: true time since each stamp was taken
    stall           \* ticks since the main loop last looked

timeVars == <<LocalTime, stamp, age, stall>>

TimeInit ==
    /\ LocalTime = 0
    /\ stamp = [k \in Tasks |-> 0]
    /\ age = [k \in Tasks |-> 0]
    /\ stall = 0

\* Mutant: the counter is clamped instead of wrapping.
BugTimeUpdateClamped ==
    /\ stall < MaxStall
    /\ LocalTime' = IF LocalTime + TickPeriod < Modulus
                    THEN LocalTime + TickPeriod ELSE LocalTime
    /\ age' = [k \in Tasks |-> age[k] + TickPeriod]
    /\ stall' = stall + 1
    /\ UNCHANGED stamp

\* SysTick_Handler: one more tick, with the overflow of uint32_t.
Time_Update ==
    /\ stall < MaxStall
    /\ LocalTime' = (LocalTime + TickPeriod) % Modulus
    /\ age' = [k \in Tasks |-> age[k] + TickPeriod]
    /\ stall' = stall + 1
    /\ UNCHANGED stamp

\* Mutant: the sum of stamp and interval is compared with the counter.
BugDueBySum(k) == LocalTime >= (stamp[k] + Interval[k]) % Modulus

\* localtime - Timer >= INTERVAL, in unsigned arithmetic.
Due(k) == (LocalTime + Modulus - stamp[k]) % Modulus >= Interval[k]

\* Every due task runs once, and its stamp is the time of this turn.
LwIP_Periodic_Handle ==
    /\ stamp' = [k \in Tasks |-> IF Due(k) THEN LocalTime ELSE stamp[k]]
    /\ age' = [k \in Tasks |-> IF Due(k) THEN 0 ELSE age[k]]
    /\ stall' = 0
    /\ UNCHANGED LocalTime

TimeNext == Time_Update \/ LwIP_Periodic_Handle

TimeSpec == TimeInit /\ [][TimeNext]_timeVars

-----------------------------------------------------------------------------
(* LocalTime and the stamps fit their width.                               *)
TypeOK ==
    /\ LocalTime \in 0 .. Modulus - 1
    /\ stamp \in [Tasks -> 0 .. Modulus - 1]
    /\ age \in [Tasks -> Nat]
    /\ stall \in 0 .. MaxStall

(* No periodic task runs before its interval has passed in real time, also *)
(* not in the turn in which LocalTime starts again from 0.                 *)
NeverEarly ==
    [][\A k \in Tasks : age'[k] < age[k] => age[k] >= Interval[k]]_timeVars

(* No periodic task is skipped, also not across the overflow: a task is    *)
(* never late by more than the main loop was held up.                      *)
NeverOverdue ==
    \A k \in Tasks : age[k] < Interval[k] + (stall * TickPeriod)
=============================================================================
