------------------------------ MODULE MCTimers ------------------------------
(* Timers with a counter of 64 that a tick of 3 does not divide, and four  *)
(* intervals in the order of the real ones.                                *)
EXTENDS Timers

FourTasks == {"TCP", "fine", "ARP", "coarse"}
Intervals == [k \in FourTasks |->
                CASE k = "TCP" -> 5 [] k = "fine" -> 9
                  [] k = "ARP" -> 21 [] k = "coarse" -> 44]
=============================================================================
