---------------------------- MODULE MCTimerQueue ----------------------------
(* Instances of module TimerQueue for TLC. *)
EXTENDS TimerQueue

CONSTANTS a1, a2, L1, L2, L3, burn, rot, hero

\* start_corpse_timeout may ask for a time that is past.
Delay == {-1, 0, 2}
=============================================================================
