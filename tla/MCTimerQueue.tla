---------------------------- MODULE MCTimerQueue ----------------------------
(* Instances of TimerQueue for TLC. *)
EXTENDS TimerQueue, TLC

CONSTANTS once, again      \* timers

\* One timer repeats, the other runs once.
MCInterval == [t \in Timers |-> IF t = again THEN 2 ELSE 0]

=============================================================================
