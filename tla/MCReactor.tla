----------------------------- MODULE MCReactor ------------------------------
(* Instance of Reactor for TLC. *)
EXTENDS Reactor, TLC

CONSTANTS once, again      \* timers

\* One timer repeats, the other runs once.
MCInterval == [t \in Timers |-> IF t = again THEN 1 ELSE 0]

=============================================================================
