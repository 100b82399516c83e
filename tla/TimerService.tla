---------------------------- MODULE TimerService ----------------------------
(***************************************************************************)
(* What EventLoop::RunAt, RunAfter and RunEvery promise: a timer runs      *)
(* after its time by a clock the service reads now and then.  One without  *)
(* an interval runs once; one with an interval is due again that long      *)
(* after the reading it ran by, for ever.  No timer is lost or invented.   *)
(* How timers are ordered, woken for and run in rounds is left to          *)
(* TimerQueue, and so is that a timer does run.                            *)
(***************************************************************************)
EXTENDS Naturals

CONSTANTS
  Timers,              \* every timer that may be added
  Interval             \* of each; 0: it runs once

VARIABLES
  added,               \* timers passed to the service
  waiting,             \* those of them with a run to come
  due,                 \* when it is due, per timer
  runs,                \* how often each ran
  now                  \* the last reading of the clock, which may be set back

vars == <<added, waiting, due, runs, now>>

Init ==
  /\ added = {}
  /\ waiting = {}
  /\ due = [t \in Timers |-> 0]
  /\ runs = [t \in Timers |-> 0]
  /\ now = 0

Add(t) ==
  /\ t \notin added
  /\ added' = added \cup {t}
  /\ waiting' = waiting \cup {t}
  /\ due' \in [Timers -> Nat]
  /\ \A u \in Timers \ {t} : due'[u] = due[u]
  /\ UNCHANGED <<runs, now>>

ReadClock ==
  /\ now' \in Nat
  /\ UNCHANGED <<added, waiting, due, runs>>

Run(t) ==
  /\ t \in waiting
  /\ due[t] < now
  /\ runs' = [runs EXCEPT ![t] = @ + 1]
  /\ \/ /\ Interval[t] = 0
        /\ waiting' = waiting \ {t}
        /\ UNCHANGED due
     \/ /\ Interval[t] > 0
        /\ due' = [due EXCEPT ![t] = now + Interval[t]]
        /\ UNCHANGED waiting
  /\ UNCHANGED <<added, now>>

Next ==
  \/ \E t \in Timers : Add(t) \/ Run(t)
  \/ ReadClock

Spec == Init /\ [][Next]_vars

=============================================================================
