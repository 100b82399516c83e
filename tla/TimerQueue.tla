----------------------------- MODULE TimerQueue -----------------------------
(***************************************************************************)
(* TimerQueue (reactor/s04/TimerQueue.cpp) of one loop: the ordered set of *)
(* timers, the timerfd that is armed for the first of them, HandleRead     *)
(* with the user's callbacks in the middle of it, and AddTimer called on   *)
(* the loop thread (from callbacks and functors) and on other threads      *)
(* (through QueueInLoop).                                                  *)
(*                                                                         *)
(* Time is counted in ticks.  clock is std::chrono::system_clock, which    *)
(* the program reads and an administrator may set; the timerfd runs on     *)
(* CLOCK_MONOTONIC, so it is a countdown that setting clock does not touch.*)
(***************************************************************************)
EXTENDS Integers, Sequences

CONSTANTS
  LoopThread, Callers,    \* the loop's thread and the others
  Timers,                 \* Timer objects, one per call of AddTimer
  NoTimer,
  Interval,               \* the interval argument of each; 0: runs once
  MinDelay,               \* the 100ms of TimeSinceNow
  Whens, Delays,          \* arguments of RunAt and RunAfter
  MaxClock,               \* bound: the clock is not followed further
  MaxSet                  \* bound: how often the clock may be set

ASSUME TimerThreadAssumption == LoopThread \notin Callers
ASSUME TimerAssumption == NoTimer \notin Timers /\ Interval \in [Timers -> Nat]
ASSUME DelayAssumption ==
  /\ MinDelay \in Nat \ {0} /\ Whens \subseteq Nat /\ Delays \subseteq Nat
  /\ MaxClock \in Nat /\ MaxSet \in Nat

VARIABLES
  timers,             \* the set of entries (when, timer)
  expiration,         \* member of each Timer
  pc,                 \* the loop thread: "idle", "run" or "callback"
  now,                \* local of HandleRead: the clock read at its start
  expired,            \* local of HandleRead: the entries taken out
  to_run,             \* the part of expired still to be run
  pending_functors,   \* the loop's queue: timers whose functor is queued
  frame,              \* per caller, the timer of the AddTimer it is in
  clock, set_count,   \* environment: the system clock
  fd_left, fd_ready,  \* kernel: ticks to the expiry of the timerfd (0: none),
                      \*         and whether it is readable
  added,              \* history: timers passed to AddTimer
  runs, last_run,     \* history: how often, and at which now, a timer ran
  broken              \* a functor used the frame of an AddTimer that returned

entries   == <<timers, expiration>>
locals    == <<now, expired, to_run>>
callVars  == <<pending_functors, frame>>
clockVars == <<clock, set_count>>
fdVars    == <<fd_left, fd_ready>>
history   == <<added, runs, last_run>>
vars == <<entries, pc, locals, callVars, clockVars, fdVars, history, broken>>

Entry == [when : Nat, timer : Timers]

TypeOK ==
  /\ timers \subseteq Entry
  /\ expiration \in [Timers -> Nat]
  /\ pc \in {"idle", "run", "callback"}
  /\ now \in Nat
  /\ expired \subseteq Entry
  /\ to_run \subseteq expired
  /\ pending_functors \in Seq(Timers)
  /\ frame \in [Callers -> Timers \cup {NoTimer}]
  /\ clock \in Nat \ {0}
  /\ set_count \in 0 .. MaxSet
  /\ fd_left \in Nat
  /\ fd_ready \in BOOLEAN
  /\ added \subseteq Timers
  /\ runs \in [Timers -> Nat]
  /\ last_run \in [Timers -> Nat]
  /\ broken \in BOOLEAN

\* 0 is the clock of TimeStamp::Invalid(): the clock itself is past it.
Init ==
  /\ timers = {}
  /\ expiration = [t \in Timers |-> 0]
  /\ pc = "idle"
  /\ now = 0
  /\ expired = {}
  /\ to_run = {}
  /\ pending_functors = <<>>
  /\ frame = [c \in Callers |-> NoTimer]
  /\ clock = 1
  /\ set_count = 0
  /\ fd_left = 0
  /\ fd_ready = FALSE
  /\ added = {}
  /\ runs = [t \in Timers |-> 0]
  /\ last_run = [t \in Timers |-> 0]
  /\ broken = FALSE

-----------------------------------------------------------------------------
(* TimeStamp and the timerfd. *)

Valid(time) == time > 0

AddTime(origin, duration) == origin + duration

DurationSinceNow(when) == when - clock

\* timerfd_settime on a one-shot timer: a negative time is refused, zero
\* disarms, and an expiry that was not read yet is forgotten.
Settime(delay) ==
  IF delay < 0
  THEN UNCHANGED fdVars
  ELSE fd_left' = delay /\ fd_ready' = FALSE

\* Mutant: a time in the past asks for zero.
TimeSinceNowOrZero(when) ==
  IF DurationSinceNow(when) < 0 THEN 0 ELSE DurationSinceNow(when)

\* At least MinDelay, so that a time in the past neither disarms nor fails.
TimeSinceNow(when) ==
  IF DurationSinceNow(when) < MinDelay THEN MinDelay ELSE DurationSinceNow(when)

ResetTimerfd(when) == Settime(TimeSinceNow(when))

-----------------------------------------------------------------------------
(* Adding timers. *)

\* Mutant: only the first timer of an empty set arms the timerfd.
EarliestIfEmpty(when) == timers = {}

EarliestChanged(when) == \A e \in timers : when < e.when

\* Insert, and arm the timerfd when the new timer is the first to expire.
AddTimerInLoop(t, when) ==
  /\ timers' = timers \cup {[when |-> when, timer |-> t]}
  /\ IF EarliestChanged(when) THEN ResetTimerfd(when) ELSE UNCHANGED fdVars

\* On the loop thread RunInLoop runs the functor at once.  On another thread
\* it queues it; the functor refers to the local variable timer of this frame.
AddTimer(self, t, when) ==
  /\ t \notin added
  /\ added' = added \cup {t}
  /\ expiration' = [expiration EXCEPT ![t] = when]
  /\ \/ /\ self = LoopThread
        /\ pc \in {"idle", "callback"}
        /\ AddTimerInLoop(t, when)
        /\ UNCHANGED callVars
     \/ /\ self # LoopThread
        /\ frame[self] = NoTimer
        /\ pending_functors' = Append(pending_functors, t)
        /\ frame' = [frame EXCEPT ![self] = t]
        /\ UNCHANGED <<timers, fdVars>>
  /\ UNCHANGED <<pc, locals, clockVars, runs, last_run, broken>>

RunAt(self, t, when) == Interval[t] = 0 /\ AddTimer(self, t, when)

RunAfter(self, t, delay) == RunAt(self, t, AddTime(clock, delay))

RunEvery(self, t) ==
  Interval[t] > 0 /\ AddTimer(self, t, AddTime(clock, Interval[t]))

\* AddTimer returns on another thread: the local variable timer is gone.
AddTimerReturn(self) ==
  /\ frame[self] # NoTimer
  /\ frame' = [frame EXCEPT ![self] = NoTimer]
  /\ UNCHANGED <<entries, pc, locals, pending_functors, clockVars, fdVars,
                 history, broken>>

FrameLives(t) == \E c \in Callers : frame[c] = t

\* The loop runs a queued functor: AddTimerInLoop(timer) while the frame it
\* refers to exists; afterwards the reference dangles and the model stops.
RunQueuedAdd ==
  /\ pc = "idle"
  /\ pending_functors # <<>>
  /\ pending_functors' = Tail(pending_functors)
  /\ LET t == Head(pending_functors) IN
     \/ FrameLives(t) /\ AddTimerInLoop(t, expiration[t]) /\ UNCHANGED broken
     \/ ~FrameLives(t) /\ broken' = TRUE /\ UNCHANGED <<timers, fdVars>>
  /\ UNCHANGED <<expiration, pc, locals, frame, clockVars, history>>

-----------------------------------------------------------------------------
(* HandleRead. *)

\* Mutant: a timer expires at its time, not after it.
ExpiredAtNow == {e \in timers : e.when <= clock}

\* The entries whose time is before the clock, not at it.
GetExpired == {e \in timers : e.when < clock}

\* Mutant: the entries that did not expire are run.
HandleReadRunsTheRest ==
  /\ pc = "idle"
  /\ fd_ready' = FALSE
  /\ now' = clock
  /\ expired' = GetExpired
  /\ to_run' = timers \ expired'
  /\ timers' = timers \ expired'
  /\ pc' = "run"
  /\ UNCHANGED <<expiration, callVars, clockVars, fd_left, history, broken>>

\* Mutant: the expired entries are copied and not erased.
HandleReadKeepsExpired ==
  /\ pc = "idle"
  /\ fd_ready' = FALSE
  /\ now' = clock
  /\ expired' = GetExpired
  /\ to_run' = expired'
  /\ pc' = "run"
  /\ UNCHANGED <<entries, callVars, clockVars, fd_left, history, broken>>

\* Read the clock and the timerfd, take out what expired before now.  When the
\* timerfd is not readable the read fails, which is logged, and the rest goes on.
HandleRead ==
  /\ pc = "idle"
  /\ fd_ready' = FALSE
  /\ now' = clock
  /\ expired' = GetExpired
  /\ to_run' = expired'
  /\ timers' = timers \ expired'
  /\ pc' = "run"
  /\ UNCHANGED <<expiration, callVars, clockVars, fd_left, history, broken>>

\* Entries are run in the order of the set; equal times in any order.
RunTimer(e) ==
  /\ pc = "run"
  /\ e \in to_run
  /\ \A d \in to_run : e.when <= d.when
  /\ to_run' = to_run \ {e}
  /\ runs' = [runs EXCEPT ![e.timer] = @ + 1]
  /\ last_run' = [last_run EXCEPT ![e.timer] = now]
  /\ pc' = "callback"
  /\ UNCHANGED <<entries, now, expired, callVars, clockVars, fdVars, added,
                 broken>>

CallbackReturn ==
  /\ pc = "callback"
  /\ pc' = "run"
  /\ UNCHANGED <<entries, locals, callVars, clockVars, fdVars, history, broken>>

\* Mutant: every expired timer is restarted.
RestartAll == {t \in Timers : \E e \in expired : e.timer = t}

\* The timers of expired that go back into the set.
Restarted == {t \in Timers : Interval[t] > 0 /\ \E e \in expired : e.timer = t}

\* Restart and insert the repeating ones, arm the timerfd for the first entry,
\* whose time is read from the Timer and not from the entry.
Reset ==
  /\ pc = "run"
  /\ to_run = {}
  /\ expiration' = [t \in Timers |-> IF t \in Restarted
                                     THEN AddTime(now, Interval[t])
                                     ELSE expiration[t]]
  /\ timers' = timers \cup {[when |-> expiration'[t], timer |-> t] : t \in Restarted}
  /\ \/ timers' = {} /\ UNCHANGED fdVars
     \/ \E first \in timers' :
          /\ \A e \in timers' : first.when <= e.when
          /\ IF Valid(expiration'[first.timer])
             THEN ResetTimerfd(expiration'[first.timer])
             ELSE UNCHANGED fdVars
  /\ expired' = {}
  /\ pc' = "idle"
  /\ UNCHANGED <<now, to_run, callVars, clockVars, history, broken>>

-----------------------------------------------------------------------------
(* Time. *)

\* At the bound the clock stops; a timerfd that is armed still expires.
Tick ==
  /\ clock < MaxClock \/ fd_left > 0
  /\ clock' = IF clock < MaxClock THEN clock + 1 ELSE clock
  /\ fd_left' = IF fd_left > 0 THEN fd_left - 1 ELSE 0
  /\ fd_ready' = (fd_ready \/ fd_left = 1)
  /\ UNCHANGED <<entries, pc, locals, callVars, set_count, history, broken>>

SetClock(time) ==
  /\ set_count < MaxSet
  /\ set_count' = set_count + 1
  /\ clock' = time
  /\ UNCHANGED <<entries, pc, locals, callVars, fdVars, history, broken>>

\* The loop calls HandleRead after ::poll found the timerfd readable: its channel
\* is the first one registered, hence the first to be dispatched (see Reactor).
Next ==
  /\ ~broken
  /\ \/ \E self \in Callers \cup {LoopThread}, t \in Timers :
          \/ \E when \in Whens : RunAt(self, t, when)
          \/ \E delay \in Delays : RunAfter(self, t, delay)
          \/ RunEvery(self, t)
     \/ \E self \in Callers : AddTimerReturn(self)
     \/ RunQueuedAdd
     \/ fd_ready /\ HandleRead
     \/ \E e \in to_run : RunTimer(e)
     \/ CallbackReturn
     \/ Reset
     \/ Tick
     \/ \E time \in 1 .. MaxClock : SetClock(time)

Spec == Init /\ [][Next]_vars

-----------------------------------------------------------------------------
(* Safety. *)

\* No timer is forgotten: outside HandleRead, as long as a timer is waiting,
\* the timerfd is armed or readable, whatever callbacks added in the middle of
\* HandleRead and however the clock was set (TimerQueue.cpp 96-100, 135-153).
NoLostTimer == pc = "idle" /\ timers # {} => fd_left > 0 \/ fd_ready

\* The timerfd is armed for the first timer, not for a later one: it fires no
\* later than the first expiration or, for one that is past or close, MinDelay
\* from now.  Setting the clock may make it late.
TimerfdInTime ==
  set_count = 0 /\ pc = "idle" /\ ~fd_ready =>
    \A e \in timers : clock + fd_left <= e.when \/ fd_left <= MinDelay

\* The ordered set stays ordered: an entry's time is its Timer's expiration,
\* and a Timer has at most one entry, in the set, among the expired or still to
\* come from the loop's queue, so that the assertion of Insert holds (Timer.h
\* 25-35, TimerQueue.cpp 135-165).
EntriesMatchTimers ==
  /\ \A e \in timers \cup expired : e.when = expiration[e.timer]
  /\ \A e \in timers, d \in expired : e.timer # d.timer
  /\ \A i \in DOMAIN pending_functors :
       /\ \A e \in timers \cup expired : e.timer # pending_functors[i]
       /\ \A j \in DOMAIN pending_functors :
            pending_functors[i] = pending_functors[j] => i = j

\* The inductive invariant behind the three properties above.  In the middle of
\* HandleRead a timer of time 0, which Reset will not arm the timerfd for, has
\* already armed it when it was inserted; outside HandleRead nothing is expired.
TimerInv ==
  /\ NoLostTimer
  /\ TimerfdInTime
  /\ EntriesMatchTimers
  /\ pc = "idle" => expired = {}
  /\ pc # "idle" /\ (\E e \in timers : e.when = 0)
       => fd_ready \/ fd_left \in 1 .. MinDelay
  /\ \A e \in timers \cup expired : e.timer \in added
  /\ \A i \in DOMAIN pending_functors : pending_functors[i] \in added

Queued(t) == \E i \in DOMAIN pending_functors : pending_functors[i] = t
Held(t)   == \E e \in timers \cup expired : e.timer = t
Waits(t)  == \E e \in timers \cup to_run : e.timer = t

\* A timer is kept as long as it has runs to come and no longer: one added
\* with an interval never leaves the queue, one added without runs once
\* (TimerQueue.cpp 103-154).
KeptWhileNeeded ==
  ~broken => \A t \in added :
    \/ (Interval[t] > 0 \/ runs[t] = 0) /\ (Queued(t) \/ Held(t))
    \/ Interval[t] = 0 /\ runs[t] = 1 /\ ~Queued(t) /\ ~Waits(t)

\* Two runs of a repeating timer are more than its interval apart, measured by
\* the clock HandleRead reads, however late the loop got to it.
RunsApart ==
  [][\A t \in Timers :
       runs'[t] > runs[t] /\ runs[t] > 0 => now - last_run[t] > Interval[t]]_vars

\* The inductive invariant behind RunsApart: a timer that ran and is to run
\* again waits for its interval after the time of its last run, and HandleRead
\* runs an entry only after its time.
RunInv ==
  /\ \A e \in to_run : e.when < now
  /\ \A e \in expired \ to_run : runs[e.timer] > 0 /\ last_run[e.timer] = now
  /\ \A e \in timers \cup to_run :
       runs[e.timer] > 0 => e.when = last_run[e.timer] + Interval[e.timer]
  /\ \A t \in Timers : runs[t] > 0 => t \in added
  /\ \A i \in DOMAIN pending_functors : runs[pending_functors[i]] = 0

\* Between its run and Reset a repeating timer is due again already.
Due(t) ==
  IF Interval[t] > 0 /\ \E e \in expired \ to_run : e.timer = t
  THEN now + Interval[t]
  ELSE expiration[t]

\* Where a timer is that has a run to come.  Of a functor whose frame is gone
\* nothing can be said, and the model stops there: the timer still has its run.
HasRunToCome(t) ==
  IF broken
  THEN Interval[t] > 0 \/ runs[t] = 0
  ELSE Queued(t) \/ Waits(t) \/ (Interval[t] > 0 /\ Held(t))

TS == INSTANCE TimerService WITH
  waiting <- {t \in added : HasRunToCome(t)},
  due     <- [t \in Timers |-> Due(t)]

\* The queue implements the abstract service: whatever callbacks and other
\* threads add in the middle of a round, however late the loop is and however
\* the clock is set, a timer runs after its time and once for every time it is
\* due, and is due again its interval after the time of that round (EventLoop.cpp
\* 121-135, TimerQueue.cpp 103-154).
ImplementsTimerService == TS!Spec

\* A functor queued by AddTimer on another thread finds the Timer it adds.
QueuedAddFindsTimer == ~broken

=============================================================================
