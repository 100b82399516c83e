------------------------- MODULE TimerQueue_proofs --------------------------
(***************************************************************************)
(* Theorems about TimerQueue, for any threads, timers, intervals, times    *)
(* and any bounds of the clock.                                            *)
(***************************************************************************)
EXTENDS TimerQueue, SequenceTheorems, TLAPS

\* Times are numbers throughout.
USE TimerThreadAssumption, TimerAssumption, DelayAssumption
USE DEF Valid, AddTime, DurationSinceNow

-----------------------------------------------------------------------------
(* Arming the timerfd. *)

\* Arming for a time leaves the timerfd armed for it, or for MinDelay from now
\* when the time is past or close.
LEMMA ResetArms ==
  ASSUME TypeOK, NEW when \in Nat, ResetTimerfd(when)
  PROVE  /\ fd_left' \in Nat \ {0}
         /\ fd_ready' = FALSE
         /\ fd_left' = MinDelay \/ clock + fd_left' = when
         /\ when <= clock => fd_left' = MinDelay
  BY DEF TypeOK, ResetTimerfd, TimeSinceNow, Settime

\* Adding a timer: the entry is in the set, and either the timerfd was armed for
\* it or some other entry is at least as early.
LEMMA AddArms ==
  ASSUME TypeOK, NEW t \in Timers, NEW when \in Nat, AddTimerInLoop(t, when)
  PROVE  /\ timers' = timers \cup {[when |-> when, timer |-> t]}
         /\ timers' \subseteq Entry
         /\ fd_left' \in Nat /\ fd_ready' \in BOOLEAN
         /\ \/ /\ ResetTimerfd(when)
               /\ \A e \in timers : when < e.when
            \/ /\ UNCHANGED fdVars
               /\ \E e \in timers : e.when <= when
<1>1. \A e \in timers : e.when \in Nat
  BY DEF TypeOK, Entry
<1>2. timers' = timers \cup {[when |-> when, timer |-> t]}
  BY DEF AddTimerInLoop
<1>3. timers' \subseteq Entry
  BY <1>2 DEF TypeOK, Entry
<1>4. CASE EarliestChanged(when)
  <2>1. ResetTimerfd(when)
    BY <1>4 DEF AddTimerInLoop
  <2> QED
    BY <1>2, <1>3, <1>4, <2>1, ResetArms DEF EarliestChanged
<1>5. CASE ~EarliestChanged(when)
  <2>1. UNCHANGED fdVars
    BY <1>5 DEF AddTimerInLoop
  <2>2. \E e \in timers : e.when <= when
    BY <1>1, <1>5 DEF EarliestChanged
  <2> QED
    BY <1>2, <1>3, <2>1, <2>2 DEF TypeOK, fdVars
<1> QED
  BY <1>4, <1>5

\* The restarted timers go back with their new time.
LEMMA ResetTypes ==
  ASSUME TypeOK, Reset
  PROVE  /\ expiration' \in [Timers -> Nat]
         /\ timers' = timers \cup
              {[when |-> expiration'[t], timer |-> t] : t \in Restarted}
         /\ timers' \subseteq Entry
         /\ \A t \in Restarted : expiration'[t] = now + Interval[t]
         /\ \A t \in Timers \ Restarted : expiration'[t] = expiration[t]
<1>1. \A t \in Timers : Interval[t] \in Nat /\ now + Interval[t] \in Nat
  BY DEF TypeOK
<1>2. expiration' = [t \in Timers |-> IF t \in Restarted
                                      THEN now + Interval[t]
                                      ELSE expiration[t]]
  BY DEF Reset
<1>3. expiration' \in [Timers -> Nat]
  BY <1>1, <1>2 DEF TypeOK
<1>4. Restarted \subseteq Timers
  BY DEF Restarted
<1>5. timers' = timers \cup
        {[when |-> expiration'[t], timer |-> t] : t \in Restarted}
  BY DEF Reset
<1>6. timers' \subseteq Entry
  BY <1>3, <1>4, <1>5 DEF TypeOK, Entry
<1> QED
  BY <1>2, <1>3, <1>4, <1>5, <1>6

\* After Reset: nothing left, or armed for the first entry, or the first entry
\* has the time 0 and the timerfd is left alone.
LEMMA ResetCases ==
  ASSUME TypeOK, Reset
  PROVE  \/ timers' = {} /\ UNCHANGED fdVars
         \/ \E first \in timers' :
              /\ \A e \in timers' : first.when <= e.when
              /\ \/ expiration'[first.timer] > 0
                    /\ ResetTimerfd(expiration'[first.timer])
                 \/ expiration'[first.timer] = 0 /\ UNCHANGED fdVars
<1>1. expiration' \in [Timers -> Nat] /\ timers' \subseteq Entry
  BY ResetTypes
<1>2. \A e \in timers' : expiration'[e.timer] \in Nat
  BY <1>1 DEF Entry
<1>3. CASE timers' = {} /\ UNCHANGED fdVars
  BY <1>3
<1>4. CASE \E first \in timers' :
             /\ \A e \in timers' : first.when <= e.when
             /\ IF expiration'[first.timer] > 0
                THEN ResetTimerfd(expiration'[first.timer])
                ELSE UNCHANGED fdVars
  <2>1. PICK first \in timers' :
             /\ \A e \in timers' : first.when <= e.when
             /\ IF expiration'[first.timer] > 0
                THEN ResetTimerfd(expiration'[first.timer])
                ELSE UNCHANGED fdVars
    BY <1>4
  <2>2. expiration'[first.timer] > 0 \/ expiration'[first.timer] = 0
    BY <1>2
  <2> QED
    BY <2>1, <2>2
<1> QED
  BY <1>3, <1>4 DEF Reset

-----------------------------------------------------------------------------
(* Type correctness. *)

\* The constructed queue is well typed.
LEMMA TypeOK_Init == Init => TypeOK
<1> SUFFICES ASSUME Init PROVE TypeOK
  OBVIOUS
<1>1. pending_functors \in Seq(Timers)
  BY EmptySeq DEF Init
<1>2. timers \subseteq Entry /\ expired \subseteq Entry /\ to_run \subseteq expired
  BY DEF Init
<1>3. frame \in [Callers -> Timers \cup {NoTimer}]
  BY DEF Init
<1>4. set_count \in 0 .. MaxSet /\ clock \in Nat \ {0} /\ added \subseteq Timers
  BY DEF Init
<1>5. /\ expiration \in [Timers -> Nat]
      /\ runs \in [Timers -> Nat]
      /\ last_run \in [Timers -> Nat]
  BY DEF Init
<1> QED
  BY <1>1, <1>2, <1>3, <1>4, <1>5 DEF Init, TypeOK

\* The times the three interface functions pass to AddTimer are natural numbers.
LEMMA AddTimerCalled ==
  ASSUME TypeOK, NEW self \in Callers \cup {LoopThread}, NEW t \in Timers,
         \/ \E when \in Whens : RunAt(self, t, when)
         \/ \E delay \in Delays : RunAfter(self, t, delay)
         \/ RunEvery(self, t)
  PROVE  \E when \in Nat : AddTimer(self, t, when)
<1>1. ASSUME NEW when \in Whens, RunAt(self, t, when)
      PROVE  \E w \in Nat : AddTimer(self, t, w)
  BY <1>1 DEF RunAt
<1>2. ASSUME NEW delay \in Delays, RunAfter(self, t, delay)
      PROVE  \E w \in Nat : AddTimer(self, t, w)
  <2>1. clock + delay \in Nat
    BY DEF TypeOK
  <2> QED
    BY <1>2, <2>1 DEF RunAfter, RunAt
<1>3. CASE RunEvery(self, t)
  <2>1. clock + Interval[t] \in Nat
    BY DEF TypeOK
  <2> QED
    BY <1>3, <2>1 DEF RunEvery
<1> QED
  BY <1>1, <1>2, <1>3

\* The entries taken out and kept are entries of the set.
LEMMA ExpiredEntries ==
  /\ GetExpired \subseteq timers
  /\ \A e \in timers \ GetExpired : ~(e.when < clock)
  BY DEF GetExpired

\* One step keeps every variable in its type.
LEMMA TypeOK_Next == TypeOK /\ [Next]_vars => TypeOK'
<1> SUFFICES ASSUME TypeOK, [Next]_vars PROVE TypeOK'
  OBVIOUS
<1> USE DEF entries, locals, callVars, clockVars, fdVars, history
<1>1. ASSUME NEW self \in Callers \cup {LoopThread}, NEW t \in Timers,
             NEW when \in Nat, AddTimer(self, t, when)
      PROVE  TypeOK'
  <2>1. CASE self = LoopThread
    <3>1. AddTimerInLoop(t, when)
      BY <1>1, <2>1 DEF AddTimer
    <3>2. timers' \subseteq Entry /\ fd_left' \in Nat /\ fd_ready' \in BOOLEAN
      BY <3>1, AddArms
    <3> QED
      BY <1>1, <2>1, <3>2 DEF AddTimer, TypeOK
  <2>2. CASE self # LoopThread
    <3>1. pending_functors' \in Seq(Timers)
      <4>1. pending_functors' = Append(pending_functors, t)
        BY <1>1, <2>2 DEF AddTimer
      <4> QED
        BY <4>1, AppendProperties DEF TypeOK
    <3>2. frame' \in [Callers -> Timers \cup {NoTimer}]
      BY <1>1, <2>2 DEF AddTimer, TypeOK
    <3> QED
      BY <1>1, <2>2, <3>1, <3>2 DEF AddTimer, TypeOK
  <2> QED
    BY <2>1, <2>2
<1>2. ASSUME NEW self \in Callers, AddTimerReturn(self)
      PROVE  TypeOK'
  BY <1>2 DEF AddTimerReturn, TypeOK
<1>3. CASE RunQueuedAdd
  <2> DEFINE t == Head(pending_functors)
  <2>1. t \in Timers /\ Tail(pending_functors) \in Seq(Timers)
    BY <1>3, HeadTailProperties DEF RunQueuedAdd, TypeOK
  <2>2. expiration[t] \in Nat
    BY <2>1 DEF TypeOK
  <2>3. timers' \subseteq Entry /\ fd_left' \in Nat /\ fd_ready' \in BOOLEAN
    BY <1>3, <2>1, <2>2, AddArms DEF RunQueuedAdd, TypeOK
  <2> QED
    BY <1>3, <2>1, <2>3 DEF RunQueuedAdd, TypeOK
<1>4. CASE HandleRead
  BY <1>4, ExpiredEntries DEF HandleRead, TypeOK
<1>5. ASSUME NEW e \in to_run, RunTimer(e)
      PROVE  TypeOK'
  <2>1. e.timer \in Timers
    BY DEF TypeOK, Entry
  <2>2. runs' \in [Timers -> Nat] /\ last_run' \in [Timers -> Nat]
    BY <1>5, <2>1 DEF RunTimer, TypeOK
  <2> QED
    BY <1>5, <2>2 DEF RunTimer, TypeOK
<1>6. CASE CallbackReturn
  BY <1>6 DEF CallbackReturn, TypeOK
<1>7. CASE Reset
  <2>1. expiration' \in [Timers -> Nat] /\ timers' \subseteq Entry
    BY <1>7, ResetTypes
  <2>2. \A e \in timers' : expiration'[e.timer] \in Nat
    BY <2>1 DEF Entry
  <2>3. fd_left' \in Nat /\ fd_ready' \in BOOLEAN
    BY <1>7, <2>2, ResetCases, ResetArms DEF TypeOK
  <2> QED
    BY <1>7, <2>1, <2>3 DEF Reset, TypeOK
<1>8. CASE Tick
  BY <1>8 DEF Tick, TypeOK
<1>9. ASSUME NEW time \in 1 .. MaxClock, SetClock(time)
      PROVE  TypeOK'
  BY <1>9 DEF SetClock, TypeOK
<1>10. CASE UNCHANGED vars
  BY <1>10 DEF vars, TypeOK
<1> QED
  BY <1>1, <1>2, <1>3, <1>4, <1>5, <1>6, <1>7, <1>8, <1>9, <1>10, AddTimerCalled
  DEF Next

\* Every variable of the timer queue keeps its type.
THEOREM TypeCorrect == Spec => []TypeOK
  BY TypeOK_Init, TypeOK_Next, PTL DEF Spec

-----------------------------------------------------------------------------
(* No timer is lost, the timerfd is in time, the set stays ordered. *)

\* The constructed queue satisfies the invariant.
LEMMA TimerInv_Init == Init => TimerInv
  BY DEF Init, TimerInv, NoLostTimer, TimerfdInTime, EntriesMatchTimers

\* An entry is its timer and the time of its timer.
LEMMA EntryIs ==
  ASSUME NEW e \in Entry
  PROVE  /\ e.when \in Nat /\ e.timer \in Timers
         /\ e = [when |-> e.when, timer |-> e.timer]
  BY DEF Entry

\* Inserting a timer that has no entry, and no functor left in the queue, keeps
\* the entries in step with the timers and the timerfd armed early enough.
LEMMA InsertKeeps ==
  ASSUME TypeOK, TimerInv, NEW t \in Timers, NEW when \in Nat,
         AddTimerInLoop(t, when), expiration'[t] = when,
         \A u \in Timers \ {t} : expiration'[u] = expiration[u],
         \A e \in timers \cup expired : e.timer # t,
         \A i \in DOMAIN pending_functors' :
           /\ pending_functors'[i] # t
           /\ \E j \in DOMAIN pending_functors :
                pending_functors'[i] = pending_functors[j],
         \A i, j \in DOMAIN pending_functors' :
           pending_functors'[i] = pending_functors'[j] => i = j,
         added' = added \cup {t},
         UNCHANGED <<pc, expired, clock, set_count>>
  PROVE  TimerInv'
<1>1. timers' = timers \cup {[when |-> when, timer |-> t]}
  BY AddArms
<1>2. timers \subseteq Entry /\ expired \subseteq Entry
  BY DEF TypeOK
<1>3. \A e \in timers \cup expired : e.timer \in Timers \ {t}
  BY <1>2, EntryIs
<1>4. \/ ResetTimerfd(when) /\ \A e \in timers : when < e.when
      \/ UNCHANGED fdVars /\ \E e \in timers : e.when <= when
  BY AddArms
<1>5. ResetTimerfd(when) =>
        /\ fd_left' \in Nat \ {0}
        /\ fd_ready' = FALSE
        /\ fd_left' = MinDelay \/ clock + fd_left' = when
        /\ when <= clock => fd_left' = MinDelay
  BY ResetArms
<1>6. EntriesMatchTimers'
  BY <1>1, <1>3 DEF TimerInv, EntriesMatchTimers
<1>7. NoLostTimer'
  BY <1>1, <1>4, <1>5 DEF TimerInv, NoLostTimer, fdVars
<1>8. TimerfdInTime'
  BY <1>1, <1>2, <1>4, <1>5, EntryIs, SMTT(30)
  DEF TimerInv, TimerfdInTime, fdVars, TypeOK
<1>9. pc' # "idle" /\ (\E e \in timers' : e.when = 0)
        => fd_ready' \/ fd_left' \in 1 .. MinDelay
  <2> SUFFICES ASSUME pc' # "idle", NEW e \in timers', e.when = 0
               PROVE  fd_ready' \/ fd_left' \in 1 .. MinDelay
    OBVIOUS
  <2>1. CASE ResetTimerfd(when) /\ \A d \in timers : when < d.when
    <3>1. when = 0
      BY <1>1, <1>2, <2>1, EntryIs
    <3> QED
      BY <1>5, <2>1, <3>1 DEF TypeOK
  <2>2. CASE UNCHANGED fdVars /\ \E d \in timers : d.when <= when
    <3>1. \E d \in timers : d.when = 0
      BY <1>1, <1>2, <2>2, EntryIs
    <3> QED
      BY <2>2, <3>1 DEF TimerInv, fdVars
  <2> QED
    BY <1>4, <2>1, <2>2
<1> QED
  BY <1>1, <1>6, <1>7, <1>8, <1>9 DEF TimerInv

\* One step keeps TimerInv.
LEMMA TimerInv_Next == TypeOK /\ TimerInv /\ [Next]_vars => TimerInv'
<1> SUFFICES ASSUME TypeOK, TimerInv, [Next]_vars PROVE TimerInv'
  OBVIOUS
<1> USE DEF entries, locals, callVars, clockVars, fdVars, history
<1>0. timers \subseteq Entry /\ expired \subseteq Entry
  BY DEF TypeOK
<1>1. ASSUME NEW self \in Callers \cup {LoopThread}, NEW t \in Timers,
             NEW when \in Nat, AddTimer(self, t, when)
      PROVE  TimerInv'
  <2>1. /\ expiration'[t] = when
        /\ \A u \in Timers \ {t} : expiration'[u] = expiration[u]
    BY <1>1 DEF AddTimer, TypeOK
  <2>2. \A e \in timers \cup expired : e.timer # t
    BY <1>1 DEF AddTimer, TimerInv
  <2>3. \A i \in DOMAIN pending_functors : pending_functors[i] # t
    BY <1>1 DEF AddTimer, TimerInv
  <2>4. CASE self = LoopThread
    <3>1. AddTimerInLoop(t, when) /\ UNCHANGED <<pc, expired, clock, set_count>>
      BY <1>1, <2>4 DEF AddTimer
    <3>2. pending_functors' = pending_functors /\ added' = added \cup {t}
      BY <1>1, <2>4 DEF AddTimer
    <3>3. \A i, j \in DOMAIN pending_functors :
            pending_functors[i] = pending_functors[j] => i = j
      BY DEF TimerInv, EntriesMatchTimers
    <3> QED
      BY <2>1, <2>2, <2>3, <3>1, <3>2, <3>3, InsertKeeps
  <2>5. CASE self # LoopThread
    <3>1. UNCHANGED <<timers, expired, pc, fdVars, clock, set_count>>
      BY <1>1, <2>5 DEF AddTimer
    <3>2. pending_functors' = Append(pending_functors, t) /\ added' = added \cup {t}
      BY <1>1, <2>5 DEF AddTimer
    <3>3. /\ DOMAIN pending_functors = 1 .. Len(pending_functors)
          /\ Len(pending_functors) \in Nat
          /\ DOMAIN pending_functors' = 1 .. Len(pending_functors) + 1
          /\ pending_functors'[Len(pending_functors) + 1] = t
          /\ \A i \in 1 .. Len(pending_functors) :
               pending_functors'[i] = pending_functors[i]
      BY <3>2, AppendProperties, LenProperties DEF TypeOK
    <3>4. \A e \in timers \cup expired : e.timer \in Timers \ {t}
      BY <1>0, <2>2, EntryIs
    <3>5. EntriesMatchTimers'
      BY <2>1, <2>3, <3>1, <3>3, <3>4 DEF TimerInv, EntriesMatchTimers
    <3>6. \A i \in DOMAIN pending_functors' : pending_functors'[i] \in added'
      BY <3>2, <3>3 DEF TimerInv
    <3> QED
      BY <3>1, <3>2, <3>5, <3>6 DEF TimerInv, NoLostTimer, TimerfdInTime
  <2> QED
    BY <2>4, <2>5
<1>2. ASSUME NEW self \in Callers, AddTimerReturn(self)
      PROVE  TimerInv'
  BY <1>2 DEF AddTimerReturn, TimerInv, NoLostTimer, TimerfdInTime,
              EntriesMatchTimers
<1>3. CASE RunQueuedAdd
  <2> DEFINE t == Head(pending_functors)
  <2> DEFINE n == Len(pending_functors)
  <2>1. pending_functors \in Seq(Timers) /\ pending_functors # <<>>
    BY <1>3 DEF RunQueuedAdd, TypeOK
  <2>2. n \in Nat \ {0} /\ t \in Timers /\ t = pending_functors[1]
    BY <2>1, HeadTailProperties, EmptySeq, LenProperties
  <2>3. /\ DOMAIN pending_functors = 1 .. n
        /\ pending_functors' = Tail(pending_functors)
        /\ DOMAIN pending_functors' = 1 .. n - 1
        /\ \A i \in 1 .. n - 1 : pending_functors'[i] = pending_functors[i + 1]
    BY <1>3, <2>1, HeadTailProperties, LenProperties DEF RunQueuedAdd
  <2>4. PICK when \in Nat : when = expiration[t]
    BY <2>2 DEF TypeOK
  <2>5. UNCHANGED <<expiration, pc, expired, clock, set_count, added>>
    BY <1>3 DEF RunQueuedAdd
  <2>6. \A i \in DOMAIN pending_functors' :
          /\ pending_functors'[i] # t
          /\ \E j \in DOMAIN pending_functors :
               pending_functors'[i] = pending_functors[j]
    BY <2>2, <2>3 DEF TimerInv, EntriesMatchTimers
  <2>7. \A i, j \in DOMAIN pending_functors' :
          pending_functors'[i] = pending_functors'[j] => i = j
    BY <2>2, <2>3 DEF TimerInv, EntriesMatchTimers
  <2>8. CASE AddTimerInLoop(t, expiration[t])
    <3>1. AddTimerInLoop(t, when)
      BY <2>4, <2>8 DEF AddTimerInLoop
    <3>2. added' = added \cup {t}
      BY <2>2, <2>3, <2>5 DEF TimerInv
    <3>3. \A e \in timers \cup expired : e.timer # t
      BY <2>2, <2>3 DEF TimerInv, EntriesMatchTimers
    <3> QED
      BY <2>2, <2>4, <2>5, <2>6, <2>7, <3>1, <3>2, <3>3, InsertKeeps
  <2>9. CASE UNCHANGED <<timers, fdVars>>
    <3>1. EntriesMatchTimers'
      BY <2>5, <2>6, <2>7, <2>9 DEF TimerInv, EntriesMatchTimers
    <3> QED
      BY <2>5, <2>6, <2>9, <3>1 DEF TimerInv, NoLostTimer, TimerfdInTime
  <2> QED
    BY <1>3, <2>8, <2>9 DEF RunQueuedAdd
<1>4. CASE HandleRead
  <2>1. /\ expired' \subseteq timers /\ timers' = timers \ expired'
        /\ pc' = "run"
        /\ \A e \in timers' : ~(e.when < clock)
        /\ UNCHANGED <<expiration, pending_functors, added>>
    BY <1>4, ExpiredEntries DEF HandleRead
  <2>2. \A e \in timers' : e.when # 0
    BY <1>0, <2>1, EntryIs DEF TypeOK
  <2>3. EntriesMatchTimers'
    <3>1. \A e \in timers', d \in expired' : e.timer # d.timer
      BY <1>0, <2>1, EntryIs DEF TimerInv, EntriesMatchTimers
    <3> QED
      BY <2>1, <3>1 DEF TimerInv, EntriesMatchTimers
  <2> QED
    BY <2>1, <2>2, <2>3 DEF TimerInv, NoLostTimer, TimerfdInTime
<1>5. ASSUME NEW e \in to_run, RunTimer(e)
      PROVE  TimerInv'
  <2>1. pc = "run" /\ pc' = "callback"
        /\ UNCHANGED <<timers, expiration, expired, pending_functors, fdVars,
                       clock, set_count, added>>
    BY <1>5 DEF RunTimer
  <2>2. EntriesMatchTimers'
    BY <2>1 DEF TimerInv, EntriesMatchTimers
  <2> QED
    BY <2>1, <2>2 DEF TimerInv, NoLostTimer, TimerfdInTime
<1>6. CASE CallbackReturn
  <2>1. pc = "callback" /\ pc' = "run"
        /\ UNCHANGED <<timers, expiration, expired, pending_functors, fdVars,
                       clock, set_count, added>>
    BY <1>6 DEF CallbackReturn
  <2>2. EntriesMatchTimers'
    BY <2>1 DEF TimerInv, EntriesMatchTimers
  <2> QED
    BY <2>1, <2>2 DEF TimerInv, NoLostTimer, TimerfdInTime
<1>7. CASE Reset
  <2>1. /\ pc = "run" /\ pc' = "idle" /\ expired' = {}
        /\ UNCHANGED <<pending_functors, clock, set_count, added>>
    BY <1>7 DEF Reset
  <2>2. /\ expiration' \in [Timers -> Nat]
        /\ timers' = timers \cup
             {[when |-> expiration'[t], timer |-> t] : t \in Restarted}
        /\ timers' \subseteq Entry
        /\ \A t \in Restarted : expiration'[t] = now + Interval[t]
        /\ \A t \in Timers \ Restarted : expiration'[t] = expiration[t]
    BY <1>7, ResetTypes
  <2>3. \A t \in Restarted :
          /\ t \in Timers /\ Interval[t] > 0
          /\ \E d \in expired : d.timer = t
    BY DEF Restarted
  <2>4. \A e \in timers : e.timer \in Timers \ Restarted
    BY <1>0, <2>3, EntryIs DEF TimerInv, EntriesMatchTimers
  <2>5. \A e \in timers' : \/ e \in timers
                           \/ \E t \in Restarted : e.timer = t /\ e.when = expiration'[t]
    BY <2>2
  <2>6. \A e \in timers' : e.when = expiration'[e.timer] /\ e.when \in Nat
    BY <2>2, <2>4, <2>5, EntryIs DEF TimerInv, EntriesMatchTimers
  <2>7. EntriesMatchTimers'
    <3>1. \A i \in DOMAIN pending_functors : \A e \in timers' :
            e.timer # pending_functors[i]
      BY <2>3, <2>5 DEF TimerInv, EntriesMatchTimers
    <3> QED
      BY <2>1, <2>6, <3>1 DEF TimerInv, EntriesMatchTimers
  <2>8. NoLostTimer' /\ TimerfdInTime'
    <3>1. CASE timers' = {}
      BY <3>1 DEF NoLostTimer, TimerfdInTime
    <3>2. ASSUME NEW first \in timers',
                 \A e \in timers' : first.when <= e.when,
                 expiration'[first.timer] > 0,
                 ResetTimerfd(expiration'[first.timer])
          PROVE  NoLostTimer' /\ TimerfdInTime'
      <4>1. /\ fd_left' \in Nat \ {0}
            /\ fd_left' = MinDelay \/ clock + fd_left' = first.when
        BY <2>6, <3>2, ResetArms
      <4> QED
        BY <2>1, <2>6, <3>2, <4>1 DEF NoLostTimer, TimerfdInTime
    <3>3. ASSUME NEW first \in timers',
                 expiration'[first.timer] = 0, UNCHANGED fdVars
          PROVE  NoLostTimer' /\ TimerfdInTime'
      <4>1. \A t \in Restarted : expiration'[t] > 0
        BY <2>2, <2>3 DEF TypeOK
      <4>2. first \in timers /\ first.when = 0
        BY <2>5, <2>6, <3>3, <4>1
      <4>3. fd_ready' \/ fd_left' \in 1 .. MinDelay
        BY <2>1, <3>3, <4>2 DEF TimerInv
      <4> QED
        BY <4>3 DEF NoLostTimer, TimerfdInTime
    <3> QED
      BY <1>7, <3>1, <3>2, <3>3, ResetCases
  <2>9. \A e \in timers' : e.timer \in added
    BY <2>3, <2>5 DEF TimerInv
  <2> QED
    BY <2>1, <2>7, <2>8, <2>9 DEF TimerInv
<1>8. CASE Tick
  <2>1. UNCHANGED <<timers, expiration, expired, pc, pending_functors, set_count,
                    added>>
    BY <1>8 DEF Tick
  <2>0. /\ fd_left \in Nat /\ clock \in Nat /\ clock' \in {clock, clock + 1}
        /\ fd_left' = IF fd_left > 0 THEN fd_left - 1 ELSE 0
        /\ fd_ready \/ fd_left = 1 => fd_ready'
    BY <1>8 DEF Tick, TypeOK
  <2>2. EntriesMatchTimers'
    BY <2>1 DEF TimerInv, EntriesMatchTimers
  <2>3. NoLostTimer'
    BY <2>0, <2>1 DEF TimerInv, NoLostTimer
  <2>4. TimerfdInTime'
    BY <1>0, <2>0, <2>1, EntryIs DEF TimerInv, TimerfdInTime
  <2>5. pc' # "idle" /\ (\E e \in timers' : e.when = 0)
          => fd_ready' \/ fd_left' \in 1 .. MinDelay
    BY <2>0, <2>1 DEF TimerInv
  <2> QED
    BY <2>1, <2>2, <2>3, <2>4, <2>5 DEF TimerInv
<1>9. ASSUME NEW time \in 1 .. MaxClock, SetClock(time)
      PROVE  TimerInv'
  <2>1. /\ UNCHANGED <<timers, expiration, expired, pc, pending_functors, fdVars,
                       added>>
        /\ set_count' # 0
    BY <1>9 DEF SetClock, TypeOK
  <2>2. EntriesMatchTimers'
    BY <2>1 DEF TimerInv, EntriesMatchTimers
  <2> QED
    BY <2>1, <2>2 DEF TimerInv, NoLostTimer, TimerfdInTime
<1>10. CASE UNCHANGED vars
  BY <1>10 DEF vars, TimerInv, NoLostTimer, TimerfdInTime, EntriesMatchTimers
<1> QED
  BY <1>1, <1>2, <1>3, <1>4, <1>5, <1>6, <1>7, <1>8, <1>9, <1>10, AddTimerCalled
  DEF Next

\* The invariant holds for every instance.
THEOREM TimerInvariant == Spec => []TimerInv
<1>1. Init => TypeOK /\ TimerInv
  BY TypeOK_Init, TimerInv_Init
<1>2. TypeOK /\ TimerInv /\ [Next]_vars => (TypeOK /\ TimerInv)'
  BY TypeOK_Next, TimerInv_Next
<1> QED
  BY <1>1, <1>2, PTL DEF Spec

\* Outside HandleRead a waiting timer always finds the timerfd armed or
\* readable: callbacks that add timers, Reset, and setting the clock lose none.
THEOREM NoTimerIsLost == Spec => []NoLostTimer
<1>1. TimerInv => NoLostTimer
  BY DEF TimerInv
<1> QED
  BY <1>1, TimerInvariant, PTL

\* The timerfd expires no later than the first timer, or MinDelay from now, as
\* long as nobody sets the clock.
THEOREM TimerfdIsInTime == Spec => []TimerfdInTime
<1>1. TimerInv => TimerfdInTime
  BY DEF TimerInv
<1> QED
  BY <1>1, TimerInvariant, PTL

\* An entry's time is that of its timer, and no timer has two entries: Insert
\* never finds the entry it inserts.
THEOREM EntriesStayOrdered == Spec => []EntriesMatchTimers
<1>1. TimerInv => EntriesMatchTimers
  BY DEF TimerInv
<1> QED
  BY <1>1, TimerInvariant, PTL

-----------------------------------------------------------------------------
(* Runs of a repeating timer are apart. *)

\* Nothing has run in the constructed queue.
LEMMA RunInv_Init == Init => RunInv
  BY DEF Init, RunInv

\* One step keeps RunInv.
LEMMA RunInv_Next == TypeOK /\ TimerInv /\ RunInv /\ [Next]_vars => RunInv'
<1> SUFFICES ASSUME TypeOK, TimerInv, RunInv, [Next]_vars PROVE RunInv'
  OBVIOUS
<1> USE DEF entries, locals, callVars, clockVars, fdVars, history
<1>0. /\ timers \subseteq Entry /\ expired \subseteq Entry /\ to_run \subseteq expired
      /\ runs \in [Timers -> Nat] /\ last_run \in [Timers -> Nat]
      /\ \A t \in Timers : Interval[t] \in Nat
      /\ now \in Nat /\ clock \in Nat
  BY DEF TypeOK
<1>a. ASSUME NEW t \in Timers, NEW when \in Nat, AddTimerInLoop(t, when),
             runs[t] = 0, UNCHANGED <<expired, to_run, now, runs, last_run>>,
             added \subseteq added',
             \A i \in DOMAIN pending_functors' : runs[pending_functors'[i]] = 0
      PROVE  RunInv'
  <2>1. timers' = timers \cup {[when |-> when, timer |-> t]}
    BY <1>a, AddArms
  <2> QED
    BY <1>a, <2>1 DEF RunInv
<1>1. ASSUME NEW self \in Callers \cup {LoopThread}, NEW t \in Timers,
             NEW when \in Nat, AddTimer(self, t, when)
      PROVE  RunInv'
  <2>1. /\ runs[t] = 0 /\ added' = added \cup {t}
        /\ UNCHANGED <<expired, to_run, now, runs, last_run>>
    BY <1>0, <1>1 DEF AddTimer, RunInv
  <2>2. CASE self = LoopThread
    <3>1. AddTimerInLoop(t, when) /\ UNCHANGED pending_functors
      BY <1>1, <2>2 DEF AddTimer
    <3> QED
      BY <1>a, <2>1, <3>1 DEF RunInv
  <2>3. CASE self # LoopThread
    <3>1. UNCHANGED timers /\ pending_functors' = Append(pending_functors, t)
      BY <1>1, <2>3 DEF AddTimer
    <3>2. \A i \in DOMAIN pending_functors' :
            \/ pending_functors'[i] = t
            \/ i \in DOMAIN pending_functors
                /\ pending_functors'[i] = pending_functors[i]
      BY <3>1, AppendProperties, LenProperties, SMTT(30) DEF TypeOK
    <3> QED
      BY <2>1, <3>1, <3>2 DEF RunInv
  <2> QED
    BY <2>2, <2>3
<1>2. ASSUME NEW self \in Callers, AddTimerReturn(self)
      PROVE  RunInv'
  BY <1>2 DEF AddTimerReturn, RunInv
<1>3. CASE RunQueuedAdd
  <2> DEFINE t == Head(pending_functors)
  <2>1. pending_functors \in Seq(Timers) /\ pending_functors # <<>>
    BY <1>3 DEF RunQueuedAdd, TypeOK
  <2>2. /\ t \in Timers /\ 1 \in DOMAIN pending_functors
        /\ t = pending_functors[1] /\ expiration[t] \in Nat
    BY <2>1, HeadTailProperties, EmptySeq, LenProperties DEF TypeOK
  <2>3. \A i \in DOMAIN pending_functors' :
          /\ i + 1 \in DOMAIN pending_functors
          /\ pending_functors'[i] = pending_functors[i + 1]
    BY <1>3, <2>1, HeadTailProperties, LenProperties DEF RunQueuedAdd
  <2>4. UNCHANGED <<expired, to_run, now, runs, last_run, added>>
    BY <1>3 DEF RunQueuedAdd
  <2>5. CASE UNCHANGED timers
    BY <2>3, <2>4, <2>5 DEF RunInv
  <2>6. CASE AddTimerInLoop(t, expiration[t])
    <3>1. PICK when \in Nat : when = expiration[t]
      BY <2>2
    <3>2. AddTimerInLoop(t, when)
      BY <2>6, <3>1 DEF AddTimerInLoop
    <3>3. \A i \in DOMAIN pending_functors' : runs[pending_functors'[i]] = 0
      BY <2>3 DEF RunInv
    <3>4. runs[t] = 0
      BY <2>2 DEF RunInv
    <3> QED
      BY <1>a, <2>2, <2>4, <3>2, <3>3, <3>4
  <2> QED
    BY <1>3, <2>5, <2>6 DEF RunQueuedAdd
<1>4. CASE HandleRead
  <2>1. /\ now' = clock /\ expired' = GetExpired /\ to_run' = expired'
        /\ timers' = timers \ expired'
        /\ UNCHANGED <<runs, last_run, added, pending_functors>>
    BY <1>4 DEF HandleRead
  <2>2. expired' \subseteq timers /\ \A e \in expired' : e.when < clock
    BY <2>1 DEF GetExpired
  <2> QED
    BY <2>1, <2>2 DEF RunInv
<1>5. ASSUME NEW e \in to_run, RunTimer(e)
      PROVE  RunInv'
  <2>1. /\ e.timer \in Timers /\ to_run' = to_run \ {e}
        /\ runs' = [runs EXCEPT ![e.timer] = @ + 1]
        /\ last_run' = [last_run EXCEPT ![e.timer] = now]
        /\ UNCHANGED <<timers, expired, now, added, pending_functors>>
    BY <1>0, <1>5, EntryIs DEF RunTimer
  <2>2. \A d \in expired : d.timer = e.timer => d = e
    BY <1>0, EntryIs DEF TimerInv, EntriesMatchTimers
  <2>3. \A d \in timers \cup to_run' : d.timer \in Timers \ {e.timer}
    BY <1>0, <2>1, <2>2, EntryIs DEF TimerInv, EntriesMatchTimers
  <2>4. /\ runs'[e.timer] > 0 /\ last_run'[e.timer] = now
        /\ \A t \in Timers \ {e.timer} :
             runs'[t] = runs[t] /\ last_run'[t] = last_run[t]
    BY <1>0, <2>1
  <2>5. \A d \in expired \ to_run' : runs'[d.timer] > 0 /\ last_run'[d.timer] = now
    <3> TAKE d \in expired \ to_run'
    <3>1. d.timer \in Timers
      BY <1>0, EntryIs
    <3>2. CASE d = e
      BY <2>4, <3>2
    <3>3. CASE d # e
      <4>1. d.timer # e.timer /\ d \in expired \ to_run
        BY <2>1, <2>2, <3>3
      <4> QED
        BY <2>4, <3>1, <4>1 DEF RunInv
    <3> QED
      BY <3>2, <3>3
  <2>6. e.timer \in added
    BY <1>0 DEF TimerInv
  <2>7. \A i \in DOMAIN pending_functors :
          pending_functors[i] \in Timers \ {e.timer}
    <3>1. \A i \in DOMAIN pending_functors : pending_functors[i] \in Timers
      BY LenProperties DEF TypeOK
    <3> QED
      BY <1>0, <3>1 DEF TimerInv, EntriesMatchTimers
  <2>8. \A t \in Timers : runs'[t] > 0 => t \in added'
    BY <2>1, <2>4, <2>6 DEF RunInv
  <2> QED
    BY <2>1, <2>3, <2>4, <2>5, <2>7, <2>8 DEF RunInv
<1>6. CASE CallbackReturn
  BY <1>6 DEF CallbackReturn, RunInv
<1>7. CASE Reset
  <2>1. /\ to_run = {} /\ to_run' = {} /\ expired' = {}
        /\ UNCHANGED <<runs, last_run, added, pending_functors, now>>
    BY <1>7 DEF Reset
  <2>2. \A e \in timers' :
          \/ e \in timers
          \/ \E t \in Restarted : e.timer = t /\ e.when = now + Interval[t]
    BY <1>7, ResetTypes
  <2>3. \A t \in Restarted : last_run[t] = now
    BY <2>1 DEF Restarted, RunInv
  <2> QED
    BY <2>1, <2>2, <2>3 DEF RunInv
<1>8. CASE Tick
  BY <1>8 DEF Tick, RunInv
<1>9. ASSUME NEW time \in 1 .. MaxClock, SetClock(time)
      PROVE  RunInv'
  BY <1>9 DEF SetClock, RunInv
<1>10. CASE UNCHANGED vars
  BY <1>10 DEF vars, RunInv
<1> QED
  BY <1>1, <1>2, <1>3, <1>4, <1>5, <1>6, <1>7, <1>8, <1>9, <1>10, AddTimerCalled
  DEF Next

\* Only RunTimer counts a run.
LEMMA OnlyRunTimerRuns ==
  ASSUME TypeOK, [Next]_vars, NEW t \in Timers, runs'[t] > runs[t]
  PROVE  \E e \in to_run : RunTimer(e) /\ e.timer = t
<1> USE DEF entries, locals, callVars, clockVars, fdVars, history
<1>0. runs[t] \in Nat
  BY DEF TypeOK
<1>1. ~UNCHANGED runs
  BY <1>0
<1>2. ASSUME NEW self \in Callers \cup {LoopThread}, NEW u \in Timers,
             NEW when \in Nat, AddTimer(self, u, when)
      PROVE  FALSE
  BY <1>1, <1>2 DEF AddTimer
<1>3. PICK e \in to_run : RunTimer(e)
  BY <1>1, <1>2, AddTimerCalled
  DEF Next, AddTimerReturn, RunQueuedAdd, HandleRead, CallbackReturn, Reset, Tick,
      SetClock, vars
<1>4. e.timer \in Timers /\ runs' = [runs EXCEPT ![e.timer] = @ + 1]
  BY <1>3 DEF RunTimer, TypeOK, Entry
<1>5. e.timer = t
  BY <1>0, <1>4 DEF TypeOK
<1> QED
  BY <1>3, <1>5

\* Two runs of a repeating timer are more than its interval apart, for any
\* intervals, any other timers and any delay of the loop.
THEOREM TimersRunApart == Spec => RunsApart
<1>1. Init => TypeOK /\ TimerInv /\ RunInv
  BY TypeOK_Init, TimerInv_Init, RunInv_Init
<1>2. TypeOK /\ TimerInv /\ RunInv /\ [Next]_vars => (TypeOK /\ TimerInv /\ RunInv)'
  BY TypeOK_Next, TimerInv_Next, RunInv_Next
<1>3. TypeOK /\ RunInv /\ [Next]_vars =>
        [\A t \in Timers :
           runs'[t] > runs[t] /\ runs[t] > 0
             => now - last_run[t] > Interval[t]]_vars
  <2> SUFFICES ASSUME TypeOK, RunInv, [Next]_vars, NEW t \in Timers,
                      runs'[t] > runs[t], runs[t] > 0
               PROVE  now - last_run[t] > Interval[t]
    OBVIOUS
  <2>1. PICK e \in to_run : RunTimer(e) /\ e.timer = t
    BY OnlyRunTimerRuns
  <2>2. e.when < now /\ e.when = last_run[t] + Interval[t]
    BY <2>1 DEF RunInv
  <2>3. now \in Nat /\ last_run[t] \in Nat /\ Interval[t] \in Nat
    BY DEF TypeOK
  <2> QED
    BY <2>2, <2>3
<1> QED
  BY <1>1, <1>2, <1>3, PTL DEF Spec, RunsApart

-----------------------------------------------------------------------------
(* Timers are kept as long as they are needed. *)

\* What KeptWhileNeeded says of one timer.
Kept(t) ==
  \/ (Interval[t] > 0 \/ runs[t] = 0) /\ (Queued(t) \/ Held(t))
  \/ Interval[t] = 0 /\ runs[t] = 1 /\ ~Queued(t) /\ ~Waits(t)

\* A step that leaves a timer where it was.
LEMMA KeptIfUntouched ==
  ASSUME NEW t, Kept(t), runs'[t] = runs[t],
         Queued(t)' <=> Queued(t), Held(t)' <=> Held(t), Waits(t)' <=> Waits(t)
  PROVE  Kept(t)'
  BY DEF Kept

\* A new timer is queued or held, and no other moves.
LEMMA KeptByAdding ==
  ASSUME TypeOK, RunInv, \A t \in added : Kept(t),
         NEW self \in Callers \cup {LoopThread}, NEW u \in Timers, NEW when \in Nat,
         AddTimer(self, u, when), NEW t \in added'
  PROVE  Kept(t)'
<1> USE DEF locals, history
<1>1. /\ UNCHANGED <<expired, to_run, runs>>
      /\ u \notin added /\ added' = added \cup {u} /\ runs[u] = 0
  BY DEF AddTimer, RunInv, TypeOK
<1>2. CASE self = LoopThread
  <2>1. timers' = timers \cup {[when |-> when, timer |-> u]} /\ UNCHANGED pending_functors
    BY <1>2, AddArms DEF AddTimer, callVars
  <2>2. CASE t = u
    <3>1. [when |-> when, timer |-> u] \in timers'
      BY <2>1
    <3>2. Held(t)'
      BY <2>2, <3>1 DEF Held
    <3> QED
      BY <1>1, <2>2, <3>2 DEF Kept
  <2>3. CASE t # u
    BY <1>1, <2>1, <2>3, KeptIfUntouched DEF Queued, Held, Waits
  <2> QED
    BY <2>2, <2>3
<1>3. CASE self # LoopThread
  <2>1. UNCHANGED timers /\ pending_functors' = Append(pending_functors, u)
    BY <1>3 DEF AddTimer
  <2>2. /\ DOMAIN pending_functors' = 1 .. Len(pending_functors) + 1
        /\ DOMAIN pending_functors = 1 .. Len(pending_functors)
        /\ \A i \in 1 .. Len(pending_functors) : pending_functors'[i] = pending_functors[i]
        /\ pending_functors'[Len(pending_functors) + 1] = u
        /\ Len(pending_functors) \in Nat
    BY <2>1, AppendProperties, LenProperties DEF TypeOK
  <2>3. CASE t = u
    <3>1. Queued(t)'
      BY <2>2, <2>3 DEF Queued
    <3> QED
      BY <1>1, <2>3, <3>1 DEF Kept
  <2>4. CASE t # u
    <3>1. Queued(t)' <=> Queued(t)
      BY <2>2, <2>4 DEF Queued
    <3> QED
      BY <1>1, <2>1, <2>4, <3>1, KeptIfUntouched DEF Held, Waits
  <2> QED
    BY <2>3, <2>4
<1> QED
  BY <1>2, <1>3

\* The functor of a timer moves it from the queue to the set.
LEMMA KeptByQueuedAdd ==
  ASSUME TypeOK, TimerInv, RunInv, RunQueuedAdd, ~broken', NEW t \in added, Kept(t)
  PROVE  Kept(t)'
<1> USE DEF locals, history
<1> DEFINE u == Head(pending_functors)
<1>1. pending_functors \in Seq(Timers) /\ pending_functors # <<>>
  BY DEF RunQueuedAdd, TypeOK
<1>2. /\ u \in Timers /\ u = pending_functors[1] /\ expiration[u] \in Nat
      /\ Len(pending_functors) \in Nat \ {0}
      /\ DOMAIN pending_functors = 1 .. Len(pending_functors)
  BY <1>1, HeadTailProperties, EmptySeq, LenProperties DEF TypeOK
<1>3. /\ DOMAIN pending_functors' = 1 .. Len(pending_functors) - 1
      /\ \A i \in 1 .. Len(pending_functors) - 1 :
           pending_functors'[i] = pending_functors[i + 1]
  BY <1>1, HeadTailProperties, LenProperties DEF RunQueuedAdd
<1>4. UNCHANGED <<expired, to_run, runs, added>>
  BY DEF RunQueuedAdd
<1>5. timers' = timers \cup {[when |-> expiration[u], timer |-> u]}
  BY DEF RunQueuedAdd, AddTimerInLoop
<1> HIDE DEF u
<1>6. CASE t = u
  <2>1. Held(t)'
    <3>1. [when |-> expiration[u], timer |-> u] \in timers'
      BY <1>5
    <3> QED
      BY <1>6, <3>1 DEF Held
  <2>2. Queued(t)
    BY <1>2, <1>6 DEF Queued
  <2> QED
    BY <1>4, <2>1, <2>2 DEF Kept
<1>7. CASE t # u
  <2>1. Queued(t) => Queued(t)'
    <3> SUFFICES ASSUME NEW i \in 1 .. Len(pending_functors), pending_functors[i] = t
                 PROVE  Queued(t)'
      BY <1>2 DEF Queued
    <3>1. i # 1
      BY <1>2, <1>7
    <3>2. i - 1 \in 1 .. Len(pending_functors) - 1 /\ (i - 1) + 1 = i
      BY <1>2, <3>1
    <3> QED
      BY <1>3, <3>2 DEF Queued
  <2>2. Queued(t)' => Queued(t)
    BY <1>2, <1>3 DEF Queued
  <2> QED
    BY <1>4, <1>5, <1>7, <2>1, <2>2, KeptIfUntouched DEF Held, Waits
<1> QED
  BY <1>6, <1>7

\* A run is counted where the timer is among the expired ones and nowhere else.
LEMMA KeptByRunning ==
  ASSUME TypeOK, TimerInv, RunInv, NEW e \in to_run, RunTimer(e), NEW t \in added, Kept(t)
  PROVE  Kept(t)'
<1>1. /\ to_run' = to_run \ {e} /\ runs' = [runs EXCEPT ![e.timer] = @ + 1]
      /\ UNCHANGED <<timers, expired, pending_functors>>
  BY DEF RunTimer, entries, callVars
<1>2. /\ timers \subseteq Entry /\ expired \subseteq Entry /\ e \in expired
      /\ to_run \subseteq expired /\ e.timer \in Timers /\ t \in Timers
      /\ runs \in [Timers -> Nat] /\ Interval[t] \in Nat
  BY EntryIs DEF TypeOK
<1>3. (Queued(t)' <=> Queued(t)) /\ (Held(t)' <=> Held(t))
  BY <1>1 DEF Queued, Held
<1>4. CASE t = e.timer
  <2>1. Held(t) /\ Waits(t)
    BY <1>2, <1>4 DEF Held, Waits
  <2>2. ~Queued(t)
    BY <1>2, <1>4 DEF Queued, TimerInv, EntriesMatchTimers
  <2>3. \A d \in expired : d.timer = t => d = e
    BY <1>2, <1>4, EntryIs DEF TimerInv, EntriesMatchTimers
  <2>4. ~Waits(t)'
    BY <1>1, <1>2, <1>4, <2>3 DEF Waits, TimerInv, EntriesMatchTimers
  <2>5. CASE Interval[t] > 0
    BY <1>3, <2>1, <2>5 DEF Kept
  <2>6. CASE Interval[t] = 0
    <3>1. runs[t] = 0
      BY <2>1, <2>6 DEF Kept
    <3>2. runs'[t] = 1
      BY <1>1, <1>2, <1>4, <3>1
    <3> QED
      BY <1>3, <2>2, <2>4, <2>6, <3>2 DEF Kept
  <2> QED
    BY <1>2, <2>5, <2>6
<1>5. CASE t # e.timer
  <2>1. runs'[t] = runs[t]
    BY <1>1, <1>2, <1>5
  <2>2. Waits(t)' <=> Waits(t)
    BY <1>1, <1>5 DEF Waits
  <2> QED
    BY <1>3, <2>1, <2>2, KeptIfUntouched
<1> QED
  BY <1>4, <1>5

\* Reset keeps the timers that repeat, and the others have run.
LEMMA KeptByReset ==
  ASSUME TypeOK, RunInv, Reset, NEW t \in added, Kept(t)
  PROVE  Kept(t)'
<1>1. /\ to_run = {} /\ to_run' = {} /\ expired' = {} /\ t \in Timers
      /\ timers' = timers \cup {[when |-> expiration'[u], timer |-> u] : u \in Restarted}
      /\ UNCHANGED <<runs, pending_functors>>
  BY DEF Reset, callVars, history, TypeOK
<1>2. Queued(t)' <=> Queued(t)
  BY <1>1 DEF Queued
<1>3. CASE Held(t) /\ (Interval[t] > 0 \/ runs[t] = 0)
  <2>1. PICK e \in timers \cup expired : e.timer = t
    BY <1>3 DEF Held
  <2>2. CASE e \in timers
    <3>1. Held(t)'
      BY <1>1, <2>1, <2>2 DEF Held
    <3> QED
      BY <1>1, <1>3, <3>1 DEF Kept
  <2>3. CASE e \in expired
    <3>1. runs[t] > 0
      BY <1>1, <2>1, <2>3 DEF RunInv
    <3>2. t \in Restarted
      BY <1>1, <1>3, <2>1, <2>3, <3>1 DEF Restarted
    <3>3. [when |-> expiration'[t], timer |-> t] \in timers'
      BY <1>1, <3>2
    <3>4. Held(t)'
      BY <3>3 DEF Held
    <3> QED
      BY <1>1, <1>3, <3>4 DEF Kept
  <2> QED
    BY <2>1, <2>2, <2>3
<1>4. CASE Queued(t) /\ (Interval[t] > 0 \/ runs[t] = 0)
  BY <1>1, <1>2, <1>4 DEF Kept
<1>5. CASE Interval[t] = 0 /\ runs[t] = 1 /\ ~Queued(t) /\ ~Waits(t)
  <2>1. t \notin Restarted
    BY <1>5 DEF Restarted
  <2>2. ~Waits(t)'
    BY <1>1, <1>5, <2>1 DEF Waits
  <2> QED
    BY <1>1, <1>2, <1>5, <2>2 DEF Kept
<1> QED
  BY <1>3, <1>4, <1>5 DEF Kept

\* One step keeps KeptWhileNeeded.
LEMMA KeptWhileNeeded_Next ==
  TypeOK /\ TimerInv /\ RunInv /\ KeptWhileNeeded /\ [Next]_vars => KeptWhileNeeded'
<1> SUFFICES ASSUME TypeOK, TimerInv, RunInv, KeptWhileNeeded, [Next]_vars,
                    ~broken', NEW t \in added'
             PROVE  Kept(t)'
  BY DEF KeptWhileNeeded, Kept, Queued, Held, Waits
<1> USE DEF entries, locals, callVars, clockVars, fdVars, history
<1>0. ~broken /\ \A u \in added : Kept(u)
  BY DEF KeptWhileNeeded, Kept, Next, vars
<1>1. ASSUME NEW self \in Callers \cup {LoopThread}, NEW u \in Timers,
             NEW when \in Nat, AddTimer(self, u, when)
      PROVE  Kept(t)'
  BY <1>0, <1>1, KeptByAdding
<1>2. CASE UNCHANGED <<timers, expired, to_run, pending_functors, runs, added>>
  BY <1>0, <1>2 DEF Kept, Queued, Held, Waits
<1>3. CASE RunQueuedAdd
  BY <1>0, <1>3, KeptByQueuedAdd DEF RunQueuedAdd
<1>4. CASE HandleRead
  <2>1. /\ expired' = GetExpired /\ to_run' = expired' /\ timers' = timers \ expired'
        /\ UNCHANGED <<runs, pending_functors, added>> /\ expired = {} /\ to_run = {}
    BY <1>4 DEF HandleRead, TimerInv, TypeOK
  <2>2. timers' \cup expired' = timers \cup expired /\ timers' \cup to_run' = timers \cup to_run
    BY <2>1 DEF GetExpired
  <2> QED
    BY <1>0, <2>1, <2>2 DEF Kept, Queued, Held, Waits
<1>5. ASSUME NEW e \in to_run, RunTimer(e)
      PROVE  Kept(t)'
  BY <1>0, <1>5, KeptByRunning DEF RunTimer
<1>6. CASE Reset
  BY <1>0, <1>6, KeptByReset DEF Reset
<1> QED
  BY <1>1, <1>2, <1>3, <1>4, <1>5, <1>6, AddTimerCalled
  DEF Next, AddTimerReturn, CallbackReturn, Tick, SetClock, vars

\* A repeating timer is never lost, one that runs once runs at most once and is
\* kept until it did, unless a queued functor found its frame gone.
THEOREM TimersAreKept == Spec => []KeptWhileNeeded
<1>1. Init => TypeOK /\ TimerInv /\ RunInv /\ KeptWhileNeeded
  BY TypeOK_Init, TimerInv_Init, RunInv_Init DEF Init, KeptWhileNeeded
<1>2. /\ TypeOK /\ TimerInv /\ RunInv /\ KeptWhileNeeded
      /\ [Next]_vars
      => (TypeOK /\ TimerInv /\ RunInv /\ KeptWhileNeeded)'
  BY TypeOK_Next, TimerInv_Next, RunInv_Next, KeptWhileNeeded_Next
<1> QED
  BY <1>1, <1>2, PTL DEF Spec

-----------------------------------------------------------------------------
(* The queue implements TimerService. *)

\* The timers with a run to come, wherever they are kept, by what they have done.
WaitingInv ==
  {t \in added : HasRunToCome(t)} = {t \in added : Interval[t] > 0 \/ runs[t] = 0}

\* A timer is where it should be.
LEMMA WaitingIs == TypeOK /\ RunInv /\ KeptWhileNeeded => WaitingInv
<1> SUFFICES ASSUME TypeOK, RunInv, KeptWhileNeeded PROVE WaitingInv
  OBVIOUS
<1> SUFFICES ASSUME NEW t \in added
             PROVE  HasRunToCome(t) <=> Interval[t] > 0 \/ runs[t] = 0
  BY DEF WaitingInv
<1>0. /\ t \in Timers /\ Interval[t] \in Nat /\ runs[t] \in Nat
      /\ to_run \subseteq expired
  BY DEF TypeOK
<1>1. CASE broken
  BY <1>1 DEF HasRunToCome
<1>2. CASE ~broken
  <2>1. Kept(t)
    BY <1>2 DEF KeptWhileNeeded, Kept
  <2>2. ASSUME Held(t), ~Waits(t)
        PROVE  runs[t] > 0
    BY <2>2 DEF Held, Waits, RunInv
  <2>3. Waits(t) => Held(t)
    BY <1>0 DEF Held, Waits
  <2> QED
    BY <1>0, <1>2, <2>1, <2>2, <2>3 DEF Kept, HasRunToCome
<1> QED
  BY <1>1, <1>2

\* A step that neither adds nor runs a timer is not seen by the users of the service.
LEMMA ServiceUntouched ==
  ASSUME WaitingInv, WaitingInv',
         UNCHANGED <<added, runs, now>>,
         [t \in Timers |-> Due(t)]' = [t \in Timers |-> Due(t)]
  PROVE  UNCHANGED TS!vars
  BY DEF TS!vars, WaitingInv

\* AddTimer, on whatever thread, adds to the service.
LEMMA ServiceAdds ==
  ASSUME TypeOK, TimerInv, RunInv, TypeOK', NEW self \in Callers \cup {LoopThread},
         NEW t \in Timers, NEW when \in Nat, AddTimer(self, t, when),
         WaitingInv, WaitingInv'
  PROVE  TS!Add(t)
<1>1. /\ t \notin added /\ added' = added \cup {t}
      /\ expiration' = [expiration EXCEPT ![t] = when]
      /\ UNCHANGED <<now, expired, to_run, runs>>
  BY DEF AddTimer, locals
<1>2. runs[t] = 0
  BY <1>1 DEF RunInv, TypeOK
<1>3. {u \in added : HasRunToCome(u)}' = {u \in added : HasRunToCome(u)} \cup {t}
  BY <1>1, <1>2 DEF WaitingInv
<1>4. [u \in Timers |-> Due(u)]' \in [Timers -> Nat]
  <2>1. /\ expiration' \in [Timers -> Nat] /\ now' \in Nat
        /\ \A u \in Timers : Interval[u] \in Nat
    BY DEF TypeOK
  <2>2. \A u \in Timers : Due(u)' \in Nat
    BY <2>1 DEF Due
  <2> QED
    BY <2>2
<1>5. \A u \in Timers \ {t} : Due(u)' = Due(u)
  BY <1>1 DEF Due, TypeOK
<1>6. \A u \in Timers \ {t} : [v \in Timers |-> Due(v)]'[u] = [v \in Timers |-> Due(v)][u]
  BY <1>5
<1> QED
  BY <1>1, <1>3, <1>4, <1>6 DEF TS!Add

\* A callback is a run: its timer waits, is past its time, and waits again if it repeats.
LEMMA ServiceRuns ==
  ASSUME TypeOK, TimerInv, RunInv, KeptWhileNeeded, ~broken,
         NEW e \in to_run, RunTimer(e),
         WaitingInv, WaitingInv'
  PROVE  TS!Run(e.timer)
<1> DEFINE u == e.timer
<1>1. /\ to_run' = to_run \ {e} /\ runs' = [runs EXCEPT ![u] = @ + 1]
      /\ UNCHANGED <<expiration, expired, now, added>>
  BY DEF RunTimer, entries
<1>2. /\ e \in expired /\ to_run \subseteq expired /\ u \in Timers /\ u \in added
      /\ runs \in [Timers -> Nat] /\ \A t \in Timers : Interval[t] \in Nat
      /\ e.when \in Nat /\ now \in Nat /\ added \subseteq Timers
  BY DEF TypeOK, Entry, TimerInv
<1>3. \A d \in expired : d.timer = u => d = e
  <2> SUFFICES ASSUME NEW d \in expired, d.timer = u PROVE d = e
    OBVIOUS
  <2>1. d.when = expiration[u] /\ e.when = expiration[u]
    BY <1>2 DEF TimerInv, EntriesMatchTimers
  <2>2. d \in Entry /\ e \in Entry
    BY <1>2 DEF TypeOK
  <2> QED
    BY <2>1, <2>2, EntryIs
<1>4. Due(u) = e.when
  BY <1>2, <1>3 DEF Due, TimerInv, EntriesMatchTimers
<1>5. e.when < now
  BY DEF RunInv
<1>6. Interval[u] > 0 \/ runs[u] = 0
  <2>1. Kept(u) /\ Waits(u)
    BY <1>2 DEF KeptWhileNeeded, Kept, Waits
  <2> QED
    BY <2>1 DEF Kept
<1>7. \A t \in Timers \ {u} : Due(t)' = Due(t)
  BY <1>1 DEF Due
<1>8. Due(u)' = IF Interval[u] > 0 THEN now + Interval[u] ELSE e.when
  BY <1>1, <1>2, <1>3, <1>4 DEF Due
<1>9. runs'[u] > 0 /\ \A t \in Timers \ {u} : runs'[t] = runs[t]
  BY <1>1, <1>2
<1>10. u \in {t \in added : HasRunToCome(t)} /\ [t \in Timers |-> Due(t)][u] < now
  BY <1>2, <1>4, <1>5, <1>6 DEF WaitingInv
<1>11. CASE Interval[u] = 0
  <2>1. {t \in added : HasRunToCome(t)}' = {t \in added : HasRunToCome(t)} \ {u}
    BY <1>1, <1>2, <1>9, <1>11 DEF WaitingInv
  <2>2. [t \in Timers |-> Due(t)]' = [t \in Timers |-> Due(t)]
    BY <1>4, <1>7, <1>8, <1>11
  <2> QED
    BY <1>1, <1>10, <1>11, <2>1, <2>2 DEF TS!Run
<1>12. CASE Interval[u] > 0
  <2>1. {t \in added : HasRunToCome(t)}' = {t \in added : HasRunToCome(t)}
    BY <1>1, <1>2, <1>9, <1>12 DEF WaitingInv
  <2>2. [t \in Timers |-> Due(t)]'
          = [[t \in Timers |-> Due(t)] EXCEPT ![u] = now + Interval[u]]
    BY <1>2, <1>7, <1>8, <1>12
  <2> QED
    BY <1>1, <1>10, <1>12, <2>1, <2>2 DEF TS!Run
<1> QED
  BY <1>2, <1>11, <1>12

\* Reset writes down the times that were due already.
LEMMA ServiceReset ==
  ASSUME TypeOK, Reset, NEW t \in Timers
  PROVE  Due(t)' = Due(t)
<1>1. /\ to_run = {} /\ to_run' = {} /\ expired' = {} /\ now' = now
      /\ expiration' = [u \in Timers |-> IF u \in Restarted
                                         THEN AddTime(now, Interval[u])
                                         ELSE expiration[u]]
  BY DEF Reset
<1>2. Due(t)' = expiration'[t]
  BY <1>1 DEF Due
<1> QED
  BY <1>1, <1>2 DEF Due, Restarted

\* Every step of the queue is a step of the service or is not seen.
LEMMA StepIsServiceStep ==
  ASSUME TypeOK, TimerInv, RunInv, KeptWhileNeeded, [Next]_vars,
         TypeOK', WaitingInv, WaitingInv'
  PROVE  [TS!Next]_(TS!vars)
<1> USE DEF entries, locals, callVars, clockVars, fdVars, history
<1>1. ASSUME NEW self \in Callers \cup {LoopThread}, NEW t \in Timers,
             NEW when \in Nat, AddTimer(self, t, when)
      PROVE  TS!Next
  BY <1>1, ServiceAdds DEF TS!Next
<1>2. CASE UNCHANGED <<expiration, expired, to_run, now, runs, added>>
  <2>1. \A t \in Timers : Due(t)' = Due(t)
    BY <1>2 DEF Due
  <2> QED
    BY <1>2, <2>1, ServiceUntouched
<1>3. CASE HandleRead
  <2>1. /\ expired = {} /\ expired' \ to_run' = {}
        /\ UNCHANGED <<expiration, runs, added>> /\ now' \in Nat
    BY <1>3 DEF HandleRead, TimerInv, TypeOK
  <2>2. \A t \in Timers : Due(t)' = Due(t)
    BY <2>1 DEF Due
  <2>3. UNCHANGED {t \in added : HasRunToCome(t)}
    BY <2>1 DEF WaitingInv
  <2>4. UNCHANGED [t \in Timers |-> Due(t)]
    BY <2>2
  <2>5. TS!ReadClock
    BY <2>1, <2>3, <2>4 DEF TS!ReadClock
  <2> QED
    BY <2>5 DEF TS!Next
<1>4. ASSUME NEW e \in to_run, RunTimer(e), ~broken
      PROVE  TS!Next
  <2>1. e.timer \in Timers
    BY DEF TypeOK, Entry
  <2> QED
    BY <1>4, <2>1, ServiceRuns DEF TS!Next
<1>5. CASE Reset
  <2>1. \A t \in Timers : Due(t)' = Due(t)
    BY <1>5, ServiceReset
  <2> QED
    BY <1>5, <2>1, ServiceUntouched DEF Reset
<1> QED
  BY <1>1, <1>2, <1>3, <1>4, <1>5, AddTimerCalled
  DEF Next, AddTimerReturn, RunQueuedAdd, CallbackReturn, Tick, SetClock, vars

\* The queue implements the abstract timer service, for any timers, intervals and
\* threads and any clock.
THEOREM ServesTimers == Spec => ImplementsTimerService
<1>1. Init => TypeOK /\ TimerInv /\ RunInv /\ KeptWhileNeeded
  BY TypeOK_Init, TimerInv_Init, RunInv_Init DEF Init, KeptWhileNeeded
<1>2. Init => TS!Init
  <2> SUFFICES ASSUME Init PROVE TS!Init
    OBVIOUS
  <2>1. /\ added = {} /\ expired = {} /\ now = 0
        /\ expiration = [t \in Timers |-> 0] /\ runs = [t \in Timers |-> 0]
    BY DEF Init
  <2>2. [t \in Timers |-> Due(t)] = [t \in Timers |-> 0]
    BY <2>1 DEF Due
  <2>3. {t \in added : HasRunToCome(t)} = {}
    BY <2>1
  <2> QED
    BY <2>1, <2>2, <2>3 DEF TS!Init
<1>3. /\ TypeOK /\ TimerInv /\ RunInv /\ KeptWhileNeeded
      /\ [Next]_vars
      => (TypeOK /\ TimerInv /\ RunInv /\ KeptWhileNeeded)'
  BY TypeOK_Next, TimerInv_Next, RunInv_Next, KeptWhileNeeded_Next
<1>4. /\ TypeOK /\ TimerInv /\ RunInv /\ KeptWhileNeeded /\ WaitingInv
      /\ [Next]_vars /\ TypeOK' /\ WaitingInv'
      => [TS!Next]_(TS!vars)
  BY StepIsServiceStep
<1> QED
  BY <1>1, <1>2, <1>3, <1>4, WaitingIs, PTL DEF Spec, ImplementsTimerService, TS!Spec

=============================================================================
