-------------------------- MODULE EventLoop_proofs --------------------------
(***************************************************************************)
(* Theorems about EventLoop, for any number of threads, functors, channels *)
(* and any maximum of the eventfd counter.                                 *)
(***************************************************************************)
EXTENDS EventLoop, SequenceTheorems, TLAPS

USE ThreadAssumption, ChannelAssumption, EventfdAssumption DEF Threads

-----------------------------------------------------------------------------
(* Facts about the queue as a set. *)

\* Pushing a functor adds it, and nothing else, to the queued functors.
LEMMA RangeAppend ==
  ASSUME NEW S, NEW s \in Seq(S), NEW e \in S
  PROVE  Range(Append(s, e)) = Range(s) \cup {e}
<1>1. Append(s, e) = s \o <<e>>
  BY AppendIsConcat
<1>2. <<e>> \in Seq(S) /\ Range(<<e>>) = {e}
  BY DEF Range
<1>3. Range(s \o <<e>>) = Range(s) \cup Range(<<e>>)
  BY <1>2, RangeConcatenation, ZenonT(60)
<1> QED
  BY <1>1, <1>2, <1>3

\* The emptied queue holds no functor.
LEMMA RangeEmpty == Range(<<>>) = {}
  BY DEF Range

-----------------------------------------------------------------------------
(* Type correctness. *)

\* A freshly constructed loop is of the type.
LEMMA TypeOK_Init == Init => TypeOK
<1>1. <<>> \in Seq(Functors)
  BY EmptySeq
<1>2. 0 \in 0 .. EventfdMax
  OBVIOUS
<1> QED
  BY <1>1, <1>2 DEF Init, TypeOK, Locations, Calls

\* One step keeps every variable in its type.
LEMMA TypeOK_Next == TypeOK /\ [Next]_vars => TypeOK'
<1> SUFFICES ASSUME TypeOK, [Next]_vars PROVE TypeOK'
  OBVIOUS
<1> USE DEF TypeOK, Locations, Calls, loopVars, queueVars
<1>1. ASSUME NEW self \in Threads, NEW f \in Functors, QueueInLoop(self, f)
      PROVE  TypeOK'
  <2>1. pending_functors' \in Seq(Functors)
    BY <1>1, AppendProperties DEF QueueInLoop
  <2>2. call' \in [Threads -> Calls]
    <3>1. call' = [call EXCEPT ![self] = "queue"] /\ call \in [Threads -> Calls]
      BY <1>1 DEF QueueInLoop
    <3> QED
      BY <3>1
  <2>3. submitted' \subseteq Functors /\ early' \subseteq Functors
    BY <1>1 DEF QueueInLoop
  <2>4. UNCHANGED <<loopVars, wakeup_fd, quit, pc, ran>>
    BY <1>1 DEF QueueInLoop
  <2> QED
    BY <2>1, <2>2, <2>3, <2>4
<1>2. ASSUME NEW self \in Threads, NEW f \in Functors, RunInLoop(self, f)
      PROVE  TypeOK'
  <2>1. CASE self # LoopThread
    BY <1>1, <1>2, <2>1 DEF RunInLoop
  <2>2. CASE self = LoopThread
    BY <1>2, <2>2 DEF RunInLoop
  <2> QED
    BY <2>1, <2>2
<1>3. ASSUME NEW self \in Threads, Quit(self)
      PROVE  TypeOK'
  BY <1>3 DEF Quit
<1>4. ASSUME NEW self \in Threads, FinishCall(self)
      PROVE  TypeOK'
  <2>1. ASSUME WakeUp PROVE wakeup_fd' \in 0 .. EventfdMax
    BY <2>1 DEF WakeUp
  <2>2. CASE FinishQueueInLoop(self)
    BY <2>1, <2>2 DEF FinishQueueInLoop
  <2>3. CASE FinishQuit(self)
    BY <2>1, <2>3 DEF FinishQuit
  <2> QED
    BY <1>4, <2>2, <2>3 DEF FinishCall
<1>5. CASE Loop
  BY <1>5 DEF Loop
<1>6. CASE LoopStep
  <2>1. CASE ExitLoop \/ EnterPoll \/ PollWoken
    BY <2>1 DEF ExitLoop, EnterPoll, PollWoken, Poll
  <2>2. CASE HandleRead
    BY <2>2 DEF HandleRead
  <2>3. ASSUME NEW ch \in Channels, HandleEvent(ch)
        PROVE  TypeOK'
    BY <2>3 DEF HandleEvent
  <2>4. CASE CallbackReturn \/ FunctorReturn \/ EndPendingFunctors
    BY <2>4 DEF CallbackReturn, FunctorReturn, EndPendingFunctors
  <2>5. CASE SwapPendingFunctors
    BY <2>5 DEF SwapPendingFunctors
  <2>6. CASE RunFunctor
    <3>1. Head(functors) \in Functors /\ Tail(functors) \in Seq(Functors)
      BY <2>6, HeadTailProperties DEF RunFunctor
    <3> QED
      BY <2>6, <3>1, AppendProperties DEF RunFunctor
  <2> QED
    BY <1>6, <2>1, <2>2, <2>3, <2>4, <2>5, <2>6 DEF LoopStep
<1>7. CASE PollElse \/ PollFails
  BY <1>7 DEF PollElse, PollFails, Poll
<1>8. CASE UNCHANGED vars
  BY <1>8 DEF vars
<1> QED
  BY <1>1, <1>2, <1>3, <1>4, <1>5, <1>6, <1>7, <1>8 DEF Next, Api

\* Every variable of the loop keeps its type, whatever the threads call.
THEOREM TypeCorrect == Spec => []TypeOK
  BY TypeOK_Init, TypeOK_Next, PTL DEF Spec
-----------------------------------------------------------------------------
(* The loop never sleeps on work. *)

\* A freshly constructed loop has nothing to do and nobody to wake.
LEMMA WorkInv_Init == Init => WorkInv
  BY RangeEmpty DEF Init, WorkInv, UserCode, WakeupReadable, NoLostQuit

\* A write to the eventfd leaves it readable.
LEMMA WakeUpWrites == TypeOK /\ WakeUp => wakeup_fd' > 0
  BY DEF TypeOK, WakeUp

\* One step keeps WorkInv.
LEMMA WorkInv_Next == TypeOK /\ WorkInv /\ [Next]_vars => WorkInv'
<1> SUFFICES ASSUME TypeOK, WorkInv, [Next]_vars PROVE WorkInv'
  OBVIOUS
<1> USE DEF WorkInv, UserCode, WakeupReadable, NoLostQuit, CallInFlight,
            loopVars, queueVars
<1>0. call \in [Threads -> Calls] /\ wakeup_fd \in Nat /\ pc \in Locations
  BY DEF TypeOK
<1>1. ASSUME NEW self \in Threads, NEW f \in Functors, QueueInLoop(self, f)
      PROVE  WorkInv'
  <2>1. call'[self] = "queue" /\ \A t \in Threads \ {self} : call'[t] = call[t]
    BY <1>0, <1>1 DEF QueueInLoop
  <2>2. Range(pending_functors') = Range(pending_functors) \cup {f}
    BY <1>1, RangeAppend DEF QueueInLoop, TypeOK
  <2>3. CASE self = LoopThread
    BY <1>0, <1>1, <2>1, <2>2, <2>3 DEF QueueInLoop, CanCall, Locations
  <2>4. CASE self \in Callers
    BY <1>0, <1>1, <2>1, <2>2, <2>4 DEF QueueInLoop, CanCall
  <2> QED
    BY <2>3, <2>4
<1>2. ASSUME NEW self \in Threads, NEW f \in Functors, RunInLoop(self, f)
      PROVE  WorkInv'
  BY <1>1, <1>2 DEF RunInLoop
<1>3. ASSUME NEW self \in Threads, Quit(self)
      PROVE  WorkInv'
  <2>1. CASE self = LoopThread
    <3>1. call' = call
      BY <1>0, <1>3, <2>1 DEF Quit, CanCall
    <3> QED
      BY <1>0, <1>3, <2>1, <3>1 DEF Quit, CanCall
  <2>2. CASE self \in Callers
    <3>1. call'[self] = "quit" /\ \A t \in Threads \ {self} : call'[t] = call[t]
      BY <1>0, <1>3, <2>2 DEF Quit
    <3> QED
      BY <1>0, <1>3, <2>2, <3>1 DEF Quit, CanCall
  <2> QED
    BY <2>1, <2>2
<1>4. ASSUME NEW self \in Threads, FinishCall(self)
      PROVE  WorkInv'
  <2>1. call'[self] = "none" /\ \A t \in Threads \ {self} : call'[t] = call[t]
    BY <1>0, <1>4 DEF FinishCall, FinishQueueInLoop, FinishQuit
  <2>2. CASE FinishQueueInLoop(self)
    <3>1. CASE self # LoopThread \/ calling_pending_functors
      BY <1>0, <2>1, <2>2, <3>1, WakeUpWrites DEF FinishQueueInLoop
    <3>2. CASE ~(self # LoopThread \/ calling_pending_functors)
      BY <1>0, <2>1, <2>2, <3>2 DEF FinishQueueInLoop
    <3> QED
      BY <3>1, <3>2
  <2>3. CASE FinishQuit(self)
    BY <1>0, <2>1, <2>3, WakeUpWrites DEF FinishQuit
  <2> QED
    BY <1>4, <2>2, <2>3 DEF FinishCall
<1>5. CASE Loop
  BY <1>5 DEF Loop
<1>6. CASE LoopStep
  <2>1. CASE ExitLoop \/ EnterPoll
    BY <2>1 DEF ExitLoop, EnterPoll
  <2>2. CASE PollWoken
    BY <1>0, <2>2 DEF PollWoken, Poll
  <2>3. CASE HandleRead
    BY <2>3 DEF HandleRead
  <2>4. ASSUME NEW ch \in Channels, HandleEvent(ch)
        PROVE  WorkInv'
    BY <2>4 DEF HandleEvent
  <2>5. CASE CallbackReturn \/ FunctorReturn
    BY <2>5 DEF CallbackReturn, FunctorReturn
  <2>6. CASE SwapPendingFunctors
    BY <2>6, RangeEmpty DEF SwapPendingFunctors
  <2>7. CASE RunFunctor \/ EndPendingFunctors
    BY <2>7 DEF RunFunctor, EndPendingFunctors
  <2> QED
    BY <1>6, <2>1, <2>2, <2>3, <2>4, <2>5, <2>6, <2>7 DEF LoopStep
<1>7. CASE PollElse \/ PollFails
  BY <1>7 DEF PollElse, PollFails, Poll
<1>8. CASE UNCHANGED vars
  BY <1>8 DEF vars
<1> QED
  BY <1>1, <1>2, <1>3, <1>4, <1>5, <1>6, <1>7, <1>8 DEF Next, Api

\* The invariant holds whatever the threads call.
THEOREM WorkInvariant == Spec => []WorkInv
  BY TypeCorrect, WorkInv_Init, WorkInv_Next, PTL DEF Spec

\* No queued functor is slept on: QueueInLoop and DoPendingFunctors.
THEOREM NoWakeupIsLost == Spec => []NoLostWakeup
<1>1. TypeOK /\ WorkInv => NoLostWakeup
  BY DEF TypeOK, WorkInv, NoLostWakeup, UserCode
<1> QED
  BY <1>1, TypeCorrect, WorkInvariant, PTL

\* No quit request is slept on: Quit and Loop.
THEOREM NoQuitIsLost == Spec => []NoLostQuit
<1>1. WorkInv => NoLostQuit
  BY DEF WorkInv
<1> QED
  BY <1>1, WorkInvariant, PTL

\* Loop() leaves the members as the constructor did.
THEOREM LoopExitsClean == Spec => []CleanExit
<1>1. WorkInv => CleanExit
  BY DEF WorkInv, CleanExit
<1> QED
  BY <1>1, WorkInvariant, PTL

\* HandleRead always finds the eventfd readable.
THEOREM WakeupIsReadable == Spec => []WakeupReadable
<1>1. WorkInv => WakeupReadable
  BY DEF WorkInv
<1> QED
  BY <1>1, WorkInvariant, PTL
-----------------------------------------------------------------------------
(* The loop implements the serial executor FunctorQueue. *)

\* A freshly constructed loop is an empty serial executor.
LEMMA Refines_Init == Init => FQ!Init
<1>1. <<>> \o <<>> = <<>>
  BY EmptySeq, ConcatEmptySeq
<1> QED
  BY <1>1 DEF Init, FQ!Init

\* Pushing to pending_functors pushes to the executor's queue.
LEMMA QueueInLoopIsSubmit ==
  ASSUME TypeOK, NEW self \in Threads, NEW f \in Functors, QueueInLoop(self, f)
  PROVE  FQ!Submit(f)
<1>1. functors \o Append(pending_functors, f)
        = Append(functors \o pending_functors, f)
  <2>1. <<f>> \in Seq(Functors)
    OBVIOUS
  <2>2. functors \o pending_functors \in Seq(Functors)
    BY ConcatProperties DEF TypeOK
  <2>3. Append(pending_functors, f) = pending_functors \o <<f>>
    BY AppendIsConcat DEF TypeOK
  <2>4. Append(functors \o pending_functors, f)
          = (functors \o pending_functors) \o <<f>>
    BY <2>2, AppendIsConcat
  <2> QED
    BY <2>1, <2>3, <2>4, ConcatAssociative DEF TypeOK
<1> QED
  BY <1>1 DEF QueueInLoop, FQ!Submit, loopVars

\* Starting the head of the batch starts the head of the executor's queue.
LEMMA RunFunctorIsRunNext == TypeOK /\ RunFunctor => FQ!RunNext
<1> SUFFICES ASSUME TypeOK, RunFunctor PROVE FQ!RunNext
  OBVIOUS
<1> DEFINE whole == functors \o pending_functors
           rest  == Tail(functors) \o pending_functors
<1>1. /\ functors \in Seq(Functors) /\ functors # <<>>
      /\ pending_functors \in Seq(Functors)
  BY DEF TypeOK, RunFunctor
<1>2. Head(functors) \in Functors /\ Tail(functors) \in Seq(Functors)
  BY <1>1, HeadTailProperties
<1>3. whole \in Seq(Functors) /\ whole # <<>>
  BY <1>1, ConcatProperties, ConcatEqualIffEmpty
<1>4. Head(whole) = Head(functors) /\ Tail(whole) = rest
  <2>1. functors = <<Head(functors)>> \o Tail(functors)
    BY <1>1
  <2>2. <<Head(functors)>> \in Seq(Functors)
    BY <1>2
  <2>3. whole = <<Head(functors)>> \o rest
    BY <1>1, <1>2, <2>1, <2>2, ConcatAssociative
  <2>4. rest \in Seq(Functors)
    BY <1>1, <1>2, ConcatProperties
  <2> HIDE DEF whole, rest
  <2> QED
    BY <1>2, <2>2, <2>3, <2>4
<1> QED
  BY <1>3, <1>4 DEF RunFunctor, FQ!RunNext, queueVars

\* Swapping the batch in leaves the executor's queue as it was.
LEMMA SwapIsStutter == TypeOK /\ WorkInv /\ SwapPendingFunctors => UNCHANGED FQ!vars
<1> SUFFICES ASSUME TypeOK, WorkInv, SwapPendingFunctors PROVE UNCHANGED FQ!vars
  OBVIOUS
<1>1. functors = <<>> /\ pending_functors \in Seq(Functors)
  BY DEF TypeOK, WorkInv, SwapPendingFunctors
<1>2. functors \o pending_functors = pending_functors \o <<>>
  BY <1>1, ConcatEmptySeq
<1> QED
  BY <1>2 DEF SwapPendingFunctors, FQ!vars

\* Every step of the loop or of a caller is one of the executor, or none.
LEMMA Refines_Next == TypeOK /\ WorkInv /\ [Next]_vars => [FQ!Next]_(FQ!vars)
<1> SUFFICES ASSUME TypeOK, WorkInv, [Next]_vars
             PROVE  FQ!Next \/ UNCHANGED FQ!vars
  OBVIOUS
<1> USE DEF loopVars, queueVars, FQ!vars
<1>1. ASSUME NEW self \in Threads, NEW f \in Functors, QueueInLoop(self, f)
      PROVE  FQ!Next \/ UNCHANGED FQ!vars
  BY <1>1, QueueInLoopIsSubmit DEF FQ!Next
<1>2. ASSUME NEW self \in Threads, NEW f \in Functors, RunInLoop(self, f)
      PROVE  FQ!Next \/ UNCHANGED FQ!vars
  BY <1>1, <1>2 DEF RunInLoop
<1>3. ASSUME NEW self \in Threads, Quit(self)
      PROVE  FQ!Next \/ UNCHANGED FQ!vars
  <2>1. CASE looping /\ ~quit
    BY <1>3, <2>1 DEF Quit, FQ!Next, FQ!StartOrStop
  <2>2. CASE ~(looping /\ ~quit)
    BY <1>3, <2>2 DEF Quit
  <2> QED
    BY <2>1, <2>2
<1>4. ASSUME NEW self \in Threads, FinishCall(self)
      PROVE  FQ!Next \/ UNCHANGED FQ!vars
  BY <1>4 DEF FinishCall, FinishQueueInLoop, FinishQuit
<1>5. CASE Loop
  <2>1. ~looping
    BY <1>5 DEF Loop, WorkInv
  <2> QED
    BY <1>5, <2>1 DEF Loop, FQ!Next, FQ!StartOrStop
<1>6. CASE LoopStep
  <2>1. CASE ExitLoop
    BY <2>1 DEF ExitLoop
  <2>2. CASE EnterPoll \/ PollWoken \/ HandleRead
    BY <2>2 DEF EnterPoll, PollWoken, Poll, HandleRead
  <2>3. ASSUME NEW ch \in Channels, HandleEvent(ch)
        PROVE  FQ!Next \/ UNCHANGED FQ!vars
    BY <2>3 DEF HandleEvent
  <2>4. CASE CallbackReturn \/ FunctorReturn \/ EndPendingFunctors
    BY <2>4 DEF CallbackReturn, FunctorReturn, EndPendingFunctors
  <2>5. CASE SwapPendingFunctors
    BY <2>5, SwapIsStutter
  <2>6. CASE RunFunctor
    BY <2>6, RunFunctorIsRunNext DEF FQ!Next
  <2> QED
    BY <1>6, <2>1, <2>2, <2>3, <2>4, <2>5, <2>6 DEF LoopStep
<1>7. CASE PollElse \/ PollFails
  BY <1>7 DEF PollElse, PollFails, Poll
<1>8. CASE UNCHANGED vars
  BY <1>8 DEF vars
<1> QED
  BY <1>1, <1>2, <1>3, <1>4, <1>5, <1>6, <1>7, <1>8 DEF Next, Api

\* The safety part of the promise of QueueInLoop: functors are run one by one
\* in the order in which they were queued, none twice, none skipped.
THEOREM RunsFunctorsInOrder == Spec => ImplementsFunctorQueue
  BY Refines_Init, Refines_Next, TypeCorrect, WorkInvariant, PTL
     DEF Spec, ImplementsFunctorQueue, FQ!Spec

=============================================================================
