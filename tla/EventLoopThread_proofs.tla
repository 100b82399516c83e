---------------------- MODULE EventLoopThread_proofs ------------------------
(***************************************************************************)
(* Theorems about EventLoopThread, for any number of threads that share    *)
(* the loop, functors and channels.                                        *)
(***************************************************************************)
EXTENDS EventLoopThread, EventLoop_proofs

USE ThreadAssumption, OwnerAssumption DEF Threads

-----------------------------------------------------------------------------
(* The loop inside the thread is a loop. *)

\* Whatever owner, destructor and Task() do to the loop is a step of EventLoop.
LEMMA ThreadStepIsLoopStep == [ThreadNext]_allVars => [Next]_vars
<1> SUFFICES ASSUME [ThreadNext]_allVars PROVE [Next]_vars
  OBVIOUS
<1>1. CASE TaskStep
  <2>1. CASE RunLoop
    BY <2>1 DEF RunLoop, Next
  <2>2. CASE ConstructLoop \/ PublishLoop \/ TaskReturn
    BY <2>2 DEF ConstructLoop, PublishLoop, TaskReturn, vars
  <2> QED
    BY <1>1, <2>1, <2>2 DEF TaskStep
<1>2. CASE InLoop
  BY <1>2 DEF InLoop, Next
<1>3. CASE StartLoop \/ Destroy \/ DestroyUnstarted \/ SpuriousWakeup
  BY <1>3 DEF StartLoop, Destroy, DestroyUnstarted, SpuriousWakeup, vars, loopVars,
              queueVars
<1>4. CASE OwnerStep
  <2>1. CASE DtorQuit \/ DtorQuitReturn
    BY <2>1 DEF DtorQuit, DtorQuitReturn, Next, Api, FinishCall
  <2>2. CASE TestLoop \/ UseDestroyedLoop(Owner) \/ Join
    BY <2>2 DEF TestLoop, UseDestroyedLoop, Join, vars, loopVars, queueVars
  <2> QED
    BY <1>4, <2>1, <2>2 DEF OwnerStep
<1>5. ASSUME NEW self \in Callers, UseLoop(self) \/ UseDestroyedLoop(self)
      PROVE  [Next]_vars
  BY <1>5 DEF UseLoop, UseDestroyedLoop, Next, vars, loopVars, queueVars
<1>6. CASE UNCHANGED allVars
  BY <1>6 DEF allVars
<1> QED
  BY <1>1, <1>2, <1>3, <1>4, <1>5, <1>6 DEF ThreadNext

\* A loop run by an EventLoopThread behaves as an EventLoop: what is proved of
\* EventLoop holds of it.
THEOREM ThreadRunsAnEventLoop == ThreadSpec => Spec
<1>1. ThreadInit => Init
  BY DEF ThreadInit
<1>2. [ThreadNext]_allVars => [Next]_vars
  BY ThreadStepIsLoopStep
<1> QED
  BY <1>1, <1>2, PTL DEF ThreadSpec, Spec

-----------------------------------------------------------------------------
(* StartLoop() and the life of the loop. *)

\* Calls of other threads neither move the loop thread nor clear quit.
LEMMA ApiKeeps ==
  ASSUME NEW self \in Callers, Api(self) \/ FinishCall(self) \/ Quit(self), TypeOK
  PROVE  pc' = pc /\ (quit => quit')
<1>1. Api(self)
  BY DEF Api
<1>2. ASSUME NEW f \in Functors, QueueInLoop(self, f) \/ RunInLoop(self, f)
      PROVE  pc' = pc /\ quit' = quit
  BY <1>2 DEF QueueInLoop, RunInLoop
<1>3. CASE Quit(self)
  BY <1>3 DEF Quit
<1>4. CASE FinishCall(self)
  BY <1>4 DEF FinishCall, FinishQueueInLoop, FinishQuit
<1> QED
  BY <1>1, <1>2, <1>3, <1>4 DEF Api

\* Inside Loop() the loop thread gets back to Task() only with quit set.
LEMMA LoopStepKeeps ==
  ASSUME TypeOK, pc # "idle", LoopStep \/ PollElse \/ PollFails \/ Api(LoopThread)
  PROVE  pc' = "idle" => quit'
<1>1. CASE LoopStep
  BY <1>1 DEF LoopStep, ExitLoop, EnterPoll, PollWoken, Poll, HandleRead, HandleEvent,
              CallbackReturn, SwapPendingFunctors, RunFunctor, FunctorReturn,
              EndPendingFunctors
<1>2. CASE PollElse \/ PollFails
  BY <1>2 DEF PollElse, PollFails, Poll
<1>3. CASE Api(LoopThread)
  BY <1>3 DEF Api, QueueInLoop, RunInLoop, Quit, FinishCall, FinishQueueInLoop,
              FinishQuit
<1> QED
  BY <1>1, <1>2, <1>3

\* A constructed EventLoopThread satisfies the invariant.
LEMMA ThreadInv_Init == ThreadInit => ThreadInv
  BY DEF ThreadInit, ThreadInv, Init

\* One step keeps ThreadInv.
LEMMA ThreadInv_Next ==
  TypeOK /\ ThreadTypeOK /\ ThreadInv /\ [ThreadNext]_allVars => ThreadInv'
<1> SUFFICES ASSUME TypeOK, ThreadTypeOK, ThreadInv, [ThreadNext]_allVars
             PROVE  ThreadInv'
  OBVIOUS
<1> USE DEF ThreadInv, threadVars
<1>0. /\ owner \in OwnerLocations /\ task \in TaskLocations
      /\ loop \in {"null", "loop_new"}
      /\ task = "none" <=> owner = "fresh"
  BY DEF ThreadTypeOK
<1>1. CASE TaskStep
  <2>1. CASE ConstructLoop \/ PublishLoop \/ TaskReturn
    BY <1>0, <2>1 DEF ConstructLoop, PublishLoop, TaskReturn, OwnerLocations,
                      vars
  <2>2. CASE RunLoop
    BY <2>2 DEF RunLoop, Loop
  <2> QED
    BY <1>1, <2>1, <2>2 DEF TaskStep
<1>2. CASE InLoop
  BY <1>2, LoopStepKeeps DEF InLoop
<1>3. CASE StartLoop \/ Destroy \/ DestroyUnstarted \/ SpuriousWakeup
  BY <1>0, <1>3 DEF StartLoop, Destroy, DestroyUnstarted, SpuriousWakeup, vars,
                    loopVars, queueVars
<1>4. CASE OwnerStep
  <2>1. CASE TestLoop \/ UseDestroyedLoop(Owner) \/ Join
    BY <1>0, <2>1 DEF TestLoop, UseDestroyedLoop, Join, vars, loopVars, queueVars
  <2>2. CASE DtorQuit
    BY <2>2, ApiKeeps DEF DtorQuit
  <2>3. CASE DtorQuitReturn
    BY <2>3, ApiKeeps DEF DtorQuitReturn, FinishCall
  <2> QED
    BY <1>4, <2>1, <2>2, <2>3 DEF OwnerStep
<1>5. ASSUME NEW self \in Callers, UseLoop(self)
      PROVE  ThreadInv'
  BY <1>5, ApiKeeps DEF UseLoop
<1>6. ASSUME NEW self \in Callers, UseDestroyedLoop(self)
      PROVE  ThreadInv'
  BY <1>6 DEF UseDestroyedLoop, vars
<1>7. CASE UNCHANGED allVars
  BY <1>7 DEF allVars, vars
<1> QED
  BY <1>1, <1>2, <1>3, <1>4, <1>5, <1>6, <1>7 DEF ThreadNext

\* One step keeps the variables of the thread in their types.
LEMMA ThreadTypeOK_Next ==
  TypeOK' /\ ThreadTypeOK /\ [ThreadNext]_allVars => ThreadTypeOK'
  BY DEF ThreadTypeOK, OwnerLocations, TaskLocations, ThreadNext, TaskStep,
         ConstructLoop, PublishLoop, RunLoop, TaskReturn, InLoop, StartLoop,
         Destroy, DestroyUnstarted, SpuriousWakeup, OwnerStep, TestLoop, DtorQuit,
         DtorQuitReturn, UseDestroyedLoop, Join, UseLoop, threadVars, allVars

\* Every variable keeps its type, those of the loop included.
THEOREM ThreadTypeCorrect == ThreadSpec => []ThreadTypeOK
<1>1. ThreadInit /\ TypeOK => ThreadTypeOK
  BY DEF ThreadInit, ThreadTypeOK, OwnerLocations, TaskLocations
<1>2. TypeOK' /\ ThreadTypeOK /\ [ThreadNext]_allVars => ThreadTypeOK'
  BY ThreadTypeOK_Next
<1> QED
  BY <1>1, <1>2, ThreadRunsAnEventLoop, TypeCorrect, PTL DEF ThreadSpec

\* The invariant holds for every instance.
THEOREM ThreadInvariant == ThreadSpec => []ThreadInv
<1>1. TypeOK /\ ThreadTypeOK /\ ThreadInv /\ [ThreadNext]_allVars => ThreadInv'
  BY ThreadInv_Next
<1> QED
  BY <1>1, ThreadInv_Init, ThreadRunsAnEventLoop, TypeCorrect, ThreadTypeCorrect,
     PTL DEF ThreadSpec

\* StartLoop() never returns null or a loop under construction.
THEOREM StartLoopGivesLoop == ThreadSpec => []StartLoopReturnsLoop
<1>1. ThreadInv => StartLoopReturnsLoop
  BY DEF ThreadInv, StartLoopReturnsLoop
<1> QED
  BY <1>1, ThreadInvariant, PTL

\* The loop is destroyed only after somebody asked it to quit.
THEOREM LoopLives == ThreadSpec => []LoopLivesUntilQuit
<1>1. ThreadInv => LoopLivesUntilQuit
  BY DEF ThreadInv, LoopLivesUntilQuit
<1> QED
  BY <1>1, ThreadInvariant, PTL

-----------------------------------------------------------------------------
(* What is proved of EventLoop. *)

\* The loop of an EventLoopThread loses no wakeup and no quit, leaves Loop() clean and
\* runs its functors in order, whoever it is shared with, up to its end.
THEOREM ThreadLoopHolds ==
  ThreadSpec => /\ [](NoLostWakeup /\ NoLostQuit /\ CleanExit /\ WakeupReadable)
                /\ ImplementsFunctorQueue
  BY ThreadRunsAnEventLoop, NoWakeupIsLost, NoQuitIsLost, LoopExitsClean,
     WakeupIsReadable, RunsFunctorsInOrder, PTL

=============================================================================
