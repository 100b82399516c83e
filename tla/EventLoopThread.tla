-------------------------- MODULE EventLoopThread ---------------------------
(***************************************************************************)
(* An EventLoopThread (reactor/s04/EventLoopThread.cpp) around one         *)
(* EventLoop: the owner starts the thread and waits for the loop, uses it  *)
(* and shares it, and destroys the EventLoopThread, which quits the loop   *)
(* and joins.  The loop itself is a local variable of Task(), so it dies   *)
(* with that frame.                                                        *)
(*                                                                         *)
(* Touching the loop after that, or through the null pointer of a thread   *)
(* that was never started, is undefined behaviour: broken records it and   *)
(* the model stops there.                                                  *)
(***************************************************************************)
EXTENDS EventLoop

CONSTANT Owner       \* the thread that owns the EventLoopThread

ASSUME OwnerAssumption == Owner \in Callers

VARIABLES
  owner,             \* where the owner is
  task,              \* where Task() is on the loop thread
  loop,              \* member loop: "null" or "loop_new"
  broken             \* undefined behaviour: "no", "null" or "destroyed"

threadVars == <<owner, task, loop, broken>>
allVars    == <<vars, threadVars>>

\* Of the owner: "fresh": EventLoopThread constructed; "wait": in StartLoop,
\* about to test the predicate; "sleep": blocked in cond_.wait; "using": has
\* the loop; "dtor": the destructor has to call loop->Quit(); "quitting": it is
\* in that call; "join": in thread_.join(); "done": destroyed.
OwnerLocations == {"fresh", "wait", "sleep", "using", "dtor", "quitting",
                   "join", "done"}

\* Of Task(): "none": no thread yet; "begin": before the construction of
\* loop_new; "constructed"; "published": loop is set; "looping": Loop() was
\* called; "returned": Task() has destroyed loop_new and returned.
TaskLocations == {"none", "begin", "constructed", "published", "looping",
                  "returned"}

\* The thread runs once StartLoop was called, and the destructor returns, and with
\* it go mutex_, cond_ and loop, only after Task(), which uses them, has returned.
ThreadTypeOK ==
  /\ TypeOK
  /\ owner \in OwnerLocations
  /\ task \in TaskLocations
  /\ loop \in {"null", "loop_new"}
  /\ broken \in {"no", "null", "destroyed"}
  /\ task = "none" <=> owner = "fresh"
  /\ owner = "done" => task = "returned"

ThreadInit ==
  /\ Init
  /\ owner = "fresh"
  /\ task = "none"
  /\ loop = "null"
  /\ broken = "no"

-----------------------------------------------------------------------------
(* Task(), on the loop thread. *)

\* The constructor leaves the loop as EventLoop's Init describes it.
ConstructLoop ==
  /\ task = "begin"
  /\ task' = "constructed"
  /\ UNCHANGED <<vars, owner, loop, broken>>

\* Mutant: the waiting owner is not notified.
PublishWithoutNotify ==
  /\ task = "constructed"
  /\ task' = "published"
  /\ loop' = "loop_new"
  /\ UNCHANGED <<vars, owner, broken>>

\* The critical section of Task(): set loop and notify.
PublishLoop ==
  /\ task = "constructed"
  /\ task' = "published"
  /\ loop' = "loop_new"
  /\ owner' = IF owner = "sleep" THEN "wait" ELSE owner
  /\ UNCHANGED <<vars, broken>>

RunLoop ==
  /\ task = "published"
  /\ Loop
  /\ task' = "looping"
  /\ UNCHANGED <<owner, loop, broken>>

\* Loop() has returned: ~EventLoop runs and the thread ends.
TaskReturn ==
  /\ task = "looping"
  /\ pc = "idle"
  /\ task' = "returned"
  /\ UNCHANGED <<vars, owner, loop, broken>>

\* Inside Loop() the thread does what EventLoop says; between Loop() and the
\* rest of Task() it runs no code of the user.
InLoop ==
  /\ task = "looping"
  /\ pc # "idle"
  /\ LoopStep \/ PollElse \/ PollFails \/ Api(LoopThread)
  /\ UNCHANGED threadVars

-----------------------------------------------------------------------------
(* The owner. *)

StartLoop ==
  /\ owner = "fresh"
  /\ task' = "begin"
  /\ owner' = "wait"
  /\ UNCHANGED <<vars, loop, broken>>

\* cond_.wait with its predicate: return with the loop, or release and sleep.
TestLoop ==
  /\ owner = "wait"
  /\ owner' = IF loop # "null" THEN "using" ELSE "sleep"
  /\ UNCHANGED <<vars, task, loop, broken>>

\* Mutant: cond_.wait without a predicate.
WakeupEndsWait ==
  /\ owner = "sleep"
  /\ owner' = "using"
  /\ UNCHANGED <<vars, task, loop, broken>>

SpuriousWakeup ==
  /\ owner = "sleep"
  /\ owner' = "wait"
  /\ UNCHANGED <<vars, task, loop, broken>>

Destroy ==
  /\ owner = "using"
  /\ call[Owner] = "none"
  /\ owner' = "dtor"
  /\ UNCHANGED <<vars, task, loop, broken>>

\* The destructor of an EventLoopThread that was not started: loop is null.
DestroyUnstarted ==
  /\ owner = "fresh"
  /\ loop = "null"
  /\ broken' = "null"
  /\ UNCHANGED <<vars, owner, task, loop>>

LoopAlive == task \in {"constructed", "published", "looping"}

DtorQuit ==
  /\ owner = "dtor"
  /\ LoopAlive
  /\ Quit(Owner)
  /\ owner' = "quitting"
  /\ UNCHANGED <<task, loop, broken>>

DtorQuitReturn ==
  /\ owner = "quitting"
  /\ LoopAlive
  /\ FinishQuit(Owner)
  /\ owner' = "join"
  /\ UNCHANGED <<task, loop, broken>>

\* Mutant: the thread is detached, not joined.
JoinNobody ==
  /\ owner = "join"
  /\ owner' = "done"
  /\ UNCHANGED <<vars, task, loop, broken>>

Join ==
  /\ owner = "join"
  /\ task = "returned"
  /\ owner' = "done"
  /\ UNCHANGED <<vars, task, loop, broken>>

\* What the owner, and the threads it shares the loop with, do meanwhile.
UseLoop(self) ==
  /\ LoopAlive
  /\ \/ owner = "using"
     \/ owner # "fresh" /\ call[self] # "none" /\ self # Owner
  /\ Api(self)
  /\ UNCHANGED threadVars

\* A thread in the middle of a call of the loop, or the destructor about to
\* make one, goes on although the loop is gone.
UseDestroyedLoop(self) ==
  /\ task = "returned"
  /\ call[self] # "none" \/ (self = Owner /\ owner = "dtor")
  /\ broken' = "destroyed"
  /\ UNCHANGED <<vars, owner, task, loop>>

-----------------------------------------------------------------------------
TaskStep == ConstructLoop \/ PublishLoop \/ RunLoop \/ TaskReturn

OwnerStep ==
  TestLoop \/ DtorQuit \/ DtorQuitReturn \/ UseDestroyedLoop(Owner) \/ Join

ThreadNext ==
  /\ broken = "no"
  /\ \/ TaskStep
     \/ InLoop
     \/ StartLoop
     \/ OwnerStep
     \/ SpuriousWakeup
     \/ Destroy
     \/ DestroyUnstarted
     \/ \E self \in Callers : UseLoop(self)
     \/ \E self \in Callers \ {Owner} : UseDestroyedLoop(self)

\* Both threads are scheduled; the loop thread as in EventLoop's WakeupSpec.
\* The owner is free not to start, not to use and not to destroy anything.
ThreadSpec ==
  /\ ThreadInit /\ [][ThreadNext]_allVars
  /\ WF_allVars(broken = "no" /\ TaskStep)
  /\ WF_allVars(broken = "no" /\ task = "looping" /\ pc # "idle"
                /\ (LoopStep \/ FinishCall(LoopThread)) /\ UNCHANGED threadVars)
  /\ WF_allVars(broken = "no" /\ OwnerStep)
  /\ \A t \in Callers :
       WF_allVars(broken = "no" /\ LoopAlive /\ t # Owner
                  /\ FinishCall(t) /\ UNCHANGED threadVars)

-----------------------------------------------------------------------------
(* Safety. *)

\* StartLoop() hands out a loop that is constructed, never null and never the
\* loop of an unfinished constructor, in spite of spurious wakeups
\* (EventLoopThread.cpp lines 19-24, 29-35).
StartLoopReturnsLoop ==
  owner \in {"using", "dtor", "quitting", "join", "done"}
    => loop = "loop_new" /\ task \notin {"none", "begin", "constructed"}

\* The loop goes away only because somebody asked it to quit: until then every
\* pointer handed out is good (EventLoopThread.cpp line 37, EventLoop.cpp 72).
LoopLivesUntilQuit == task = "returned" => quit

\* The inductive invariant behind the two properties above: where the loop is in
\* its life, and what Task(), the member loop and quit say about it.  The loop is
\* published once and for all, Loop() is left with quit set, and nothing clears
\* quit afterwards.
ThreadInv ==
  /\ loop = "loop_new" <=> task \in {"published", "looping", "returned"}
  /\ owner \in {"using", "dtor", "quitting", "join", "done"} => loop = "loop_new"
  /\ task # "looping" => pc = "idle"
  /\ task = "looping" /\ pc = "idle" => quit
  /\ task = "returned" => quit

\* Nobody touches the loop after Task() has destroyed it.
NoUseAfterDestroy == broken # "destroyed"

-----------------------------------------------------------------------------
(* Liveness. *)

\* StartLoop() returns.
StartLoopReturns == owner = "wait" ~> owner = "using"

\* The destructor returns, once the quit it stored found the loop in Loop().
DtorOfRunningLoopReturns ==
  owner = "join" /\ looping /\ quit ~> owner = "done" \/ broken # "no"

\* The destructor returns.
DtorReturns == owner = "dtor" ~> owner = "done" \/ broken # "no"

=============================================================================
