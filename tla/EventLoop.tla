----------------------------- MODULE EventLoop ------------------------------
(***************************************************************************)
(* One EventLoop (reactor/s04/EventLoop.cpp; the s03 copy is identical):   *)
(* the loop thread that polls, dispatches channels and runs the pending    *)
(* functors, and other threads that queue functors and ask it to quit.     *)
(*                                                                         *)
(* A step is one access to state that threads share: pending_functors      *)
(* (under mutex_, so each critical section is one step), quit, and the     *)
(* wakeup eventfd.  quit is read and written without a lock; between two   *)
(* tests of it the loop thread makes system calls and runs callbacks, so   *)
(* no build keeps it in a register across them.  What a channel callback   *)
(* or a functor does is free: any number of calls of QueueInLoop,          *)
(* RunInLoop and Quit.                                                     *)
(***************************************************************************)
EXTENDS Naturals, Sequences, Functions

CONSTANTS
  LoopThread,       \* the thread that constructed the loop (thread_id)
  Callers,          \* the other threads that hold a pointer to the loop
  Functors,         \* submissions: one call of RunInLoop/QueueInLoop each
  Channels,         \* registered channels other than wakeup_channel
  WakeupChannel,    \* wakeup_channel
  EventfdMax        \* greatest value of an eventfd counter (2^64 - 2)

ASSUME ThreadAssumption  == LoopThread \notin Callers
ASSUME ChannelAssumption == WakeupChannel \notin Channels
ASSUME EventfdAssumption == EventfdMax \in Nat \ {0}

Threads == Callers \cup {LoopThread}

VARIABLES
  looping, quit, calling_pending_functors,  \* members of EventLoop
  pending_functors,     \* queued functors, oldest first (guarded by mutex_)
  functors,             \* local of DoPendingFunctors: rest of the batch
  active_channels,      \* local of Loop: channels still to be dispatched
  pc,                   \* where the loop thread is
  call,                 \* per thread, the API call it is in the middle of
  wakeup_fd,            \* kernel: counter of the eventfd
  submitted,            \* history: functors handed to the loop so far
  ran,                  \* history: functors taken off the queue and started
  early                 \* history: functors the loop thread queued outside
                        \*          Loop(), for which nobody is woken

loopVars   == <<looping, calling_pending_functors, functors, active_channels>>
queueVars  == <<pending_functors, submitted, early>>
vars == <<loopVars, queueVars, wakeup_fd, quit, pc, call, ran>>

-----------------------------------------------------------------------------
\* "idle": outside Loop(); "while": about to test quit; "poll": blocked in
\* ::poll; "dispatch": in the loop over active_channels; "callback": inside a
\* channel's callback; "run": in the loop over functors; "functor": inside one.
Locations == {"idle", "while", "poll", "dispatch", "callback", "run", "functor"}
UserCode  == {"idle", "callback", "functor"}

\* "queue": pushed, wakeup not decided yet; "quit": quit set, not woken yet.
Calls == {"none", "queue", "quit"}

\* looping is up from Loop() to its end, and a batch is in hand only under the flag.
TypeOK ==
  /\ looping \in BOOLEAN
  /\ quit \in BOOLEAN
  /\ calling_pending_functors \in BOOLEAN
  /\ pending_functors \in Seq(Functors)
  /\ functors \in Seq(Functors)
  /\ active_channels \subseteq Channels \cup {WakeupChannel}
  /\ pc \in Locations
  /\ call \in [Threads -> Calls]
  /\ wakeup_fd \in 0 .. EventfdMax
  /\ submitted \subseteq Functors
  /\ ran \in Seq(Functors)
  /\ early \subseteq Functors
  /\ looping <=> pc # "idle"
  /\ functors # <<>> => calling_pending_functors

\* A freshly constructed loop: wakeup_channel is registered, nothing happened.
Init ==
  /\ looping = FALSE
  /\ quit = FALSE
  /\ calling_pending_functors = FALSE
  /\ pending_functors = <<>>
  /\ functors = <<>>
  /\ active_channels = {}
  /\ pc = "idle"
  /\ call = [t \in Threads |-> "none"]
  /\ wakeup_fd = 0
  /\ submitted = {}
  /\ ran = <<>>
  /\ early = {}

-----------------------------------------------------------------------------
(* The interface, called by any thread. *)

\* self is running code of the user, so it may call the loop.
CanCall(self) ==
  /\ call[self] = "none"
  /\ self = LoopThread => pc \in UserCode

\* The non-blocking write of 1 fails (and is only logged) at the maximum.
WakeUp ==
  wakeup_fd' = IF wakeup_fd < EventfdMax THEN wakeup_fd + 1 ELSE wakeup_fd

\* First half of QueueInLoop: the push under mutex_.
QueueInLoop(self, f) ==
  /\ CanCall(self)
  /\ f \in Functors \ submitted
  /\ pending_functors' = Append(pending_functors, f)
  /\ submitted' = submitted \cup {f}
  /\ early' = IF self = LoopThread /\ ~looping THEN early \cup {f} ELSE early
  /\ call' = [call EXCEPT ![self] = "queue"]
  /\ UNCHANGED <<loopVars, wakeup_fd, quit, pc, ran>>

\* Mutant: a functor queued by a functor wakes nobody.
FinishQueueFromOthersOnly(self) ==
  /\ call[self] = "queue"
  /\ IF self # LoopThread THEN WakeUp ELSE UNCHANGED wakeup_fd
  /\ call' = [call EXCEPT ![self] = "none"]
  /\ UNCHANGED <<loopVars, queueVars, quit, pc, ran>>

\* Second half: wake the loop unless this thread will get to the queue itself.
FinishQueueInLoop(self) ==
  /\ call[self] = "queue"
  /\ IF self # LoopThread \/ calling_pending_functors
     THEN WakeUp
     ELSE UNCHANGED wakeup_fd
  /\ call' = [call EXCEPT ![self] = "none"]
  /\ UNCHANGED <<loopVars, queueVars, quit, pc, ran>>

\* On the loop thread the functor runs at once, inside the calling code.
RunInLoop(self, f) ==
  \/ /\ self = LoopThread
     /\ CanCall(self)
     /\ f \in Functors \ submitted
     /\ submitted' = submitted \cup {f}
     /\ UNCHANGED <<loopVars, pending_functors, early, wakeup_fd, quit, pc,
                    call, ran>>
  \/ /\ self # LoopThread
     /\ QueueInLoop(self, f)

\* First half of Quit: the store to quit.
Quit(self) ==
  /\ CanCall(self)
  /\ quit' = TRUE
  /\ call' = [call EXCEPT ![self] = IF self = LoopThread THEN "none" ELSE "quit"]
  /\ UNCHANGED <<loopVars, queueVars, wakeup_fd, pc, ran>>

\* Mutant: Quit() stores quit and leaves it at that.
FinishQuitSilently(self) ==
  /\ call[self] = "quit"
  /\ call' = [call EXCEPT ![self] = "none"]
  /\ UNCHANGED <<loopVars, queueVars, wakeup_fd, quit, pc, ran>>

\* Second half, only on other threads.
FinishQuit(self) ==
  /\ call[self] = "quit"
  /\ WakeUp
  /\ call' = [call EXCEPT ![self] = "none"]
  /\ UNCHANGED <<loopVars, queueVars, quit, pc, ran>>

FinishCall(self) == FinishQueueInLoop(self) \/ FinishQuit(self)

Api(self) ==
  \/ \E f \in Functors : QueueInLoop(self, f) \/ RunInLoop(self, f)
  \/ Quit(self)
  \/ FinishCall(self)

-----------------------------------------------------------------------------
(* Loop() on the loop thread. *)

\* Loop() forgets any earlier Quit().  quit is a plain bool, so a build may fold
\* its first test, right after the store, and go to ::poll without it.
Loop ==
  /\ pc = "idle"
  /\ call[LoopThread] = "none"
  /\ looping' = TRUE
  /\ quit' = FALSE
  /\ pc' \in {"while", "poll"}
  /\ UNCHANGED <<calling_pending_functors, functors, active_channels,
                 queueVars, wakeup_fd, call, ran>>

\* Mutant: Loop() returns after one round.
ExitAnyway ==
  /\ pc = "while"
  /\ looping' = FALSE
  /\ pc' = "idle"
  /\ UNCHANGED <<calling_pending_functors, functors, active_channels,
                 queueVars, wakeup_fd, quit, call, ran>>

ExitLoop ==
  /\ pc = "while"
  /\ quit
  /\ looping' = FALSE
  /\ pc' = "idle"
  /\ UNCHANGED <<calling_pending_functors, functors, active_channels,
                 queueVars, wakeup_fd, quit, call, ran>>

EnterPoll ==
  /\ pc = "while"
  /\ ~quit
  /\ active_channels' = {}
  /\ pc' = "poll"
  /\ UNCHANGED <<looping, calling_pending_functors, functors, queueVars,
                 wakeup_fd, quit, call, ran>>

\* ::poll reports the wakeup channel while its counter is positive (level
\* triggered), and others: registered channels with an event.  The order of
\* active_channels is left open: dispatch picks any member.
Poll(others) ==
  /\ pc = "poll"
  /\ active_channels' = others \cup (IF wakeup_fd > 0 THEN {WakeupChannel} ELSE {})
  /\ pc' = "dispatch"
  /\ UNCHANGED <<looping, calling_pending_functors, functors, queueVars,
                 wakeup_fd, quit, call, ran>>

PollWoken == wakeup_fd > 0 /\ \E others \in SUBSET Channels : Poll(others)

\* Mutant: a poll without events skips the pending functors.
PollElseSkipsFunctors ==
  /\ pc = "poll"
  /\ wakeup_fd = 0
  /\ pc' = "while"
  /\ UNCHANGED <<loopVars, queueVars, wakeup_fd, quit, call, ran>>

\* Nobody wrote to the eventfd: other channels have an event, or POLL_TIME_MS
\* elapsed and no channel is active.
PollElse == wakeup_fd = 0 /\ \E others \in SUBSET Channels : Poll(others)

\* ::poll fails, whatever it had to report: the error is logged, no channel is
\* active and the round goes on.
PollFails ==
  /\ pc = "poll"
  /\ pc' = "dispatch"
  /\ UNCHANGED <<loopVars, queueVars, wakeup_fd, quit, call, ran>>

\* The callback of wakeup_channel: reading an eventfd resets it.
HandleRead ==
  /\ pc = "dispatch"
  /\ WakeupChannel \in active_channels
  /\ active_channels' = active_channels \ {WakeupChannel}
  /\ wakeup_fd' = 0
  /\ UNCHANGED <<looping, calling_pending_functors, functors, queueVars,
                 quit, pc, call, ran>>

HandleEvent(ch) ==
  /\ pc = "dispatch"
  /\ ch \in active_channels \cap Channels
  /\ active_channels' = active_channels \ {ch}
  /\ pc' = "callback"
  /\ UNCHANGED <<looping, calling_pending_functors, functors, queueVars,
                 wakeup_fd, quit, call, ran>>

CallbackReturn ==
  /\ pc = "callback"
  /\ call[LoopThread] = "none"
  /\ pc' = "dispatch"
  /\ UNCHANGED <<loopVars, queueVars, wakeup_fd, quit, call, ran>>

\* Mutant: the batch is copied, not swapped out.
CopyPendingFunctors ==
  /\ pc = "dispatch"
  /\ active_channels = {}
  /\ calling_pending_functors' = TRUE
  /\ functors' = pending_functors
  /\ pc' = "run"
  /\ UNCHANGED <<looping, active_channels, queueVars, wakeup_fd, quit, call,
                 ran>>

\* Mutant: the flag is not raised.
SwapWithoutFlag ==
  /\ pc = "dispatch"
  /\ active_channels = {}
  /\ functors' = pending_functors
  /\ pending_functors' = <<>>
  /\ pc' = "run"
  /\ UNCHANGED <<looping, calling_pending_functors, active_channels, submitted,
                 early, wakeup_fd, quit, call, ran>>

\* DoPendingFunctors up to the swap.  calling_pending_functors is read by the
\* loop thread alone, so setting it joins the step of the critical section.
SwapPendingFunctors ==
  /\ pc = "dispatch"
  /\ active_channels = {}
  /\ calling_pending_functors' = TRUE
  /\ functors' = pending_functors
  /\ pending_functors' = <<>>
  /\ pc' = "run"
  /\ UNCHANGED <<looping, active_channels, submitted, early, wakeup_fd, quit,
                 call, ran>>

RunFunctor ==
  /\ pc = "run"
  /\ functors # <<>>
  /\ ran' = Append(ran, Head(functors))
  /\ functors' = Tail(functors)
  /\ pc' = "functor"
  /\ UNCHANGED <<looping, calling_pending_functors, active_channels, queueVars,
                 wakeup_fd, quit, call>>

FunctorReturn ==
  /\ pc = "functor"
  /\ call[LoopThread] = "none"
  /\ pc' = "run"
  /\ UNCHANGED <<loopVars, queueVars, wakeup_fd, quit, call, ran>>

\* Mutant: the flag stays up.
EndWithFlagUp ==
  /\ pc = "run"
  /\ functors = <<>>
  /\ pc' = "while"
  /\ UNCHANGED <<loopVars, queueVars, wakeup_fd, quit, call, ran>>

EndPendingFunctors ==
  /\ pc = "run"
  /\ functors = <<>>
  /\ calling_pending_functors' = FALSE
  /\ pc' = "while"
  /\ UNCHANGED <<looping, functors, active_channels, queueVars, wakeup_fd,
                 quit, call, ran>>

\* The steps the loop thread takes by itself once it is inside Loop().
LoopStep ==
  \/ ExitLoop
  \/ EnterPoll
  \/ PollWoken
  \/ HandleRead
  \/ \E ch \in Channels : HandleEvent(ch)
  \/ CallbackReturn
  \/ SwapPendingFunctors
  \/ RunFunctor
  \/ FunctorReturn
  \/ EndPendingFunctors

Next ==
  \/ \E self \in Threads : Api(self)
  \/ Loop
  \/ LoopStep
  \/ PollElse
  \/ PollFails

Spec == Init /\ [][Next]_vars

\* Threads are scheduled, callbacks and functors return, a call once begun is
\* completed.  No fairness for PollElse: nothing may rely on the 10 s timeout or
\* on other channels; nor is ::poll assumed to succeed.
WakeupSpec ==
  /\ Spec
  /\ WF_vars(LoopStep \/ FinishCall(LoopThread))
  /\ \A t \in Callers : WF_vars(FinishCall(t))

-----------------------------------------------------------------------------
(* Safety. *)

\* A thread other than the loop's is between its shared write and its WakeUp().
CallInFlight(c) == \E t \in Callers : call[t] = c

\* The loop never sleeps on work: while it is blocked in ::poll with nothing
\* written to the eventfd, every queued functor is either one whose caller is
\* still about to write, or one the loop thread queued before Loop() (those
\* wait for the next event or the timeout).  QueueInLoop lines 110-118 against
\* the read of HandleRead and the swap of DoPendingFunctors.
NoLostWakeup ==
  pc = "poll" /\ wakeup_fd = 0 /\ ~CallInFlight("queue")
    => Range(pending_functors) \subseteq early

\* The same for Quit(): a loop blocked in ::poll with quit set is about to be
\* woken or has been.
NoLostQuit ==
  pc = "poll" /\ quit => wakeup_fd > 0 \/ CallInFlight("quit")

\* Leaving Loop() finishes the batch in hand and leaves no flag behind: the
\* next QueueInLoop and the next Loop() find the loop as it was constructed,
\* apart from the functors still queued.
CleanExit ==
  pc = "idle" => /\ ~looping
                 /\ ~calling_pending_functors
                 /\ functors = <<>>
                 /\ active_channels = {}

\* A wakeup event that is dispatched has something to read: HandleRead never
\* gets EAGAIN and never logs its error.
WakeupReadable == WakeupChannel \in active_channels => wakeup_fd > 0

\* The inductive invariant behind the four properties above: which flags go
\* with which place of the loop thread, and, for every functor that somebody
\* must be woken for, who will still get to it - a written eventfd, a caller
\* about to write, the loop thread about to write, or the loop thread on its
\* way to the swap (EventLoop.cpp lines 72-81, 110-118, 164-200).
WorkInv ==
  /\ looping <=> pc # "idle"
  /\ calling_pending_functors <=> pc \in {"run", "functor"}
  /\ functors # <<>> => pc \in {"run", "functor"}
  /\ active_channels # {} => pc \in {"dispatch", "callback"}
  /\ call[LoopThread] # "none" => call[LoopThread] = "queue" /\ pc \in UserCode
  /\ WakeupReadable
  /\ NoLostQuit
  /\ \/ Range(pending_functors) \subseteq early
     \/ wakeup_fd > 0
     \/ CallInFlight("queue")
     \/ call[LoopThread] = "queue" /\ calling_pending_functors
     \/ pc \in {"dispatch", "callback"}

-----------------------------------------------------------------------------
(* Liveness. *)

\* A loop that was asked to quit stops, without help from the poll timeout.
QuitStopsLoop == looping /\ quit ~> ~looping

\* A functor queued in a way that wakes the loop is run unless the loop is
\* asked to quit first, without help from the poll timeout.
QueuedFunctorRuns ==
  \A f \in Functors :
    looping /\ f \in Range(pending_functors) \ early
      ~> f \in Range(ran) \/ quit

-----------------------------------------------------------------------------
(* Refinement. *)

FQ == INSTANCE FunctorQueue
        WITH queue <- functors \o pending_functors,
             serving <- looping /\ ~quit

\* Taking batches and waking the loop implement the serial executor: queued
\* functors run one by one, in order, none twice, none skipped, across batches,
\* wakeups and re-entered loops (QueueInLoop, DoPendingFunctors).
ImplementsFunctorQueue == FQ!Spec

\* If the timeout of ::poll does fire, every queued functor's turn comes as long
\* as the loop keeps serving, those queued before Loop() included.
ServesItsQueue == WF_vars(PollElse) => FQ!KeepsMoving

=============================================================================
