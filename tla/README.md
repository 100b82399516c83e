# A verification of the reactor

TLA+ models of the reactor in `src/reactor/s04` (an event loop per thread in the
style of muduo) and of the logging it uses, checked with TLC and, where stated,
proved with TLAPS. `src/reactor/s03` is an earlier stage of the same code; the
files the two have in common are identical, so everything said here of
`EventLoop`, `EventLoopThread`, `TimerQueue`, `Poller` and `Channel` holds of both.

## The system

| Component | State | Operations | Interacts with |
|---|---|---|---|
| `EventLoop` | `looping`, `quit`, `calling_pending_functors`, `pending_functors` under `mutex_`, the wakeup eventfd | `Loop`, `Quit`, `RunInLoop`, `QueueInLoop`, `RunAt/After/Every`, `UpdateChannel` | polls through `Poller`, calls `Channel`s, owns a `TimerQueue`; called by any thread |
| `EventLoopThread` | `loop`, a thread, a mutex and a condition variable | constructor, `StartLoop`, destructor | runs an `EventLoop` that is a local variable of `Task()` |
| `TimerQueue`, `Timer`, `TimerId` | the ordered set of (time, timer), the timerfd | `AddTimer`, `HandleRead` | adds through `EventLoop::RunInLoop`; its channel is dispatched by the loop; callbacks add timers |
| `Poller` | `poll_fds`, `channels` | `Poll`, `UpdateChannel` | fills the loop's list of active channels |
| `Channel` | `fd_`, `events_`, `revents_`, `index`, callbacks | `EnableReading`, `HandleEvent` | registers with its loop's `Poller` |
| `Acceptor`, `Socket`, `SocketsOps` | `listening`, the listening descriptor, `conn_cb` | `Listen`, `HandleRead`, `accept`, `close` | a `Channel` of the loop, the kernel's backlog, the user's callback |
| `LogStream`, `FixedBuffer` | a fixed array and a cursor | `operator<<`, `Append`, `FormatInteger` | used by `Logger` |
| `Logger` | per record a stream; per thread `t_time`, `t_lastSecond`; global level and output | the `LOG_` macros, destructor | called by everything |
| `TimeStamp`, `Thread`, `InetAddress`, `NonCopyable`, `Callbacks` | values | conversions | see "Not modelled" |

What is hard in it:

- other threads push functors and quit while the loop is anywhere between two
  polls; the wakeup is decided from a flag and a thread id, after the lock is
  released;
- `quit` is a plain `bool`; `Loop()` clears it when it starts;
- the loop of an `EventLoopThread` lives on the stack of a thread whose end is
  decided by whoever calls `Quit()`;
- timer callbacks add timers while the expired ones are in a local vector;
  expirations are on a clock that may be set, the timerfd is not;
- callbacks register channels in the middle of a round, and nothing ever removes
  one;
- fixed-size buffers into which texts and numbers go under different tests;
- a text of the time kept per thread while records nest and the clock moves.

What makes each component correct is what its module's properties say; they are
listed with the runs below and, per line of the code, under `hazards` in
`PROJECT.json`.

## The modules

Each module begins with what it models. Variables have the names of the members
and locals they stand for; `pc` is where the loop thread is; variables marked
"history" exist for the properties only, those marked "kernel" stand for what
the system calls see.

| Module | Models | How it corresponds |
|---|---|---|
| `FunctorQueue` | what `QueueInLoop` promises: a serial executor | `Submit`, `RunNext`, and a flag `serving` |
| `EventLoop` | `EventLoop.cpp` | one action per access to state that threads share: the push and the wakeup of `QueueInLoop` are two steps, so are the store and the wakeup of `Quit`; `DoPendingFunctors` is the swap, one step per functor, and the end. A callback or functor is a state in which the loop thread may call the interface any number of times |
| `EventLoopThread` | `EventLoopThread.cpp`, on top of `EventLoop` | EXTENDS `EventLoop`; `ThreadNext` lets the loop move only where `Task()` has got to. Undefined behaviour sets `broken` and the model stops |
| `TimerService` | what `RunAt`, `RunAfter` and `RunEvery` promise | `Add`, `Run` of a timer past its time, and `ReadClock`; a timer waits, or has run for the last time |
| `TimerQueue` | `TimerQueue.cpp`, `Timer.h` and `EventLoop::RunAt/After/Every` | `HandleRead` up to the first callback, one step per callback and its return, `Reset`. `AddTimer` off the loop thread is the queued functor and, apart from it, the return of the frame it refers to |
| `Reactor` | the loop with its timer queue: one round of polling, `TimerQueue::HandleRead`, other channels and functors, and every thread that adds timers, queues and quits | EXTENDS `EventLoop`, with an INSTANCE of `TimerQueue`; an action is one action of each, or of one while the other stands still. It adds what the two leave open: which channels `::poll` reports, the order of dispatch, and that the functor of `AddTimer` goes through the loop's queue |
| `Poller` | `Poller.cpp`, `Channel.cpp` | `Poll` computes what `::poll` stores and folds the scan of `FillActiveChannels` over it, `PollFails` is its error branch; `HandleEvent` and its callbacks are separate steps so that a callback can register channels |
| `Acceptor` | `Acceptor.cpp` and what it calls of `Socket.cpp` and `SocketsOps.cpp` | the socket is created, bound and made to listen in steps that may each end the process; the result of `::accept` is chosen among what the backlog and the table of descriptors allow. An accepted connection is in hand until `conn_cb` is called or it is closed; a failed call passes through the record that logs it to the switch on errno, which decides between return and `LOG_FATAL` |
| `FixedBuffer` | `FixedBuffer`, `convert`, `convertHex` | operators on a buffer and recursive functions for the digit loops, with a definition of what a numeral means |
| `LogStream` | one `LogStream` | one action per family of `operator<<` |
| `Logging` | `Logging.cpp` | a record is a sequence of pieces, each appended as the code appends it, whole or not at all; a stack of Loggers per thread; the destructor is output, flush and abort as separate steps, since other threads run in between |

`MC*` modules only give TLC its constants; `*_proofs` modules hold the theorems.
Definitions preceded by a comment "Mutant" are plausible mistakes; each is used
to show that a property can fail, and none is part of a specification.

### Abstractions

- A functor, a timer, a channel, a connection and a text are model values or
  short sequences. What callbacks of users do is left free, except that they
  return and do not throw.
- What `::poll` reports is free in `EventLoop`: the wakeup channel while its counter is
  positive, and any of the others. Active channels are a set and dispatched in any
  order. `Poller` has the order, of registration (`InOrder`), and `Reactor` takes it
  from there (`Turn`): the timer queue's channel first, then the wakeup channel, then
  the user's.
- `::poll` may fail in every round, whatever is ready (`PollFails`): the list of active
  channels stays empty and the round goes on. `HandleEvent` calls the error callback,
  then the one that reads.
- Functions that must run on the loop's thread are called there; the abort of
  `AssertInLoopThread` is not modelled.
- `TimerQueue::HandleRead` is possible only while the timerfd is readable.
  `Reactor` shows where this comes from (`TimerReadable`).
- The members `revents` of the pollfds are written and read within one `Poll` and are
  no state between steps.
- `quit` is read and written without synchronisation. Between two tests of it the
  loop thread makes system calls, so a build cannot keep it in a register for
  longer; it can fold the first test after `quit = false`, and `Loop` allows both.
- `UpdateChannel` of a channel with no events stores -1 in its pollfd; the branch is
  in the model and never taken, as nothing disables a channel.
- In `TimerQueue` time is counted in ticks and `MinDelay` stands for the 100 ms of
  `TimeSinceNow`. `Tick` moves both clocks, `SetClock` the system clock alone. At
  `MaxClock` the system clock stands, and the timerfd still counts down, so that the
  end of an instance loses no timer that is armed.
- The run of `LogStream` has integers of eight bits and a `MAX_NUMERIC_SIZE` scaled
  with them, so tightly that the widest numeral and its NUL just fit. The proofs are
  for any width, and `NumeralsFit` is about the 64 bits and the 32 bytes of the code.
- `FixedBuffer::Append` takes an `int` and is given a `size_t`. `AppendText` narrows the
  length (`ToInt`); a negative one passes the test and leaves the buffer overrun. In
  the code that takes a text of 2 GiB. Texts of the runs are shorter than `IntMax`, and
  what is proved of the buffer has this as a premise (`PiecesFitInt` in `LogStream`,
  `LoggingAssumption` for the texts a record is made of).
- `errno` is a variable of `Acceptor`: a failed `::accept` sets it, and the record that
  logs the failure may leave anything in it. `"EOTHER"` is any errno of the switch's
  default case. A `::close` that fails is logged and changes nothing.
- In `Logging` a field of fixed width is one character. The clock has left 1970:
  `t_lastSecond` starts at 0, and at that very second `t_time` would be empty.

## The runs

| Run | Shows | Instance |
|---|---|---|
| `EventLoop_wakeups` | the loop never sleeps on a functor or a quit that somebody woke it for; it stops clean; a quit stops the loop and a queued functor runs although the poll timeout is not fair; the loop implements `FunctorQueue`, and serves its queue if the timeout is fair | two callers and the loop thread, three functors, one channel, an eventfd that is full at 2 |
| `EventLoopThread_handover` | `StartLoop` returns, and a live loop, whatever the wakeups; the loop goes away only after a quit; the destructor returns if its quit found the loop in `Loop()` | owner and one more thread, two functors, one channel |
| `EventLoopThread_dtor` | **violated**: the destructor always returns | owner alone |
| `EventLoopThread_destroyed` | **violated**: nobody uses the loop after it is destroyed | owner, one functor |
| `TimerQueue_timers` | no timer is lost, however the clock is set; the timerfd is in time while nobody sets it; the set stays ordered; the queue implements `TimerService`, so timers are kept as long as they have runs to come, run after their time and once for every time they are due | one timer that repeats and one that does not, added in and between callbacks and by another thread, times in the past and future, the clock set once |
| `TimerQueue_dangling` | **violated**: a functor queued by `AddTimer` finds its timer | one timer, one caller |
| `Reactor_rounds` | the timerfd a round found readable is readable when its turn comes; the timer queue inside the loop behaves as `TimerQueue` says; timers that are due run, however busy the loop is, without the poll timeout | the loop thread and a caller, a functor, a repeating timer and one that runs once, a channel of the user |
| `Poller_rounds` | the array, the map and the channels agree; a round is in order and finds all that is ready; a readable channel is read, next to one that spins on POLLHUP and also when an error comes with the input | three channels on three descriptors, registered at any moment; one has the error callback and the read callback set, two only the latter; polls that fail |
| `Acceptor_accept` | descriptors are the user's or closed; connections are given in the order they arrived; expected errors are survived; the backlog drains | three connections, three descriptors, one of them the listening socket's, errors of every case of the switch |
| `LogStream_values` | no byte is written outside the buffer; a number is written as its canonical numeral, whole or not at all | six bytes, all 256 values of both eight-bit types, texts and doubles |
| `Logging_safety` | stamps are those of the record, line ends are kept, a FATAL record is flushed before abort | two threads, nesting 2, two seconds in either order |
| `Logging_tid` | **violated**: the thread id fits its field | a thread id of six digits |

The violated properties are the findings of `PROJECT.json`, each with the line it
contradicts:

1. `EventLoop::Loop` clears a `Quit()` that came between `StartLoop` and `Loop`, and
   the destructor of `EventLoopThread` then never returns.
2. That destructor calls `Quit()` on the loop even if an earlier `Quit()`, as in
   `test6.cpp`, has already ended and destroyed it.
3. `TimerQueue::AddTimer` off the loop thread queues a functor that captures a local
   variable by reference.
4. `Logger::Impl` asserts that a thread id has at most five digits.

Three constants describe programs and builds that the passing runs leave out. TLC
finds a property violated with the other value:

- `MayDestroy = TRUE` (`Poller`): a registered channel is destroyed with its descriptor. Nothing
  removes it from the poller, so `NewFdIsUnknown`, the assertion at `Poller.cpp:66`,
  fails for the next channel that gets the same descriptor. No program of the
  repository does this.
- `VALGRIND = TRUE` (`Acceptor`): `sockets::accept` reads `errno` after `fcntl(-1)` has
  overwritten it, and an expected error ends the process (`SurvivesExpectedErrors`).
  The default build does not define it.
- an `IntMax` below the length of a text (`LogStream`): the length `Append` is told is
  negative, and `StaysInside` fails.

### Bounds

Every bound is a constant of the module and appears in a guard; none is in the
code. Two callers are enough for a wakeup of one to be consumed while the other
is between its push and its write; three functors let one be in the batch, one
queued and one be queued from a functor; an eventfd that is full at 2 makes the
failed write happen. Two timers let one be in the set, or queued, while the other
is expired or being restarted, and `MaxClock` lets the repeating one run more than
twice. In `Reactor` they are the same two, so that one is added by a functor or by
another thread while the other is in the middle of `HandleRead`.
Three channels let one be registered while the other two are in the list.
Six bytes hold the widest numeral and its NUL after an empty or a one-byte text
and not after more, so every number is written and dropped. Two Loggers on a
thread are the least that nest. `MaxSet`, `MaxOthers`, `MaxRecords` and
`MaxNesting` bound how often the environment does what it may do any number of times.

`CHECK_DEADLOCK FALSE` is given where the system really stops: an
`EventLoopThread` that is destroyed, an instance whose clock has ended, a process
ended by `abort`.

### Fairness

`WakeupSpec` is weakly fair to the loop thread inside `Loop()` and to each caller in
the middle of a call: threads are scheduled, callbacks return. It is not fair to
`PollElse`, so `QuitStopsLoop` and `QueuedFunctorRuns` do not rest on the 10 s
timeout; `ServesItsQueue` has fairness of `PollElse` as its premise, since a functor
the loop thread queues before `Loop()` does wait for it. Nothing is assumed of
arrivals on channels or of new calls. `ReactorSpec` has the same fairness, and time
passes; a poll that finds neither the timerfd nor the eventfd readable is not fair, so
`TimersRun` does not rest on the timeout either. `PollFails` is never fair. `Reactor`
and `Poller` are strongly fair to a `::poll` that succeeds, which fails for a signal
and not for ever; `EventLoop` needs no such assumption, because a round whose poll
failed still tests `quit` and runs the functors. In
`EventLoopThread` both threads are scheduled and the owner need not do anything it
is free not to do; spurious wakeups are possible and not assumed. For
the rest `Poller` is fair to the loop only. `Acceptor` is strongly fair to an accept that succeeds, for it is
possible again and again and `::accept` does not fail for ever on its own account,
and to the user closing the connections it was given, without which a full table
of descriptors stays full.

## The theorems

Proved for all values of the constants, under the assumptions named in the
modules (`ThreadAssumption`, `ChannelAssumption`, `EventfdAssumption`,
`OwnerAssumption`, `TimerThreadAssumption`, `TimerAssumption`, `DelayAssumption`,
`ReactorAssumption`, `ReactorTimerAssumption`, `PollerAssumption`,
`AcceptorAssumption`, `BufferAssumption`, `StreamAssumption`, `LoggingAssumption`): the loop thread is not among the callers, the wakeup channel
is not an ordinary one, sizes and delays are positive, the clock is past 1970,
numerals are shorter than `MAX_NUMERIC_SIZE`, and the buffer and the texts of a record
are no longer than the largest `int`.

- `EventLoop_proofs`. `NoLostWakeup` is not inductive: whether the loop may sleep
  depends on what other threads are about to do and on the flag that decides the
  wakeup. `WorkInv` adds which flags go with which place of the loop thread and,
  for functors somebody must be woken for, who is still to get to them: a written
  eventfd, a caller about to write, the loop thread about to write from a functor,
  or the loop thread on its way to the swap. From it follow `NoWakeupIsLost`,
  `NoQuitIsLost`, `LoopExitsClean` and `WakeupIsReadable`. `RunsFunctorsInOrder` is
  the refinement: the executor's queue is the rest of the batch followed by
  `pending_functors`, the swap is a stutter because the batch is empty there.
- `EventLoopThread_proofs`. Every step of the composition is a step of `EventLoop` or
  leaves it alone (`ThreadRunsAnEventLoop`), so the theorems above hold of it (`ThreadLoopHolds`).
  `ThreadInv` ties the life of the loop to the member `loop` and to `quit`.
- `TimerQueue_proofs`. `TimerInv` adds to its three properties that nothing is expired
  outside `HandleRead`, and that a timer of time 0, for which `Reset` does not arm the
  timerfd, has armed it when it was inserted. `TimersRunApart` is an action property
  and rests on `RunInv`: a timer that ran waits for its interval after that run.
  `TimersAreKept` follows from the same invariant with where each added timer is: in
  the set, expired, or queued as a functor. `ServesTimers` is the refinement of
  `TimerService`. Its `waiting` is read off where the queue keeps a timer, so that a
  timer dropped or kept once too often would be a step the service does not have; that
  this agrees with what the timer has done (`WaitingInv`) is `KeptWhileNeeded` again. A
  repeating timer is due anew from its callback on, although `Reset` writes the time
  down only at the end of the round. The two weaker properties `RunsApart` and
  `KeptWhileNeeded` are theorems and in no run.
- `Reactor_proofs`. Every step is a step of `EventLoop` or leaves it alone
  (`ReactorRunsAnEventLoop`). `TimerfdIsReadable`: only the timer queue arms the
  timerfd, and only user code, which has no turn between the poll and `HandleRead`,
  makes it do so. With that every step is a step of `TimerQueue` or leaves it alone
  (`ReactorRunsATimerQueue`), the functor of `AddTimer` being the head of both queues.
  So the theorems about the two modules hold of the loop with its timers: `LoopHolds`,
  `TimersHold` and `ReactorServesTimers`. The latter two take the theorems of
  `TimerQueue_proofs` over an INSTANCE of it (`TP`), and the lemmas `Same...` say that
  its definitions are those of `Reactor`'s own instance `TQ`. `ReactorTypeCorrect` needs
  that the functors of `AddTimer` in the loop's queue are those the timer queue waits
  for, in the same order (`QueuedAddsInv`), and how the selection `AddsOf` changes when
  the queue grows at its end or shrinks at its head.
- `Poller_proofs`. `PollerConsistent` is not inductive: `RegistryInv` adds that live
  channels have open descriptors, each its own, and that registered channels have
  places in the array, each its own, those that were destroyed included.
  `NewDescriptorsAreUnknown` has `~MayDestroy` as its premise, and needs it. So do
  `RoundsAreInOrder` and `RoundsFindAll`: places in the array are the channels' indices
  (`PlacesAreIndices`), the scan of `FillActiveChannels` up to an entry has collected
  exactly the channels ::poll marked up to there, in their order, and has counted down
  by as many, so it stops only when none is left.
- `Acceptor_proofs`. `DescriptorsAreUsers` rests on `ConnInv`: a connection that arrived
  waits, once, or was given, and never both. `NobodyIsOvertaken` adds that the backlog
  is in the order of arrival and all that were given came before all that wait
  (`OrderInv`). `ExpectedErrorsAreSurvived` is for the default build and
  rests on `ErrnoInv`: until the failure is logged errno is what `::accept` returned,
  and from then on the saved copy is, while errno itself may be anything.
- `Logging_proofs`. A buffer that is appended to keeps its first character and what it
  holds (`AppendExtends`, `NumericExtends`), so the stamp of a record is the text of
  the second `Header` wrote (`HeaderIs`), and what `Finish` drops did not fit
  (`FinishIs`). `LogInv` adds that `t_time` and `t_lastSecond` agree, which is why the
  text is never stale, and that a thread gets to `abort()` by way of a FATAL record in
  the output and then among what was flushed.
- `LogStream_proofs`. The cursor never reaches the end of the array: `Append` keeps a
  byte free, and a conversion has room for `MAX_NUMERIC_SIZE`. `WritesStayInside` and
  `WholeItemsAdded` have the premise that texts fit an `int` (`PiecesFitInt`): without
  it the first is false of the code. `WholeItemsAdded` is an
  action property: the text an `operator<<` adds is the canonical numeral of its
  argument, whole. That is a fact about the digit loops (`DecimalIs`, `HexadecimalIs`),
  for every integer and every address, negative ones included, whose digits come from
  C's remainder and the mirrored table. `NumeralsFit` discharges, for the code's types
  and its 32 bytes, what `StreamAssumption` asks of `MAX_NUMERIC_SIZE`.

Some of these are inductions over data: the digit loops, the scan of
`FillActiveChannels`, the selection `AddsOf`. TLA+ defines a recursive function with
CHOOSE, so each begins with the existence of a function that satisfies the equation,
built up to n by extending the one up to n - 1. The induction is `SetInduction`, a
lemma about a set of numbers, which follows from the well-foundedness of < and is
stated again in each module that needs it.

The inductive invariants (`WorkInv`, `ThreadInv`, `TimerInv`, `RunInv` and those of the
proof modules) are not properties of a run of their own; their consequences are.

Every invariant and every safety action property of a passing run is a theorem. Only
model-checked are the properties that need fairness and ENABLED: `QuitStopsLoop`,
`QueuedFunctorRuns`, `ServesItsQueue`, `StartLoopReturns`, `DtorOfRunningLoopReturns`,
`TimersRun`, `ReadableIsRead` and `BacklogDrains`.

## Not modelled

- `InetAddress`, socket options and `Thread` are thin wrappers of libc without state
  that matters here. `TimeStamp` is a number; its formatting is not modelled.
- `TimerId` is never used. The write callback of a channel cannot be enabled.
- `SetOutput` and `SetFlush` are for a program's start.
- Callbacks and functors do not throw, and a thread has one loop.
- Resources are created and given back outside the models: the failures of
  `eventfd` and `timerfd_create` end the process before there is a loop.
- The test programs and build files are clients.

## The plan

In this order, the most important first:

1. *done* `FunctorQueue`, `EventLoop` and its proofs; `EventLoopThread` on top of it.
2. *done* `TimerQueue` and its proofs.
3. *done* `Poller` with `Channel`; `Acceptor`.
4. *done* `FixedBuffer`, `LogStream`, `Logging`.
5. *done* `Reactor`, shown to take the steps of `EventLoop` and to implement
   `TimerQueue`, with liveness of timers; `Poller`'s runs made one larger one.
6. *done* Theorems about `Reactor`, `Poller`, `Acceptor` and `Logging`.
7. *done* `TimerService`, the abstract timer service, implemented by `TimerQueue` and with it
   by `Reactor`; connections given in the order they arrived; the order and the
   completeness of `Poller`'s rounds, what the conversions compute, and the types of
   `Reactor` as theorems.
8. A clock of `TimerQueue` relative to its first timer, in place of `MaxClock`, so that
   timers run for ever in the run too.
9. `Poller` in place of the free `Poll` of `Reactor`, so that the order of dispatch is
   derived in the composition and not taken over from `InOrder`.
