------------------------------- MODULE Poller -------------------------------
(***************************************************************************)
(* Poller and Channel (reactor/s04/Poller.cpp, Channel.cpp) of one loop:   *)
(* the array given to ::poll, the map from descriptors to channels, the    *)
(* list of active channels of a round and their callbacks, which may       *)
(* construct, enable and read other channels in the middle of the round.   *)
(*                                                                         *)
(* Everything here runs on the loop thread; the kernel decides what a      *)
(* descriptor has to report.  There is no operation that removes a channel *)
(* or disables it, in the code or here.                                    *)
(***************************************************************************)
EXTENDS Integers, Sequences, FiniteSets

CONSTANTS
  Channels,        \* Channel objects, each constructed at most once
  NoChannel,
  Fds,             \* file descriptors
  Callbacks,       \* per channel, the callbacks that are set
  Conditions,      \* per descriptor, what it may have to report: sets of Events
  MayDestroy       \* whether registered channels are destroyed before the loop

\* POLLIN and POLLPRI are one event; nothing asks for POLLOUT or POLLRDHUP.
Events == {"in", "err", "hup", "nval"}

ASSUME PollerAssumption ==
  /\ NoChannel \notin Channels
  /\ Fds \subseteq Nat
  /\ Callbacks \in [Channels -> SUBSET {"error", "read"}]
  /\ Conditions \in [Fds -> SUBSET SUBSET {"in", "err", "hup"}]
  /\ MayDestroy \in BOOLEAN

VARIABLES
  life,                     \* per channel: "unborn", "alive" or "dead"
  fd_, events_, revents_, index,   \* members of each Channel
  poll_fds, channels,       \* members of Poller
  active_channels,          \* local of Loop: the rest of the list
  pc,                       \* where the loop thread is
  current,                  \* the channel whose HandleEvent is running
  callbacks,                \* the callbacks it still has to call
  open,                     \* kernel: open descriptors
  condition                 \* kernel: what each of them has to report

channelVars == <<life, fd_, events_, revents_, index>>
pollerVars  == <<poll_fds, channels>>
loopVars    == <<active_channels, pc, current, callbacks>>
kernelVars  == <<open, condition>>
vars == <<channelVars, pollerVars, loopVars, kernelVars>>

NoFd == -1

\* revents is only written and read within Poll().
PollFd == [fd : Fds \cup {NoFd}, events : SUBSET Events]

\* "user": code of the user outside callbacks (before Loop(), functors);
\* "poll": in Poll; "dispatch": between two channels; "handle": in HandleEvent,
\* between two callbacks; "error", "read": in that callback.
TypeOK ==
  /\ life \in [Channels -> {"unborn", "alive", "dead"}]
  /\ fd_ \in [Channels -> Fds \cup {NoFd}]
  /\ events_ \in [Channels -> SUBSET Events]
  /\ revents_ \in [Channels -> SUBSET Events]
  /\ index \in [Channels -> Nat \cup {-1}]
  /\ poll_fds \in Seq(PollFd)
  /\ channels \in [Fds -> Channels \cup {NoChannel}]
  /\ active_channels \in Seq(Channels)
  /\ pc \in {"user", "poll", "dispatch", "handle", "error", "read"}
  /\ current \in Channels \cup {NoChannel}
  /\ callbacks \in Seq({"error", "read"})
  /\ open \subseteq Fds
  /\ condition \in [Fds -> SUBSET Events]

Init ==
  /\ life = [ch \in Channels |-> "unborn"]
  /\ fd_ = [ch \in Channels |-> NoFd]
  /\ events_ = [ch \in Channels |-> {}]
  /\ revents_ = [ch \in Channels |-> {}]
  /\ index = [ch \in Channels |-> -1]
  /\ poll_fds = <<>>
  /\ channels = [f \in Fds |-> NoChannel]
  /\ active_channels = <<>>
  /\ pc = "user"
  /\ current = NoChannel
  /\ callbacks = <<>>
  /\ open = {}
  /\ condition = [f \in Fds |-> {}]

-----------------------------------------------------------------------------
(* Channels, used by code of the user on the loop thread. *)

UserCode == pc \in {"user", "error", "read"}

\* A channel for a new descriptor: the kernel hands out the lowest free one.
Construct(ch, f) ==
  /\ UserCode
  /\ life[ch] = "unborn"
  /\ f \in Fds \ open
  /\ \A g \in Fds \ open : f <= g
  /\ open' = open \cup {f}
  /\ condition' = [condition EXCEPT ![f] = {}]
  /\ life' = [life EXCEPT ![ch] = "alive"]
  /\ fd_' = [fd_ EXCEPT ![ch] = f]
  /\ UNCHANGED <<events_, revents_, index, pollerVars, loopVars>>

\* Mutants: the channel does not learn its index; its index is one too high; the
\* map does not learn the channel.
UpdateWithoutIndex(ch, events) ==
  /\ poll_fds' = Append(poll_fds, [fd |-> fd_[ch], events |-> events])
  /\ channels' = [channels EXCEPT ![fd_[ch]] = ch]
  /\ UNCHANGED index

UpdateIndexTooHigh(ch, events) ==
  /\ index[ch] < 0
  /\ poll_fds' = Append(poll_fds, [fd |-> fd_[ch], events |-> events])
  /\ index' = [index EXCEPT ![ch] = Len(poll_fds) + 1]
  /\ channels' = [channels EXCEPT ![fd_[ch]] = ch]

UpdateWithoutMap(ch, events) ==
  /\ index[ch] < 0
  /\ poll_fds' = Append(poll_fds, [fd |-> fd_[ch], events |-> events])
  /\ index' = [index EXCEPT ![ch] = Len(poll_fds)]
  /\ UNCHANGED channels

\* Poller::UpdateChannel with the new events of the channel.  An existing pollfd
\* keeps its place; -1 makes ::poll skip it.
UpdateChannel(ch, events) ==
  IF index[ch] < 0
  THEN /\ poll_fds' = Append(poll_fds, [fd |-> fd_[ch], events |-> events])
       /\ index' = [index EXCEPT ![ch] = Len(poll_fds)]
       /\ channels' = [channels EXCEPT ![fd_[ch]] = ch]
  ELSE /\ poll_fds' = [poll_fds EXCEPT ![index[ch] + 1] =
                         [fd |-> IF events = {} THEN NoFd ELSE @.fd,
                          events |-> events]]
       /\ UNCHANGED <<index, channels>>

EnableReading(ch) ==
  /\ UserCode
  /\ life[ch] = "alive"
  /\ events_' = [events_ EXCEPT ![ch] = @ \cup {"in"}]
  /\ UpdateChannel(ch, events_'[ch])
  /\ UNCHANGED <<life, fd_, revents_, loopVars, kernelVars>>

\* The owner of the channel closes the descriptor and destroys the channel; the
\* poller is not told.
Destroy(ch) ==
  /\ UserCode
  /\ life[ch] = "alive"
  /\ MayDestroy \/ index[ch] < 0
  /\ current # ch
  /\ life' = [life EXCEPT ![ch] = "dead"]
  /\ open' = open \ {fd_[ch]}
  /\ UNCHANGED <<fd_, events_, revents_, index, pollerVars, loopVars, condition>>

-----------------------------------------------------------------------------
(* One round of Loop(). *)

EnterPoll ==
  /\ pc = "user"
  /\ active_channels' = <<>>
  /\ pc' = "poll"
  /\ UNCHANGED <<channelVars, pollerVars, current, callbacks, kernelVars>>

\* What ::poll stores in revents.
Revents(pfd) ==
  IF pfd.fd = NoFd THEN {}
  ELSE IF pfd.fd \notin open THEN {"nval"}
  ELSE condition[pfd.fd] \cap (pfd.events \cup {"err", "hup"})

\* Mutants of the body of the loop below: the countdown takes every pollfd for an
\* event; the list is filled from the front.
FillCountingAll(found, f, revents) ==
  IF found.left <= 0 \/ revents = {}
  THEN [found EXCEPT !.left = @ - 1]
  ELSE [left    |-> found.left - 1,
        active  |-> Append(found.active, channels[f]),
        revents |-> [found.revents EXCEPT ![channels[f]] = revents]]

FillFromFront(found, f, revents) ==
  IF found.left <= 0 \/ revents = {}
  THEN found
  ELSE [left    |-> found.left - 1,
        active  |-> <<channels[f]>> \o found.active,
        revents |-> [found.revents EXCEPT ![channels[f]] = revents]]

\* The body of the loop of FillActiveChannels: found holds what is left of
\* num_events, the list so far, and the revents_ of the channels.
Fill(found, f, revents) ==
  IF found.left <= 0 \/ revents = {}
  THEN found
  ELSE [left    |-> found.left - 1,
        active  |-> Append(found.active, channels[f]),
        revents |-> [found.revents EXCEPT ![channels[f]] = revents]]

FillActiveChannels(reported, num_events) ==
  LET Filled[i \in 0 .. Len(poll_fds)] ==
        IF i = 0
        THEN [left |-> num_events, active |-> <<>>, revents |-> revents_]
        ELSE Fill(Filled[i - 1], poll_fds[i].fd, reported[i])
  IN Filled[Len(poll_fds)]

\* ::poll returns the number of pollfds with something to report; with none it
\* returns after the timeout.
Poll ==
  /\ pc = "poll"
  /\ LET reported == [i \in DOMAIN poll_fds |-> Revents(poll_fds[i])]
         filled == FillActiveChannels(reported,
                     Cardinality({i \in DOMAIN poll_fds : reported[i] # {}}))
     IN /\ active_channels' = filled.active
        /\ revents_' = filled.revents
  /\ pc' = "dispatch"
  /\ UNCHANGED <<life, fd_, events_, index, pollerVars, current, callbacks,
                 kernelVars>>

\* ::poll fails, whatever there is to report: the error is logged, the list stays
\* empty and the round goes on.
PollFails ==
  /\ pc = "poll"
  /\ pc' = "dispatch"
  /\ UNCHANGED <<channelVars, pollerVars, active_channels, current, callbacks,
                 kernelVars>>

\* Mutant: a channel with an error is not read.
CalledErrorElseRead(ch, revents) ==
  IF revents \cap {"err", "nval"} # {} /\ "error" \in Callbacks[ch] THEN <<"error">>
  ELSE IF "in" \in revents /\ "read" \in Callbacks[ch] THEN <<"read">>
  ELSE <<>>

\* The callbacks HandleEvent calls, in its order.
Called(ch, revents) ==
  (IF revents \cap {"err", "nval"} # {} /\ "error" \in Callbacks[ch]
   THEN <<"error">> ELSE <<>>)
  \o
  (IF "in" \in revents /\ "read" \in Callbacks[ch] THEN <<"read">> ELSE <<>>)

HandleEvent ==
  /\ pc = "dispatch"
  /\ active_channels # <<>>
  /\ current' = Head(active_channels)
  /\ active_channels' = Tail(active_channels)
  /\ callbacks' = Called(current', revents_[current'])
  /\ pc' = "handle"
  /\ UNCHANGED <<channelVars, pollerVars, kernelVars>>

\* A callback may take what its descriptor has to report, or leave it.
CallBack ==
  /\ pc = "handle"
  /\ callbacks # <<>>
  /\ callbacks' = Tail(callbacks)
  /\ condition' \in {condition, [condition EXCEPT ![fd_[current]] = {}]}
  /\ pc' = Head(callbacks)
  /\ UNCHANGED <<channelVars, pollerVars, active_channels, current, open>>

CallbackReturn ==
  /\ pc \in {"error", "read"}
  /\ pc' = "handle"
  /\ UNCHANGED <<channelVars, pollerVars, active_channels, current, callbacks,
                 kernelVars>>

HandleEventReturn ==
  /\ pc = "handle"
  /\ callbacks = <<>>
  /\ current' = NoChannel
  /\ pc' = "dispatch"
  /\ UNCHANGED <<channelVars, pollerVars, active_channels, callbacks, kernelVars>>

\* The list is done; the pending functors are next.
EndRound ==
  /\ pc = "dispatch"
  /\ active_channels = <<>>
  /\ pc' = "user"
  /\ UNCHANGED <<channelVars, pollerVars, active_channels, current, callbacks,
                 kernelVars>>

LoopStep ==
  \/ EnterPoll \/ Poll \/ HandleEvent \/ CallBack \/ CallbackReturn
  \/ HandleEventReturn \/ EndRound

\* The kernel: something happens on a descriptor.
Happen(f, what) ==
  /\ f \in open
  /\ what \in Conditions[f]
  /\ condition' = [condition EXCEPT ![f] = what]
  /\ UNCHANGED <<channelVars, pollerVars, loopVars, open>>

Next ==
  \/ \E ch \in Channels :
       \/ \E f \in Fds : Construct(ch, f)
       \/ EnableReading(ch)
       \/ Destroy(ch)
  \/ LoopStep
  \/ PollFails
  \/ \E f \in Fds, what \in SUBSET Events : Happen(f, what)

Spec == Init /\ [][Next]_vars

\* The loop keeps going round; the user's code returns; ::poll does not fail for
\* ever.
FairSpec == Spec /\ WF_vars(LoopStep) /\ SF_vars(Poll)

-----------------------------------------------------------------------------
(* Safety. *)

Registered(ch) == index[ch] >= 0

\* The array, the map and the channels agree: the assertions of UpdateChannel
\* about an existing channel (Poller.cpp 82-89) and of FillActiveChannels (48-50)
\* hold, whatever callbacks registered in the middle of a round.
PollerConsistent ==
  /\ \A ch \in Channels : life[ch] = "alive" /\ Registered(ch) =>
       /\ index[ch] < Len(poll_fds)
       /\ poll_fds[index[ch] + 1].fd = fd_[ch]
       /\ poll_fds[index[ch] + 1].events = events_[ch]
       /\ channels[fd_[ch]] = ch
  /\ \A i \in DOMAIN poll_fds :
       LET f == poll_fds[i].fd IN
         f \in Fds /\ channels[f] # NoChannel /\ fd_[channels[f]] = f

\* The assertion of UpdateChannel about a new channel (Poller.cpp 66): its
\* descriptor is not known yet.
NewFdIsUnknown ==
  \A ch \in Channels :
    life[ch] = "alive" /\ ~Registered(ch) => channels[fd_[ch]] = NoChannel

\* The channels of a round are dispatched in the order they were registered in,
\* none twice, although callbacks register others meanwhile (Poller.cpp 38-55).
InOrder ==
  LET round == IF current = NoChannel THEN active_channels
               ELSE <<current>> \o active_channels
  IN \A i, j \in DOMAIN round : i < j => index[round[i]] < index[round[j]]

\* A round whose ::poll succeeded dispatches the registered channels that have
\* something to report and no other: stopping the scan once num_events are found misses none
\* (Poller.cpp 36-56).
PollFindsAll ==
  [][Poll => {active_channels'[i] : i \in DOMAIN active_channels'} =
             {ch \in Channels :
                Registered(ch) /\ condition[fd_[ch]]
                                  \cap (events_[ch] \cup {"err", "hup"}) # {}}]_vars

-----------------------------------------------------------------------------
(* Liveness. *)

Readable(ch) == Registered(ch) /\ "in" \in condition[fd_[ch]]

\* A registered channel that stays readable has its read callback called, whether it
\* has an error too or not, however busy the others are, one that spins on POLLHUP
\* among them, and although ::poll may fail: level-triggered polling starves nobody
\* (Channel.cpp 40-56, Poller.cpp 38-55).
ReadableIsRead ==
  \A ch \in Channels :
    Readable(ch) /\ "read" \in Callbacks[ch]
      ~> (current = ch /\ pc = "read") \/ ~Readable(ch)

=============================================================================
