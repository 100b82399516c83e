--------------------------- MODULE Poller_proofs ----------------------------
(***************************************************************************)
(* Theorems about Poller, for any channels, descriptors and callbacks.     *)
(* What FillActiveChannels collects is a recursive function of the array;  *)
(* what holds of its list is shown by induction on the number of entries   *)
(* that were scanned (SetInduction).                                       *)
(***************************************************************************)
EXTENDS Poller, SequenceTheorems, FiniteSetTheorems, TLAPS

USE PollerAssumption

-----------------------------------------------------------------------------
(* The array, the map and the channels. *)

\* The types of what the theorems are about.
RegistryTypeOK ==
  /\ life \in [Channels -> {"unborn", "alive", "dead"}]
  /\ fd_ \in [Channels -> Fds \cup {NoFd}]
  /\ events_ \in [Channels -> SUBSET Events]
  /\ index \in [Channels -> Nat \cup {-1}]
  /\ poll_fds \in Seq(PollFd)
  /\ channels \in [Fds -> Channels \cup {NoChannel}]
  /\ open \subseteq Fds

\* Channels that are alive have open descriptors, each its own.
DescriptorsInv ==
  /\ \A ch \in Channels : life[ch] = "unborn" => fd_[ch] = NoFd /\ ~Registered(ch)
  /\ \A ch \in Channels : life[ch] = "alive" => fd_[ch] \in open
  /\ \A ch, other \in Channels :
       life[ch] = "alive" /\ life[other] = "alive" /\ fd_[ch] = fd_[other] => ch = other

\* A channel has its place in the array, its own, and the map knows it.
PlacesInv ==
  /\ \A ch \in Channels : Registered(ch) => index[ch] < Len(poll_fds)
  /\ \A ch, other \in Channels :
       Registered(ch) /\ Registered(other) /\ index[ch] = index[other] => ch = other
  /\ \A ch \in Channels : life[ch] = "alive" /\ Registered(ch) =>
       /\ poll_fds[index[ch] + 1] = [fd |-> fd_[ch], events |-> events_[ch]]
       /\ channels[fd_[ch]] = ch
  /\ \A i \in DOMAIN poll_fds :
       poll_fds[i].fd \in Fds /\ channels[poll_fds[i].fd] # NoChannel
  /\ \A f \in Fds : channels[f] # NoChannel => fd_[channels[f]] = f

\* The inductive invariant behind PollerConsistent.
RegistryInv == RegistryTypeOK /\ DescriptorsInv /\ PlacesInv

registryVars == <<life, fd_, events_, index, poll_fds, channels, open>>

\* At first there are no channels.
LEMMA RegistryInv_Init == Init => RegistryInv
  BY DEF Init, RegistryInv, RegistryTypeOK, DescriptorsInv, PlacesInv, Registered

\* A channel is constructed on a descriptor that no live channel has.
LEMMA ConstructKeeps ==
  ASSUME RegistryInv, NEW ch \in Channels, NEW f \in Fds, Construct(ch, f)
  PROVE  RegistryInv'
<1> USE DEF RegistryInv, Registered, NoFd
<1>1. RegistryTypeOK'
  BY DEF RegistryTypeOK, Construct, pollerVars
<1>2. DescriptorsInv'
  BY DEF RegistryTypeOK, DescriptorsInv, Construct, pollerVars
<1>3. PlacesInv'
  BY DEF RegistryTypeOK, DescriptorsInv, PlacesInv, Construct, pollerVars
<1> QED
  BY <1>1, <1>2, <1>3

\* A destroyed channel keeps its place and its entry in the map.
LEMMA DestroyKeeps ==
  ASSUME RegistryInv, NEW ch \in Channels, Destroy(ch)
  PROVE  RegistryInv'
<1> USE DEF RegistryInv, Registered
<1>1. RegistryTypeOK'
  BY DEF RegistryTypeOK, Destroy, pollerVars
<1>2. DescriptorsInv'
  BY DEF RegistryTypeOK, DescriptorsInv, Destroy, pollerVars
<1>3. PlacesInv'
  BY DEF RegistryTypeOK, PlacesInv, Destroy, pollerVars
<1> QED
  BY <1>1, <1>2, <1>3

\* A new channel gets the place after the last one.
LEMMA RegisterKeeps ==
  ASSUME RegistryInv, NEW ch \in Channels, EnableReading(ch), index[ch] < 0
  PROVE  RegistryInv'
<1> USE DEF RegistryInv, Registered
<1> DEFINE pfd == [fd |-> fd_[ch], events |-> events_'[ch]]
<1>1. /\ life[ch] = "alive" /\ fd_[ch] \in Fds
      /\ events_' = [events_ EXCEPT ![ch] = @ \cup {"in"}]
      /\ poll_fds' = Append(poll_fds, pfd)
      /\ index' = [index EXCEPT ![ch] = Len(poll_fds)]
      /\ channels' = [channels EXCEPT ![fd_[ch]] = ch]
      /\ UNCHANGED <<life, fd_, open>>
  BY DEF EnableReading, UpdateChannel, RegistryTypeOK, DescriptorsInv, kernelVars
<1>2. events_' \in [Channels -> SUBSET Events] /\ pfd \in PollFd
  BY <1>1 DEF RegistryTypeOK, Events, PollFd
<1> HIDE DEF pfd
<1>3. /\ poll_fds' \in Seq(PollFd) /\ Len(poll_fds') = Len(poll_fds) + 1
      /\ \A i \in 1 .. Len(poll_fds) : poll_fds'[i] = poll_fds[i]
      /\ poll_fds'[Len(poll_fds) + 1] = pfd
      /\ Len(poll_fds) \in Nat
  BY <1>1, <1>2, AppendProperties, LenProperties DEF RegistryTypeOK
<1>4. RegistryTypeOK'
  BY <1>1, <1>2, <1>3 DEF RegistryTypeOK
<1>5. DescriptorsInv'
  BY <1>1 DEF RegistryTypeOK, DescriptorsInv
<1>6. PlacesInv'
  <2>1. \A other \in Channels \ {ch} :
          index'[other] = index[other] /\ events_'[other] = events_[other]
    BY <1>1 DEF RegistryTypeOK
  <2>2. index'[ch] = Len(poll_fds) /\ channels'[fd_[ch]] = ch
    BY <1>1 DEF RegistryTypeOK
  <2>3. \A other \in Channels : Registered(other)' => index'[other] < Len(poll_fds')
    <3> SUFFICES ASSUME NEW other \in Channels, Registered(other)'
                 PROVE  index'[other] < Len(poll_fds')
      OBVIOUS
    <3>1. CASE other = ch
      BY <1>3, <2>2, <3>1
    <3>2. CASE other # ch
      <4>1. index[other] \in Nat /\ index[other] < Len(poll_fds)
        BY <2>1, <3>2 DEF PlacesInv, RegistryTypeOK
      <4> QED
        BY <1>3, <2>1, <3>2, <4>1
    <3> QED
      BY <3>1, <3>2
  <2>4. \A c, d \in Channels :
          Registered(c)' /\ Registered(d)' /\ index'[c] = index'[d] => c = d
    BY <1>3, <2>1, <2>2 DEF PlacesInv, RegistryTypeOK
  <2>5. ASSUME NEW c \in Channels, life[c] = "alive", Registered(c)'
        PROVE  /\ poll_fds'[index'[c] + 1] = [fd |-> fd_[c], events |-> events_'[c]]
               /\ channels'[fd_[c]] = c
    <3>1. CASE c = ch
      BY <1>3, <2>2, <3>1 DEF pfd
    <3>2. CASE c # ch
      <4>1. Registered(c) /\ index[c] + 1 \in 1 .. Len(poll_fds)
        BY <2>1, <2>5, <3>2 DEF PlacesInv, RegistryTypeOK
      <4>2. fd_[c] # fd_[ch]
        BY <1>1, <2>5, <3>2 DEF DescriptorsInv
      <4>3. poll_fds'[index'[c] + 1] = poll_fds[index[c] + 1]
        BY <1>3, <2>1, <3>2, <4>1
      <4>4. poll_fds[index[c] + 1] = [fd |-> fd_[c], events |-> events_[c]]
        BY <2>5, <4>1 DEF PlacesInv
      <4>5. channels'[fd_[c]] = channels[fd_[c]] /\ channels[fd_[c]] = c
        BY <1>1, <2>5, <4>1, <4>2, ZenonT(60) DEF PlacesInv, RegistryTypeOK, DescriptorsInv
      <4> QED
        BY <2>1, <3>2, <4>3, <4>4, <4>5
    <3> QED
      BY <3>1, <3>2
  <2>6. \A i \in DOMAIN poll_fds' :
          poll_fds'[i].fd \in Fds /\ channels'[poll_fds'[i].fd] # NoChannel
    BY <1>1, <1>3 DEF PlacesInv, RegistryTypeOK, pfd
  <2>7. \A f \in Fds : channels'[f] # NoChannel => fd_[channels'[f]] = f
    BY <1>1 DEF PlacesInv, RegistryTypeOK
  <2> QED
    BY <1>1, <2>3, <2>4, <2>5, <2>6, <2>7, ZenonT(60) DEF PlacesInv
<1> QED
  BY <1>4, <1>5, <1>6

\* A channel that has its place keeps it.
LEMMA UpdateKeeps ==
  ASSUME RegistryInv, NEW ch \in Channels, EnableReading(ch), ~(index[ch] < 0)
  PROVE  RegistryInv'
<1> USE DEF RegistryInv, Registered
<1> DEFINE k == index[ch] + 1
<1>1. /\ life[ch] = "alive"
      /\ events_' = [events_ EXCEPT ![ch] = @ \cup {"in"}]
      /\ UNCHANGED <<life, fd_, index, channels, open>>
  BY DEF EnableReading, UpdateChannel, kernelVars
<1>2. k \in 1 .. Len(poll_fds) /\ poll_fds[k].fd = fd_[ch] /\ fd_[ch] \in Fds
  <2>1. index[ch] \in Nat /\ index[ch] < Len(poll_fds) /\ Len(poll_fds) \in Nat
    BY LenProperties DEF RegistryTypeOK, PlacesInv
  <2>2. fd_[ch] \in Fds
    BY <1>1 DEF RegistryTypeOK, DescriptorsInv
  <2>3. poll_fds[k] = [fd |-> fd_[ch], events |-> events_[ch]]
    BY <1>1, <2>1 DEF PlacesInv
  <2> QED
    BY <2>1, <2>2, <2>3
<1>3. /\ events_' \in [Channels -> SUBSET Events]
      /\ events_'[ch] = events_[ch] \cup {"in"}
  BY <1>1 DEF RegistryTypeOK, Events
<1>4. poll_fds' = [poll_fds EXCEPT ![k] = [fd |-> fd_[ch], events |-> events_'[ch]]]
  BY <1>2, <1>3 DEF EnableReading, UpdateChannel
<1>5. /\ poll_fds' \in Seq(PollFd) /\ Len(poll_fds') = Len(poll_fds)
      /\ poll_fds'[k] = [fd |-> fd_[ch], events |-> events_'[ch]]
      /\ \A i \in 1 .. Len(poll_fds) : i # k => poll_fds'[i] = poll_fds[i]
  BY <1>2, <1>3, <1>4, ExceptSeq DEF RegistryTypeOK, PollFd
<1>6. RegistryTypeOK'
  BY <1>1, <1>3, <1>5 DEF RegistryTypeOK
<1>7. DescriptorsInv'
  BY <1>1 DEF DescriptorsInv
<1>8. PlacesInv'
  <2>1. ASSUME NEW c \in Channels, life[c] = "alive", Registered(c)
        PROVE  poll_fds'[index[c] + 1] = [fd |-> fd_[c], events |-> events_'[c]]
    <3>1. CASE c = ch
      BY <1>5, <3>1
    <3>2. CASE c # ch
      <4>1. index[c] + 1 \in 1 .. Len(poll_fds) /\ index[c] + 1 # k
        BY <1>2, <2>1, <3>2 DEF PlacesInv, RegistryTypeOK
      <4>2. events_'[c] = events_[c]
        BY <1>1, <3>2 DEF RegistryTypeOK
      <4> QED
        BY <1>5, <2>1, <4>1, <4>2 DEF PlacesInv
    <3> QED
      BY <3>1, <3>2
  <2>2. \A i \in DOMAIN poll_fds' :
          poll_fds'[i].fd \in Fds /\ channels[poll_fds'[i].fd] # NoChannel
    <3> SUFFICES ASSUME NEW i \in 1 .. Len(poll_fds)
                 PROVE  poll_fds'[i].fd = poll_fds[i].fd
      BY <1>1, <1>5, LenProperties, SMTT(30) DEF PlacesInv, RegistryTypeOK
    <3> QED
      BY <1>2, <1>5
  <2> QED
    BY <1>1, <1>5, <2>1, <2>2 DEF PlacesInv
<1> QED
  BY <1>6, <1>7, <1>8

\* One step keeps RegistryInv: the loop and the kernel leave the registry alone.
LEMMA RegistryInv_Next == RegistryInv /\ [Next]_vars => RegistryInv'
<1> SUFFICES ASSUME RegistryInv, [Next]_vars PROVE RegistryInv'
  OBVIOUS
<1>1. ASSUME NEW ch \in Channels, NEW f \in Fds, Construct(ch, f)
      PROVE  RegistryInv'
  BY <1>1, ConstructKeeps
<1>2. ASSUME NEW ch \in Channels, EnableReading(ch)
      PROVE  RegistryInv'
  BY <1>2, RegisterKeeps, UpdateKeeps
<1>3. ASSUME NEW ch \in Channels, Destroy(ch)
      PROVE  RegistryInv'
  BY <1>3, DestroyKeeps
<1>4. CASE UNCHANGED registryVars
  BY <1>4 DEF registryVars, RegistryInv, RegistryTypeOK, DescriptorsInv, PlacesInv,
              Registered
<1>5. LoopStep \/ PollFails \/ UNCHANGED vars => UNCHANGED registryVars
  BY DEF LoopStep, EnterPoll, Poll, HandleEvent, CallBack, CallbackReturn,
         HandleEventReturn, EndRound, PollFails, channelVars, pollerVars, kernelVars, vars,
         registryVars
<1>6. ASSUME NEW f \in Fds, NEW what \in SUBSET Events, Happen(f, what)
      PROVE  UNCHANGED registryVars
  BY <1>6 DEF Happen, channelVars, pollerVars, registryVars
<1> QED
  BY <1>1, <1>2, <1>3, <1>4, <1>5, <1>6 DEF Next

\* The array of pollfds, the map and the channels agree, whatever is constructed,
\* enabled and destroyed, in a round or outside it.
THEOREM RegistryIsConsistent == Spec => []PollerConsistent
<1>1. RegistryInv => PollerConsistent
  <2> SUFFICES ASSUME RegistryInv PROVE PollerConsistent
    OBVIOUS
  <2> USE DEF RegistryInv, PlacesInv
  <2>1. \A ch \in Channels : life[ch] = "alive" /\ Registered(ch) =>
          /\ index[ch] < Len(poll_fds)
          /\ poll_fds[index[ch] + 1].fd = fd_[ch]
          /\ poll_fds[index[ch] + 1].events = events_[ch]
          /\ channels[fd_[ch]] = ch
    <3> TAKE ch \in Channels
    <3> HAVE life[ch] = "alive" /\ Registered(ch)
    <3>1. /\ poll_fds[index[ch] + 1] = [fd |-> fd_[ch], events |-> events_[ch]]
          /\ index[ch] < Len(poll_fds) /\ channels[fd_[ch]] = ch
      OBVIOUS
    <3> QED
      BY <3>1
  <2>2. \A i \in DOMAIN poll_fds :
          /\ poll_fds[i].fd \in Fds /\ channels[poll_fds[i].fd] # NoChannel
          /\ fd_[channels[poll_fds[i].fd]] = poll_fds[i].fd
    OBVIOUS
  <2> QED
    BY ONLY <2>1, <2>2 DEF PollerConsistent
<1> QED
  BY <1>1, RegistryInv_Init, RegistryInv_Next, PTL DEF Spec

-----------------------------------------------------------------------------
(* New descriptors, in a program that destroys no registered channel. *)

\* The channels the map knows are alive and registered.
MapInv == \A f \in Fds : channels[f] # NoChannel =>
            life[channels[f]] = "alive" /\ Registered(channels[f])

\* One step keeps MapInv.
LEMMA MapInv_Next ==
  ~MayDestroy /\ RegistryInv /\ MapInv /\ [Next]_vars => MapInv'
<1> SUFFICES ASSUME ~MayDestroy, RegistryInv, MapInv, [Next]_vars PROVE MapInv'
  OBVIOUS
<1> USE DEF RegistryInv, RegistryTypeOK, MapInv, Registered
<1>1. ASSUME NEW ch \in Channels, NEW f \in Fds, Construct(ch, f)
      PROVE  MapInv'
  BY <1>1 DEF Construct, pollerVars
<1>2. ASSUME NEW ch \in Channels, EnableReading(ch)
      PROVE  MapInv'
  <2>1. CASE index[ch] < 0
    BY <1>2, <2>1, LenProperties DEF EnableReading, UpdateChannel
  <2>2. CASE ~(index[ch] < 0)
    BY <1>2, <2>2 DEF EnableReading, UpdateChannel
  <2> QED
    BY <2>1, <2>2
<1>3. ASSUME NEW ch \in Channels, Destroy(ch)
      PROVE  MapInv'
  BY <1>3 DEF Destroy, pollerVars
<1>4. CASE UNCHANGED registryVars
  BY <1>4 DEF registryVars
<1>5. LoopStep \/ PollFails \/ UNCHANGED vars => UNCHANGED registryVars
  BY DEF LoopStep, EnterPoll, Poll, HandleEvent, CallBack, CallbackReturn,
         HandleEventReturn, EndRound, PollFails, channelVars, pollerVars, kernelVars, vars,
         registryVars
<1>6. ASSUME NEW f \in Fds, NEW what \in SUBSET Events, Happen(f, what)
      PROVE  UNCHANGED registryVars
  BY <1>6 DEF Happen, channelVars, pollerVars, registryVars
<1> QED
  BY <1>1, <1>2, <1>3, <1>4, <1>5, <1>6 DEF Next

\* A channel that is not registered has a descriptor of its own.
LEMMA UnregisteredIsUnknown == RegistryInv /\ MapInv => NewFdIsUnknown
<1> SUFFICES ASSUME RegistryInv, MapInv, NEW ch \in Channels,
                    life[ch] = "alive", ~Registered(ch)
             PROVE  channels[fd_[ch]] = NoChannel
  BY DEF NewFdIsUnknown
<1> DEFINE known == channels[fd_[ch]]
<1>1. fd_[ch] \in Fds /\ known \in Channels \cup {NoChannel}
  BY DEF RegistryInv, RegistryTypeOK, DescriptorsInv
<1>2. known # NoChannel =>
        life[known] = "alive" /\ Registered(known) /\ fd_[known] = fd_[ch]
  BY <1>1 DEF RegistryInv, PlacesInv, MapInv
<1> QED
  BY <1>1, <1>2 DEF RegistryInv, DescriptorsInv

\* The assertion about new channels holds as long as no registered channel is
\* destroyed.
THEOREM NewDescriptorsAreUnknown == ~MayDestroy => (Spec => []NewFdIsUnknown)
<1> SUFFICES ASSUME ~MayDestroy PROVE Spec => []NewFdIsUnknown
  OBVIOUS
<1>1. Init => MapInv
  BY DEF Init, MapInv
<1>2. RegistryInv /\ MapInv /\ [Next]_vars => MapInv'
  BY MapInv_Next
<1> QED
  BY <1>1, <1>2, UnregisteredIsUnknown, RegistryInv_Init, RegistryInv_Next, PTL DEF Spec

-----------------------------------------------------------------------------
(* What FillActiveChannels collects. *)

\* Induction over a set of naturals.
LEMMA SetInduction ==
  ASSUME NEW S, 0 \in S, \A n \in Nat : n \in S => n + 1 \in S
  PROVE  Nat \subseteq S
<1> DEFINE T == Nat \ S
           R == OpToRel(<, Nat)
<1> SUFFICES ASSUME T # {} PROVE FALSE
  OBVIOUS
<1>1. IsWellFoundedOn(R, Nat)
  BY NatLessThanWellFounded
<1>2. PICK n \in T : \A m \in T : ~ (<<m, n>> \in R)
  <2>1. T \subseteq Nat
    OBVIOUS
  <2> HIDE DEF R, T
  <2> QED
    BY <1>1, <2>1, WFMin
<1>3. n \in Nat /\ n # 0 /\ n - 1 \in Nat
  OBVIOUS
<1>4. n - 1 \in T
  BY <1>3
<1>5. <<n - 1, n>> \in R
  BY <1>3 DEF OpToRel
<1> QED
  BY <1>2, <1>4, <1>5

\* The scan after the first i pollfds, as the equation of the recursive function
\* in FillActiveChannels.
IsScan(scan, reported, num_events, n) ==
  scan = [i \in 0 .. n |->
            IF i = 0
            THEN [left |-> num_events, active |-> <<>>, revents |-> revents_]
            ELSE Fill(scan[i - 1], poll_fds[i].fd, reported[i])]

\* There is a function that satisfies the equation, so FillActiveChannels does.
LEMMA ScanExists ==
  ASSUME NEW reported, NEW num_events, NEW N \in Nat
  PROVE  \E scan : IsScan(scan, reported, num_events, N)
<1> DEFINE S == {n \in Nat : \E scan : IsScan(scan, reported, num_events, n)}
<1>1. 0 \in S
  <2>1. IsScan([i \in 0 .. 0 |->
                  [left |-> num_events, active |-> <<>>, revents |-> revents_]],
               reported, num_events, 0)
    BY DEF IsScan
  <2> QED
    BY <2>1
<1>2. ASSUME NEW n \in Nat, n \in S
      PROVE  n + 1 \in S
  <2>1. PICK scan : IsScan(scan, reported, num_events, n)
    BY <1>2
  <2> DEFINE next == Fill(scan[n], poll_fds[n + 1].fd, reported[n + 1])
             longer == [i \in 0 .. n + 1 |-> IF i = n + 1 THEN next ELSE scan[i]]
  <2>2. IsScan(longer, reported, num_events, n + 1)
    BY <2>1 DEF IsScan
  <2> HIDE DEF longer
  <2> QED
    BY <2>2
<1> HIDE DEF S
<1>3. N \in S
  BY <1>1, <1>2, SetInduction
<1> QED
  BY <1>3 DEF S

LEMMA FillScans ==
  ASSUME NEW reported, NEW num_events, Len(poll_fds) \in Nat
  PROVE  \E scan : /\ IsScan(scan, reported, num_events, Len(poll_fds))
                   /\ FillActiveChannels(reported, num_events) = scan[Len(poll_fds)]
<1> DEFINE scan == CHOOSE s : IsScan(s, reported, num_events, Len(poll_fds))
<1>1. IsScan(scan, reported, num_events, Len(poll_fds))
  BY ScanExists
<1>2. FillActiveChannels(reported, num_events) = scan[Len(poll_fds)]
  BY DEF FillActiveChannels, IsScan
<1> QED
  BY <1>1, <1>2

\* Every pollfd is that of a channel.
LEMMA PlacesAreChannels ==
  ASSUME RegistryInv, NEW i \in 1 .. Len(poll_fds)
  PROVE  poll_fds[i].fd \in Fds /\ channels[poll_fds[i].fd] \in Channels
<1>1. i \in DOMAIN poll_fds
  BY LenProperties DEF RegistryInv, RegistryTypeOK
<1>2. poll_fds[i].fd \in Fds /\ channels[poll_fds[i].fd] # NoChannel
  BY <1>1 DEF RegistryInv, PlacesInv
<1>3. channels \in [Fds -> Channels \cup {NoChannel}]
  BY DEF RegistryInv, RegistryTypeOK
<1> QED
  BY <1>2, <1>3

\* What the scan has found.
Found == [left : Int, active : Seq(Channels), revents : [Channels -> SUBSET Events]]

\* A scan with proper arguments finds channels.
LEMMA ScanIsTyped ==
  ASSUME RegistryInv, revents_ \in [Channels -> SUBSET Events],
         NEW num_events \in Int, NEW reported \in [DOMAIN poll_fds -> SUBSET Events],
         NEW scan, IsScan(scan, reported, num_events, Len(poll_fds))
  PROVE  \A i \in 0 .. Len(poll_fds) : scan[i] \in Found
<1> DEFINE S == {i \in Nat : i <= Len(poll_fds) => scan[i] \in Found}
<1>1. Len(poll_fds) \in Nat /\ DOMAIN poll_fds = 1 .. Len(poll_fds)
  BY LenProperties DEF RegistryInv, RegistryTypeOK
<1>2. 0 \in S
  BY <1>1 DEF IsScan, Found
<1>3. ASSUME NEW n \in Nat, n \in S
      PROVE  n + 1 \in S
  <2> SUFFICES ASSUME n + 1 <= Len(poll_fds) PROVE scan[n + 1] \in Found
    OBVIOUS
  <2> DEFINE f == poll_fds[n + 1].fd
  <2>1. scan[n] \in Found /\ reported[n + 1] \in SUBSET Events
    BY <1>1, <1>3
  <2>2. channels[f] \in Channels
    BY PlacesAreChannels
  <2>3. scan[n + 1] = Fill(scan[n], f, reported[n + 1])
    BY <1>1 DEF IsScan
  <2> HIDE DEF f
  <2>4. Fill(scan[n], f, reported[n + 1]) \in Found
    BY <2>1, <2>2 DEF Fill, Found
  <2> QED
    BY <2>3, <2>4
<1> HIDE DEF S
<1>4. Nat \subseteq S
  BY <1>2, <1>3, SetInduction
<1> QED
  BY <1>1, <1>4 DEF S

\* What TypeOK says of the loop and the kernel.
LoopTypeOK ==
  /\ revents_ \in [Channels -> SUBSET Events]
  /\ active_channels \in Seq(Channels)
  /\ pc \in {"user", "poll", "dispatch", "handle", "error", "read"}
  /\ current \in Channels \cup {NoChannel}
  /\ callbacks \in Seq({"error", "read"})
  /\ condition \in [Fds -> SUBSET Events]

\* What ::poll stores are events.
LEMMA ReventsAreEvents ==
  ASSUME RegistryInv, LoopTypeOK
  PROVE  [i \in DOMAIN poll_fds |-> Revents(poll_fds[i])]
           \in [DOMAIN poll_fds -> SUBSET Events]
<1> SUFFICES ASSUME NEW i \in DOMAIN poll_fds
             PROVE  Revents(poll_fds[i]) \in SUBSET Events
  OBVIOUS
<1>1. poll_fds[i].fd \in Fds
  BY DEF RegistryInv, PlacesInv
<1>2. condition[poll_fds[i].fd] \in SUBSET Events
  BY <1>1 DEF LoopTypeOK
<1> QED
  BY <1>2 DEF Revents, Events

\* The number of pollfds in a set of places is a natural number.
LEMMA PlacesAreFinite ==
  ASSUME Len(poll_fds) \in Nat, NEW P \in SUBSET (1 .. Len(poll_fds))
  PROVE  IsFiniteSet(P) /\ Cardinality(P) \in Nat
<1>1. IsFiniteSet(1 .. Len(poll_fds))
  BY FS_Interval
<1>2. IsFiniteSet(P)
  BY <1>1, FS_Subset
<1> QED
  BY <1>2, FS_CardinalityType

\* A round finds channels.
LEMMA PollKeepsTypes ==
  ASSUME RegistryInv, LoopTypeOK, Poll
  PROVE  LoopTypeOK'
<1> DEFINE reported == [i \in DOMAIN poll_fds |-> Revents(poll_fds[i])]
           num_events == Cardinality({i \in DOMAIN poll_fds : reported[i] # {}})
<1>1. Len(poll_fds) \in Nat /\ DOMAIN poll_fds = 1 .. Len(poll_fds)
  BY LenProperties DEF RegistryInv, RegistryTypeOK
<1>2. num_events \in Int
  BY <1>1, PlacesAreFinite
<1>3. reported \in [DOMAIN poll_fds -> SUBSET Events]
  BY ReventsAreEvents
<1>4. /\ active_channels' = FillActiveChannels(reported, num_events).active
      /\ revents_' = FillActiveChannels(reported, num_events).revents
      /\ pc' = "dispatch" /\ UNCHANGED <<current, callbacks, condition>>
  BY DEF Poll, kernelVars
<1> HIDE DEF reported, num_events
<1>5. FillActiveChannels(reported, num_events) \in Found
  <2>1. PICK scan : /\ IsScan(scan, reported, num_events, Len(poll_fds))
                    /\ FillActiveChannels(reported, num_events) = scan[Len(poll_fds)]
    BY <1>1, FillScans
  <2>2. \A i \in 0 .. Len(poll_fds) : scan[i] \in Found
    <3>1. revents_ \in [Channels -> SUBSET Events]
      BY DEF LoopTypeOK
    <3> QED
      BY <1>2, <1>3, <2>1, <3>1, ScanIsTyped
  <2> QED
    BY <1>1, <2>1, <2>2
<1> QED
  BY <1>4, <1>5 DEF LoopTypeOK, Found

\* One step keeps LoopTypeOK.
LEMMA LoopTypeOK_Next ==
  RegistryInv /\ LoopTypeOK /\ [Next]_vars => LoopTypeOK'
<1> SUFFICES ASSUME RegistryInv, LoopTypeOK, [Next]_vars PROVE LoopTypeOK'
  OBVIOUS
<1>1. CASE Poll
  BY <1>1, PollKeepsTypes
<1>2. ASSUME NEW ch \in Channels, NEW f \in Fds, Construct(ch, f)
      PROVE  LoopTypeOK'
  BY <1>2 DEF Construct, LoopTypeOK, loopVars
<1>3. ASSUME NEW ch \in Channels, EnableReading(ch) \/ Destroy(ch)
      PROVE  LoopTypeOK'
  BY <1>3 DEF EnableReading, Destroy, LoopTypeOK, loopVars, kernelVars
<1>4. CASE HandleEvent
  <2>1. Head(active_channels) \in Channels /\ Tail(active_channels) \in Seq(Channels)
    BY <1>4, HeadTailProperties DEF HandleEvent, LoopTypeOK
  <2>2. \A ch, revents : Called(ch, revents) \in Seq({"error", "read"})
    <3> TAKE ch, revents
    <3>1. \A a, b \in Seq({"error", "read"}) : a \o b \in Seq({"error", "read"})
      BY ConcatProperties
    <3>2. /\ <<"error">> \in Seq({"error", "read"})
          /\ <<"read">> \in Seq({"error", "read"})
          /\ <<>> \in Seq({"error", "read"})
      OBVIOUS
    <3> QED
      BY <3>1, <3>2 DEF Called
  <2> QED
    BY <1>4, <2>1, <2>2 DEF HandleEvent, LoopTypeOK, channelVars, kernelVars
<1>5. CASE CallBack
  <2>1. Head(callbacks) \in {"error", "read"} /\ Tail(callbacks) \in Seq({"error", "read"})
    BY <1>5, HeadTailProperties DEF CallBack, LoopTypeOK
  <2>2. condition' \in [Fds -> SUBSET Events]
    BY <1>5 DEF CallBack, LoopTypeOK
  <2> QED
    BY <1>5, <2>1, <2>2 DEF CallBack, LoopTypeOK, channelVars
<1>6. CASE EnterPoll \/ PollFails \/ CallbackReturn \/ HandleEventReturn \/ EndRound
  <2>1. <<>> \in Seq(Channels)
    OBVIOUS
  <2> QED
    BY <1>6, <2>1 DEF EnterPoll, PollFails, CallbackReturn, HandleEventReturn, EndRound,
                      LoopTypeOK, channelVars, kernelVars
<1>7. ASSUME NEW f \in Fds, NEW what \in SUBSET Events, Happen(f, what)
      PROVE  LoopTypeOK'
  BY <1>7 DEF Happen, LoopTypeOK, Events, channelVars, loopVars
<1>8. CASE UNCHANGED vars
  BY <1>8 DEF LoopTypeOK, vars, channelVars, loopVars, kernelVars
<1> QED
  BY <1>1, <1>2, <1>3, <1>4, <1>5, <1>6, <1>7, <1>8 DEF Next, LoopStep

\* Every variable keeps its type: FillActiveChannels dereferences no pointer to a
\* channel it does not know (Poller.cpp 44-52).
THEOREM TypeCorrect == Spec => []TypeOK
<1>1. Init => LoopTypeOK
  BY DEF Init, LoopTypeOK
<1>2. RegistryInv /\ LoopTypeOK => TypeOK
  BY DEF RegistryInv, RegistryTypeOK, LoopTypeOK, TypeOK
<1> QED
  BY <1>1, <1>2, LoopTypeOK_Next, RegistryInv_Init, RegistryInv_Next, PTL DEF Spec

-----------------------------------------------------------------------------
(* The rounds of a program that destroys no registered channel.            *)

\* The place of a pollfd is the index of the channel the map has for it.
PlacesAreIndices ==
  \A i \in 1 .. Len(poll_fds) : index[channels[poll_fds[i].fd]] = i - 1

\* At first there are no places.
LEMMA PlacesAreIndices_Init == Init => PlacesAreIndices
  BY DEF Init, PlacesAreIndices

\* One step keeps PlacesAreIndices: a new channel's descriptor is in no place yet.
LEMMA PlacesAreIndices_Next ==
  RegistryInv /\ MapInv /\ PlacesAreIndices /\ [Next]_vars => PlacesAreIndices'
<1> SUFFICES ASSUME RegistryInv, MapInv, PlacesAreIndices, [Next]_vars
             PROVE  PlacesAreIndices'
  OBVIOUS
<1>1. ASSUME NEW ch \in Channels, EnableReading(ch), index[ch] < 0
      PROVE  PlacesAreIndices'
  <2> DEFINE pfd == [fd |-> fd_[ch], events |-> events_'[ch]]
  <2>1. /\ life[ch] = "alive" /\ fd_[ch] \in Fds
        /\ poll_fds' = Append(poll_fds, pfd)
        /\ index' = [index EXCEPT ![ch] = Len(poll_fds)]
        /\ channels' = [channels EXCEPT ![fd_[ch]] = ch]
    BY <1>1 DEF EnableReading, UpdateChannel, RegistryInv, RegistryTypeOK, DescriptorsInv
  <2>2. channels[fd_[ch]] = NoChannel
    <3>1. ~Registered(ch)
      BY <1>1 DEF Registered, RegistryInv, RegistryTypeOK
    <3> QED
      BY <2>1, <3>1, UnregisteredIsUnknown DEF NewFdIsUnknown
  <2>3. /\ Len(poll_fds) \in Nat /\ Len(poll_fds') = Len(poll_fds) + 1
        /\ \A i \in 1 .. Len(poll_fds) : poll_fds'[i] = poll_fds[i]
        /\ poll_fds'[Len(poll_fds) + 1].fd = fd_[ch]
    BY <2>1, AppendProperties, LenProperties DEF RegistryInv, RegistryTypeOK
  <2> HIDE DEF pfd
  <2>4. index'[ch] = Len(poll_fds) /\ channels'[fd_[ch]] = ch
    BY <2>1 DEF RegistryInv, RegistryTypeOK
  <2>5. ASSUME NEW i \in 1 .. Len(poll_fds)
        PROVE  index'[channels'[poll_fds'[i].fd]] = i - 1
    <3> DEFINE f == poll_fds[i].fd
    <3>1. f \in Fds /\ channels[f] \in Channels
      BY PlacesAreChannels
    <3>2. f # fd_[ch]
      BY <2>2, <3>1
    <3>3. index[channels[f]] = i - 1
      BY DEF PlacesAreIndices
    <3>4. channels'[f] = channels[f]
      BY <2>1, <3>1, <3>2 DEF RegistryInv, RegistryTypeOK
    <3>5. channels[f] # ch
      BY <1>1, <3>3
    <3>6. index'[channels[f]] = index[channels[f]]
      BY <2>1, <3>1, <3>5 DEF RegistryInv, RegistryTypeOK
    <3> QED
      BY <2>3, <3>3, <3>4, <3>6
  <2> QED
    BY <2>3, <2>4, <2>5 DEF PlacesAreIndices
<1>2. ASSUME NEW ch \in Channels, EnableReading(ch), ~(index[ch] < 0)
      PROVE  PlacesAreIndices'
  <2>1. UNCHANGED <<index, channels>>
    BY <1>2 DEF EnableReading, UpdateChannel
  <2>2. index[ch] + 1 \in 1 .. Len(poll_fds)
    BY <1>2, LenProperties DEF RegistryInv, RegistryTypeOK, PlacesInv, Registered
  <2>3. poll_fds[index[ch] + 1].fd = fd_[ch] /\ fd_[ch] \in Fds
    <3>1. life[ch] = "alive" /\ Registered(ch)
      BY <1>2 DEF EnableReading, Registered, RegistryInv, RegistryTypeOK
    <3>2. poll_fds[index[ch] + 1] = [fd |-> fd_[ch], events |-> events_[ch]]
      BY <3>1 DEF RegistryInv, PlacesInv
    <3>3. fd_[ch] \in Fds
      BY <3>1 DEF RegistryInv, RegistryTypeOK, DescriptorsInv
    <3> QED
      BY <3>2, <3>3
  <2>4. Len(poll_fds') = Len(poll_fds)
        /\ \A i \in 1 .. Len(poll_fds) : poll_fds'[i].fd = poll_fds[i].fd
    <3>1. events_'[ch] # {}
      BY <1>2 DEF EnableReading, RegistryInv, RegistryTypeOK
    <3>2. poll_fds' = [poll_fds EXCEPT ![index[ch] + 1] =
                         [fd |-> fd_[ch], events |-> events_'[ch]]]
      BY <1>2, <2>2, <2>3, <3>1 DEF EnableReading, UpdateChannel
    <3>3. [fd |-> fd_[ch], events |-> events_'[ch]] \in PollFd
      BY <1>2, <2>3 DEF EnableReading, RegistryInv, RegistryTypeOK, PollFd, Events
    <3> QED
      BY <2>2, <2>3, <3>2, <3>3, ExceptSeq DEF RegistryInv, RegistryTypeOK
  <2> QED
    BY <2>1, <2>4 DEF PlacesAreIndices
<1>3. CASE UNCHANGED <<index, poll_fds, channels>>
  BY <1>3 DEF PlacesAreIndices
<1>4. ASSUME NEW ch \in Channels, NEW f \in Fds, Construct(ch, f)
      PROVE  UNCHANGED <<index, poll_fds, channels>>
  BY <1>4 DEF Construct, pollerVars
<1>5. ASSUME NEW ch \in Channels, Destroy(ch)
      PROVE  UNCHANGED <<index, poll_fds, channels>>
  BY <1>5 DEF Destroy, pollerVars
<1>6. LoopStep \/ PollFails \/ UNCHANGED vars => UNCHANGED <<index, poll_fds, channels>>
  BY DEF LoopStep, EnterPoll, Poll, HandleEvent, CallBack, CallbackReturn,
         HandleEventReturn, EndRound, PollFails, channelVars, pollerVars, vars
<1>7. ASSUME NEW f \in Fds, NEW what \in SUBSET Events, Happen(f, what)
      PROVE  UNCHANGED <<index, poll_fds, channels>>
  BY <1>7 DEF Happen, channelVars, pollerVars
<1> QED
  BY <1>1, <1>2, <1>3, <1>4, <1>5, <1>6, <1>7 DEF Next

\* The places of the first i pollfds that have something to report.
Reporting(reported, i) == {j \in 1 .. i : reported[j] # {}}

\* A list has the registered channels among the first i pollfds that have something
\* to report, in the order of their indices.
Lists(active, reported, i) ==
  /\ \A k \in DOMAIN active : index[active[k]] \in 0 .. i - 1
  /\ \A k, l \in DOMAIN active : k < l => index[active[k]] < index[active[l]]
  /\ \A ch \in Channels : Registered(ch) =>
       ((\E k \in DOMAIN active : active[k] = ch)
          <=> index[ch] < i /\ reported[index[ch] + 1] # {})

\* After i pollfds the scan has the list of them, and knows how many are left.
Finds(found, reported, i) ==
  /\ found.left = Cardinality(Reporting(reported, Len(poll_fds)))
                    - Cardinality(Reporting(reported, i))
  /\ Lists(found.active, reported, i)

\* Counting one more pollfd; until the last that reports, some are left.
LEMMA ReportingCount ==
  ASSUME Len(poll_fds) \in Nat, NEW reported, NEW n \in 0 .. Len(poll_fds) - 1
  PROVE  /\ Cardinality(Reporting(reported, n)) \in Nat
         /\ Cardinality(Reporting(reported, Len(poll_fds))) \in Nat
         /\ reported[n + 1] = {} => Reporting(reported, n + 1) = Reporting(reported, n)
         /\ reported[n + 1] # {} =>
              /\ Cardinality(Reporting(reported, n + 1))
                   = Cardinality(Reporting(reported, n)) + 1
              /\ Cardinality(Reporting(reported, n))
                   < Cardinality(Reporting(reported, Len(poll_fds)))
<1> DEFINE some == Reporting(reported, n)
           more == Reporting(reported, n + 1)
           all  == Reporting(reported, Len(poll_fds))
<1>1. /\ some \in SUBSET (1 .. Len(poll_fds)) /\ all \in SUBSET (1 .. Len(poll_fds))
      /\ more \in SUBSET all
      /\ n + 1 \notin some
      /\ reported[n + 1] = {} => more = some
      /\ reported[n + 1] # {} => more = some \cup {n + 1}
  BY DEF Reporting
<1> HIDE DEF some, more, all
<1>2. /\ IsFiniteSet(some) /\ Cardinality(some) \in Nat
      /\ IsFiniteSet(all) /\ Cardinality(all) \in Nat
  BY <1>1, PlacesAreFinite
<1>3. Cardinality(more) <= Cardinality(all)
  BY <1>1, <1>2, FS_Subset
<1>4. Cardinality(some \cup {n + 1}) = Cardinality(some) + 1
  BY <1>1, <1>2, FS_AddElement
<1>5. more = some \cup {n + 1} =>
        /\ Cardinality(more) = Cardinality(some) + 1
        /\ Cardinality(some) < Cardinality(all)
  BY <1>2, <1>3, <1>4
<1> QED
  BY <1>1, <1>2, <1>5 DEF some, more, all

\* A channel that reports goes to the end of the list.
LEMMA ListsOneMore ==
  ASSUME RegistryInv, NEW n \in Nat, NEW reported, reported[n + 1] # {},
         NEW active \in Seq(Channels), Lists(active, reported, n),
         NEW ch \in Channels, index[ch] = n
  PROVE  Lists(Append(active, ch), reported, n + 1)
<1> DEFINE longer == Append(active, ch)
           len    == Len(active)
<1>1. /\ len \in Nat /\ DOMAIN active = 1 .. len /\ DOMAIN longer = 1 .. len + 1
      /\ longer[len + 1] = ch
      /\ \A k \in 1 .. len : longer[k] = active[k]
  BY AppendProperties, LenProperties
<1>2. \A other \in Channels : other # ch =>
        index[other] # n /\ index[other] \in Nat \cup {-1}
  BY DEF RegistryInv, RegistryTypeOK, PlacesInv, Registered
<1> HIDE DEF longer, len
<1>3. \A k \in 1 .. len : index[active[k]] \in 0 .. n - 1
  BY <1>1 DEF Lists
<1>4. \A k \in DOMAIN longer : index[longer[k]] \in 0 .. n
  <2> TAKE k \in DOMAIN longer
  <2>1. CASE k = len + 1
    BY <1>1, <2>1
  <2>2. CASE k # len + 1
    <3>1. k \in 1 .. len
      BY <1>1, <2>2
    <3> QED
      BY <1>1, <1>3, <3>1
  <2> QED
    BY <2>1, <2>2
<1>5. \A k, l \in DOMAIN longer : k < l => index[longer[k]] < index[longer[l]]
  <2> SUFFICES ASSUME NEW k \in 1 .. len + 1, NEW l \in 1 .. len + 1, k < l
               PROVE  index[longer[k]] < index[longer[l]]
    BY <1>1
  <2>1. k \in 1 .. len /\ longer[k] = active[k]
    BY <1>1
  <2>2. CASE l = len + 1
    <3>1. index[active[k]] \in 0 .. n - 1 /\ longer[l] = ch
      BY <1>1, <1>3, <2>1, <2>2
    <3> QED
      BY <2>1, <3>1
  <2>3. CASE l # len + 1
    <3>1. l \in 1 .. len /\ longer[l] = active[l]
      BY <1>1, <2>3
    <3> QED
      BY <1>1, <2>1, <3>1 DEF Lists
  <2> QED
    BY <2>2, <2>3
<1>6. ASSUME NEW c \in Channels, Registered(c)
      PROVE  (\E k \in DOMAIN longer : longer[k] = c)
               <=> index[c] < n + 1 /\ reported[index[c] + 1] # {}
  <2>1. CASE c = ch
    <3>1. len + 1 \in DOMAIN longer /\ longer[len + 1] = c
      BY <1>1, <2>1
    <3> QED
      BY <2>1, <3>1
  <2>2. CASE c # ch
    <3>1. index[c] < n + 1 <=> index[c] < n
      BY <1>2, <2>2
    <3>2. (\E k \in DOMAIN longer : longer[k] = c)
            <=> (\E k \in DOMAIN active : active[k] = c)
      <4>1. ASSUME NEW k \in DOMAIN longer, longer[k] = c
            PROVE  k \in DOMAIN active /\ active[k] = c
        <5>1. k # len + 1
          BY <1>1, <2>2, <4>1
        <5>2. k \in 1 .. len
          BY <1>1, <5>1
        <5> QED
          BY <1>1, <4>1, <5>2
      <4>2. ASSUME NEW k \in DOMAIN active, active[k] = c
            PROVE  k \in DOMAIN longer /\ longer[k] = c
        BY <1>1, <4>2
      <4> QED
        BY <4>1, <4>2
    <3>3. (\E k \in DOMAIN active : active[k] = c)
            <=> index[c] < n /\ reported[index[c] + 1] # {}
      BY <1>6 DEF Lists
    <3> QED
      BY <3>1, <3>2, <3>3
  <2> QED
    BY <2>1, <2>2
<1> QED
  BY <1>4, <1>5, <1>6 DEF Lists, longer

\* A channel that does not report is not in the list.
LEMMA ListsSilent ==
  ASSUME RegistryInv, NEW n \in Nat, NEW reported, reported[n + 1] = {},
         NEW active \in Seq(Channels), Lists(active, reported, n)
  PROVE  Lists(active, reported, n + 1)
<1>1. \A k \in DOMAIN active : index[active[k]] \in 0 .. (n + 1) - 1
  BY DEF Lists
<1>2. ASSUME NEW c \in Channels, Registered(c)
      PROVE  (\E k \in DOMAIN active : active[k] = c)
               <=> index[c] < n + 1 /\ reported[index[c] + 1] # {}
  <2>1. index[c] \in Nat
    BY <1>2 DEF Registered, RegistryInv, RegistryTypeOK
  <2>2. (\E k \in DOMAIN active : active[k] = c)
          <=> index[c] < n /\ reported[index[c] + 1] # {}
    BY <1>2 DEF Lists
  <2>3. CASE index[c] = n
    BY <2>2, <2>3
  <2>4. CASE index[c] # n
    <3>1. index[c] < n <=> index[c] < n + 1
      BY <2>1, <2>4
    <3> QED
      BY <2>2, <3>1
  <2> QED
    BY <2>3, <2>4
<1> QED
  BY <1>1, <1>2, Zenon DEF Lists

\* One more pollfd.
LEMMA FillFinds ==
  ASSUME RegistryInv, PlacesAreIndices, NEW n \in 0 .. Len(poll_fds) - 1,
         NEW reported, NEW found \in Found, Finds(found, reported, n)
  PROVE  Finds(Fill(found, poll_fds[n + 1].fd, reported[n + 1]), reported, n + 1)
<1> DEFINE ch == channels[poll_fds[n + 1].fd]
           next == Fill(found, poll_fds[n + 1].fd, reported[n + 1])
<1>1. Len(poll_fds) \in Nat
  BY LenProperties DEF RegistryInv, RegistryTypeOK
<1>2. n \in Nat /\ n + 1 \in 1 .. Len(poll_fds)
  BY <1>1
<1>3. ch \in Channels /\ index[ch] = n
  BY PlacesAreChannels, <1>2 DEF PlacesAreIndices
<1>4. found.active \in Seq(Channels) /\ found.left \in Int
  BY DEF Found
<1>5. CASE reported[n + 1] = {}
  <2>1. next = found
    BY <1>5 DEF Fill
  <2>2. Cardinality(Reporting(reported, n + 1)) = Cardinality(Reporting(reported, n))
    BY <1>1, <1>5, ReportingCount
  <2>3. Lists(found.active, reported, n + 1)
    BY <1>2, <1>4, <1>5, ListsSilent DEF Finds
  <2> QED
    BY <2>1, <2>2, <2>3 DEF Finds
<1>6. CASE reported[n + 1] # {}
  <2>1. /\ Cardinality(Reporting(reported, n)) \in Nat
        /\ Cardinality(Reporting(reported, Len(poll_fds))) \in Nat
        /\ Cardinality(Reporting(reported, n + 1)) = Cardinality(Reporting(reported, n)) + 1
        /\ Cardinality(Reporting(reported, n))
             < Cardinality(Reporting(reported, Len(poll_fds)))
    BY <1>1, <1>6, ReportingCount
  <2>2. found.left = Cardinality(Reporting(reported, Len(poll_fds)))
                       - Cardinality(Reporting(reported, n))
    BY DEF Finds
  <2>3. found.left > 0
    BY <2>1, <2>2
  <2>4. next.left = found.left - 1 /\ next.active = Append(found.active, ch)
    BY <1>6, <2>3, <1>4 DEF Fill
  <2>5. Lists(Append(found.active, ch), reported, n + 1)
    BY <1>2, <1>3, <1>4, <1>6, ListsOneMore DEF Finds
  <2>6. next.left = Cardinality(Reporting(reported, Len(poll_fds)))
                       - Cardinality(Reporting(reported, n + 1))
    BY <2>1, <2>2, <2>4
  <2> QED
    BY <2>4, <2>5, <2>6 DEF Finds
<1> QED
  BY <1>5, <1>6

\* The whole scan.
LEMMA ScanFinds ==
  ASSUME RegistryInv, PlacesAreIndices, revents_ \in [Channels -> SUBSET Events],
         NEW reported \in [DOMAIN poll_fds -> SUBSET Events], NEW scan,
         IsScan(scan, reported, Cardinality(Reporting(reported, Len(poll_fds))),
                Len(poll_fds))
  PROVE  Finds(scan[Len(poll_fds)], reported, Len(poll_fds))
<1> DEFINE S == {i \in Nat : i <= Len(poll_fds) => Finds(scan[i], reported, i)}
           num_events == Cardinality(Reporting(reported, Len(poll_fds)))
<1>1. Len(poll_fds) \in Nat
  BY LenProperties DEF RegistryInv, RegistryTypeOK
<1>2. num_events \in Nat
  BY <1>1, PlacesAreFinite DEF Reporting
<1>3. \A i \in 0 .. Len(poll_fds) : scan[i] \in Found
  BY <1>2, ScanIsTyped
<1>4. 0 \in S
  <2>1. scan[0] = [left |-> num_events, active |-> <<>>, revents |-> revents_]
    BY <1>1 DEF IsScan
  <2>2. Reporting(reported, 0) = {}
    BY DEF Reporting
  <2>3. Cardinality(Reporting(reported, 0)) = 0
    BY <2>2, FS_EmptySet
  <2>4. Lists(<<>>, reported, 0)
    <3>1. \A ch \in Channels : ~(index[ch] < 0 /\ Registered(ch))
      <4>1. \A ch \in Channels : index[ch] \in Int
        BY DEF RegistryInv, RegistryTypeOK
      <4> QED
        BY <4>1 DEF Registered
    <3>2. \A k \in DOMAIN <<>> : FALSE
      OBVIOUS
    <3> QED
      BY <3>1, <3>2, Zenon DEF Lists
  <2>5. scan[0].left = num_events - 0 /\ scan[0].active = <<>>
    BY <1>2, <2>1
  <2> QED
    BY <2>3, <2>4, <2>5 DEF Finds
<1>5. ASSUME NEW n \in Nat, n \in S
      PROVE  n + 1 \in S
  <2> SUFFICES ASSUME n + 1 <= Len(poll_fds)
               PROVE  Finds(scan[n + 1], reported, n + 1)
    OBVIOUS
  <2>1. n \in 0 .. Len(poll_fds) - 1 /\ scan[n] \in Found /\ Finds(scan[n], reported, n)
    BY <1>1, <1>3, <1>5
  <2>2. scan[n + 1] = Fill(scan[n], poll_fds[n + 1].fd, reported[n + 1])
    BY <1>1 DEF IsScan
  <2> QED
    BY <2>1, <2>2, FillFinds
<1> HIDE DEF S
<1>6. Nat \subseteq S
  BY <1>4, <1>5, SetInduction
<1> QED
  BY <1>1, <1>6 DEF S

\* What a registered channel's descriptor has to report.
Ready(ch) == condition[fd_[ch]] \cap (events_[ch] \cup {"err", "hup"}) # {}

\* The list of a round: the registered channels that are ready, in their order.
LEMMA PollLists ==
  ASSUME RegistryInv, LoopTypeOK, MapInv, PlacesAreIndices, Poll
  PROVE  /\ \A k \in DOMAIN active_channels' : Registered(active_channels'[k])
         /\ \A k, l \in DOMAIN active_channels' :
              k < l => index[active_channels'[k]] < index[active_channels'[l]]
         /\ {active_channels'[k] : k \in DOMAIN active_channels'}
              = {ch \in Channels : Registered(ch) /\ Ready(ch)}
<1> DEFINE reported == [i \in DOMAIN poll_fds |-> Revents(poll_fds[i])]
           places   == {i \in DOMAIN poll_fds : reported[i] # {}}
<1>1. Len(poll_fds) \in Nat /\ DOMAIN poll_fds = 1 .. Len(poll_fds)
  BY LenProperties DEF RegistryInv, RegistryTypeOK
<1>2. reported \in [DOMAIN poll_fds -> SUBSET Events]
  BY ReventsAreEvents
<1>3. active_channels' = FillActiveChannels(reported, Cardinality(places)).active
  BY DEF Poll
<1>4. places = Reporting(reported, Len(poll_fds))
  BY <1>1 DEF Reporting
<1>5. ASSUME NEW ch \in Channels, Registered(ch)
      PROVE  /\ index[ch] \in Nat /\ index[ch] < Len(poll_fds)
             /\ reported[index[ch] + 1] # {} <=> Ready(ch)
  <2>1. index[ch] \in Nat /\ index[ch] < Len(poll_fds) /\ index[ch] + 1 \in DOMAIN poll_fds
    BY <1>1, <1>5 DEF RegistryInv, RegistryTypeOK, PlacesInv, Registered
  <2>2. life[ch] = "alive"
    <3>1. index[channels[poll_fds[index[ch] + 1].fd]] = index[ch]
      BY <1>1, <2>1 DEF PlacesAreIndices
    <3>2. /\ channels[poll_fds[index[ch] + 1].fd] \in Channels
          /\ poll_fds[index[ch] + 1].fd \in Fds
      BY <1>1, <2>1, PlacesAreChannels
    <3>3. channels[poll_fds[index[ch] + 1].fd] = ch
      BY <1>5, <3>1, <3>2 DEF RegistryInv, PlacesInv, Registered
    <3> QED
      BY <3>2, <3>3 DEF MapInv, RegistryInv, RegistryTypeOK
  <2>3. poll_fds[index[ch] + 1] = [fd |-> fd_[ch], events |-> events_[ch]]
    BY <1>5, <2>2 DEF RegistryInv, PlacesInv
  <2>4. fd_[ch] \in open /\ fd_[ch] # NoFd
    BY <2>2 DEF RegistryInv, RegistryTypeOK, DescriptorsInv, NoFd
  <2>5. reported[index[ch] + 1] = Revents([fd |-> fd_[ch], events |-> events_[ch]])
    BY <2>1, <2>3
  <2>6. Revents([fd |-> fd_[ch], events |-> events_[ch]])
          = condition[fd_[ch]] \cap (events_[ch] \cup {"err", "hup"})
    BY <2>4 DEF Revents
  <2> QED
    BY <2>1, <2>5, <2>6 DEF Ready
<1> HIDE DEF reported, places
<1>6. PICK scan :
        /\ IsScan(scan, reported, Cardinality(places), Len(poll_fds))
        /\ FillActiveChannels(reported, Cardinality(places)) = scan[Len(poll_fds)]
  BY <1>1, FillScans
<1>7. revents_ \in [Channels -> SUBSET Events]
  BY DEF LoopTypeOK
<1>8. Finds(scan[Len(poll_fds)], reported, Len(poll_fds))
  BY <1>2, <1>4, <1>6, <1>7, ScanFinds
<1>9. Lists(active_channels', reported, Len(poll_fds))
  BY <1>3, <1>6, <1>8 DEF Finds
<1>10. active_channels' \in Seq(Channels)
  BY PollKeepsTypes DEF LoopTypeOK
<1>11. \A k \in DOMAIN active_channels' :
         active_channels'[k] \in Channels /\ Registered(active_channels'[k])
  BY <1>1, <1>9, <1>10 DEF Lists, Registered
<1>12. \A ch \in Channels : Registered(ch) =>
         ((\E k \in DOMAIN active_channels' : active_channels'[k] = ch) <=> Ready(ch))
  BY <1>5, <1>9, Zenon DEF Lists
<1> QED
  BY <1>9, <1>11, <1>12 DEF Lists

\* The inductive invariant behind InOrder: between ::poll and the end of the round
\* the channel that is dispatched comes before those of the list, the list is in
\* order, and all of them are registered, so that nothing moves their indices.
RoundInv ==
  /\ pc \in {"user", "poll", "dispatch"} => current = NoChannel
  /\ current # NoChannel =>
       /\ Registered(current)
       /\ \A k \in DOMAIN active_channels : index[current] < index[active_channels[k]]
  /\ \A k \in DOMAIN active_channels : Registered(active_channels[k])
  /\ \A k, l \in DOMAIN active_channels :
       k < l => index[active_channels[k]] < index[active_channels[l]]

\* At first there is no round.
LEMMA RoundInv_Init == Init => RoundInv
  BY DEF Init, RoundInv

\* Dispatching the first of the list.
LEMMA HandleEventKeepsRound ==
  ASSUME RegistryInv, LoopTypeOK, RoundInv, HandleEvent
  PROVE  RoundInv'
<1> DEFINE list == active_channels
<1>1. list \in Seq(Channels) /\ list # <<>>
  BY DEF LoopTypeOK, HandleEvent
<1>2. /\ Len(list) \in Nat /\ Len(list) > 0 /\ DOMAIN list = 1 .. Len(list)
      /\ DOMAIN Tail(list) = 1 .. Len(list) - 1
      /\ \A k \in 1 .. Len(list) - 1 : Tail(list)[k] = list[k + 1]
      /\ Head(list) = list[1]
  BY <1>1, HeadTailProperties, LenProperties
<1>3. /\ active_channels' = Tail(list) /\ current' = list[1]
      /\ pc' = "handle" /\ UNCHANGED index
  BY <1>2 DEF HandleEvent, channelVars
<1>4. \A k \in 1 .. Len(list) : Registered(list[k])
  BY <1>2 DEF RoundInv
<1>5. \A k, l \in 1 .. Len(list) : k < l => index[list[k]] < index[list[l]]
  BY <1>2 DEF RoundInv
<1> HIDE DEF list
<1>6. \A k \in DOMAIN active_channels' :
        /\ active_channels'[k] = list[k + 1]
        /\ k \in Nat /\ k + 1 \in 1 .. Len(list) /\ 1 < k + 1 /\ 1 \in 1 .. Len(list)
  BY <1>2, <1>3
<1>7. \A k \in DOMAIN active_channels' :
        Registered(active_channels'[k]) /\ index[list[1]] < index[active_channels'[k]]
  BY <1>4, <1>5, <1>6
<1>8. \A k, l \in DOMAIN active_channels' :
        k < l => index[active_channels'[k]] < index[active_channels'[l]]
  <2> TAKE k, l \in DOMAIN active_channels'
  <2> HAVE k < l
  <2>1. k + 1 < l + 1 /\ k + 1 \in 1 .. Len(list) /\ l + 1 \in 1 .. Len(list)
    BY <1>6
  <2>2. index[list[k + 1]] < index[list[l + 1]]
    BY <1>5, <2>1
  <2> QED
    BY <1>6, <2>2
<1>9. Registered(list[1])
  BY <1>2, <1>4
<1> QED
  BY <1>3, <1>7, <1>8, <1>9 DEF RoundInv, Registered

\* A step that moves no index of a registered channel and leaves the round alone.
LEMMA StillInOrder ==
  ASSUME LoopTypeOK, RoundInv, UNCHANGED <<active_channels, current, pc>>,
         \A ch \in Channels : Registered(ch) => index'[ch] = index[ch]
  PROVE  RoundInv'
<1>1. \A k \in DOMAIN active_channels :
        active_channels[k] \in Channels /\ Registered(active_channels[k])
  BY DEF LoopTypeOK, RoundInv
<1>2. current # NoChannel => current \in Channels /\ Registered(current)
  BY DEF LoopTypeOK, RoundInv
<1> QED
  BY <1>1, <1>2 DEF RoundInv, Registered

\* One step keeps RoundInv.
LEMMA RoundInv_Next ==
  /\ RegistryInv /\ LoopTypeOK /\ MapInv /\ PlacesAreIndices
  /\ RoundInv /\ [Next]_vars
  => RoundInv'
<1> SUFFICES ASSUME RegistryInv, LoopTypeOK, MapInv, PlacesAreIndices,
                    RoundInv, [Next]_vars
             PROVE  RoundInv'
  OBVIOUS
<1>1. CASE Poll
  <2>1. current = NoChannel /\ UNCHANGED <<current, index>>
    BY <1>1 DEF Poll, RoundInv
  <2> QED
    BY <1>1, <2>1, PollLists DEF RoundInv, Registered
<1>2. CASE HandleEvent
  BY <1>2, HandleEventKeepsRound
<1>3. ASSUME NEW ch \in Channels, EnableReading(ch)
      PROVE  RoundInv'
  <2>1. UNCHANGED <<active_channels, current, pc>>
    BY <1>3 DEF EnableReading, loopVars
  <2>2. \A other \in Channels : Registered(other) => index'[other] = index[other]
    BY <1>3 DEF EnableReading, UpdateChannel, Registered, RegistryInv, RegistryTypeOK
  <2> QED
    BY <2>1, <2>2, StillInOrder
<1>4. ASSUME NEW ch \in Channels, (\E f \in Fds : Construct(ch, f)) \/ Destroy(ch)
      PROVE  UNCHANGED <<active_channels, current, pc, index>>
  BY <1>4 DEF Construct, Destroy, loopVars
<1>5. ASSUME NEW f \in Fds, NEW what \in SUBSET Events, Happen(f, what)
      PROVE  UNCHANGED <<active_channels, current, pc, index>>
  BY <1>5 DEF Happen, channelVars, loopVars
<1>6. CASE UNCHANGED <<active_channels, current, pc, index>>
  BY <1>6, StillInOrder
<1>7. CASE PollFails \/ CallBack \/ CallbackReturn \/ HandleEventReturn \/ EndRound
  <2>1. pc' \in {"user", "poll", "dispatch"} => current' = NoChannel
    <3>1. CASE CallBack
      BY <1>7, <3>1, HeadTailProperties DEF CallBack, LoopTypeOK
    <3>2. CASE ~CallBack
      BY <1>7, <3>2 DEF PollFails, CallbackReturn, HandleEventReturn, EndRound, RoundInv
    <3> QED
      BY <3>1, <3>2
  <2>2. /\ current' \in {current, NoChannel}
        /\ UNCHANGED <<active_channels, index>>
    BY <1>7 DEF PollFails, CallBack, CallbackReturn, HandleEventReturn, EndRound, channelVars
  <2> QED
    BY <2>1, <2>2 DEF RoundInv, Registered
<1>8. CASE UNCHANGED vars
  BY <1>6, <1>8 DEF vars, channelVars, loopVars
<1>9. CASE EnterPoll
  <2>1. pc = "user" /\ active_channels' = <<>> /\ UNCHANGED <<current, index>>
    BY <1>9 DEF EnterPoll, channelVars
  <2>2. current = NoChannel
    BY <2>1 DEF RoundInv
  <2> QED
    BY <2>1, <2>2 DEF RoundInv
<1> QED
  BY <1>1, <1>2, <1>3, <1>4, <1>5, <1>6, <1>7, <1>8, <1>9 DEF Next, LoopStep

\* RoundInv is InOrder of the channel that is dispatched and the rest of the list.
LEMMA RoundIsInOrder == LoopTypeOK /\ RoundInv => InOrder
<1> SUFFICES ASSUME LoopTypeOK, RoundInv PROVE InOrder
  OBVIOUS
<1>1. CASE current = NoChannel
  BY <1>1 DEF RoundInv, InOrder
<1>2. CASE current # NoChannel
  <2> DEFINE list  == active_channels
             round == <<current>> \o list
  <2>1. list \in Seq(Channels) /\ <<current>> \in Seq(Channels)
    BY <1>2 DEF LoopTypeOK
  <2>2. /\ Len(list) \in Nat /\ DOMAIN list = 1 .. Len(list)
        /\ DOMAIN round = 1 .. Len(list) + 1
        /\ round[1] = current
        /\ \A k \in 2 .. Len(list) + 1 : round[k] = list[k - 1]
    BY <2>1, ConcatProperties, LenProperties
  <2>3. /\ \A k \in 1 .. Len(list) : index[current] < index[list[k]]
        /\ \A k, l \in 1 .. Len(list) : k < l => index[list[k]] < index[list[l]]
    BY <1>2, <2>2 DEF RoundInv
  <2> HIDE DEF list, round
  <2>4. ASSUME NEW i \in DOMAIN round, NEW j \in DOMAIN round, i < j
        PROVE  index[round[i]] < index[round[j]]
    <3>1. j \in 2 .. Len(list) + 1 /\ j - 1 \in 1 .. Len(list)
      BY <2>2, <2>4
    <3>2. CASE i = 1
      BY <2>2, <2>3, <3>1, <3>2
    <3>3. CASE i # 1
      <4>1. i \in 2 .. Len(list) + 1 /\ i - 1 \in 1 .. Len(list) /\ i - 1 < j - 1
        BY <2>2, <2>4, <3>3
      <4> QED
        BY <2>2, <2>3, <3>1, <4>1
    <3> QED
      BY <3>2, <3>3
  <2> QED
    BY <1>2, <2>4 DEF InOrder, round, list
<1> QED
  BY <1>1, <1>2

\* What holds between the steps of a program that destroys no registered channel.
RoundsInv == RegistryInv /\ LoopTypeOK /\ MapInv /\ PlacesAreIndices /\ RoundInv

LEMMA RoundsInvariant == ~MayDestroy => (Spec => []RoundsInv)
<1> SUFFICES ASSUME ~MayDestroy PROVE Spec => []RoundsInv
  OBVIOUS
<1>1. Init => RoundsInv
  BY RegistryInv_Init, PlacesAreIndices_Init, RoundInv_Init
     DEF Init, LoopTypeOK, MapInv, RoundsInv
<1>2. RoundsInv /\ [Next]_vars => RoundsInv'
  BY RegistryInv_Next, LoopTypeOK_Next, MapInv_Next, PlacesAreIndices_Next,
     RoundInv_Next DEF RoundsInv
<1> QED
  BY <1>1, <1>2, PTL DEF Spec

\* Channels are dispatched in the order of registration and none twice in a round,
\* whatever callbacks construct and enable in the middle of it.
THEOREM RoundsAreInOrder == ~MayDestroy => (Spec => []InOrder)
<1> SUFFICES ASSUME ~MayDestroy PROVE Spec => []InOrder
  OBVIOUS
<1>1. RoundsInv => InOrder
  BY RoundIsInOrder DEF RoundsInv
<1> QED
  BY <1>1, RoundsInvariant, PTL

\* A round whose ::poll succeeds dispatches the channels that are ready, all of them and no other: the
\* scan may stop when num_events pollfds have been found (Poller.cpp 36-56).
THEOREM RoundsFindAll == ~MayDestroy => (Spec => PollFindsAll)
<1> SUFFICES ASSUME ~MayDestroy PROVE Spec => PollFindsAll
  OBVIOUS
<1> DEFINE FindsAll ==
      Poll => {active_channels'[i] : i \in DOMAIN active_channels'} =
              {ch \in Channels :
                 Registered(ch) /\ condition[fd_[ch]]
                                   \cap (events_[ch] \cup {"err", "hup"}) # {}}
<1>1. RoundsInv => FindsAll
  BY PollLists DEF RoundsInv, Ready
<1>2. RoundsInv /\ [Next]_vars => [FindsAll]_vars
  BY <1>1
<1> QED
  BY <1>2, RoundsInvariant, PTL DEF Spec, PollFindsAll

=============================================================================
