------------------------------ MODULE Acceptor ------------------------------
(***************************************************************************)
(* One Acceptor (reactor/s04/Acceptor.cpp) with its Socket and the calls   *)
(* of SocketsOps.cpp it makes: a listening descriptor whose channel is     *)
(* dispatched by the loop, one ::accept per event, and the user's          *)
(* connection callback.  The connections wait in the kernel's backlog; the *)
(* peer may reset one at any time, and the process shares its table of     *)
(* descriptors between connections and everything else.                    *)
(***************************************************************************)
EXTENDS Naturals, Sequences, FiniteSets, SequencesExt

CONSTANTS
  Conns,         \* connections, each attempted once
  NoConn,
  MaxFds,        \* descriptors the process may have beside those it started with
  MaxOthers,     \* bound: descriptors opened for something else
  Backlog,       \* SOMAXCONN
  Transient,     \* errnos ::accept may return on its own account
  VALGRIND       \* the build option of SocketsOps.cpp

\* The cases of sockets::accept; "EOTHER" stands for every errno of the default case.
Expected   == {"EAGAIN", "ECONNABORTED", "EINTR", "EPROTO", "EPERM", "EMFILE"}
Unexpected == {"EBADF", "EFAULT", "EINVAL", "ENFILE", "ENOBUFS", "ENOMEM",
               "ENOTSOCK", "EOPNOTSUPP", "EOTHER"}

Errnos  == Expected \cup Unexpected
NoErrno == "none"

ASSUME AcceptorAssumption ==
  /\ MaxFds \in Nat \ {0} /\ MaxOthers \in Nat /\ Backlog \in Nat \ {0}
  /\ NoConn \notin Conns
  /\ Transient \subseteq Errnos
  /\ VALGRIND \in BOOLEAN

VARIABLES
  listening,     \* member
  enabled,       \* accept_channel is registered for reading
  conn_cb,       \* whether the connection callback is set
  pc,            \* the loop thread
  conn_fd,       \* local of HandleRead: the connection it still has in hand
  savedErrno,    \* local of sockets::accept
  errno,         \* errno of the loop thread
  aborted,       \* the call whose failure was fatal, "no" while the process lives
  backlog,       \* kernel: connections to be accepted, oldest first
  reset,         \* kernel: connections of it that the peer has reset
  fds,           \* kernel: connections that have a descriptor
  others,        \* kernel: descriptors in use for something else
  result,        \* what the last ::accept returned: "ok" or its errno
  arrived,       \* history: connections in the order they arrived
  given,         \* history: connections given to conn_cb, in order
  closed         \* history: connections the user has closed

acceptorVars == <<listening, enabled, conn_cb>>
errnoVars    == <<savedErrno, errno>>
kernelVars   == <<backlog, reset, fds, others, result>>
history      == <<arrived, given, closed>>
vars == <<acceptorVars, pc, conn_fd, errnoVars, aborted, kernelVars, history>>

\* The connections, the rest of the process and the listening socket.
Used == Cardinality(fds) + others + (IF pc = "new" THEN 0 ELSE 1)

TableFull == Used >= MaxFds

Alive == aborted = "no"

\* "new", "bind": in the constructor; "user": code of the user on the loop thread;
\* "poll": in ::poll; "event": the channel is in the list and HandleRead will be
\* called; "accepted": ::accept has returned a connection; "failed": it has failed;
\* "logged": that is logged; "callback": in conn_cb.
TypeOK ==
  /\ listening \in BOOLEAN
  /\ enabled \in BOOLEAN
  /\ conn_cb \in BOOLEAN
  /\ pc \in {"new", "bind", "user", "poll", "event", "accepted", "failed", "logged",
             "callback"}
  /\ conn_fd \in Conns \cup {NoConn}
  /\ savedErrno \in Errnos \cup {NoErrno}
  /\ errno \in Errnos \cup {NoErrno}
  /\ aborted \in {"no", "socket", "bind", "listen", "accept"}
  /\ backlog \in Seq(Conns) /\ Len(backlog) <= Backlog
  /\ reset \subseteq Conns
  /\ fds \subseteq Conns
  /\ others \in 0 .. MaxOthers
  /\ Used <= MaxFds
  /\ result \in {"ok"} \cup Errnos
  /\ arrived \in Seq(Conns) /\ given \in Seq(Conns) /\ closed \subseteq Conns

Init ==
  /\ listening = FALSE
  /\ enabled = FALSE
  /\ conn_cb = FALSE
  /\ pc = "new"
  /\ conn_fd = NoConn
  /\ savedErrno = NoErrno
  /\ errno = NoErrno
  /\ aborted = "no"
  /\ backlog = <<>>
  /\ reset = {}
  /\ fds = {}
  /\ others = 0
  /\ result = "ok"
  /\ arrived = <<>>
  /\ given = <<>>
  /\ closed = {}

-----------------------------------------------------------------------------
(* The user, on the loop thread. *)

\* The constructor: createNonblockingOrDie, which needs a free descriptor, ...
CreateSocket ==
  /\ pc = "new"
  /\ \/ ~TableFull /\ pc' = "bind" /\ UNCHANGED aborted
     \/ aborted' = "socket" /\ UNCHANGED pc
  /\ UNCHANGED <<acceptorVars, conn_fd, errnoVars, kernelVars, history>>

\* ... then bindOrDie.
Bind ==
  /\ pc = "bind"
  /\ \/ pc' = "user" /\ UNCHANGED aborted
     \/ aborted' = "bind" /\ UNCHANGED pc
  /\ UNCHANGED <<acceptorVars, conn_fd, errnoVars, kernelVars, history>>

SetNewConnCallback ==
  /\ pc = "user"
  /\ conn_cb' = TRUE
  /\ UNCHANGED <<listening, enabled, pc, conn_fd, errnoVars, aborted, kernelVars,
                 history>>

\* Mutant: the channel is not enabled.
ListenWithoutEnable ==
  /\ pc = "user"
  /\ listening' = TRUE
  /\ UNCHANGED <<enabled, conn_cb, pc, conn_fd, errnoVars, aborted, kernelVars,
                 history>>

\* listenOrDie, then enable the channel: what arrived in between is still readable.
Listen ==
  /\ pc = "user"
  /\ listening' = TRUE
  /\ \/ enabled' = TRUE /\ UNCHANGED aborted
     \/ aborted' = "listen" /\ UNCHANGED enabled
  /\ UNCHANGED <<conn_cb, pc, conn_fd, errnoVars, kernelVars, history>>

\* The user is done with a connection it was given.
Close(c) ==
  /\ pc \in {"user", "callback"}
  /\ c \in fds \cap ToSet(given)
  /\ fds' = fds \ {c}
  /\ closed' = closed \cup {c}
  /\ UNCHANGED <<acceptorVars, pc, conn_fd, errnoVars, aborted, backlog, reset,
                 others, result, arrived, given>>

OpenOther ==
  /\ ~TableFull
  /\ others < MaxOthers
  /\ others' = others + 1
  /\ UNCHANGED <<acceptorVars, pc, conn_fd, errnoVars, aborted, backlog, reset, fds,
                 result, history>>

CloseOther ==
  /\ others > 0
  /\ others' = others - 1
  /\ UNCHANGED <<acceptorVars, pc, conn_fd, errnoVars, aborted, backlog, reset, fds,
                 result, history>>

-----------------------------------------------------------------------------
(* The peers and the kernel. *)

Connect(c) ==
  /\ listening
  /\ c \notin ToSet(arrived)
  /\ Len(backlog) < Backlog
  /\ backlog' = Append(backlog, c)
  /\ arrived' = Append(arrived, c)
  /\ UNCHANGED <<acceptorVars, pc, conn_fd, errnoVars, aborted, reset, fds, others,
                 result, given, closed>>

\* The peer gives up a connection nobody accepted: it may stay in the backlog or
\* be dropped from it.
PeerReset(c) ==
  /\ c \in ToSet(backlog) \ reset
  /\ \/ reset' = reset \cup {c} /\ UNCHANGED backlog
     \/ \E i \in DOMAIN backlog :
          backlog[i] = c /\ backlog' = RemoveAt(backlog, i) /\ UNCHANGED reset
  /\ UNCHANGED <<acceptorVars, pc, conn_fd, errnoVars, aborted, fds, others, result,
                 history>>

\* The result of ::accept: "ok" takes the oldest connection.
AcceptResults ==
  IF backlog = <<>> THEN {"EAGAIN"}
  ELSE IF TableFull THEN {"EMFILE"}
  ELSE {"ok"} \cup Transient
         \cup (IF Head(backlog) \in reset THEN {"ECONNABORTED"} ELSE {})

\* A connection leaves the backlog when it is returned or reported as aborted.
Accept(res) ==
  /\ res \in AcceptResults
  /\ result' = res
  /\ IF res \in {"ok", "ECONNABORTED"} /\ backlog # <<>>
     THEN backlog' = Tail(backlog)
     ELSE UNCHANGED backlog

-----------------------------------------------------------------------------
(* The loop. *)

EnterPoll ==
  /\ pc = "user"
  /\ pc' = "poll"
  /\ UNCHANGED <<acceptorVars, conn_fd, errnoVars, aborted, kernelVars, history>>

\* Level-triggered; other channels or the timeout may end a poll as well.
PollReturn ==
  /\ pc = "poll"
  /\ pc' = IF enabled /\ backlog # <<>> THEN "event" ELSE "user"
  /\ UNCHANGED <<acceptorVars, conn_fd, errnoVars, aborted, kernelVars, history>>

\* Mutants: a full table of descriptors is overlooked; all that wait are taken, and
\* given from the back.
HandleReadOverfull ==
  /\ pc = "event"
  /\ backlog # <<>>
  /\ backlog' = Tail(backlog)
  /\ fds' = fds \cup {Head(backlog)}
  /\ conn_fd' = Head(backlog)
  /\ pc' = "accepted"
  /\ UNCHANGED <<acceptorVars, errnoVars, aborted, reset, others, result, history>>

HandleReadYoungestFirst ==
  /\ pc = "event"
  /\ conn_cb
  /\ Used + Len(backlog) <= MaxFds
  /\ backlog' = <<>>
  /\ fds' = fds \cup ToSet(backlog)
  /\ given' = given \o Reverse(backlog)
  /\ pc' = "callback"
  /\ UNCHANGED <<acceptorVars, conn_fd, errnoVars, aborted, reset, others, result,
                 arrived, closed>>

\* HandleRead, ::accept returns a connection: it has a descriptor now.
HandleReadConn ==
  /\ pc = "event"
  /\ Accept("ok")
  /\ fds' = fds \cup {Head(backlog)}
  /\ conn_fd' = Head(backlog)
  /\ pc' = "accepted"
  /\ UNCHANGED <<acceptorVars, errnoVars, aborted, reset, others, history>>

\* HandleRead calls conn_cb with it: it is the user's.
CallConnCallback ==
  /\ pc = "accepted"
  /\ conn_cb
  /\ given' = Append(given, conn_fd)
  /\ conn_fd' = NoConn
  /\ pc' = "callback"
  /\ UNCHANGED <<acceptorVars, errnoVars, aborted, kernelVars, arrived, closed>>

\* Mutant: a connection nobody takes stays open.
RefuseKeepsOpen ==
  /\ pc = "accepted"
  /\ ~conn_cb
  /\ conn_fd' = NoConn
  /\ pc' = "user"
  /\ UNCHANGED <<acceptorVars, errnoVars, aborted, kernelVars, history>>

\* HandleRead without a conn_cb closes the connection.  When ::close fails that is
\* logged and no more; the kernel has released the descriptor all the same.
RefuseConn ==
  /\ pc = "accepted"
  /\ ~conn_cb
  /\ fds' = fds \ {conn_fd}
  /\ conn_fd' = NoConn
  /\ pc' = "user"
  /\ UNCHANGED <<acceptorVars, errnoVars, aborted, backlog, reset, others, result,
                 history>>

\* sockets::accept, ::accept fails and leaves its reason in errno; with VALGRIND the
\* fcntl of the descriptor -1 then leaves its own.
AcceptFails ==
  /\ pc = "event"
  /\ \E res \in AcceptResults \ {"ok"} :
       /\ Accept(res)
       /\ errno' = IF VALGRIND THEN "EBADF" ELSE res
  /\ pc' = "failed"
  /\ UNCHANGED <<acceptorVars, conn_fd, savedErrno, aborted, reset, fds, others,
                 history>>

\* Mutant: errno is saved after the record is written.
LogFailureFirst ==
  /\ pc = "failed"
  /\ errno' \in Errnos
  /\ savedErrno' = errno'
  /\ pc' = "logged"
  /\ UNCHANGED <<acceptorVars, conn_fd, aborted, kernelVars, history>>

\* sockets::accept saves errno and logs the failure: the output of the record may
\* leave anything in errno.
LogFailure ==
  /\ pc = "failed"
  /\ savedErrno' = errno
  /\ errno' \in Errnos
  /\ pc' = "logged"
  /\ UNCHANGED <<acceptorVars, conn_fd, aborted, kernelVars, history>>

\* The switch: an expected error goes back to HandleRead, which returns; every other
\* case ends in LOG_FATAL.
ClassifyFailure ==
  /\ pc = "logged"
  /\ \/ savedErrno \in Expected /\ errno' = savedErrno /\ UNCHANGED aborted
     \/ savedErrno \notin Expected /\ aborted' = "accept" /\ UNCHANGED errno
  /\ savedErrno' = NoErrno
  /\ pc' = "user"
  /\ UNCHANGED <<acceptorVars, conn_fd, kernelVars, history>>

CallbackReturn ==
  /\ pc = "callback"
  /\ pc' = "user"
  /\ UNCHANGED <<acceptorVars, conn_fd, errnoVars, aborted, kernelVars, history>>

LoopStep ==
  \/ EnterPoll \/ PollReturn
  \/ HandleReadConn \/ CallConnCallback \/ RefuseConn \/ CallbackReturn
  \/ AcceptFails \/ LogFailure \/ ClassifyFailure

Next ==
  /\ Alive
  /\ \/ CreateSocket \/ Bind
     \/ SetNewConnCallback \/ Listen \/ OpenOther \/ CloseOther
     \/ \E c \in Conns : Close(c) \/ Connect(c) \/ PeerReset(c)
     \/ LoopStep

Spec == Init /\ [][Next]_vars

\* The loop goes round, the user closes what it was given, and ::accept does not
\* fail for ever of its own account.
FairSpec ==
  /\ Spec
  /\ WF_vars(Alive /\ LoopStep)
  /\ SF_vars(Alive /\ HandleReadConn)
  /\ \A c \in Conns : SF_vars(Alive /\ Close(c))
  /\ WF_vars(Alive /\ CloseOther)

-----------------------------------------------------------------------------
(* Safety. *)

\* Every descriptor of a connection belongs to the user, from conn_cb until the
\* user closes it, but for the one HandleRead has in hand: none leaks when there is
\* no callback or the callback is set late, and none is closed under the user
\* (Acceptor.cpp 26-42).
DescriptorsAreUsers == fds = (ToSet(given) \ closed) \cup ({conn_fd} \ {NoConn})

Before(order, c, d) ==
  \E i, j \in DOMAIN order : i < j /\ order[i] = c /\ order[j] = d

InOrderOf(s, order) == \A i, j \in DOMAIN s : i < j => Before(order, s[i], s[j])

\* Nobody is overtaken: connections are given to conn_cb in the order in which they
\* arrived, those left out that the peer gave up or nobody was there to take
\* (Acceptor.cpp 26-42, one accept per event).
GivenInOrder == InOrderOf(given, arrived)

\* The process ends only for an error of ::accept that is not expected.  Between
\* the call and the switch errno does not last: fcntl may come in between, and the
\* record that logs the failure is written before (SocketsOps.cpp 84-124).
SurvivesExpectedErrors == aborted = "accept" => result \notin Expected

-----------------------------------------------------------------------------
(* Liveness. *)

\* A connection leaves the backlog, although HandleRead accepts one per event
\* and is called again and again while the table of descriptors is full.
BacklogDrains ==
  \A c \in Conns :
    c \in ToSet(backlog) ~> c \notin ToSet(backlog) \/ ~Alive

=============================================================================
