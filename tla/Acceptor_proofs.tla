-------------------------- MODULE Acceptor_proofs ---------------------------
(***************************************************************************)
(* Theorems about Acceptor, for any connections, sizes of the table and of *)
(* the backlog, and any errors of ::accept.                                *)
(***************************************************************************)
EXTENDS Acceptor, SequenceTheorems, FiniteSetTheorems, TLAPS

USE AcceptorAssumption

-----------------------------------------------------------------------------
(* The elements of a sequence. *)

\* A sequence that grows by an element has that element more.
LEMMA ToSetAppend ==
  ASSUME NEW S, NEW s \in Seq(S), NEW c \in S
  PROVE  ToSet(Append(s, c)) = ToSet(s) \cup {c}
  BY AppendProperties DEF ToSet

\* Taking an element out of a sequence leaves the others, in their order.
LEMMA RemoveAtProperties ==
  ASSUME NEW S, NEW s \in Seq(S), NEW i \in 1 .. Len(s)
  PROVE  /\ RemoveAt(s, i) \in Seq(S)
         /\ Len(RemoveAt(s, i)) = Len(s) - 1
         /\ \A j \in 1 .. Len(s) - 1 :
              RemoveAt(s, i)[j] = IF j < i THEN s[j] ELSE s[j + 1]
<1> DEFINE front == SubSeq(s, 1, i - 1)
           back  == SubSeq(s, i + 1, Len(s))
<1>1. /\ front \in Seq(S) /\ Len(front) = i - 1
      /\ \A j \in 1 .. i - 1 : front[j] = s[j]
  BY SubSeqProperties
<1>2. /\ back \in Seq(S) /\ Len(back) = Len(s) - i
      /\ \A j \in 1 .. Len(s) - i : back[j] = s[j + i]
  BY SubSeqProperties
<1> HIDE DEF front, back
<1>3. /\ front \o back \in Seq(S)
      /\ Len(front \o back) = Len(front) + Len(back)
      /\ \A j \in 1 .. Len(front) + Len(back) :
           (front \o back)[j] = IF j <= Len(front) THEN front[j]
                                ELSE back[j - Len(front)]
  BY <1>1, <1>2, ConcatProperties
<1>4. \A j \in 1 .. Len(s) - 1 :
        (front \o back)[j] = IF j < i THEN s[j] ELSE s[j + 1]
  <2> SUFFICES ASSUME NEW j \in 1 .. Len(s) - 1
               PROVE  (front \o back)[j] = IF j < i THEN s[j] ELSE s[j + 1]
    OBVIOUS
  <2>0. j \in 1 .. Len(front) + Len(back) /\ Len(s) \in Nat
    BY <1>1, <1>2
  <2>1. CASE j < i
    <3>1. j \in 1 .. i - 1 /\ j <= Len(front)
      BY <1>1, <2>1
    <3> QED
      BY <1>1, <1>3, <2>0, <2>1, <3>1
  <2>2. CASE ~(j < i)
    <3>1. /\ j - Len(front) \in 1 .. Len(s) - i
          /\ (j - Len(front)) + i = j + 1
          /\ ~(j <= Len(front))
      BY <1>1, <2>0, <2>2
    <3>2. (front \o back)[j] = back[j - Len(front)]
      BY <1>3, <2>0, <3>1
    <3>3. back[j - Len(front)] = s[(j - Len(front)) + i]
      BY <1>2, <3>1
    <3> QED
      BY <2>2, <3>1, <3>2, <3>3
  <2> QED
    BY <2>1, <2>2
<1>5. RemoveAt(s, i) = front \o back
  BY DEF RemoveAt, front, back
<1>6. Len(front \o back) = Len(s) - 1
  BY <1>1, <1>2, <1>3
<1> QED
  BY <1>3, <1>4, <1>5, <1>6

\* What ::accept and the peers do to a backlog without repetitions.
LEMMA TailOfDistinct ==
  ASSUME NEW S, NEW s \in Seq(S), s # <<>>, IsInjective(s)
  PROVE  /\ Head(s) \in S /\ Tail(s) \in Seq(S) /\ Len(Tail(s)) = Len(s) - 1
         /\ ToSet(Tail(s)) \subseteq ToSet(s) \ {Head(s)}
         /\ Head(s) \in ToSet(s)
         /\ IsInjective(Tail(s))
<1>1. /\ Head(s) \in S /\ Tail(s) \in Seq(S) /\ Len(Tail(s)) = Len(s) - 1
      /\ \A j \in 1 .. Len(s) - 1 : Tail(s)[j] = s[j + 1]
      /\ Len(s) \in Nat \ {0} /\ Head(s) = s[1]
  BY HeadTailProperties, EmptySeq
<1>2. DOMAIN Tail(s) = 1 .. Len(s) - 1 /\ DOMAIN s = 1 .. Len(s)
  BY <1>1
<1>3. ToSet(Tail(s)) \subseteq ToSet(s) \ {Head(s)}
  BY <1>1, <1>2 DEF ToSet, IsInjective
<1>4. IsInjective(Tail(s))
  BY <1>1, <1>2 DEF IsInjective
<1>5. Head(s) \in ToSet(s)
  BY <1>1, <1>2 DEF ToSet
<1> QED
  BY <1>1, <1>3, <1>4, <1>5

LEMMA RemoveAtOfDistinct ==
  ASSUME NEW S, NEW s \in Seq(S), IsInjective(s), NEW i \in DOMAIN s
  PROVE  /\ RemoveAt(s, i) \in Seq(S) /\ Len(RemoveAt(s, i)) < Len(s)
         /\ ToSet(RemoveAt(s, i)) \subseteq ToSet(s)
         /\ IsInjective(RemoveAt(s, i))
<1> DEFINE r == RemoveAt(s, i)
<1>0. i \in 1 .. Len(s)
  BY LenProperties
<1>1. /\ r \in Seq(S) /\ Len(r) = Len(s) - 1
      /\ \A j \in 1 .. Len(s) - 1 : r[j] = IF j < i THEN s[j] ELSE s[j + 1]
  BY <1>0, RemoveAtProperties
<1> HIDE DEF r
<1>2. DOMAIN r = 1 .. Len(s) - 1 /\ DOMAIN s = 1 .. Len(s) /\ Len(s) \in Nat
  BY <1>1
<1>3. ToSet(r) \subseteq ToSet(s)
  BY <1>1, <1>2 DEF ToSet
<1>4. IsInjective(r)
  <2>1. ASSUME NEW a \in 1 .. Len(s) - 1, NEW b \in 1 .. Len(s) - 1, r[a] = r[b]
        PROVE  a = b
    <3> DEFINE From(k) == IF k < i THEN k ELSE k + 1
    <3>1. /\ From(a) \in DOMAIN s /\ From(b) \in DOMAIN s
          /\ From(a) = From(b) => a = b
      BY <1>0, <1>2
    <3>2. r[a] = s[From(a)] /\ r[b] = s[From(b)]
      BY <1>1
    <3> HIDE DEF From
    <3> QED
      BY <2>1, <3>1, <3>2 DEF IsInjective
  <2> QED
    BY <1>2, <2>1 DEF IsInjective
<1> QED
  BY <1>1, <1>2, <1>3, <1>4 DEF r

LEMMA AppendToDistinct ==
  ASSUME NEW S, NEW s \in Seq(S), IsInjective(s), NEW c \in S, c \notin ToSet(s)
  PROVE  IsInjective(Append(s, c))
  BY AppendProperties DEF IsInjective, ToSet

-----------------------------------------------------------------------------
(* Types. *)

\* HandleRead has a connection in hand from ::accept until conn_cb or close.
InHand == pc = "accepted" <=> conn_fd # NoConn

\* The descriptors of connections are finitely many, so they can be counted.
TypeInv == TypeOK /\ IsFiniteSet(fds) /\ InHand

\* At first no descriptor is in use.
LEMMA TypeInv_Init == Init => TypeInv
<1> SUFFICES ASSUME Init PROVE TypeInv
  OBVIOUS
<1>1. IsFiniteSet(fds) /\ Cardinality(fds) = 0
  BY FS_EmptySet DEF Init
<1>2. Used <= MaxFds
  BY <1>1 DEF Init, Used
<1>3. /\ backlog \in Seq(Conns) /\ Len(backlog) <= Backlog
      /\ arrived \in Seq(Conns) /\ given \in Seq(Conns)
  BY DEF Init
<1>4. /\ reset \subseteq Conns /\ fds \subseteq Conns /\ closed \subseteq Conns
      /\ result \in {"ok"} \cup Errnos
      /\ savedErrno \in Errnos \cup {NoErrno} /\ errno \in Errnos \cup {NoErrno}
  BY DEF Init
<1>5. listening \in BOOLEAN /\ enabled \in BOOLEAN /\ conn_cb \in BOOLEAN
  BY Zenon DEF Init
<1>6. /\ others \in 0 .. MaxOthers
      /\ pc \in {"new", "bind", "user", "poll", "event", "accepted", "failed", "logged",
                "callback"}
      /\ conn_fd \in Conns \cup {NoConn}
      /\ aborted \in {"no", "socket", "bind", "listen", "accept"}
  BY DEF Init
<1>7. InHand
  BY DEF Init, InHand
<1> QED
  BY <1>1, <1>2, <1>3, <1>4, <1>5, <1>6, <1>7 DEF TypeInv, TypeOK

\* The size of the table while a connection is added or removed.
LEMMA Counted ==
  ASSUME IsFiniteSet(fds), NEW c
  PROVE  /\ Cardinality(fds) \in Nat
         /\ IsFiniteSet(fds \cup {c}) /\ IsFiniteSet(fds \ {c})
         /\ Cardinality(fds \cup {c}) \in Nat
         /\ Cardinality(fds \cup {c}) <= Cardinality(fds) + 1
         /\ Cardinality(fds \ {c}) \in Nat
         /\ Cardinality(fds \ {c}) <= Cardinality(fds)
  BY FS_CardinalityType, FS_AddElement, FS_RemoveElement

\* One step keeps the types, and never takes more descriptors than there are.
LEMMA TypeInv_Next == TypeInv /\ [Next]_vars => TypeInv'
<1> SUFFICES ASSUME TypeInv, [Next]_vars PROVE TypeInv'
  OBVIOUS
<1> USE DEF TypeInv, TypeOK, InHand, Used, TableFull, acceptorVars, errnoVars, kernelVars, history
<1>0. Cardinality(fds) \in Nat
  BY FS_CardinalityType
<1>1. CASE CreateSocket \/ Bind
  BY <1>0, <1>1 DEF CreateSocket, Bind
<1>2. CASE SetNewConnCallback \/ Listen
  BY <1>0, <1>2 DEF SetNewConnCallback, Listen
<1>3. CASE OpenOther \/ CloseOther
  BY <1>0, <1>3, SMTT(30) DEF OpenOther, CloseOther
<1>4. ASSUME NEW c \in Conns, Close(c)
      PROVE  TypeInv'
  <2>1. IsFiniteSet(fds') /\ Cardinality(fds') \in Nat /\ Cardinality(fds') <= Cardinality(fds)
    BY <1>4, Counted DEF Close
  <2> QED
    BY <1>0, <1>4, <2>1 DEF Close
<1>5. ASSUME NEW c \in Conns, Connect(c)
      PROVE  TypeInv'
  <2>1. /\ backlog' \in Seq(Conns) /\ Len(backlog') <= Backlog
        /\ arrived' \in Seq(Conns)
    BY <1>5, AppendProperties, LenProperties DEF Connect
  <2> QED
    BY <1>0, <1>5, <2>1 DEF Connect
<1>6. ASSUME NEW c \in Conns, PeerReset(c)
      PROVE  TypeInv'
  <2>1. backlog' \in Seq(Conns) /\ Len(backlog') <= Backlog
    <3>1. CASE UNCHANGED backlog
      BY <3>1
    <3>2. ASSUME NEW i \in DOMAIN backlog, backlog' = RemoveAt(backlog, i)
          PROVE  backlog' \in Seq(Conns) /\ Len(backlog') <= Backlog
      <4>1. i \in 1 .. Len(backlog) /\ Len(backlog) \in Nat
        BY LenProperties
      <4>2. backlog' \in Seq(Conns) /\ Len(backlog') = Len(backlog) - 1
        BY <3>2, <4>1, RemoveAtProperties
      <4> QED
        BY <4>1, <4>2
    <3> QED
      BY <1>6, <3>1, <3>2 DEF PeerReset
  <2> QED
    BY <1>0, <1>6, <2>1 DEF PeerReset
<1>7. CASE EnterPoll \/ PollReturn \/ CallbackReturn
  BY <1>0, <1>7 DEF EnterPoll, PollReturn, CallbackReturn
<1>8. ASSUME NEW res, Accept(res), pc = "event"
      PROVE  /\ result' = res /\ res \in {"ok"} \cup Errnos
             /\ backlog' \in Seq(Conns) /\ Len(backlog') <= Backlog
             /\ backlog # <<>> => Head(backlog) \in Conns
             /\ res = "ok" => backlog # <<>> /\ ~TableFull
  <2>1. res \in {"ok"} \cup Errnos
    BY <1>8 DEF Accept, AcceptResults, Errnos, Expected
  <2>2. backlog # <<>> => /\ Head(backlog) \in Conns /\ Tail(backlog) \in Seq(Conns)
                          /\ Len(Tail(backlog)) = Len(backlog) - 1
    BY HeadTailProperties
  <2>3. res = "ok" => backlog # <<>> /\ ~TableFull
    BY <1>8 DEF Accept, AcceptResults
  <2>4. backlog' \in Seq(Conns) /\ Len(backlog') <= Backlog
    <3>1. CASE backlog' = Tail(backlog) /\ backlog # <<>>
      <4>1. Len(Tail(backlog)) <= Backlog
        BY <2>2, LenProperties
      <4> QED
        BY <2>2, <3>1, <4>1
    <3>2. CASE UNCHANGED backlog
      BY <3>2
    <3> QED
      BY <1>8, <3>1, <3>2 DEF Accept
  <2> QED
    BY <1>8, <2>1, <2>2, <2>3, <2>4 DEF Accept
<1>9. CASE HandleReadConn
  <2>1. Accept("ok") /\ pc = "event"
    BY <1>9 DEF HandleReadConn
  <2>2. /\ backlog' \in Seq(Conns) /\ Len(backlog') <= Backlog
        /\ result' = "ok" /\ Head(backlog) \in Conns /\ ~TableFull
    BY <1>8, <2>1
  <2>3. /\ IsFiniteSet(fds \cup {Head(backlog)})
        /\ Cardinality(fds \cup {Head(backlog)}) \in Nat
        /\ Cardinality(fds \cup {Head(backlog)}) <= Cardinality(fds) + 1
    BY Counted
  <2>4. /\ pc' = "accepted" /\ fds' = fds \cup {Head(backlog)} /\ conn_fd' = Head(backlog)
        /\ UNCHANGED <<listening, enabled, conn_cb, savedErrno, errno, aborted, reset,
                       others, arrived, given, closed>>
    BY <1>9 DEF HandleReadConn
  <2>5. Used' <= MaxFds
    BY <1>0, <2>1, <2>2, <2>3, <2>4
  <2> QED
    BY <2>2, <2>3, <2>4, <2>5
<1>10. CASE AcceptFails
  <2>1. PICK res \in AcceptResults \ {"ok"} :
          Accept(res) /\ errno' = IF VALGRIND THEN "EBADF" ELSE res
    BY <1>10 DEF AcceptFails
  <2>2. /\ backlog' \in Seq(Conns) /\ Len(backlog') <= Backlog
        /\ result' \in {"ok"} \cup Errnos /\ errno' \in Errnos
    BY <1>8, <1>10, <2>1 DEF AcceptFails, Errnos, Unexpected
  <2>3. /\ pc = "event" /\ pc' = "failed"
        /\ UNCHANGED <<listening, enabled, conn_cb, conn_fd, savedErrno, aborted, reset,
                       fds, others, arrived, given, closed>>
    BY <1>10 DEF AcceptFails
  <2> QED
    BY <1>0, <2>2, <2>3
<1>12. CASE CallConnCallback
  <2>1. Append(given, conn_fd) \in Seq(Conns)
    BY <1>12, AppendProperties DEF CallConnCallback
  <2> QED
    BY <1>0, <1>12, <2>1 DEF CallConnCallback
<1>13. CASE RefuseConn
  <2>1. IsFiniteSet(fds') /\ Cardinality(fds') \in Nat /\ Cardinality(fds') <= Cardinality(fds)
    BY <1>13, Counted DEF RefuseConn
  <2> QED
    BY <1>0, <1>13, <2>1 DEF RefuseConn
<1>14. CASE LogFailure
  BY <1>0, <1>14 DEF LogFailure
<1>15. CASE ClassifyFailure
  BY <1>0, <1>15 DEF ClassifyFailure
<1>11. CASE UNCHANGED vars
  BY <1>11 DEF vars
<1> QED
  BY <1>1, <1>2, <1>3, <1>4, <1>5, <1>6, <1>7, <1>9, <1>10, <1>11, <1>12,
     <1>13, <1>14, <1>15 DEF Next, LoopStep

\* Type correctness: the process never has more descriptors than its table holds.
THEOREM TypeCorrect == Spec => []TypeOK
  BY TypeInv_Init, TypeInv_Next, PTL DEF Spec, TypeInv

-----------------------------------------------------------------------------
(* Descriptors belong to users. *)

\* The inductive invariant behind DescriptorsAreUsers: a connection is waiting or
\* was given, not both, and it waits once; the one in hand does neither.
ConnInv ==
  /\ DescriptorsAreUsers
  /\ closed \subseteq ToSet(given)
  /\ ToSet(given) \subseteq ToSet(arrived)
  /\ ToSet(backlog) \subseteq ToSet(arrived) \ ToSet(given)
  /\ IsInjective(backlog)
  /\ conn_fd # NoConn =>
       conn_fd \in ToSet(arrived) \ (ToSet(given) \cup ToSet(backlog))

\* At first nothing has arrived.
LEMMA ConnInv_Init == Init => ConnInv
  BY DEF Init, ConnInv, DescriptorsAreUsers, ToSet, IsInjective

\* ::accept takes the oldest connection or leaves the backlog alone.
LEMMA AcceptTakesHead ==
  ASSUME TypeInv, ConnInv, NEW res, Accept(res)
  PROVE  /\ ToSet(backlog') \subseteq ToSet(backlog)
         /\ IsInjective(backlog')
         /\ res = "ok" => /\ Head(backlog) \in ToSet(backlog) \ ToSet(backlog')
                          /\ Head(backlog) \in Conns
<1> USE DEF TypeInv, TypeOK, ConnInv
<1>1. CASE backlog' = Tail(backlog) /\ backlog # <<>>
  <2>1. /\ ToSet(Tail(backlog)) \subseteq ToSet(backlog) \ {Head(backlog)}
        /\ Head(backlog) \in ToSet(backlog) /\ Head(backlog) \in Conns
        /\ IsInjective(Tail(backlog))
    BY <1>1, TailOfDistinct
  <2> QED
    BY <1>1, <2>1
<1>2. CASE UNCHANGED backlog /\ res # "ok"
  BY <1>2
<1>3. res = "ok" => backlog # <<>>
  BY DEF Accept, AcceptResults
<1> QED
  BY <1>1, <1>2, <1>3 DEF Accept

\* One step keeps ConnInv.
LEMMA ConnInv_Next == TypeInv /\ ConnInv /\ [Next]_vars => ConnInv'
<1> SUFFICES ASSUME TypeInv, ConnInv, [Next]_vars PROVE ConnInv'
  OBVIOUS
<1> USE DEF ConnInv, DescriptorsAreUsers, acceptorVars, kernelVars, history
<1>0. backlog \in Seq(Conns) /\ arrived \in Seq(Conns) /\ given \in Seq(Conns)
  BY DEF TypeInv, TypeOK
<1>1. CASE UNCHANGED <<backlog, fds, history, conn_fd>>
  BY <1>1
<1>2. ASSUME NEW c \in Conns, Close(c)
      PROVE  ConnInv'
  <2>1. conn_fd = NoConn /\ UNCHANGED conn_fd
    BY <1>2 DEF Close, TypeInv, InHand
  <2> QED
    BY <1>2, <2>1 DEF Close
<1>3. ASSUME NEW c \in Conns, Connect(c)
      PROVE  ConnInv'
  <2>1. c \notin ToSet(arrived) /\ c \notin ToSet(backlog)
    BY <1>3 DEF Connect
  <2>2. /\ ToSet(backlog') = ToSet(backlog) \cup {c}
        /\ ToSet(arrived') = ToSet(arrived) \cup {c}
    BY <1>0, <1>3, ToSetAppend DEF Connect
  <2>3. IsInjective(backlog')
    BY <1>0, <1>3, <2>1, AppendToDistinct DEF Connect
  <2> QED
    BY <1>3, <2>1, <2>2, <2>3 DEF Connect
<1>4. ASSUME NEW c \in Conns, PeerReset(c)
      PROVE  ConnInv'
  <2>1. ToSet(backlog') \subseteq ToSet(backlog) /\ IsInjective(backlog')
    <3>1. CASE UNCHANGED backlog
      BY <3>1
    <3>2. ASSUME NEW i \in DOMAIN backlog, backlog' = RemoveAt(backlog, i)
          PROVE  ToSet(backlog') \subseteq ToSet(backlog) /\ IsInjective(backlog')
      BY <1>0, <3>2, RemoveAtOfDistinct
    <3> QED
      BY <1>4, <3>1, <3>2 DEF PeerReset
  <2> QED
    BY <1>4, <2>1 DEF PeerReset
<1>5. CASE HandleReadConn
  <2>1. /\ ToSet(backlog') \subseteq ToSet(backlog) /\ IsInjective(backlog')
        /\ Head(backlog) \in ToSet(backlog) \ ToSet(backlog')
        /\ Head(backlog) \in Conns
    BY <1>5, AcceptTakesHead DEF HandleReadConn
  <2>2. /\ fds' = fds \cup {Head(backlog)} /\ conn_fd' = Head(backlog)
        /\ UNCHANGED <<arrived, given, closed>>
    BY <1>5 DEF HandleReadConn
  <2>3. conn_fd = NoConn
    BY <1>5 DEF HandleReadConn, TypeInv, InHand
  <2> QED
    BY <2>1, <2>2, <2>3
<1>6. CASE AcceptFails
  <2>1. ToSet(backlog') \subseteq ToSet(backlog) /\ IsInjective(backlog')
    BY <1>6, AcceptTakesHead DEF AcceptFails
  <2> QED
    BY <1>6, <2>1 DEF AcceptFails
<1>7. CASE CallConnCallback
  <2>1. conn_fd # NoConn /\ conn_fd \in Conns
    BY <1>7 DEF CallConnCallback, TypeInv, TypeOK, InHand
  <2>2. /\ given' = Append(given, conn_fd) /\ conn_fd' = NoConn
        /\ UNCHANGED <<backlog, fds, arrived, closed>>
    BY <1>7 DEF CallConnCallback
  <2>3. ToSet(given') = ToSet(given) \cup {conn_fd}
    BY <1>0, <2>1, <2>2, ToSetAppend
  <2> QED
    BY <2>1, <2>2, <2>3
<1>8. CASE RefuseConn
  <2>1. conn_fd # NoConn
    BY <1>8 DEF RefuseConn, TypeInv, InHand
  <2> QED
    BY <1>8, <2>1 DEF RefuseConn
<1> QED
  BY <1>1, <1>2, <1>3, <1>4, <1>5, <1>6, <1>7, <1>8
     DEF Next, LoopStep, CreateSocket, Bind, SetNewConnCallback, Listen, OpenOther,
         CloseOther, EnterPoll, PollReturn, LogFailure, ClassifyFailure, CallbackReturn,
         vars

\* No descriptor leaks and none is closed under the user, for any number of
\* connections, whenever the callback is set and however full the table is.
THEOREM NoDescriptorLeaks == Spec => []DescriptorsAreUsers
<1>1. ConnInv => DescriptorsAreUsers
  BY DEF ConnInv
<1> QED
  BY <1>1, TypeInv_Init, TypeInv_Next, ConnInv_Init, ConnInv_Next, PTL DEF Spec

-----------------------------------------------------------------------------
(* Nobody is overtaken. *)

\* Who arrived before whom does not change, and who arrives now is the last.
LEMMA BeforeGrows ==
  ASSUME NEW S, NEW order \in Seq(S), NEW c \in S
  PROVE  /\ \A x, y : Before(order, x, y) => Before(Append(order, c), x, y)
         /\ \A x \in ToSet(order) : Before(Append(order, c), x, c)
<1>1. /\ DOMAIN order = 1 .. Len(order) /\ Len(order) \in Nat
      /\ DOMAIN Append(order, c) = 1 .. Len(order) + 1
      /\ \A i \in 1 .. Len(order) : Append(order, c)[i] = order[i]
      /\ Append(order, c)[Len(order) + 1] = c
  BY AppendProperties, LenProperties
<1>2. ASSUME NEW x, NEW y, Before(order, x, y)
      PROVE  Before(Append(order, c), x, y)
  <2>1. PICK i \in DOMAIN order, j \in DOMAIN order :
          i < j /\ order[i] = x /\ order[j] = y
    BY <1>2 DEF Before
  <2> QED
    BY <1>1, <2>1 DEF Before
<1>3. ASSUME NEW x \in ToSet(order)
      PROVE  Before(Append(order, c), x, c)
  <2>1. PICK i \in DOMAIN order : order[i] = x
    BY DEF ToSet
  <2>2. i < Len(order) + 1
    BY <1>1
  <2> QED
    BY <1>1, <2>1, <2>2 DEF Before
<1> QED
  BY <1>2, <1>3

\* A sequence in order stays so when one that came after its elements joins it, ...
LEMMA InOrderAppend ==
  ASSUME NEW S, NEW s \in Seq(S), NEW c \in S, NEW order, InOrderOf(s, order),
         \A x \in ToSet(s) : Before(order, x, c)
  PROVE  InOrderOf(Append(s, c), order)
<1>1. /\ DOMAIN s = 1 .. Len(s) /\ Len(s) \in Nat
      /\ DOMAIN Append(s, c) = 1 .. Len(s) + 1
      /\ \A i \in 1 .. Len(s) : Append(s, c)[i] = s[i]
      /\ Append(s, c)[Len(s) + 1] = c
  BY AppendProperties, LenProperties
<1> SUFFICES ASSUME NEW i \in 1 .. Len(s) + 1, NEW j \in 1 .. Len(s) + 1, i < j
             PROVE  Before(order, Append(s, c)[i], Append(s, c)[j])
  BY <1>1 DEF InOrderOf
<1>2. i \in 1 .. Len(s) /\ s[i] \in ToSet(s)
  BY <1>1 DEF ToSet
<1>3. CASE j \in 1 .. Len(s)
  BY <1>1, <1>2, <1>3 DEF InOrderOf
<1>4. CASE j = Len(s) + 1
  BY <1>1, <1>2, <1>4
<1> QED
  BY <1>1, <1>3, <1>4

\* ... when its first or another element leaves it, ...
LEMMA InOrderTail ==
  ASSUME NEW S, NEW s \in Seq(S), s # <<>>, NEW order, InOrderOf(s, order)
  PROVE  /\ InOrderOf(Tail(s), order)
         /\ \A x \in ToSet(Tail(s)) : Before(order, Head(s), x)
<1>1. /\ DOMAIN s = 1 .. Len(s) /\ Len(s) \in Nat \ {0} /\ Head(s) = s[1]
      /\ DOMAIN Tail(s) = 1 .. Len(s) - 1
      /\ \A j \in 1 .. Len(s) - 1 : Tail(s)[j] = s[j + 1]
  BY HeadTailProperties, EmptySeq, LenProperties
<1>2. InOrderOf(Tail(s), order)
  BY <1>1 DEF InOrderOf
<1>3. ASSUME NEW x \in ToSet(Tail(s))
      PROVE  Before(order, Head(s), x)
  <2>1. PICK j \in 1 .. Len(s) - 1 : Tail(s)[j] = x
    BY <1>1 DEF ToSet
  <2>2. 1 \in DOMAIN s /\ j + 1 \in DOMAIN s /\ 1 < j + 1
    BY <1>1
  <2> QED
    BY <1>1, <2>1, <2>2 DEF InOrderOf
<1> QED
  BY <1>2, <1>3

LEMMA InOrderRemoveAt ==
  ASSUME NEW S, NEW s \in Seq(S), NEW k \in DOMAIN s, NEW order, InOrderOf(s, order)
  PROVE  InOrderOf(RemoveAt(s, k), order)
<1> DEFINE r == RemoveAt(s, k)
<1>0. k \in 1 .. Len(s) /\ DOMAIN s = 1 .. Len(s) /\ Len(s) \in Nat
  BY LenProperties
<1>1. /\ r \in Seq(S) /\ Len(r) = Len(s) - 1
      /\ \A j \in 1 .. Len(s) - 1 : r[j] = IF j < k THEN s[j] ELSE s[j + 1]
  BY <1>0, RemoveAtProperties
<1> HIDE DEF r
<1>2. DOMAIN r = 1 .. Len(s) - 1
  BY <1>1
<1>3. ASSUME NEW i \in DOMAIN r, NEW j \in DOMAIN r, i < j
      PROVE  Before(order, r[i], r[j])
  <2>1. PICK m \in DOMAIN s, n \in DOMAIN s : m < n /\ r[i] = s[m] /\ r[j] = s[n]
    <3>1. CASE j < k
      BY <1>0, <1>1, <1>2, <1>3, <3>1
    <3>2. CASE i < k /\ ~(j < k)
      <4>1. j + 1 \in DOMAIN s /\ i \in DOMAIN s /\ i < j + 1
        BY <1>0, <1>2, <1>3
      <4> QED
        BY <1>1, <1>2, <3>2, <4>1
    <3>3. CASE ~(i < k)
      <4>1. j + 1 \in DOMAIN s /\ i + 1 \in DOMAIN s /\ i + 1 < j + 1 /\ ~(j < k)
        BY <1>0, <1>2, <1>3, <3>3
      <4> QED
        BY <1>1, <1>2, <3>3, <4>1
    <3> QED
      BY <3>1, <3>2, <3>3
  <2> QED
    BY <2>1 DEF InOrderOf
<1> QED
  BY <1>3 DEF InOrderOf, r

\* ... and when the order grows.
LEMMA InOrderGrows ==
  ASSUME NEW S, NEW order \in Seq(S), NEW c \in S, NEW s, InOrderOf(s, order)
  PROVE  InOrderOf(s, Append(order, c))
  BY BeforeGrows DEF InOrderOf

\* The inductive invariant behind GivenInOrder: the backlog is in order too, and who
\* was given came before all who wait; the one in hand came between them.
OrderInv ==
  /\ GivenInOrder
  /\ InOrderOf(backlog, arrived)
  /\ \A c \in ToSet(given), d \in ToSet(backlog) : Before(arrived, c, d)
  /\ conn_fd # NoConn =>
       /\ \A c \in ToSet(given) : Before(arrived, c, conn_fd)
       /\ \A d \in ToSet(backlog) : Before(arrived, conn_fd, d)

\* At first nobody has arrived.
LEMMA OrderInv_Init == Init => OrderInv
  BY DEF Init, OrderInv, GivenInOrder, InOrderOf, ToSet

\* ::accept leaves a backlog in order, and takes the one before all others.
LEMMA AcceptKeepsOrder ==
  ASSUME TypeInv, ConnInv, OrderInv, NEW res, Accept(res)
  PROVE  /\ InOrderOf(backlog', arrived)
         /\ ToSet(backlog') \subseteq ToSet(backlog)
         /\ res = "ok" => /\ Head(backlog) \in ToSet(backlog) /\ Head(backlog) \in Conns
                          /\ \A d \in ToSet(backlog') : Before(arrived, Head(backlog), d)
<1>0. backlog \in Seq(Conns) /\ InOrderOf(backlog, arrived)
  BY DEF TypeInv, TypeOK, OrderInv
<1>1. /\ ToSet(backlog') \subseteq ToSet(backlog)
      /\ res = "ok" => Head(backlog) \in ToSet(backlog) /\ Head(backlog) \in Conns
  BY AcceptTakesHead
<1>2. CASE backlog' = Tail(backlog) /\ backlog # <<>>
  BY <1>0, <1>1, <1>2, InOrderTail
<1>3. CASE UNCHANGED backlog /\ res # "ok"
  BY <1>0, <1>1, <1>3
<1>4. res = "ok" => backlog # <<>>
  BY DEF Accept, AcceptResults
<1> QED
  BY <1>2, <1>3, <1>4 DEF Accept

\* One step keeps OrderInv.
LEMMA OrderInv_Next == TypeInv /\ ConnInv /\ OrderInv /\ [Next]_vars => OrderInv'
<1> SUFFICES ASSUME TypeInv, ConnInv, OrderInv, [Next]_vars PROVE OrderInv'
  OBVIOUS
<1> USE DEF kernelVars, history
<1>0. /\ backlog \in Seq(Conns) /\ arrived \in Seq(Conns) /\ given \in Seq(Conns)
      /\ InOrderOf(given, arrived) /\ InOrderOf(backlog, arrived)
      /\ \A c \in ToSet(given), d \in ToSet(backlog) : Before(arrived, c, d)
      /\ ToSet(given) \subseteq ToSet(arrived) /\ ToSet(backlog) \subseteq ToSet(arrived)
      /\ conn_fd # NoConn =>
           /\ \A c \in ToSet(given) : Before(arrived, c, conn_fd)
           /\ \A d \in ToSet(backlog) : Before(arrived, conn_fd, d)
           /\ conn_fd \in ToSet(arrived)
  BY DEF TypeInv, TypeOK, OrderInv, GivenInOrder, ConnInv
<1>1. CASE UNCHANGED <<backlog, arrived, given, conn_fd>>
  BY <1>0, <1>1 DEF OrderInv, GivenInOrder
<1>2. ASSUME NEW c \in Conns, Connect(c)
      PROVE  OrderInv'
  <2>1. /\ arrived' = Append(arrived, c) /\ backlog' = Append(backlog, c)
        /\ UNCHANGED <<given, conn_fd>>
    BY <1>2 DEF Connect
  <2>2. /\ \A x, y : Before(arrived, x, y) => Before(arrived', x, y)
        /\ \A x \in ToSet(arrived) : Before(arrived', x, c)
    BY <1>0, <2>1, BeforeGrows
  <2>3. InOrderOf(given, arrived') /\ InOrderOf(backlog, arrived')
    BY <1>0, <2>1, InOrderGrows
  <2>4. InOrderOf(backlog', arrived')
    BY <1>0, <2>1, <2>2, <2>3, InOrderAppend
  <2>5. ToSet(backlog') = ToSet(backlog) \cup {c}
    BY <1>0, <2>1, ToSetAppend
  <2> QED
    BY <1>0, <2>1, <2>2, <2>3, <2>4, <2>5 DEF OrderInv, GivenInOrder
<1>3. ASSUME NEW c \in Conns, PeerReset(c)
      PROVE  OrderInv'
  <2>1. UNCHANGED <<arrived, given, conn_fd>>
    BY <1>3 DEF PeerReset
  <2>2. CASE UNCHANGED backlog
    BY <1>1, <2>1, <2>2
  <2>3. ASSUME NEW i \in DOMAIN backlog, backlog' = RemoveAt(backlog, i)
        PROVE  OrderInv'
    <3>1. InOrderOf(backlog', arrived)
      BY <1>0, <2>3, InOrderRemoveAt
    <3>2. ToSet(backlog') \subseteq ToSet(backlog)
      BY <1>0, <2>3, RemoveAtOfDistinct DEF ConnInv
    <3> QED
      BY <1>0, <2>1, <3>1, <3>2 DEF OrderInv, GivenInOrder
  <2> QED
    BY <1>3, <2>2, <2>3 DEF PeerReset
<1>4. CASE HandleReadConn
  <2>1. /\ InOrderOf(backlog', arrived) /\ ToSet(backlog') \subseteq ToSet(backlog)
        /\ Head(backlog) \in ToSet(backlog)
        /\ \A d \in ToSet(backlog') : Before(arrived, Head(backlog), d)
    BY <1>4, AcceptKeepsOrder DEF HandleReadConn
  <2>2. conn_fd' = Head(backlog) /\ UNCHANGED <<arrived, given>>
    BY <1>4 DEF HandleReadConn
  <2> QED
    BY <1>0, <2>1, <2>2 DEF OrderInv, GivenInOrder
<1>5. CASE AcceptFails
  <2>1. /\ InOrderOf(backlog', arrived) /\ ToSet(backlog') \subseteq ToSet(backlog)
        /\ UNCHANGED <<arrived, given, conn_fd>>
    BY <1>5, AcceptKeepsOrder DEF AcceptFails
  <2> QED
    BY <1>0, <2>1 DEF OrderInv, GivenInOrder
<1>6. CASE CallConnCallback
  <2>1. conn_fd # NoConn /\ conn_fd \in Conns
    BY <1>6 DEF CallConnCallback, TypeInv, TypeOK, InHand
  <2>2. /\ given' = Append(given, conn_fd) /\ conn_fd' = NoConn
        /\ UNCHANGED <<backlog, arrived>>
    BY <1>6 DEF CallConnCallback
  <2>3. InOrderOf(given', arrived)
    BY <1>0, <2>1, <2>2, InOrderAppend
  <2>4. ToSet(given') = ToSet(given) \cup {conn_fd}
    BY <1>0, <2>1, <2>2, ToSetAppend
  <2> QED
    BY <1>0, <2>1, <2>2, <2>3, <2>4 DEF OrderInv, GivenInOrder
<1>7. CASE RefuseConn
  BY <1>0, <1>7 DEF RefuseConn, OrderInv, GivenInOrder
<1> QED
  BY <1>1, <1>2, <1>3, <1>4, <1>5, <1>6, <1>7
     DEF Next, LoopStep, CreateSocket, Bind, SetNewConnCallback, Listen, OpenOther,
         CloseOther, Close, EnterPoll, PollReturn, LogFailure, ClassifyFailure,
         CallbackReturn, vars

\* Connections are given in the order in which they arrived, whoever is dropped,
\* reset or refused in between.
THEOREM NobodyIsOvertaken == Spec => []GivenInOrder
<1>1. OrderInv => GivenInOrder
  BY DEF OrderInv
<1> QED
  BY <1>1, TypeInv_Init, TypeInv_Next, ConnInv_Init, ConnInv_Next, OrderInv_Init,
     OrderInv_Next, PTL DEF Spec

-----------------------------------------------------------------------------
(* Which errors are fatal. *)

\* The inductive invariant behind SurvivesExpectedErrors: what ::accept returned is in
\* errno until it is saved, and in savedErrno until the switch.
ErrnoInv ==
  /\ pc = "failed" => errno = result
  /\ pc = "logged" => savedErrno = result
  /\ SurvivesExpectedErrors

\* One step keeps ErrnoInv, unless fcntl comes in between.
LEMMA ErrnoInv_Next == ~VALGRIND /\ ErrnoInv /\ [Next]_vars => ErrnoInv'
<1> SUFFICES ASSUME ~VALGRIND, ErrnoInv, [Next]_vars PROVE ErrnoInv'
  OBVIOUS
<1> USE DEF ErrnoInv, SurvivesExpectedErrors, Alive, errnoVars, kernelVars
<1>1. CASE Alive /\ AcceptFails
  BY <1>1 DEF AcceptFails, Accept
<1>2. CASE Alive /\ LogFailure
  BY <1>2 DEF LogFailure
<1>3. CASE Alive /\ ClassifyFailure
  BY <1>3 DEF ClassifyFailure
<1>4. CASE Alive /\ (CreateSocket \/ Bind \/ Listen)
  BY <1>4 DEF CreateSocket, Bind, Listen
<1>5. CASE Alive /\ HandleReadConn
  BY <1>5 DEF HandleReadConn
<1>6. CASE Alive /\ (EnterPoll \/ PollReturn \/ CallConnCallback \/ RefuseConn
                     \/ CallbackReturn)
  BY <1>6 DEF EnterPoll, PollReturn, CallConnCallback, RefuseConn, CallbackReturn
<1>7. CASE UNCHANGED <<pc, errno, savedErrno, result, aborted>>
  BY <1>7
<1> QED
  BY <1>1, <1>2, <1>3, <1>4, <1>5, <1>6, <1>7
     DEF Next, LoopStep, SetNewConnCallback, OpenOther, CloseOther, Close, Connect,
         PeerReset, vars

\* In the default build no expected error of ::accept ends the process, whatever the
\* record that logs it leaves in errno.
THEOREM ExpectedErrorsAreSurvived ==
  ~VALGRIND => (Spec => []SurvivesExpectedErrors)
<1> SUFFICES ASSUME ~VALGRIND PROVE Spec => []SurvivesExpectedErrors
  OBVIOUS
<1>1. Init => ErrnoInv
  BY DEF Init, ErrnoInv, SurvivesExpectedErrors
<1>2. ErrnoInv /\ [Next]_vars => ErrnoInv'
  BY ErrnoInv_Next
<1>3. ErrnoInv => SurvivesExpectedErrors
  BY DEF ErrnoInv
<1> QED
  BY <1>1, <1>2, <1>3, PTL DEF Spec

=============================================================================
