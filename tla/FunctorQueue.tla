---------------------------- MODULE FunctorQueue ----------------------------
(***************************************************************************)
(* What EventLoop::QueueInLoop promises its callers: a serial executor.    *)
(* Functors are run one at a time, each once, in the order in which they   *)
(* were queued; while the loop is serving, the queue keeps moving.         *)
(* How the loop sleeps, is woken and takes batches is left to EventLoop.   *)
(***************************************************************************)
EXTENDS Sequences

CONSTANT Functors      \* every functor that may be queued

VARIABLES
  queue,               \* queued and not yet started, oldest first
  ran,                 \* started functors, in order
  serving              \* the loop is running and nobody asked it to quit

vars == <<queue, ran, serving>>

Init ==
  /\ queue = <<>>
  /\ ran = <<>>
  /\ serving = FALSE

Submit(f) ==
  /\ queue' = Append(queue, f)
  /\ UNCHANGED <<ran, serving>>

\* A functor may still start after a quit: the batch in hand is finished.
RunNext ==
  /\ queue # <<>>
  /\ ran' = Append(ran, Head(queue))
  /\ queue' = Tail(queue)
  /\ UNCHANGED serving

StartOrStop ==
  /\ serving' = ~serving
  /\ UNCHANGED <<queue, ran>>

Next ==
  \/ \E f \in Functors : Submit(f)
  \/ RunNext
  \/ StartOrStop

Spec == Init /\ [][Next]_vars

\* A loop that keeps serving starts the oldest queued functor.
KeepsMoving == WF_vars(RunNext /\ serving)

=============================================================================
