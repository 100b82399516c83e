---------------------------- MODULE MCEventLoop -----------------------------
(* Instance of EventLoop for TLC: every constant is given in the cfg. *)
EXTENDS EventLoop

=============================================================================
