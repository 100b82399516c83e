----------------------------- MODULE MCAcceptor -----------------------------
(* Instance of Acceptor for TLC: every constant is given in the cfg. *)
EXTENDS Acceptor

=============================================================================
