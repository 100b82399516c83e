------------------------------ MODULE MCPoller ------------------------------
(* Instance of Poller for TLC. *)
EXTENDS Poller

CONSTANT user      \* a channel of the user's

\* Every channel of the repository sets the read callback and no other; here as if
\* a user had set the error callback too.
MCCallbacks ==
  [ch \in Channels |-> IF ch = user THEN {"error", "read"} ELSE {"read"}]

\* Input, alone or with an error, or a peer that hung up without any.
MCConditions ==
  [f \in Fds |-> CASE f = 3 -> {{"in"}}
                   [] f = 4 -> {{"in"}, {"hup"}}
                   [] OTHER -> {{"in", "err"}, {"hup"}}]

=============================================================================
