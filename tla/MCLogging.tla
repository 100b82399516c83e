----------------------------- MODULE MCLogging -----------------------------
(* Instances of Logging for TLC. *)
EXTENDS Logging, TLC

CONSTANTS main, worker      \* threads

Symmetry == Permutations(Threads)

FiveDigits == [t \in Threads |-> 5]

\* The worker's id needs six digits: kernel.pid_max may be 2^22.
SixDigits == [t \in Threads |-> IF t = worker THEN 6 ELSE 5]

\* One level that g_logLevel filters, and FATAL.
MCLevels == {DEBUG, FATAL}

=============================================================================
