---------------------------- MODULE MCLogStream ----------------------------
(* Instances of LogStream for TLC. *)
EXTENDS LogStream

\* An eight-bit integer type and its unsigned companion: "-128" and "0xff" are
\* the widest numerals, which with their NUL need five bytes.
Int8     == -128 .. 127
UInt8    == 0 .. 255

MCPieces  == {<<"a">>, <<"b", "c", "d">>}
MCDoubles == {<<"1", ".", "5">>, <<"-", "n", "a", "n">>}

=============================================================================
