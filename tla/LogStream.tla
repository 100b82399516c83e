----------------------------- MODULE LogStream -----------------------------
(***************************************************************************)
(* One LogStream (logging/LogStream.cpp): any sequence of operator<< into  *)
(* its fixed buffer.  bool, char and C strings, std::string, T and Fmt all *)
(* go through FixedBuffer::Append and are pieces; every integer type goes  *)
(* through FormatInteger.                                                  *)
(***************************************************************************)
EXTENDS FixedBuffer

CONSTANTS
  Pieces,        \* texts given to FixedBuffer::Append
  Ints,          \* the values of an integer type
  Pointers,      \* the values of uintptr_t
  Doubles        \* what snprintf "%.12g" prints for a double

\* What MAX_NUMERIC_SIZE stands for: any number fits it with its NUL.
Numerals ==
  {convert(v) : v \in Ints} \cup Doubles
    \cup {<<"0", "x">> \o convertHex(p) : p \in Pointers}

ASSUME StreamAssumption ==
  /\ Ints \subseteq Int /\ Pointers \subseteq Nat
  /\ \A text \in Pieces : text \in Seq(STRING)
  /\ \A text \in Numerals : text \in Seq(STRING) /\ Len(text) < MaxNumeric

\* No text is longer than Append can be told: 2 GiB are too long for the code.
PiecesFitInt == \A text \in Pieces : Len(text) <= IntMax

VARIABLE buffer

TypeOK ==
  /\ buffer \in [data : Seq(STRING), high : Nat]
  /\ Len(buffer.data) <= Size

Init == buffer = EmptyBuffer

StreamPiece(text) == buffer' = AppendText(buffer, text)
StreamInteger(v)  == buffer' = FormatInteger(buffer, v)
StreamPointer(p)  == buffer' = FormatPointer(buffer, p)
StreamDouble(d)   == buffer' = Numeric(buffer, d)
ResetBuffer       == buffer' = Reset(buffer)

Next ==
  \/ \E text \in Pieces : StreamPiece(text)
  \/ \E v \in Ints : StreamInteger(v)
  \/ \E p \in Pointers : StreamPointer(p)
  \/ \E d \in Doubles : StreamDouble(d)
  \/ ResetBuffer

Spec == Init /\ [][Next]_buffer

-----------------------------------------------------------------------------
\* No byte is written outside the array, the NUL that convert and snprintf leave
\* beyond cur included, and cur never reaches the end, so that Avail() is at
\* least 1: Append and the conversions test Avail() against different bounds, and
\* each must leave what the other relies on.  Texts of 2 GiB and more are outside
\* it (PiecesFitInt).
StaysInside == buffer.high <= Size /\ Len(buffer.data) < Size

\* What the last operation added to the buffer.
Added == SubSeq(buffer.data', Len(buffer.data) + 1, Len(buffer.data'))

\* operator<< adds the whole text of its argument after what was there, or
\* nothing: never a part of it, and a number as its canonical numeral, the one
\* without leading zeros, also for zero and for the least negative value, whose
\* magnitude the type cannot represent.
WholeItems ==
  [][ buffer'.data \notin {buffer.data, <<>>} =>
        /\ buffer'.data = buffer.data \o Added
        /\ \A text \in Pieces : StreamPiece(text) => Added = text
        /\ \A v \in Ints : StreamInteger(v) => IsDecimal(Added, v)
        /\ \A p \in Pointers : StreamPointer(p) => IsHexadecimal(Added, p)
    ]_buffer

=============================================================================
