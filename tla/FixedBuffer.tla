---------------------------- MODULE FixedBuffer ----------------------------
(***************************************************************************)
(* The character buffer of logging/LogStream.h and the conversions of      *)
(* logging/LogStream.cpp that write into it.  A buffer is a record: data   *)
(* is what lies between the array's start and cur, and high is one past    *)
(* the highest byte ever written, which conversions push beyond cur by     *)
(* their terminating NUL.                                                  *)
(***************************************************************************)
EXTENDS Integers, Sequences, SequencesExt

CONSTANTS
  Size,          \* sizeof(data): SMALL_BUFFER
  MaxNumeric,    \* MAX_NUMERIC_SIZE
  IntMax         \* the largest int

ASSUME BufferAssumption ==
  /\ Size \in Nat \ {0} /\ MaxNumeric \in Nat \ {0}
  /\ IntMax \in Nat /\ Size <= IntMax

EmptyBuffer == [data |-> <<>>, high |-> 0]

Avail(buf) == Size - Len(buf.data)

\* Bytes are written at cur: text, which cur then passes, and `beyond` more.
Written(buf, text, beyond) ==
  LET end == Len(buf.data) + Len(text)
  IN  [data |-> buf.data \o text,
       high |-> IF end + beyond > buf.high THEN end + beyond ELSE buf.high]

\* Mutant: nothing is compared with what is left.
AppendAlways(buf, text) == Written(buf, text, 0)

\* operator<< has a length as a size_t, Append takes an int: the bits that fit.
ToInt(n) ==
  LET bits == n % (2 * (IntMax + 1))
  IN  IF bits <= IntMax THEN bits ELSE bits - 2 * (IntMax + 1)

\* memcpy takes a negative length for one that no object has: it writes past the end,
\* and nothing is known of what follows.
Overrun(buf) == [buf EXCEPT !.high = Size + 1]

\* FixedBuffer::Append: all of the text or nothing, and cur never reaches End(), for
\* a length that is an int.
AppendText(buf, text) ==
  LET len == ToInt(Len(text)) IN
    IF Avail(buf) <= len THEN buf
    ELSE IF len < 0 THEN Overrun(buf)
    ELSE Written(buf, SubSeq(text, 1, len), 0)

\* FixedBuffer::Reset.
Reset(buf) == [buf EXCEPT !.data = <<>>]

-----------------------------------------------------------------------------
\* C's % and / round towards zero; TLA+'s round down.
Rem(i, n)  == IF i >= 0 THEN i % n ELSE -((-i) % n)
Quot(i, n) == IF i >= 0 THEN i \div n ELSE -((-i) \div n)

\* A table that is its own mirror image, so a remainder may have either sign.
digits == <<"9", "8", "7", "6", "5", "4", "3", "2", "1",
            "0", "1", "2", "3", "4", "5", "6", "7", "8", "9">>
zero == [lsd \in -9 .. 9 |-> digits[10 + lsd]]

digitsHex == [lsd \in 0 .. 15 |->
  <<"0", "1", "2", "3", "4", "5", "6", "7",
    "8", "9", "a", "b", "c", "d", "e", "f">>[lsd + 1]]

\* The loop of convert, and of convertHex: the digits of i in the base, taken from
\* a table, least significant first, at least one.
Lsds(base, table) ==
  LET From[i \in Int] ==
        <<table[Rem(i, base)]>>
          \o (IF Quot(i, base) = 0 THEN <<>> ELSE From[Quot(i, base)])
  IN From

\* Mutant: the sign is taken from the loop's counter, which has reached zero.
convertSignLost(value) == Reverse(Lsds(10, zero)[value])

\* The text convert leaves.  No intermediate value is outside the type of value.
convert(value) ==
  Reverse(Lsds(10, zero)[value] \o (IF value < 0 THEN <<"-">> ELSE <<>>))

convertHex(value) == Reverse(Lsds(16, digitsHex)[value])

\* Mutant: the NUL is forgotten, only the text itself has to fit.
NumericExact(buf, text) ==
  IF Avail(buf) >= Len(text) THEN Written(buf, text, 1) ELSE buf

\* A number is dropped unless the widest number would fit; one NUL beyond it.
Numeric(buf, text) ==
  IF Avail(buf) >= MaxNumeric THEN Written(buf, text, 1) ELSE buf

FormatInteger(buf, v) == Numeric(buf, convert(v))

\* operator<<(const void* )
FormatPointer(buf, p) == Numeric(buf, <<"0", "x">> \o convertHex(p))

-----------------------------------------------------------------------------
(* What the numerals mean. *)

DigitValue(c) == CHOOSE d \in 0 .. 15 : digitsHex[d] = c

\* The number a digit string stands for in the given base.
ValueOf(text, base) ==
  LET Value[k \in 0 .. Len(text)] ==
        IF k = 0 THEN 0 ELSE base * Value[k - 1] + DigitValue(text[k])
  IN Value[Len(text)]

IsNumeral(text, n, base) ==
  /\ text # <<>>
  /\ \A k \in DOMAIN text : \E d \in 0 .. base - 1 : text[k] = digitsHex[d]
  /\ Len(text) > 1 => text[1] # "0"
  /\ ValueOf(text, base) = n

IsDecimal(text, v) ==
  IF v < 0 THEN text # <<>> /\ text[1] = "-" /\ IsNumeral(Tail(text), -v, 10)
           ELSE IsNumeral(text, v, 10)

IsHexadecimal(text, p) ==
  SubSeq(text, 1, 2) = <<"0", "x">> /\ IsNumeral(SubSeq(text, 3, Len(text)), p, 16)

=============================================================================
