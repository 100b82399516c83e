-------------------------- MODULE LogStream_proofs --------------------------
(***************************************************************************)
(* No operator<< writes outside the buffer, for every size of the buffer   *)
(* and of MAX_NUMERIC_SIZE and for any arguments, provided every numeral   *)
(* is shorter than MAX_NUMERIC_SIZE (StreamAssumption) and every text's    *)
(* length is an int (PiecesFitInt, the premise of the two theorems about   *)
(* what is written); the conversions leave the numeral of every integer    *)
(* and every address; and the numbers of the code's types are shorter than *)
(* its MAX_NUMERIC_SIZE.                                                   *)
(*                                                                         *)
(* The conversions are recursive functions on the integers.  A recursive   *)
(* function is a CHOOSE: that it satisfies its equation follows once some  *)
(* function does, which is shown for the numbers up to n by induction on n *)
(* (SetInduction) and put together for all of them (LsdsEquation).         *)
(***************************************************************************)
EXTENDS LogStream, SequenceTheorems, WellFoundedInduction, TLAPS

\* The type of a buffer that has a byte left, and StaysInside, of any buffer.
Roomy(buf) ==
  /\ buf \in [data : Seq(STRING), high : Nat]
  /\ Len(buf.data) < Size

Sound(buf) == Roomy(buf) /\ buf.high <= Size

\* A length that fits an int is the one that Append is told; one that does not is told
\* as a shorter or a negative one.
LEMMA ToIntIs ==
  ASSUME NEW n \in Nat
  PROVE  /\ ToInt(n) \in Int /\ ToInt(n) <= n
         /\ n <= IntMax => ToInt(n) = n
<1> DEFINE m    == 2 * (IntMax + 1)
           bits == n % m
<1>1. IntMax \in Nat /\ m \in Nat \ {0} /\ IntMax < m
  BY BufferAssumption
<1>2. bits \in 0 .. m - 1 /\ bits <= n
  BY <1>1
<1>3. n < m => bits = n
  BY <1>1
<1>4. ToInt(n) = IF bits <= IntMax THEN bits ELSE bits - m
  BY DEF ToInt
<1> HIDE DEF m, bits
<1> QED
  BY <1>1, <1>2, <1>3, <1>4

\* A text whose length is an int is appended as a whole or dropped.
LEMMA AppendWhole ==
  ASSUME NEW S, NEW text \in Seq(S), Len(text) <= IntMax, NEW buf
  PROVE  AppendText(buf, text)
           = IF Avail(buf) <= Len(text) THEN buf ELSE Written(buf, text, 0)
<1> DEFINE len == ToInt(Len(text))
<1>1. len = Len(text) /\ Len(text) \in Nat
  BY ToIntIs, LenProperties
<1>2. SubSeq(text, 1, Len(text)) = text
  BY SubSeqFull
<1>3. AppendText(buf, text) =
        IF Avail(buf) <= len THEN buf
        ELSE IF len < 0 THEN Overrun(buf) ELSE Written(buf, SubSeq(text, 1, len), 0)
  BY DEF AppendText
<1> HIDE DEF len
<1>4. ~(len < 0)
  BY <1>1
<1> QED
  BY <1>1, <1>2, <1>3, <1>4

\* FixedBuffer::Append keeps one byte free, and writes nothing outside when it is told
\* the length.
LEMMA AppendStaysInside ==
  ASSUME NEW buf, Roomy(buf), NEW text \in Seq(STRING)
  PROVE  /\ Roomy(AppendText(buf, text))
         /\ Sound(buf) /\ Len(text) <= IntMax => Sound(AppendText(buf, text))
<1> DEFINE len == ToInt(Len(text))
           new == SubSeq(text, 1, len)
<1>1. /\ Len(text) \in Nat /\ len \in Int /\ len <= Len(text)
      /\ Len(text) <= IntMax => len = Len(text)
  BY ToIntIs
<1>2. AppendText(buf, text) = IF Avail(buf) <= len THEN buf
                              ELSE IF len < 0 THEN Overrun(buf) ELSE Written(buf, new, 0)
  BY DEF AppendText
<1> HIDE DEF len
<1>3. CASE Avail(buf) <= len
  BY <1>2, <1>3
<1>4. CASE ~(Avail(buf) <= len) /\ len < 0
  BY <1>1, <1>2, <1>4, BufferAssumption DEF Sound, Roomy, Overrun
<1>5. CASE ~(Avail(buf) <= len) /\ ~(len < 0)
  <2>1. new \in Seq(STRING) /\ Len(new) = len
    BY <1>1, <1>5
  <2> HIDE DEF new
  <2>2. AppendText(buf, text) = Written(buf, new, 0)
    BY <1>2, <1>5
  <2> QED
    BY <1>1, <1>5, <2>1, <2>2, BufferAssumption DEF Sound, Roomy, Written, Avail
<1> QED
  BY <1>3, <1>4, <1>5

\* So does a conversion, which needs MaxNumeric free bytes and writes fewer
\* characters and a NUL.
LEMMA NumericStaysInside ==
  ASSUME NEW buf, Roomy(buf), NEW text \in Seq(STRING), Len(text) < MaxNumeric
  PROVE  /\ Roomy(Numeric(buf, text))
         /\ Sound(buf) => Sound(Numeric(buf, text))
  BY BufferAssumption DEF Sound, Roomy, Numeric, Written, Avail

\* One step keeps both.
LEMMA StreamStep ==
  ASSUME Roomy(buffer), [Next]_buffer
  PROVE  /\ Roomy(buffer')
         /\ PiecesFitInt /\ Sound(buffer) => Sound(buffer')
<1>1. ASSUME NEW text \in Pieces, StreamPiece(text)
      PROVE  /\ Roomy(buffer')
             /\ PiecesFitInt /\ Sound(buffer) => Sound(buffer')
  <2>1. text \in Seq(STRING) /\ (PiecesFitInt => Len(text) <= IntMax)
    BY StreamAssumption DEF PiecesFitInt
  <2> QED
    BY <1>1, <2>1, AppendStaysInside DEF StreamPiece
<1>2. ASSUME NEW v \in Ints, StreamInteger(v)
      PROVE  Roomy(buffer') /\ (Sound(buffer) => Sound(buffer'))
  <2>1. convert(v) \in Seq(STRING) /\ Len(convert(v)) < MaxNumeric
    BY StreamAssumption DEF Numerals
  <2> QED
    BY <1>2, <2>1, NumericStaysInside DEF StreamInteger, FormatInteger
<1>3. ASSUME NEW p \in Pointers, StreamPointer(p)
      PROVE  Roomy(buffer') /\ (Sound(buffer) => Sound(buffer'))
  <2>1. /\ <<"0", "x">> \o convertHex(p) \in Seq(STRING)
        /\ Len(<<"0", "x">> \o convertHex(p)) < MaxNumeric
    BY StreamAssumption DEF Numerals
  <2> QED
    BY <1>3, <2>1, NumericStaysInside DEF StreamPointer, FormatPointer
<1>4. ASSUME NEW d \in Doubles, StreamDouble(d)
      PROVE  Roomy(buffer') /\ (Sound(buffer) => Sound(buffer'))
  <2>1. d \in Seq(STRING) /\ Len(d) < MaxNumeric
    BY StreamAssumption DEF Numerals
  <2> QED
    BY <1>4, <2>1, NumericStaysInside DEF StreamDouble
<1>5. CASE ResetBuffer
  <2>1. [buffer EXCEPT !.data = <<>>] = [data |-> <<>>, high |-> buffer.high]
    BY DEF Roomy
  <2>2. buffer.high \in Nat
    BY DEF Roomy
  <2>3. /\ Roomy([data |-> <<>>, high |-> buffer.high])
        /\ Sound(buffer) => Sound([data |-> <<>>, high |-> buffer.high])
    BY <2>2, BufferAssumption DEF Roomy, Sound
  <2> QED
    BY <1>5, <2>1, <2>3 DEF ResetBuffer, Reset
<1>6. CASE UNCHANGED buffer
  BY <1>6
<1> QED
  BY <1>1, <1>2, <1>3, <1>4, <1>5, <1>6 DEF Next

\* A stream's buffer always has a byte left, ...
LEMMA RoomyInvariant == Spec => []Roomy(buffer)
<1>1. Init => Roomy(buffer)
  BY BufferAssumption DEF Init, Roomy, EmptyBuffer
<1>2. Roomy(buffer) /\ [Next]_buffer => Roomy(buffer)'
  BY StreamStep DEF Roomy
<1> QED
  BY <1>1, <1>2, PTL DEF Spec

\* ... and, if the texts' lengths are ints, stays sound.
LEMMA SoundInvariant == PiecesFitInt => (Spec => []Sound(buffer))
<1> SUFFICES ASSUME PiecesFitInt PROVE Spec => []Sound(buffer)
  OBVIOUS
<1>1. Init => Sound(buffer)
  BY BufferAssumption DEF Init, Sound, Roomy, EmptyBuffer
<1>2. Sound(buffer) /\ [Next]_buffer => Sound(buffer)'
  BY StreamStep DEF Sound, Roomy
<1> QED
  BY <1>1, <1>2, PTL DEF Spec

\* A stream's buffer always has its type, and cur is within the array.
THEOREM TypeCorrect == Spec => []TypeOK
<1>1. Roomy(buffer) => TypeOK
  BY BufferAssumption DEF Roomy, TypeOK
<1> QED
  BY <1>1, RoomyInvariant, PTL

\* The stream never writes a byte outside its array, provided no text is longer than
\* the largest int: of a text of 2 GiB Append is told a negative length, which passes
\* its test and overruns the array (LogStream.h 22-29, 131, 143).
THEOREM WritesStayInside == PiecesFitInt => (Spec => []StaysInside)
<1> SUFFICES ASSUME PiecesFitInt PROVE Spec => []StaysInside
  OBVIOUS
<1>1. Sound(buffer) => StaysInside
  BY DEF Sound, Roomy, StaysInside
<1> QED
  BY <1>1, SoundInvariant, PTL

-----------------------------------------------------------------------------
(* Recursion. *)

\* Induction over a set of naturals.
LEMMA SetInduction ==
  ASSUME NEW S, 0 \in S, \A n \in Nat : n \in S => n + 1 \in S
  PROVE  Nat \subseteq S
<1> DEFINE T == Nat \ S
           R == OpToRel(<, Nat)
<1> SUFFICES ASSUME T # {} PROVE FALSE
  OBVIOUS
<1>1. IsWellFoundedOn(R, Nat)
  BY NatLessThanWellFounded
<1>2. PICK n \in T : \A m \in T : ~ (<<m, n>> \in R)
  <2>1. T \subseteq Nat
    OBVIOUS
  <2> HIDE DEF R, T
  <2> QED
    BY <1>1, <2>1, WFMin
<1>3. n \in Nat /\ n # 0 /\ n - 1 \in Nat
  OBVIOUS
<1>4. n - 1 \in T
  BY <1>3
<1>5. <<n - 1, n>> \in R
  BY <1>3 DEF OpToRel
<1> QED
  BY <1>2, <1>4, <1>5

Abs(i) == IF i < 0 THEN -i ELSE i

\* Division towards zero, in the bases of the two conversions.
LEMMA QuotRem ==
  ASSUME NEW base \in {10, 16}, NEW i \in Int
  PROVE  /\ Quot(i, base) \in Int /\ Rem(i, base) \in 1 - base .. base - 1
         /\ i \in Nat => Quot(i, base) \in Nat /\ Rem(i, base) \in Nat
         /\ Abs(i) = base * Abs(Quot(i, base)) + Abs(Rem(i, base))
         /\ i # 0 => Abs(Quot(i, base)) < Abs(i)
         /\ i = 0 => Quot(i, base) = 0
         /\ Abs(i) \in Nat /\ Abs(Quot(i, base)) \in Nat
         /\ Abs(Quot(i, base)) <= Abs(i)
<1>1. CASE base = 10
  BY <1>1 DEF Quot, Rem, Abs
<1>2. CASE base = 16
  BY <1>2 DEF Quot, Rem, Abs
<1> QED
  BY <1>1, <1>2

\* The digits of the numbers up to n, as the equation of the recursive function in
\* Lsds.
Digits(base, table, from, i) ==
  <<table[Rem(i, base)]>>
    \o (IF Quot(i, base) = 0 THEN <<>> ELSE from[Quot(i, base)])

AreLsds(from, base, table, I) == from = [i \in I |-> Digits(base, table, from, i)]

UpTo(n) == {i \in Int : Abs(i) <= n}

\* The digits of a quotient are known before those of the number.
LEMMA QuotUpTo ==
  ASSUME NEW base \in {10, 16}, NEW n \in Nat, NEW i \in UpTo(n + 1)
  PROVE  /\ Quot(i, base) \in Int
         /\ Quot(i, base) # 0 => Quot(i, base) \in UpTo(n)
<1>1. i \in Int /\ Abs(i) <= n + 1
  BY DEF UpTo
<1>2. /\ Quot(i, base) \in Int /\ Abs(i) \in Nat /\ Abs(Quot(i, base)) \in Nat
      /\ i # 0 => Abs(Quot(i, base)) < Abs(i)
      /\ i = 0 => Quot(i, base) = 0
  BY <1>1, QuotRem
<1> QED
  BY <1>1, <1>2 DEF UpTo

\* Two functions that satisfy the equation up to n agree up to n.
LEMMA LsdsAgree ==
  ASSUME NEW base \in {10, 16}, NEW table, NEW m \in Nat, NEW n \in Nat,
         NEW f, AreLsds(f, base, table, UpTo(m)),
         NEW g, AreLsds(g, base, table, UpTo(n))
  PROVE  \A i \in UpTo(m) \cap UpTo(n) : f[i] = g[i]
<1> DEFINE S == {k \in Nat : \A i \in UpTo(m) \cap UpTo(n) \cap UpTo(k) : f[i] = g[i]}
<1>1. 0 \in S
  <2> SUFFICES ASSUME NEW i \in UpTo(m) \cap UpTo(n) \cap UpTo(0)
               PROVE  f[i] = g[i]
    OBVIOUS
  <2>1. i = 0
    BY DEF UpTo, Abs
  <2>2. Quot(i, base) = 0
    <3>1. 0 \in Int
      OBVIOUS
    <3> QED
      BY <2>1, <3>1, QuotRem
  <2> QED
    BY <2>2 DEF AreLsds, Digits
<1>2. ASSUME NEW k \in Nat, k \in S
      PROVE  k + 1 \in S
  <2> SUFFICES ASSUME NEW i \in UpTo(m) \cap UpTo(n) \cap UpTo(k + 1)
               PROVE  f[i] = g[i]
    OBVIOUS
  <2> DEFINE q == Quot(i, base)
  <2>1. f[i] = Digits(base, table, f, i) /\ g[i] = Digits(base, table, g, i)
    BY DEF AreLsds
  <2>2. q # 0 => q \in UpTo(k) /\ q \in UpTo(m) /\ q \in UpTo(n)
    <3>1. q # 0 => q \in UpTo(k)
      BY QuotUpTo
    <3>2. i \in Int /\ Abs(i) <= m /\ Abs(i) <= n
      BY DEF UpTo
    <3>3. q \in Int /\ Abs(i) \in Nat /\ Abs(q) \in Nat /\ Abs(q) <= Abs(i)
      BY <3>2, QuotRem
    <3> HIDE DEF q
    <3> QED
      BY <3>1, <3>2, <3>3 DEF UpTo
  <2>3. q # 0 => f[q] = g[q]
    BY <1>2, <2>2
  <2> QED
    BY <2>1, <2>3 DEF Digits
<1> HIDE DEF S
<1>3. Nat \subseteq S
  BY <1>1, <1>2, SetInduction
<1>4. m \in S
  BY <1>3
<1> QED
  BY <1>4 DEF S

\* There is such a function for the numbers up to n.
LEMMA LsdsUpTo ==
  ASSUME NEW base \in {10, 16}, NEW table, NEW N \in Nat
  PROVE  \E from : AreLsds(from, base, table, UpTo(N))
<1> DEFINE S == {n \in Nat : \E from : AreLsds(from, base, table, UpTo(n))}
<1>1. 0 \in S
  <2> DEFINE from == [i \in UpTo(0) |-> <<table[Rem(i, base)]>> \o <<>>]
  <2>1. \A i \in UpTo(0) : Quot(i, base) = 0
    <3> TAKE i \in UpTo(0)
    <3>1. i \in Int /\ i = 0
      BY DEF UpTo, Abs
    <3> QED
      BY <3>1, QuotRem
  <2>2. AreLsds(from, base, table, UpTo(0))
    BY <2>1 DEF AreLsds, Digits
  <2> QED
    BY <2>2
<1>2. ASSUME NEW n \in Nat, n \in S
      PROVE  n + 1 \in S
  <2>1. PICK from : AreLsds(from, base, table, UpTo(n))
    BY <1>2
  <2> DEFINE more == [i \in UpTo(n + 1) |->
                        IF i \in UpTo(n) THEN from[i] ELSE Digits(base, table, from, i)]
  <2>2. \A i \in UpTo(n + 1) : more[i] = Digits(base, table, from, i)
    BY <2>1 DEF AreLsds
  <2>3. UpTo(n) \subseteq UpTo(n + 1)
    BY DEF UpTo, Abs
  <2>4. \A i \in UpTo(n) : more[i] = from[i]
    BY <2>3
  <2>5. \A i \in UpTo(n + 1) : Quot(i, base) # 0 => Quot(i, base) \in UpTo(n)
    BY QuotUpTo
  <2>6. \A i \in UpTo(n + 1) :
          Digits(base, table, from, i) = Digits(base, table, more, i)
    BY <2>4, <2>5 DEF Digits
  <2>7. AreLsds(more, base, table, UpTo(n + 1))
    BY <2>2, <2>6 DEF AreLsds
  <2> HIDE DEF more
  <2> QED
    BY <2>7
<1> HIDE DEF S
<1>3. N \in S
  BY <1>1, <1>2, SetInduction
<1> QED
  BY <1>3 DEF S

\* There is one for all numbers, so Lsds satisfies the equation of its loop.
LEMMA LsdsEquation ==
  ASSUME NEW base \in {10, 16}, NEW table, NEW i \in Int
  PROVE  Lsds(base, table)[i] = Digits(base, table, Lsds(base, table), i)
<1> DEFINE part(n) == CHOOSE from : AreLsds(from, base, table, UpTo(n))
           all     == [k \in Int |-> part(Abs(k))[k]]
<1>1. \A n \in Nat : AreLsds(part(n), base, table, UpTo(n))
  BY LsdsUpTo
<1> HIDE DEF part
<1>2. ASSUME NEW k \in Int
      PROVE  all[k] = Digits(base, table, all, k)
  <2> DEFINE q == Quot(k, base)
  <2>1. /\ Abs(k) \in Nat /\ q \in Int /\ Abs(q) \in Nat /\ Abs(q) <= Abs(k)
    BY QuotRem
  <2> HIDE DEF q
  <2>2. k \in UpTo(Abs(k)) /\ q \in UpTo(Abs(k)) /\ q \in UpTo(Abs(q))
    BY <2>1 DEF UpTo
  <2>3. all[k] = Digits(base, table, part(Abs(k)), k)
    BY <1>1, <2>1, <2>2 DEF AreLsds
  <2>4. part(Abs(k))[q] = part(Abs(q))[q]
    BY <1>1, <2>1, <2>2, LsdsAgree
  <2>5. part(Abs(k))[q] = all[q]
    BY <2>1, <2>4
  <2> HIDE DEF all
  <2> QED
    BY <2>3, <2>5 DEF Digits, q
<1>3. AreLsds(all, base, table, Int)
  BY <1>2 DEF AreLsds
<1> HIDE DEF all
<1>4. \E from : AreLsds(from, base, table, Int)
  BY <1>3
<1>5. AreLsds(Lsds(base, table), base, table, Int)
  BY <1>4 DEF Lsds, AreLsds, Digits
<1> QED
  BY <1>5 DEF AreLsds

-----------------------------------------------------------------------------
(* What a digit string stands for. *)

\* The equation of the recursive function in ValueOf.
IsValue(value, text, base, n) ==
  value = [k \in 0 .. n |->
             IF k = 0 THEN 0 ELSE base * value[k - 1] + DigitValue(text[k])]

LEMMA ValueExists ==
  ASSUME NEW text, NEW base, NEW N \in Nat
  PROVE  \E value : IsValue(value, text, base, N)
<1> DEFINE S == {n \in Nat : \E value : IsValue(value, text, base, n)}
<1>1. 0 \in S
  <2>1. IsValue([k \in 0 .. 0 |-> 0], text, base, 0)
    BY DEF IsValue
  <2> QED
    BY <2>1
<1>2. ASSUME NEW n \in Nat, n \in S
      PROVE  n + 1 \in S
  <2>1. PICK value : IsValue(value, text, base, n)
    BY <1>2
  <2> DEFINE more == [k \in 0 .. n + 1 |->
                        IF k = n + 1 THEN base * value[n] + DigitValue(text[n + 1])
                                     ELSE value[k]]
  <2>2. IsValue(more, text, base, n + 1)
    BY <2>1 DEF IsValue
  <2> HIDE DEF more
  <2> QED
    BY <2>2
<1> HIDE DEF S
<1>3. N \in S
  BY <1>1, <1>2, SetInduction
<1> QED
  BY <1>3 DEF S

\* ValueOf is the last value of a function that satisfies the equation.
LEMMA ValueOfIs ==
  ASSUME NEW text, NEW base, Len(text) \in Nat
  PROVE  \E value : /\ IsValue(value, text, base, Len(text))
                    /\ ValueOf(text, base) = value[Len(text)]
<1> DEFINE value == CHOOSE v : IsValue(v, text, base, Len(text))
<1>1. IsValue(value, text, base, Len(text))
  BY ValueExists
<1>2. ValueOf(text, base) = value[Len(text)]
  BY DEF ValueOf, IsValue
<1> QED
  BY <1>1, <1>2

\* One more digit.
LEMMA ValueOfAppend ==
  ASSUME NEW base, NEW S, NEW text \in Seq(S), NEW c \in S
  PROVE  ValueOf(Append(text, c), base) = base * ValueOf(text, base) + DigitValue(c)
<1> DEFINE more == Append(text, c)
<1>1. /\ Len(text) \in Nat /\ Len(more) = Len(text) + 1
      /\ more[Len(text) + 1] = c
      /\ \A k \in 1 .. Len(text) : more[k] = text[k]
  BY AppendProperties, LenProperties
<1> HIDE DEF more
<1>2. PICK f : IsValue(f, text, base, Len(text)) /\ ValueOf(text, base) = f[Len(text)]
  BY <1>1, ValueOfIs
<1>3. PICK g : IsValue(g, more, base, Len(more)) /\ ValueOf(more, base) = g[Len(more)]
  BY <1>1, ValueOfIs
<1> DEFINE K == {k \in Nat : k <= Len(text) => f[k] = g[k]}
<1>4. 0 \in K
  BY <1>1, <1>2, <1>3 DEF IsValue
<1>5. ASSUME NEW k \in Nat, k \in K
      PROVE  k + 1 \in K
  <2> SUFFICES ASSUME k + 1 <= Len(text) PROVE f[k + 1] = g[k + 1]
    OBVIOUS
  <2>1. f[k + 1] = base * f[k] + DigitValue(text[k + 1])
    BY <1>1, <1>2 DEF IsValue
  <2>2. g[k + 1] = base * g[k] + DigitValue(more[k + 1])
    BY <1>1, <1>3 DEF IsValue
  <2>3. f[k] = g[k] /\ more[k + 1] = text[k + 1]
    BY <1>1, <1>5
  <2> QED
    BY <2>1, <2>2, <2>3
<1> HIDE DEF K
<1>6. Len(text) \in K
  BY <1>1, <1>4, <1>5, SetInduction
<1>7. f[Len(text)] = g[Len(text)]
  BY <1>1, <1>6 DEF K
<1>8. g[Len(more)] = base * g[Len(text)] + DigitValue(c)
  <2> DEFINE n == Len(text)
  <2>1. n \in Nat /\ Len(more) = n + 1 /\ more[n + 1] = c
    BY <1>1
  <2>2. IsValue(g, more, base, n + 1)
    BY <1>3, <2>1
  <2>3. n + 1 \in 0 .. n + 1 /\ n + 1 # 0 /\ (n + 1) - 1 = n
    BY <2>1
  <2> HIDE DEF n
  <2>4. g[n + 1] = base * g[(n + 1) - 1] + DigitValue(more[n + 1])
    BY <2>2, <2>3 DEF IsValue
  <2> QED
    BY <2>1, <2>3, <2>4 DEF n
<1> QED
  BY <1>2, <1>3, <1>7, <1>8 DEF more

\* The empty string stands for 0.
LEMMA ValueOfEmpty ==
  ASSUME NEW base
  PROVE  ValueOf(<<>>, base) = 0
<1>1. Len(<<>>) = 0
  OBVIOUS
<1>2. PICK f : IsValue(f, <<>>, base, 0) /\ ValueOf(<<>>, base) = f[0]
  BY <1>1, ValueOfIs
<1> QED
  BY <1>2 DEF IsValue

\* The table of digits and its inverse.
LEMMA DigitValueIs ==
  ASSUME NEW d \in 0 .. 15
  PROVE  /\ DigitValue(digitsHex[d]) = d
         /\ digitsHex[d] = "0" <=> d = 0
<1>1. \A e \in 0 .. 15 : digitsHex[e] = digitsHex[d] => e = d
  BY DEF digitsHex
<1>2. DigitValue(digitsHex[d]) = d
  BY <1>1 DEF DigitValue
<1>3. digitsHex[0] = "0"
  BY DEF digitsHex
<1>4. digitsHex[d] = "0" <=> d = 0
  BY <1>1, <1>3
<1> QED
  BY <1>2, <1>4

\* The mirrored table has the digit of the magnitude.
LEMMA ZeroIs ==
  ASSUME NEW r \in -9 .. 9
  PROVE  zero[r] = digitsHex[Abs(r)]
  BY DEF zero, digits, digitsHex, Abs

-----------------------------------------------------------------------------
(* The numerals. *)

\* What numerals are made of.
Characters == {digitsHex[d] : d \in 0 .. 15} \cup {"-", "x"}

\* The text without its sign: most significant digit first.
Text(i, base, table) == Reverse(Lsds(base, table)[i])

\* A table that gives the digit of a remainder's magnitude.
IsTable(table, base, I) ==
  \A i \in I : table[Rem(i, base)] = digitsHex[Abs(Rem(i, base))]

\* What is known of the digits of n: nothing before the first of them, and no
\* leading zero.
IsText(text, n, base) ==
  /\ text \in Seq(Characters)
  /\ n = 0 => text = <<>>
  /\ n # 0 => IsNumeral(text, n, base) /\ text[1] # "0"

\* Reverse, element by element.
LEMMA ReverseElements ==
  ASSUME NEW S, NEW text \in Seq(S)
  PROVE  /\ Reverse(text) \in Seq(S) /\ Len(Reverse(text)) = Len(text)
         /\ \A k \in 1 .. Len(text) : Reverse(text)[k] = text[(Len(text) - k) + 1]
<1>1. Len(text) \in Nat
  BY LenProperties
<1>2. \A k \in 1 .. Len(text) : text[(Len(text) - k) + 1] \in S
  <2> TAKE k \in 1 .. Len(text)
  <2>1. (Len(text) - k) + 1 \in 1 .. Len(text)
    BY <1>1
  <2> QED
    BY <2>1, ElementOfSeq
<1>3. Reverse(text) \in [1 .. Len(text) -> S]
  BY <1>2 DEF Reverse
<1>4. Reverse(text) \in Seq(S) /\ DOMAIN Reverse(text) = 1 .. Len(text)
  BY <1>1, <1>3
<1>5. Len(Reverse(text)) = Len(text)
  BY <1>1, <1>4, LenProperties
<1> QED
  BY <1>4, <1>5 DEF Reverse

\* Reversing puts the first element last.
LEMMA ReverseIs ==
  ASSUME NEW S, NEW c \in S, NEW text \in Seq(S)
  PROVE  Reverse(<<c>> \o text) = Append(Reverse(text), c)
<1> DEFINE n == Len(text)
           s == <<c>> \o text
           u == Append(Reverse(text), c)
<1>1. n \in Nat
  BY LenProperties
<1>2. s \in Seq(S) /\ Len(s) = n + 1
  BY <1>1
<1>3. s[1] = c /\ \A k \in 1 .. n : s[k + 1] = text[k]
  BY <1>1
<1>4. /\ u \in Seq(S) /\ Len(u) = n + 1 /\ u[n + 1] = c
      /\ \A k \in 1 .. n : u[k] = text[(n - k) + 1]
  BY ReverseElements, AppendProperties
<1> HIDE DEF n, s, u
<1>5. /\ Reverse(s) \in Seq(S) /\ Len(Reverse(s)) = n + 1
      /\ \A k \in 1 .. n + 1 : Reverse(s)[k] = s[((n + 1) - k) + 1]
  BY <1>2, ReverseElements
<1>6. \A k \in 1 .. n + 1 : Reverse(s)[k] = u[k]
  <2> TAKE k \in 1 .. n + 1
  <2>1. CASE k = n + 1
    <3>1. ((n + 1) - k) + 1 = 1
      BY <1>1, <2>1
    <3> QED
      BY <1>3, <1>4, <1>5, <2>1, <3>1
  <2>2. CASE k # n + 1
    <3>1. /\ k \in 1 .. n /\ (n - k) + 1 \in 1 .. n
          /\ ((n + 1) - k) + 1 = ((n - k) + 1) + 1
      BY <1>1, <2>2
    <3> QED
      BY <1>3, <1>4, <1>5, <3>1
  <2> QED
    BY <2>1, <2>2
<1>7. Reverse(s) = u
  BY <1>4, <1>5, <1>6, SeqEqual
<1> QED
  BY <1>7 DEF s, u

\* And the last first.
LEMMA ReverseAppend ==
  ASSUME NEW S, NEW c \in S, NEW text \in Seq(S)
  PROVE  Reverse(text \o <<c>>) = <<c>> \o Reverse(text)
<1> DEFINE n == Len(text)
           s == text \o <<c>>
           u == <<c>> \o Reverse(text)
<1>1. n \in Nat
  BY LenProperties
<1>2. /\ s \in Seq(S) /\ Len(s) = n + 1 /\ s[n + 1] = c
      /\ \A k \in 1 .. n : s[k] = text[k]
  <2>1. s = Append(text, c)
    BY AppendIsConcat
  <2> HIDE DEF s
  <2> QED
    BY <2>1, AppendProperties
<1>3. u \in Seq(S) /\ Len(u) = n + 1
  <2>1. Reverse(text) \in Seq(S) /\ Len(Reverse(text)) = n
    BY ReverseElements
  <2> QED
    BY <1>1, <2>1
<1>4. u[1] = c /\ \A k \in 1 .. n : u[k + 1] = text[(n - k) + 1]
  <2>1. /\ Reverse(text) \in Seq(S) /\ Len(Reverse(text)) = n
        /\ \A k \in 1 .. n : Reverse(text)[k] = text[(n - k) + 1]
    BY ReverseElements
  <2>2. u[1] = c /\ \A k \in 1 .. n : u[k + 1] = Reverse(text)[k]
    BY <1>1, <2>1
  <2> QED
    BY <2>1, <2>2
<1> HIDE DEF n, s, u
<1>5. /\ Reverse(s) \in Seq(S) /\ Len(Reverse(s)) = n + 1
      /\ \A k \in 1 .. n + 1 : Reverse(s)[k] = s[((n + 1) - k) + 1]
  BY <1>2, ReverseElements
<1>6. \A k \in 1 .. n + 1 : Reverse(s)[k] = u[k]
  <2> TAKE k \in 1 .. n + 1
  <2>1. CASE k = 1
    <3>1. ((n + 1) - k) + 1 = n + 1
      BY <1>1, <2>1
    <3> QED
      BY <1>2, <1>4, <1>5, <2>1, <3>1
  <2>2. CASE k # 1
    <3> DEFINE j == k - 1
    <3>1. /\ j \in 1 .. n /\ (n - j) + 1 \in 1 .. n /\ k = j + 1
          /\ ((n + 1) - k) + 1 = (n - j) + 1
      BY <1>1, <2>2
    <3> HIDE DEF j
    <3>2. u[k] = text[(n - j) + 1]
      BY <1>4, <3>1
    <3>3. s[((n + 1) - k) + 1] = text[(n - j) + 1]
      BY <1>2, <3>1
    <3> QED
      BY <1>5, <3>2, <3>3
  <2> QED
    BY <2>1, <2>2
<1>7. Reverse(s) = u
  BY <1>3, <1>5, <1>6, SeqEqual
<1> QED
  BY <1>7 DEF s, u

\* One more digit after a numeral, or a first one.
LEMMA IsTextAppend ==
  ASSUME NEW base \in {10, 16}, NEW n \in Nat, NEW d \in 0 .. base - 1,
         NEW text, IsText(text, n, base)
  PROVE  LET more == Append(text, digitsHex[d])
         IN  /\ more \in Seq(Characters)
             /\ IsNumeral(more, base * n + d, base)
             /\ base * n + d # 0 => more[1] # "0"
<1> DEFINE c    == digitsHex[d]
           more == Append(text, c)
<1>1. d \in 0 .. 15 /\ c \in Characters /\ DigitValue(c) = d /\ (c = "0" <=> d = 0)
  <2>1. d \in 0 .. 15
    OBVIOUS
  <2> QED
    BY <2>1, DigitValueIs DEF Characters
<1>2. /\ text \in Seq(Characters) /\ Len(text) \in Nat
      /\ n # 0 => text # <<>> /\ text[1] # "0"
      /\ n # 0 => \A k \in DOMAIN text : \E e \in 0 .. base - 1 : text[k] = digitsHex[e]
      /\ n = 0 => text = <<>>
      /\ ValueOf(text, base) = n
  BY ValueOfEmpty DEF IsText, IsNumeral
<1> HIDE DEF c
<1>3. /\ more \in Seq(Characters) /\ Len(more) = Len(text) + 1
      /\ more[Len(text) + 1] = c
      /\ \A k \in 1 .. Len(text) : more[k] = text[k]
      /\ DOMAIN more = 1 .. Len(text) + 1 /\ DOMAIN text = 1 .. Len(text)
  BY <1>1, <1>2, AppendProperties, LenProperties
<1>4. ValueOf(more, base) = base * n + d
  BY <1>1, <1>2, ValueOfAppend
<1> HIDE DEF more
<1>5. \A k \in DOMAIN more : \E e \in 0 .. base - 1 : more[k] = digitsHex[e]
  <2> TAKE k \in DOMAIN more
  <2>1. CASE k = Len(text) + 1
    BY <1>3, <2>1 DEF c
  <2>2. CASE k \in 1 .. Len(text)
    <3>1. n # 0
      BY <1>2, <2>2
    <3> QED
      BY <1>2, <1>3, <2>2, <3>1
  <2> QED
    BY <1>2, <1>3, <2>1, <2>2
<1>6. n = 0 => Len(text) = 0 /\ more[1] = c
  <2> HAVE n = 0
  <2>1. Len(text) = 0
    BY <1>2
  <2> QED
    BY <1>3, <2>1
<1>7. n # 0 => more[1] # "0"
  <2> HAVE n # 0
  <2>1. 1 \in 1 .. Len(text)
    BY <1>2, EmptySeq
  <2> QED
    BY <1>2, <1>3, <2>1
<1>8. base * n + d # 0 => more[1] # "0"
  <2>1. CASE n = 0
    <3>1. base * n + d = d
      BY <2>1
    <3> QED
      BY <1>1, <1>6, <2>1, <3>1
  <2>2. CASE n # 0
    BY <1>7, <2>2
  <2> QED
    BY <2>1, <2>2
<1>9. more # <<>>
  BY <1>2, <1>3
<1>10. Len(more) > 1 => more[1] # "0"
  BY <1>2, <1>3, <1>6, <1>7
<1> QED
  BY <1>3, <1>4, <1>5, <1>8, <1>9, <1>10 DEF IsNumeral, more, c

\* Digits of either base are characters.
LEMMA DigitIsCharacter ==
  ASSUME NEW base \in {10, 16}, NEW d \in 0 .. base - 1
  PROVE  digitsHex[d] \in Characters
<1>1. d \in 0 .. 15
  OBVIOUS
<1> QED
  BY <1>1, Zenon DEF Characters

\* The text of a number is that of its quotient and one more digit.
LEMMA TextStep ==
  ASSUME NEW base \in {10, 16}, NEW table, NEW i \in Int,
         table[Rem(i, base)] = digitsHex[Abs(Rem(i, base))],
         Quot(i, base) # 0 => Lsds(base, table)[Quot(i, base)] \in Seq(Characters)
  PROVE  /\ Lsds(base, table)[i] \in Seq(Characters)
         /\ Abs(Rem(i, base)) \in 0 .. base - 1
         /\ Text(i, base, table)
              = Append(IF Quot(i, base) = 0 THEN <<>> ELSE Text(Quot(i, base), base, table),
                       digitsHex[Abs(Rem(i, base))])
<1> DEFINE lsds == Lsds(base, table)
           q    == Quot(i, base)
           c    == digitsHex[Abs(Rem(i, base))]
           rest == IF q = 0 THEN <<>> ELSE lsds[q]
<1>1. Abs(Rem(i, base)) \in 0 .. base - 1
  <2>1. Rem(i, base) \in 1 - base .. base - 1
    BY QuotRem
  <2> QED
    BY <2>1 DEF Abs
<1>2. c \in Characters
  BY <1>1, DigitIsCharacter
<1>3. lsds[i] = <<c>> \o rest
  <2>1. lsds[i] = Digits(base, table, lsds, i)
    BY LsdsEquation
  <2> HIDE DEF lsds
  <2> QED
    BY <2>1 DEF Digits
<1>4. rest \in Seq(Characters)
  BY EmptySeq
<1>5. Reverse(rest) = IF q = 0 THEN <<>> ELSE Reverse(lsds[q])
  <2>1. Reverse(<<>>) = <<>>
    BY EmptySeq, ReverseElements
  <2> QED
    BY <2>1
<1> HIDE DEF lsds, q, c, rest
<1>6. Reverse(lsds[i]) = Append(Reverse(rest), c)
  BY <1>2, <1>3, <1>4, ReverseIs
<1>7. lsds[i] \in Seq(Characters)
  <2>1. <<c>> \in Seq(Characters)
    BY <1>2
  <2> QED
    BY <1>3, <1>4, <2>1, ConcatProperties
<1> QED
  BY <1>1, <1>5, <1>6, <1>7 DEF Text, lsds, q, c

\* The text of i is the numeral of its magnitude.
HasText(i, base, table) ==
  /\ Lsds(base, table)[i] \in Seq(Characters)
  /\ Text(i, base, table) \in Seq(Characters)
  /\ IsNumeral(Text(i, base, table), Abs(i), base)
  /\ i # 0 => Text(i, base, table)[1] # "0"

LEMMA HasTextStep ==
  ASSUME NEW base \in {10, 16}, NEW table, NEW i \in Int,
         table[Rem(i, base)] = digitsHex[Abs(Rem(i, base))],
         Quot(i, base) # 0 => HasText(Quot(i, base), base, table)
  PROVE  HasText(i, base, table)
<1> DEFINE q    == Quot(i, base)
           d    == Abs(Rem(i, base))
           rest == IF q = 0 THEN <<>> ELSE Text(q, base, table)
<1>1. /\ q \in Int /\ Abs(q) \in Nat /\ Abs(i) = base * Abs(q) + d
      /\ Abs(q) = 0 <=> q = 0
      /\ Abs(i) = 0 <=> i = 0
  <2>1. q \in Int /\ Abs(q) \in Nat /\ Abs(i) = base * Abs(q) + d
    BY QuotRem
  <2> HIDE DEF q
  <2> QED
    BY <2>1 DEF Abs
<1>2. q # 0 => Lsds(base, table)[q] \in Seq(Characters)
  BY DEF HasText
<1>3. /\ Lsds(base, table)[i] \in Seq(Characters)
      /\ d \in 0 .. base - 1
      /\ Text(i, base, table) = Append(rest, digitsHex[d])
  BY <1>2, TextStep
<1>4. IsText(rest, Abs(q), base)
  <2>1. CASE q = 0
    BY <1>1, <2>1, EmptySeq DEF IsText
  <2>2. CASE q # 0
    BY <1>1, <2>2 DEF IsText, HasText
  <2> QED
    BY <2>1, <2>2
<1> HIDE DEF q, d, rest
<1>5. LET more == Append(rest, digitsHex[d])
      IN  /\ more \in Seq(Characters)
          /\ IsNumeral(more, base * Abs(q) + d, base)
          /\ base * Abs(q) + d # 0 => more[1] # "0"
  BY <1>1, <1>3, <1>4, IsTextAppend
<1> QED
  BY <1>1, <1>3, <1>5 DEF HasText

\* By induction, of every number the loop can divide.
LEMMA TextIs ==
  ASSUME NEW base \in {10, 16}, NEW table, NEW I \in SUBSET Int,
         \A i \in I : Quot(i, base) \in I,
         IsTable(table, base, I)
  PROVE  \A i \in I : HasText(i, base, table)
<1> DEFINE S == {n \in Nat : \A i \in I \cap UpTo(n) : HasText(i, base, table)}
<1>1. 0 \in S
  <2> SUFFICES ASSUME NEW i \in I \cap UpTo(0) PROVE HasText(i, base, table)
    OBVIOUS
  <2>1. i \in Int /\ i = 0
    BY DEF UpTo, Abs
  <2>2. Quot(i, base) = 0
    BY <2>1, QuotRem
  <2>3. table[Rem(i, base)] = digitsHex[Abs(Rem(i, base))]
    BY DEF IsTable
  <2> QED
    BY <2>1, <2>2, <2>3, HasTextStep
<1>2. ASSUME NEW n \in Nat, n \in S
      PROVE  n + 1 \in S
  <2> SUFFICES ASSUME NEW i \in I \cap UpTo(n + 1) PROVE HasText(i, base, table)
    OBVIOUS
  <2>1. i \in Int /\ Quot(i, base) \in I
    OBVIOUS
  <2>2. Quot(i, base) # 0 => HasText(Quot(i, base), base, table)
    BY <1>2, <2>1, QuotUpTo
  <2>3. table[Rem(i, base)] = digitsHex[Abs(Rem(i, base))]
    BY DEF IsTable
  <2> QED
    BY <2>1, <2>2, <2>3, HasTextStep
<1> HIDE DEF S
<1>3. Nat \subseteq S
  BY <1>1, <1>2, SetInduction
<1>4. \A i \in I : Abs(i) \in S /\ i \in UpTo(Abs(i))
  BY <1>3 DEF Abs, UpTo
<1> QED
  BY <1>4 DEF S

\* The numeral of every integer, in both conversions.
LEMMA DecimalText ==
  ASSUME NEW v \in Int
  PROVE  HasText(v, 10, zero)
<1>1. \A i \in Int : Quot(i, 10) \in Int /\ Rem(i, 10) \in -9 .. 9
  BY QuotRem
<1>2. IsTable(zero, 10, Int)
  BY <1>1, ZeroIs DEF IsTable
<1> QED
  BY <1>1, <1>2, TextIs

LEMMA HexadecimalText ==
  ASSUME NEW p \in Nat
  PROVE  HasText(p, 16, digitsHex)
<1>1. \A i \in Nat : Quot(i, 16) \in Nat /\ Rem(i, 16) \in Nat
  BY QuotRem
<1>2. IsTable(digitsHex, 16, Nat)
  BY <1>1 DEF IsTable, Abs
<1> QED
  BY <1>1, <1>2, TextIs

-----------------------------------------------------------------------------
(* The conversions. *)

\* convert leaves the decimal numeral of every integer.
LEMMA DecimalIs ==
  ASSUME NEW v \in Int
  PROVE  convert(v) \in Seq(Characters) /\ IsDecimal(convert(v), v)
<1> DEFINE lsds == Lsds(10, zero)[v]
           text == Text(v, 10, zero)
<1>1. /\ lsds \in Seq(Characters) /\ text \in Seq(Characters)
      /\ IsNumeral(text, Abs(v), 10) /\ text = Reverse(lsds)
  BY DecimalText DEF HasText, Text
<1>2. convert(v) = Reverse(lsds \o (IF v < 0 THEN <<"-">> ELSE <<>>))
  BY DEF convert
<1>3. "-" \in Characters
  BY DEF Characters
<1> HIDE DEF lsds, text
<1>4. CASE v < 0
  <2>1. convert(v) = <<"-">> \o text
    BY <1>1, <1>2, <1>3, <1>4, ReverseAppend
  <2>2. <<"-">> \in Seq(Characters) /\ <<"-">> \o text \in Seq(Characters)
    BY <1>1, <1>3
  <2>3. /\ <<"-">> \o text # <<>> /\ (<<"-">> \o text)[1] = "-"
        /\ Tail(<<"-">> \o text) = text
    BY <1>1, <1>3, <2>2
  <2>4. Abs(v) = -v
    BY <1>4 DEF Abs
  <2> QED
    BY <1>1, <1>4, <2>1, <2>2, <2>3, <2>4 DEF IsDecimal
<1>5. CASE ~(v < 0)
  <2>1. convert(v) = text
    BY <1>1, <1>2, <1>5, ConcatEmptySeq
  <2>2. Abs(v) = v
    BY <1>5 DEF Abs
  <2> QED
    BY <1>1, <1>5, <2>1, <2>2 DEF IsDecimal
<1> QED
  BY <1>4, <1>5

\* What comes after the old data is the text that was written.
LEMMA AddedIs ==
  ASSUME NEW S, NEW data \in Seq(S), NEW text \in Seq(S)
  PROVE  SubSeq(data \o text, Len(data) + 1, Len(data \o text)) = text
<1>1. /\ Len(data) \in Nat /\ Len(text) \in Nat
      /\ Len(data \o text) = Len(data) + Len(text)
  BY LenProperties, ConcatProperties
<1>2. CASE text = <<>>
  <2>1. Len(data) + Len(text) < Len(data) + 1
    BY <1>1, <1>2
  <2> QED
    BY <1>1, <1>2, <2>1, SubSeqEmpty
<1>3. CASE text # <<>>
  <2>1. Len(text) \in Nat \ {0}
    BY <1>3, EmptySeq
  <2>2. SubSeq(data \o text, Len(data) + 1, Len(data) + Len(text))
          = SubSeq(text, (Len(data) + 1) - Len(data), (Len(data) + Len(text)) - Len(data))
    BY <1>1, <2>1, SubSeqOfConcat2
  <2>3. /\ (Len(data) + 1) - Len(data) = 1
        /\ (Len(data) + Len(text)) - Len(data) = Len(text)
    BY <1>1
  <2>4. SubSeq(text, 1, Len(text)) = text
    BY SubSeqFull
  <2> QED
    BY <1>1, <2>2, <2>3, <2>4
<1> QED
  BY <1>2, <1>3

\* A prefix and a text, and each of them again.
LEMMA PrefixIs ==
  ASSUME NEW S, NEW h \in Seq(S), Len(h) # 0, NEW text \in Seq(S), Len(text) # 0
  PROVE  /\ h \o text \in Seq(S)
         /\ SubSeq(h \o text, 1, Len(h)) = h
         /\ SubSeq(h \o text, Len(h) + 1, Len(h \o text)) = text
<1>1. Len(h) \in Nat \ {0} /\ Len(text) \in Nat \ {0}
  BY LenProperties
<1>2. SubSeq(h \o text, 1, Len(h)) = h
  <2>1. SubSeq(h \o text, 1, Len(h)) = SubSeq(h, 1, Len(h))
    BY <1>1, SubSeqOfConcat1
  <2>2. SubSeq(h, 1, Len(h)) = h
    BY SubSeqFull
  <2> QED
    BY <2>1, <2>2
<1> QED
  BY <1>2, AddedIs, ConcatProperties

\* convertHex leaves the hexadecimal numeral of every address.
LEMMA HexadecimalIs ==
  ASSUME NEW p \in Nat
  PROVE  LET text == <<"0", "x">> \o convertHex(p)
         IN  text \in Seq(Characters) /\ IsHexadecimal(text, p)
<1> DEFINE text == convertHex(p)
           s    == <<"0", "x">> \o text
<1>1. text \in Seq(Characters) /\ IsNumeral(text, Abs(p), 16)
  BY HexadecimalText DEF HasText, Text, convertHex
<1>2. Len(text) # 0 /\ Abs(p) = p
  BY <1>1, EmptySeq DEF IsNumeral, Abs
<1>3. "0" \in Characters /\ "x" \in Characters
  <2>1. digitsHex[0] = "0"
    BY DEF digitsHex
  <2> QED
    BY <2>1 DEF Characters
<1> HIDE DEF text
<1>4. /\ s \in Seq(Characters) /\ SubSeq(s, 1, 2) = <<"0", "x">>
      /\ SubSeq(s, 3, Len(s)) = text
  <2> DEFINE h == <<"0", "x">>
  <2>1. h \in Seq(Characters) /\ Len(h) # 0
    BY <1>3
  <2>2. s = h \o text
    OBVIOUS
  <2>3. Len(h) = 2
    OBVIOUS
  <2> HIDE DEF h, s
  <2>4. /\ s \in Seq(Characters) /\ SubSeq(s, 1, Len(h)) = h
        /\ SubSeq(s, Len(h) + 1, Len(s)) = text
    BY <1>1, <1>2, <2>1, <2>2, PrefixIs
  <2> QED
    BY <2>3, <2>4 DEF h
<1> HIDE DEF s
<1>5. IsHexadecimal(s, p)
  BY <1>1, <1>2, <1>4 DEF IsHexadecimal
<1> QED
  BY <1>4, <1>5 DEF s, text

\* operator<< adds the whole text of its argument or nothing, and a number as its
\* canonical numeral: for every integer and every address, not those of a run.
THEOREM WholeItemsAdded == PiecesFitInt => (Spec => WholeItems)
<1> SUFFICES ASSUME PiecesFitInt PROVE Spec => WholeItems
  OBVIOUS
<1> DEFINE Item(text) == /\ buffer'.data = buffer.data \o text
                         /\ Added = text
           Whole == buffer'.data \notin {buffer.data, <<>>} =>
                      /\ buffer'.data = buffer.data \o Added
                      /\ \A text \in Pieces : StreamPiece(text) => Added = text
                      /\ \A v \in Ints : StreamInteger(v) => IsDecimal(Added, v)
                      /\ \A p \in Pointers : StreamPointer(p) => IsHexadecimal(Added, p)
<1>1. ASSUME Sound(buffer), [Next]_buffer
      PROVE  Whole
  <2> SUFFICES ASSUME buffer'.data \notin {buffer.data, <<>>}
               PROVE  Whole
    OBVIOUS
  <2>1. ASSUME NEW text \in Seq(STRING), buffer'.data = buffer.data \o text
        PROVE  Item(text)
    BY <1>1, <2>1, AddedIs DEF Sound, Roomy, Added
  <2> HIDE DEF Item
  <2>2. ASSUME NEW text \in Seq(STRING), buffer' = Numeric(buffer, text)
        PROVE  Item(text)
    BY <2>1, <2>2 DEF Numeric, Written
  <2>3. \A text \in Pieces : StreamPiece(text) => Item(text)
    <3> TAKE text \in Pieces
    <3> HAVE StreamPiece(text)
    <3>1. text \in Seq(STRING) /\ Len(text) \in Nat /\ Len(text) <= IntMax
      BY StreamAssumption, LenProperties DEF PiecesFitInt
    <3>2. buffer' = IF Avail(buffer) <= Len(text) THEN buffer ELSE Written(buffer, text, 0)
      BY <3>1, AppendWhole DEF StreamPiece
    <3> QED
      BY <2>1, <3>1, <3>2 DEF Written
  <2>4. \A v \in Ints : StreamInteger(v) => Item(convert(v))
    <3> TAKE v \in Ints
    <3> HAVE StreamInteger(v)
    <3>1. convert(v) \in Seq(STRING)
      BY StreamAssumption DEF Numerals
    <3> QED
      BY <2>2, <3>1 DEF StreamInteger, FormatInteger
  <2>5. \A p \in Pointers : StreamPointer(p) => Item(<<"0", "x">> \o convertHex(p))
    <3> TAKE p \in Pointers
    <3> HAVE StreamPointer(p)
    <3>1. <<"0", "x">> \o convertHex(p) \in Seq(STRING)
      BY StreamAssumption DEF Numerals
    <3> QED
      BY <2>2, <3>1 DEF StreamPointer, FormatPointer
  <2>6. \A d \in Doubles : StreamDouble(d) => Item(d)
    <3> TAKE d \in Doubles
    <3> HAVE StreamDouble(d)
    <3>1. d \in Seq(STRING)
      BY StreamAssumption DEF Numerals
    <3> QED
      BY <2>2, <3>1 DEF StreamDouble
  <2>7. \E text : Item(text)
    <3>1. ~ResetBuffer
      BY <1>1 DEF ResetBuffer, Reset, Sound, Roomy
    <3> QED
      BY <1>1, <2>3, <2>4, <2>5, <2>6, <3>1 DEF Next
  <2>8. buffer'.data = buffer.data \o Added
    BY <2>7 DEF Item
  <2>9. \A v \in Ints : IsDecimal(convert(v), v)
    BY StreamAssumption, DecimalIs
  <2>10. \A p \in Pointers : IsHexadecimal(<<"0", "x">> \o convertHex(p), p)
    BY StreamAssumption, HexadecimalIs
  <2> QED
    BY <2>3, <2>4, <2>5, <2>8, <2>9, <2>10 DEF Item
<1> QED
  BY <1>1, SoundInvariant, PTL DEF Spec, WholeItems

-----------------------------------------------------------------------------
(* MAX_NUMERIC_SIZE. *)

\* Below the bound, a number has at most k digits.
Fits(base, table, I, bound, k) ==
  \A i \in I : Abs(i) < bound => Len(Text(i, base, table)) <= k

\* Division is monotonic.
LEMMA Below ==
  ASSUME NEW base \in {10, 16}, NEW x \in Nat, NEW y \in Int,
         NEW r \in 0 .. base - 1, y = base * x + r
  PROVE  /\ y < base => x = 0
         /\ \A bound \in Int : y < base * bound => x < bound
<1>1. CASE base = 10
  BY <1>1
<1>2. CASE base = 16
  BY <1>2
<1> QED
  BY <1>1, <1>2

\* A base as a bound, and a bound a base larger: one digit.
LEMMA FitsNext ==
  ASSUME NEW base \in {10, 16}, NEW table, NEW I \in SUBSET Int,
         \A i \in I : Quot(i, base) \in I,
         IsTable(table, base, I)
  PROVE  /\ Fits(base, table, I, base, 1)
         /\ \A bound \in Int, k \in Nat \ {0} :
              Fits(base, table, I, bound, k) => Fits(base, table, I, base * bound, k + 1)
<1>1. ASSUME NEW i \in I
      PROVE  LET q == Quot(i, base)
                 n == Len(Text(i, base, table))
             IN  /\ q \in I /\ Abs(q) \in Nat
                 /\ Abs(q) = 0 <=> q = 0
                 /\ \E r \in 0 .. base - 1 : Abs(i) = base * Abs(q) + r
                 /\ q = 0 => n <= 1
                 /\ q # 0 => n <= Len(Text(q, base, table)) + 1
                            /\ Len(Text(q, base, table)) \in Nat
  <2> DEFINE q    == Quot(i, base)
             d    == Abs(Rem(i, base))
             rest == IF q = 0 THEN <<>> ELSE Text(q, base, table)
  <2>1. i \in Int /\ q \in I
    OBVIOUS
  <2>2. /\ q \in Int /\ Abs(q) \in Nat /\ Abs(i) = base * Abs(q) + d
    BY <2>1, QuotRem
  <2>3. HasText(q, base, table)
    BY <2>1, TextIs
  <2>4. /\ d \in 0 .. base - 1
        /\ Text(i, base, table) = Append(rest, digitsHex[d])
    <3>1. table[Rem(i, base)] = digitsHex[Abs(Rem(i, base))]
      BY DEF IsTable
    <3>2. Quot(i, base) # 0 => Lsds(base, table)[Quot(i, base)] \in Seq(Characters)
      BY <2>3 DEF HasText
    <3> QED
      BY <2>1, <3>1, <3>2, TextStep
  <2>5. rest \in Seq(Characters)
    BY <2>3, EmptySeq DEF HasText
  <2>6. digitsHex[d] \in Characters
    BY <2>4, DigitIsCharacter
  <2>7. Len(Text(i, base, table)) = Len(rest) + 1 /\ Len(rest) \in Nat
    BY <2>4, <2>5, <2>6, AppendProperties, LenProperties
  <2>8. q = 0 => Len(rest) = 0
    OBVIOUS
  <2>9. q # 0 => rest = Text(q, base, table)
    OBVIOUS
  <2>10. Abs(q) = 0 <=> q = 0
    <3> HIDE DEF q
    <3> QED
      BY <2>2 DEF Abs
  <2> HIDE DEF q, d, rest
  <2> QED
    BY <2>1, <2>2, <2>4, <2>7, <2>8, <2>9, <2>10 DEF q
<1>2. ASSUME NEW i \in I, Abs(i) < base
      PROVE  Len(Text(i, base, table)) <= 1
  <2> DEFINE q == Quot(i, base)
  <2>1. /\ Abs(q) \in Nat /\ \E r \in 0 .. base - 1 : Abs(i) = base * Abs(q) + r
        /\ Abs(q) = 0 <=> q = 0 /\ Abs(i) \in Int
        /\ q = 0 => Len(Text(i, base, table)) <= 1
    BY <1>1 DEF Abs
  <2> HIDE DEF q
  <2>2. Abs(q) = 0
    BY <1>2, <2>1, Below
  <2> QED
    BY <2>1, <2>2
<1>3. ASSUME NEW bound \in Int, NEW k \in Nat \ {0}, Fits(base, table, I, bound, k),
             NEW i \in I, Abs(i) < base * bound
      PROVE  Len(Text(i, base, table)) <= k + 1
  <2> DEFINE q == Quot(i, base)
  <2>1. /\ q \in I /\ Abs(q) \in Nat
        /\ \E r \in 0 .. base - 1 : Abs(i) = base * Abs(q) + r
        /\ Abs(i) \in Int
        /\ q = 0 => Len(Text(i, base, table)) <= 1
        /\ q # 0 => Len(Text(i, base, table)) <= Len(Text(q, base, table)) + 1
                   /\ Len(Text(q, base, table)) \in Nat
    BY <1>1 DEF Abs
  <2> HIDE DEF q
  <2>2. Abs(q) < bound
    BY <1>3, <2>1, Below
  <2>3. Len(Text(q, base, table)) <= k
    BY <1>3, <2>1, <2>2 DEF Fits
  <2> QED
    BY <2>1, <2>3
<1> QED
  BY <1>2, <1>3 DEF Fits

\* Four more digits.
LEMMA FitsFour ==
  ASSUME NEW base \in {10, 16}, NEW table, NEW I \in SUBSET Int,
         \A i \in I : Quot(i, base) \in I,
         IsTable(table, base, I)
  PROVE  \A bound \in Int, k \in Nat \ {0} :
           Fits(base, table, I, bound, k)
             => Fits(base, table, I, base * (base * (base * (base * bound))), k + 4)
<1> SUFFICES ASSUME NEW bound \in Int, NEW k \in Nat \ {0},
                    Fits(base, table, I, bound, k)
             PROVE  Fits(base, table, I, base * (base * (base * (base * bound))), k + 4)
  OBVIOUS
<1> DEFINE F(b, n) == Fits(base, table, I, b, n)
<1>1. \A b \in Int, n \in Nat \ {0} : F(b, n) => base * b \in Int /\ F(base * b, n + 1)
  BY FitsNext
<1>2. F(bound, k)
  OBVIOUS
<1> HIDE DEF F
<1>3. F(base * (base * (base * (base * bound))), (((k + 1) + 1) + 1) + 1)
  BY <1>1, <1>2
<1>4. (((k + 1) + 1) + 1) + 1 = k + 4
  OBVIOUS
<1> QED
  BY <1>3, <1>4 DEF F

\* MAX_NUMERIC_SIZE = 32 is enough for every value of the integer types, 64 bits wide
\* and with or without a sign, and for every address (-2^63 and 2^64 are written as
\* products): what StreamAssumption asks of the numbers' lengths holds for the types
\* of the code, so a conversion that finds MAX_NUMERIC_SIZE bytes writes no more.
THEOREM NumeralsFit ==
  /\ \A v \in -(4294967296 * 2147483648) .. 4294967296 * 4294967296 - 1 : Len(convert(v)) < 32
  /\ \A p \in 0 .. 4294967296 * 4294967296 - 1 : Len(<<"0", "x">> \o convertHex(p)) < 32
<1>1. ASSUME NEW v \in -(4294967296 * 2147483648) .. 4294967296 * 4294967296 - 1
      PROVE  Len(convert(v)) < 32
  <2>1. \A i \in Int : Quot(i, 10) \in Int /\ Rem(i, 10) \in -9 .. 9
    BY QuotRem
  <2>2. IsTable(zero, 10, Int)
    BY <2>1, ZeroIs DEF IsTable
  <2> DEFINE F(b, k) == Fits(10, zero, Int, b, k)
  <2>3. F(10, 1)
    BY <2>1, <2>2, FitsNext
  <2>4. \A b \in Int, k \in Nat \ {0} : F(b, k) => F(10000 * b, k + 4)
    <3>1. \A b \in Int : 10 * (10 * (10 * (10 * b))) = 10000 * b
      OBVIOUS
    <3> QED
      BY <2>1, <2>2, <3>1, FitsFour
  <2> HIDE DEF F
  <2>5. F(100000, 5)
    BY <2>3, <2>4
  <2>6. F(1000000000, 9)
    BY <2>4, <2>5
  <2>7. F(10000000000000, 13)
    BY <2>4, <2>6
  <2>8. F(100000000000000000, 17)
    BY <2>4, <2>7
  <2>9. F(10000 * 100000000000000000, 21)
    BY <2>4, <2>8
  <2>10. v \in Int /\ Abs(v) < 10000 * 100000000000000000
    BY DEF Abs
  <2>11. Len(Text(v, 10, zero)) <= 21
    BY <2>9, <2>10 DEF F, Fits
  <2>12. convert(v) \in Seq(Characters) /\ Len(convert(v)) <= Len(Text(v, 10, zero)) + 1
    <3> DEFINE lsds == Lsds(10, zero)[v]
               sign == IF v < 0 THEN <<"-">> ELSE <<>>
    <3>1. lsds \in Seq(Characters)
      BY <2>10, DecimalText DEF HasText
    <3>2. sign \in Seq(Characters) /\ Len(sign) <= 1
      <4>1. "-" \in Characters
        BY DEF Characters
      <4> QED
        BY <4>1
    <3> HIDE DEF sign
    <3>3. lsds \o sign \in Seq(Characters) /\ Len(lsds \o sign) <= Len(lsds) + 1
      BY <3>1, <3>2
    <3>4. Len(Text(v, 10, zero)) = Len(lsds)
      BY <3>1, ReverseElements DEF Text
    <3> QED
      BY <3>3, <3>4, ReverseElements DEF convert, sign
  <2>13. Len(Text(v, 10, zero)) \in Nat /\ Len(convert(v)) \in Nat
    BY <2>10, <2>12, DecimalText, LenProperties DEF HasText
  <2> QED
    BY <2>11, <2>12, <2>13
<1>2. ASSUME NEW p \in 0 .. 4294967296 * 4294967296 - 1
      PROVE  Len(<<"0", "x">> \o convertHex(p)) < 32
  <2>1. \A i \in Nat : Quot(i, 16) \in Nat /\ Rem(i, 16) \in Nat
    BY QuotRem
  <2>2. IsTable(digitsHex, 16, Nat)
    BY <2>1 DEF IsTable, Abs
  <2> DEFINE F(b, k) == Fits(16, digitsHex, Nat, b, k)
  <2>3. F(16, 1)
    BY <2>1, <2>2, FitsNext
  <2>4. \A b \in Int, k \in Nat \ {0} : F(b, k) => F(65536 * b, k + 4)
    <3>1. \A b \in Int : 16 * (16 * (16 * (16 * b))) = 65536 * b
      OBVIOUS
    <3> QED
      BY <2>1, <2>2, <3>1, FitsFour
  <2> HIDE DEF F
  <2>5. F(1048576, 5)
    BY <2>3, <2>4
  <2>6. F(68719476736, 9)
    BY <2>4, <2>5
  <2>7. F(4503599627370496, 13)
    BY <2>4, <2>6
  <2>8. F(65536 * 4503599627370496, 17)
    BY <2>4, <2>7
  <2>9. p \in Nat /\ Abs(p) < 65536 * 4503599627370496
    BY DEF Abs
  <2>10. Len(convertHex(p)) <= 17
    BY <2>8, <2>9 DEF F, Fits, Text, convertHex
  <2>11. convertHex(p) \in Seq(Characters)
    BY <2>9, HexadecimalText DEF HasText, Text, convertHex
  <2>12. "0" \in Characters /\ "x" \in Characters
    <3>1. digitsHex[0] = "0"
      BY DEF digitsHex
    <3> QED
      BY <3>1 DEF Characters
  <2>13. Len(<<"0", "x">> \o convertHex(p)) = 2 + Len(convertHex(p))
    BY <2>11, <2>12
  <2>14. Len(convertHex(p)) \in Nat
    BY <2>11, LenProperties
  <2> QED
    BY <2>10, <2>13, <2>14
<1> QED
  BY <1>1, <1>2

=============================================================================
