--------------------------- MODULE Logging_proofs ---------------------------
(***************************************************************************)
(* Theorems about Logging, for any threads, levels, clocks and texts and   *)
(* any size of the buffer that holds more than one field.                  *)
(***************************************************************************)
EXTENDS Logging, SequenceTheorems, TLAPS

USE BufferAssumption, LoggingAssumption

-----------------------------------------------------------------------------
(* Buffers. *)

Token == Kinds \X Nat

Sound(buf) ==
  /\ buf \in [data : Seq(Token), high : 0 .. Size]
  /\ Len(buf.data) < Size

\* What both ways to append to a buffer have in common: the buffer stays sound,
\* and its first byte stays.
Extends(new, buf) ==
  /\ Sound(new)
  /\ Len(buf.data) <= Len(new.data)
  /\ buf.data # <<>> => new.data # <<>> /\ new.data[1] = buf.data[1]

\* A sequence that is appended to.
LEMMA ConcatIs ==
  ASSUME NEW s \in Seq(Token), NEW text \in Seq(Token)
  PROVE  /\ s \o text \in Seq(Token)
         /\ Len(s \o text) = Len(s) + Len(text)
         /\ Len(s) \in Nat /\ Len(text) \in Nat
         /\ \A k \in 1 .. Len(s) : (s \o text)[k] = s[k]
         /\ \A k \in 1 .. Len(text) : (s \o text)[Len(s) + k] = text[k]
  BY ConcatProperties, LenProperties

\* What fits extends the buffer.
LEMMA WrittenExtends ==
  ASSUME NEW buf, Sound(buf), NEW text \in Seq(Token), NEW beyond \in 0 .. 1,
         Len(buf.data) + Len(text) + beyond <= Size, Len(buf.data) + Len(text) < Size
  PROVE  Extends(Written(buf, text, beyond), buf)
<1>1. /\ buf.data \in Seq(Token) /\ buf.high \in 0 .. Size
      /\ Len(buf.data) \in Nat /\ Len(text) \in Nat
  BY LenProperties DEF Sound
<1>2. Written(buf, text, beyond).data = buf.data \o text
  BY DEF Written
<1>3. Written(buf, text, beyond) \in [data : Seq(Token), high : 0 .. Size]
  <2>1. /\ buf.data \o text \in Seq(Token)
        /\ Len(buf.data) + Len(text) + beyond \in 0 .. Size
    BY <1>1, ConcatIs
  <2> QED
    BY <1>1, <2>1 DEF Written
<1>4. Len(buf.data \o text) = Len(buf.data) + Len(text)
  BY <1>1, ConcatIs
<1>5. buf.data # <<>> => buf.data \o text # <<>> /\ (buf.data \o text)[1] = buf.data[1]
  <2> HAVE buf.data # <<>>
  <2>1. Len(buf.data) > 0
    BY <1>1, EmptySeq
  <2>2. 1 \in 1 .. Len(buf.data) /\ Len(buf.data \o text) # 0
    BY <1>1, <1>4, <2>1
  <2>3. buf.data \o text # <<>>
    BY <2>2, EmptySeq
  <2> QED
    BY <1>1, <2>2, <2>3, ConcatIs
<1> QED
  BY <1>1, <1>2, <1>3, <1>4, <1>5 DEF Extends, Sound

\* A length that fits an int is the one that Append is told.
LEMMA ToIntIs ==
  ASSUME NEW n \in Nat
  PROVE  n <= IntMax => ToInt(n) = n
<1> DEFINE m    == 2 * (IntMax + 1)
           bits == n % m
<1>1. IntMax \in Nat /\ m \in Nat \ {0} /\ IntMax < m
  BY BufferAssumption
<1>2. bits \in 0 .. m - 1
  BY <1>1
<1>3. n < m => bits = n
  BY <1>1
<1>4. ToInt(n) = IF bits <= IntMax THEN bits ELSE bits - m
  BY DEF ToInt
<1> HIDE DEF m, bits
<1> QED
  BY <1>1, <1>2, <1>3, <1>4

\* A text whose length is an int is appended as a whole or dropped.
LEMMA AppendWhole ==
  ASSUME NEW S, NEW text \in Seq(S), Len(text) <= IntMax, NEW buf
  PROVE  AppendText(buf, text)
           = IF Avail(buf) <= Len(text) THEN buf ELSE Written(buf, text, 0)
<1> DEFINE len == ToInt(Len(text))
<1>1. len = Len(text) /\ Len(text) \in Nat
  BY ToIntIs, LenProperties
<1>2. SubSeq(text, 1, Len(text)) = text
  BY SubSeqFull
<1>3. AppendText(buf, text) =
        IF Avail(buf) <= len THEN buf
        ELSE IF len < 0 THEN Overrun(buf) ELSE Written(buf, SubSeq(text, 1, len), 0)
  BY DEF AppendText
<1> HIDE DEF len
<1>4. ~(len < 0)
  BY <1>1
<1> QED
  BY <1>1, <1>2, <1>3, <1>4

\* FixedBuffer::Append keeps one byte free; what it drops did not fit.
LEMMA AppendExtends ==
  ASSUME NEW buf, Sound(buf), NEW text \in Seq(Token), Len(text) <= IntMax
  PROVE  /\ Extends(AppendText(buf, text), buf)
         /\ \/ AppendText(buf, text).data = buf.data \o text
            \/ AppendText(buf, text) = buf /\ Size - Len(buf.data) <= Len(text)
<1>1. Len(buf.data) \in Nat /\ Len(text) \in Nat
  BY LenProperties DEF Sound
<1>2. CASE ~(Avail(buf) <= Len(text))
  <2>1. Len(buf.data) + Len(text) + 0 <= Size /\ Len(buf.data) + Len(text) < Size
    BY <1>1, <1>2 DEF Avail
  <2>2. AppendText(buf, text) = Written(buf, text, 0)
    BY <1>2, AppendWhole
  <2>3. Extends(Written(buf, text, 0), buf)
    BY <2>1, WrittenExtends
  <2>4. Written(buf, text, 0).data = buf.data \o text
    BY DEF Written
  <2> QED
    BY <2>2, <2>3, <2>4
<1>3. CASE Avail(buf) <= Len(text)
  <2>1. AppendText(buf, text) = buf
    BY <1>3, AppendWhole
  <2> QED
    BY <1>1, <1>3, <2>1 DEF Avail, Extends
<1> QED
  BY <1>2, <1>3

\* So does a conversion, which writes a NUL behind fewer than MaxNumeric digits.
LEMMA NumericExtends ==
  ASSUME NEW buf, Sound(buf), NEW text \in Seq(Token), Len(text) < MaxNumeric
  PROVE  /\ Extends(Numeric(buf, text), buf)
         /\ \/ Numeric(buf, text).data = buf.data \o text
            \/ Numeric(buf, text) = buf /\ Size - Len(buf.data) < MaxNumeric
<1>1. Len(buf.data) \in Nat /\ Len(text) \in Nat
  BY LenProperties DEF Sound
<1>2. CASE Avail(buf) >= MaxNumeric
  <2>1. Len(buf.data) + Len(text) + 1 <= Size /\ Len(buf.data) + Len(text) < Size
    BY <1>1, <1>2 DEF Avail
  <2>2. Numeric(buf, text) = Written(buf, text, 1)
    BY <1>2 DEF Numeric
  <2>3. Extends(Written(buf, text, 1), buf)
    BY <2>1, WrittenExtends
  <2>4. Written(buf, text, 1).data = buf.data \o text
    BY DEF Written
  <2> QED
    BY <2>2, <2>3, <2>4
<1>3. CASE ~(Avail(buf) >= MaxNumeric)
  BY <1>1, <1>3 DEF Numeric, Avail, Extends
<1> QED
  BY <1>2, <1>3

\* Buffers that extend one another.
LEMMA ExtendsTransitive ==
  ASSUME NEW a, NEW b, NEW c, Sound(a), Extends(b, a), Extends(c, b)
  PROVE  Extends(c, a)
<1>1. Len(a.data) \in Nat /\ Len(b.data) \in Nat /\ Len(c.data) \in Nat
  BY LenProperties DEF Sound, Extends
<1> QED
  BY <1>1 DEF Extends

\* A buffer that is appended to once more.
LEMMA AppendedExtends ==
  ASSUME NEW a, NEW b, Sound(a), Extends(b, a), NEW text \in Seq(Token),
         Len(text) <= IntMax
  PROVE  Sound(AppendText(b, text)) /\ Extends(AppendText(b, text), a)
<1>1. Sound(b)
  BY DEF Extends
<1>2. Extends(AppendText(b, text), b)
  BY <1>1, AppendExtends
<1>3. Extends(AppendText(b, text), a)
  BY <1>2, ExtendsTransitive
<1> QED
  BY <1>3 DEF Extends

\* The lengths that the program does not choose are those of an int.
LEMMA LengthsFit ==
  /\ IntMax \in Nat /\ 1 <= IntMax /\ 3 <= IntMax
  /\ BaseLen \in Nat /\ BaseLen <= IntMax
  /\ LineDigits \in Nat \ {0} /\ LineDigits < MaxNumeric
  /\ Size \in Nat /\ Size > 1 /\ Size <= IntMax
<1>1. IntMax \in Nat /\ IntMax >= 3 /\ BaseLen \in 0 .. IntMax /\ Size \in Nat
  OBVIOUS
<1> QED
  BY <1>1

\* The texts of a record.
LEMMA FieldIs ==
  ASSUME NEW kind \in Kinds, NEW n \in Nat
  PROVE  /\ Field(kind, n) \in Seq(Token)
         /\ Len(Field(kind, n)) = 1 /\ Len(Field(kind, n)) <= IntMax
         /\ Field(kind, n)[1] = <<kind, n>>
<1> DEFINE token == <<kind, n>>
<1>1. token \in Token
  BY DEF Token
<1>2. Field(kind, n) = <<token>>
  BY DEF Field
<1> HIDE DEF token
<1>3. <<token>> \in Seq(Token) /\ Len(<<token>>) = 1 /\ <<token>>[1] = token
  BY <1>1
<1>4. 1 <= IntMax
  BY LengthsFit
<1> QED
  BY <1>2, <1>3, <1>4 DEF token

\* A text of one kind.
LEMMA TextIs ==
  ASSUME NEW kind \in Kinds, NEW n \in Nat
  PROVE  Text(kind, n) \in Seq(Token) /\ Len(Text(kind, n)) = n
<1> DEFINE text == Text(kind, n)
<1>1. text \in [1 .. n -> Token]
  <2>1. <<kind, n>> \in Token
    BY DEF Token
  <2> QED
    BY <2>1 DEF Text
<1> HIDE DEF text
<1>2. text \in Seq(Token)
  BY <1>1, SeqDef
<1>3. Len(text) \in Nat /\ DOMAIN text = 1 .. Len(text) /\ DOMAIN text = 1 .. n
  BY <1>1, <1>2, LenProperties
<1>4. Len(text) = n
  <2>1. \A k \in Nat : k \in 1 .. Len(text) <=> k \in 1 .. n
    BY <1>3
  <2>2. Len(text) \in Nat
    BY <1>3
  <2>3. ~(Len(text) < n) /\ ~(n < Len(text))
    BY <2>1, <2>2
  <2> QED
    BY <2>2, <2>3
<1> QED
  BY <1>2, <1>4 DEF text

\* Its first character.
LEMMA TextBegins ==
  ASSUME NEW kind \in Kinds, NEW n \in Nat \ {0}
  PROVE  Text(kind, n)[1] = <<kind, n>>
  BY DEF Text

-----------------------------------------------------------------------------
(* Records. *)

\* So is a buffer after a field more, or after the text of errno.
LEMMA FieldExtends ==
  ASSUME NEW a, NEW b, Sound(a), Extends(b, a), NEW kind \in Kinds, NEW n \in Nat
  PROVE  Sound(AppendText(b, Field(kind, n))) /\ Extends(AppendText(b, Field(kind, n)), a)
<1>1. Field(kind, n) \in Seq(Token) /\ Len(Field(kind, n)) <= IntMax
  BY FieldIs
<1> QED
  BY <1>1, AppendedExtends

LEMMA ExplainExtends ==
  ASSUME NEW a, NEW b, Sound(a), Extends(b, a), NEW errno \in 0 .. IntMax
  PROVE  Sound(Explain(b, errno)) /\ Extends(Explain(b, errno), a)
<1> DEFINE told   == AppendText(b, Text("errno", errno))
           opened == AppendText(told, Field(" (errno=", 0))
           number == Numeric(opened, Text("number", ErrnoDigits))
           whole  == AppendText(number, Field(") ", 0))
<1>1. Sound(told) /\ Extends(told, a)
  <2>1. Text("errno", errno) \in Seq(Token) /\ Len(Text("errno", errno)) <= IntMax
    <3>1. errno \in Nat /\ errno <= IntMax /\ "errno" \in Kinds
      BY LengthsFit DEF Kinds
    <3> QED
      BY <3>1, TextIs
  <2> QED
    BY <2>1, AppendedExtends
<1> HIDE DEF told
<1>2. Sound(opened) /\ Extends(opened, a)
  BY <1>1, FieldExtends DEF Kinds
<1> HIDE DEF opened
<1>3. Sound(number) /\ Extends(number, a)
  <2>1. Text("number", ErrnoDigits) \in Seq(Token) /\ Len(Text("number", ErrnoDigits)) = ErrnoDigits
    BY TextIs DEF Kinds
  <2>2. Extends(number, opened)
    BY <1>2, <2>1, NumericExtends
  <2> QED
    BY <1>2, <2>2, ExtendsTransitive DEF Extends
<1> HIDE DEF number
<1>4. Sound(whole) /\ Extends(whole, a)
  BY <1>3, FieldExtends DEF Kinds
<1> QED
  BY <1>4 DEF Explain, whole, number, opened, told

\* The header of a record is sound and begins with its time.
LEMMA HeaderIs ==
  ASSUME NEW time \in Times, NEW t \in Threads, NEW level \in Levels,
         NEW errno \in 0 .. IntMax
  PROVE  /\ Sound(Header(time, t, level, errno))
         /\ Header(time, t, level, errno).data # <<>>
         /\ Header(time, t, level, errno).data[1] = <<"time", time>>
<1> DEFINE timed   == AppendText(EmptyBuffer, Field("time", time))
           stamped == AppendText(timed, Field("us", 0))
           half    == AppendText(stamped, Field("tid", TidDigits[t]))
           named   == AppendText(half, Field("level", level))
           explained == IF errno > 0 THEN Explain(named, errno) ELSE named
           func    == AppendText(explained, Field("func", 0))
           whole   == AppendText(func, Field("space", 0))
<1>1. time \in Nat /\ level \in Nat /\ TidDigits[t] \in Nat /\ 0 \in Nat
  BY DEF TRACE, FATAL
<1>2. Sound(timed) /\ timed.data # <<>> /\ timed.data[1] = <<"time", time>>
  <2>1. Sound(EmptyBuffer) /\ Avail(EmptyBuffer) = Size /\ EmptyBuffer.data = <<>>
    BY DEF Sound, EmptyBuffer, Avail
  <2>2. /\ Field("time", time) \in Seq(Token) /\ Len(Field("time", time)) = 1
        /\ Len(Field("time", time)) <= IntMax
        /\ Field("time", time)[1] = <<"time", time>>
    BY <1>1, FieldIs DEF Kinds
  <2>3. Sound(timed)
    BY <2>1, <2>2, AppendExtends DEF Extends
  <2>4. timed.data = <<>> \o Field("time", time)
    <3>1. ~(Avail(EmptyBuffer) <= Len(Field("time", time)))
      <4>1. Avail(EmptyBuffer) = Size /\ Len(Field("time", time)) = 1
        BY <2>1, <2>2
      <4>2. ~(Size <= 1)
        BY LengthsFit
      <4> QED
        BY <4>1, <4>2, Zenon
    <3>2. timed = Written(EmptyBuffer, Field("time", time), 0)
      BY <2>2, <3>1, AppendWhole
    <3> QED
      BY <2>1, <3>2 DEF Written
  <2>5. timed.data = Field("time", time)
    BY <2>2, <2>4, ConcatEmptySeq
  <2> QED
    BY <2>2, <2>3, <2>5, EmptySeq
<1> HIDE DEF timed
<1>3. Extends(timed, timed)
  BY <1>2 DEF Extends, Sound
<1>4. Sound(stamped) /\ Extends(stamped, timed)
  BY <1>1, <1>2, <1>3, FieldExtends DEF Kinds
<1> HIDE DEF stamped
<1>5. Sound(half) /\ Extends(half, timed)
  BY <1>1, <1>2, <1>4, FieldExtends DEF Kinds
<1> HIDE DEF half
<1>6. Sound(named) /\ Extends(named, timed)
  BY <1>1, <1>2, <1>5, FieldExtends DEF Kinds
<1> HIDE DEF named
<1>7. Sound(explained) /\ Extends(explained, timed)
  BY <1>2, <1>6, ExplainExtends
<1> HIDE DEF explained
<1>8. Sound(func) /\ Extends(func, timed)
  BY <1>1, <1>2, <1>7, FieldExtends DEF Kinds
<1> HIDE DEF func
<1>9. Sound(whole) /\ Extends(whole, timed)
  BY <1>1, <1>2, <1>8, FieldExtends DEF Kinds
<1> HIDE DEF whole
<1>10. Header(time, t, level, errno) \in {explained, whole}
  BY DEF Header, explained, whole, func, named, half, stamped, timed
<1> QED
  BY <1>2, <1>7, <1>9, <1>10 DEF Extends

\* A buffer that holds a token of a kind.
HasKind(buf, kind) == \E k \in DOMAIN buf.data : buf.data[k][1] = kind

\* What was appended is there, also after more has been.
LEMMA AppendedStays ==
  ASSUME NEW buf, Sound(buf), NEW kind, NEW text \in Seq(Token),
         Len(text) > 0, text[1][1] = kind,
         NEW new, new.data = buf.data \o text
  PROVE  HasKind(new, kind)
<1> DEFINE k == Len(buf.data) + 1
<1>1. buf.data \in Seq(Token)
  BY DEF Sound
<1>2. /\ Len(buf.data) \in Nat /\ Len(text) \in Nat
      /\ new.data \in Seq(Token) /\ Len(new.data) = Len(buf.data) + Len(text)
  BY <1>1, ConcatIs
<1>3. 1 \in 1 .. Len(text) /\ k \in 1 .. Len(new.data)
  BY <1>2
<1>4. new.data[k] = text[1]
  BY <1>1, <1>3, ConcatIs
<1>5. k \in DOMAIN new.data
  BY <1>2, <1>3, LenProperties
<1>6. new.data[k][1] = kind
  BY <1>4
<1> HIDE DEF k
<1> QED
  BY <1>5, <1>6 DEF HasKind

\* What a buffer holds is still there after more was appended, or dropped.
LEMMA KindStays ==
  ASSUME NEW buf, Sound(buf), NEW text \in Seq(Token), NEW kind,
         HasKind(buf, kind), NEW new, new.data = buf.data \o text \/ new = buf
  PROVE  HasKind(new, kind)
<1>1. CASE new = buf
  BY <1>1
<1>2. CASE new.data = buf.data \o text
  <2>1. buf.data \in Seq(Token)
    BY DEF Sound
  <2>2. PICK k \in 1 .. Len(buf.data) : buf.data[k][1] = kind
    BY <2>1, LenProperties DEF HasKind
  <2>3. /\ new.data \in Seq(Token) /\ new.data[k] = buf.data[k]
        /\ k \in 1 .. Len(new.data)
    BY <1>2, <2>1, <2>2, ConcatIs
  <2>4. k \in DOMAIN new.data
    BY <2>3, LenProperties
  <2> QED
    BY <2>2, <2>3, <2>4 DEF HasKind
<1> QED
  BY <1>1, <1>2

\* The tail of a record: what of it is missing did not fit.
LEMMA FinishIs ==
  ASSUME NEW buf, Sound(buf)
  PROVE  /\ Extends(Finish(buf), buf)
         /\ HasKind(Finish(buf), "newline") \/ Len(Finish(buf).data) = Size - 1
         /\ HasKind(Finish(buf), "line") \/ Len(Finish(buf).data) > Size - MaxNumeric
<1> DEFINE dashed   == AppendText(buf, Text("dash", 3))
           based    == AppendText(dashed, Text("file", BaseLen))
           named    == AppendText(based, Field(":", 0))
           numbered == Numeric(named, Text("line", LineDigits))
           whole    == AppendText(numbered, Field("newline", 0))
<1>1. Sound(dashed) /\ Extends(dashed, buf)
  <2>1. Text("dash", 3) \in Seq(Token) /\ Len(Text("dash", 3)) <= IntMax
    <3>1. 3 \in Nat /\ 3 <= IntMax /\ "dash" \in Kinds
      BY LengthsFit DEF Kinds
    <3>2. Text("dash", 3) \in Seq(Token) /\ Len(Text("dash", 3)) = 3
      BY <3>1, TextIs, Zenon
    <3> QED
      BY <3>1, <3>2
  <2> QED
    BY <2>1, AppendExtends DEF Extends
<1> HIDE DEF dashed
<1>2. Sound(based) /\ Extends(based, buf)
  <2>1. Text("file", BaseLen) \in Seq(Token) /\ Len(Text("file", BaseLen)) <= IntMax
    <3>1. BaseLen \in Nat /\ BaseLen <= IntMax /\ "file" \in Kinds
      BY LengthsFit DEF Kinds
    <3> QED
      BY <3>1, TextIs
  <2> QED
    BY <1>1, <2>1, AppendedExtends
<1> HIDE DEF based
<1>3. Sound(named) /\ Extends(named, buf)
  BY <1>2, FieldExtends DEF Kinds
<1> HIDE DEF named
<1>4. Text("line", LineDigits) \in Seq(Token) /\ Len(Text("line", LineDigits)) < MaxNumeric
  <2>1. LineDigits \in Nat /\ LineDigits < MaxNumeric
    OBVIOUS
  <2>2. Text("line", LineDigits) \in Seq(Token) /\ Len(Text("line", LineDigits)) = LineDigits
    BY <2>1, TextIs, TextBegins DEF Kinds
  <2> QED
    BY <2>1, <2>2
<1>5. /\ Extends(numbered, named)
      /\ \/ numbered.data = named.data \o Text("line", LineDigits)
         \/ numbered = named /\ Size - Len(named.data) < MaxNumeric
  BY <1>3, <1>4, NumericExtends
<1>6. Sound(numbered) /\ Extends(numbered, buf)
  BY <1>3, <1>5, ExtendsTransitive DEF Extends
<1>7. HasKind(numbered, "line") \/ Len(numbered.data) > Size - MaxNumeric
  <2>1. Len(named.data) \in Nat
    BY <1>3, LenProperties DEF Sound
  <2>2. CASE numbered.data = named.data \o Text("line", LineDigits)
    <3>1. Len(Text("line", LineDigits)) > 0
      <4>1. LineDigits \in Nat /\ LineDigits > 0 /\ "line" \in Kinds
        BY LengthsFit DEF Kinds
      <4> QED
        BY <4>1, TextIs
    <3>2. Text("line", LineDigits)[1][1] = "line"
      <4>1. Text("line", LineDigits)[1] = <<"line", LineDigits>>
        BY TextBegins DEF Kinds
      <4> QED
        BY <4>1
    <3> QED
      BY <1>3, <1>4, <2>2, <3>1, <3>2, AppendedStays
  <2>3. CASE numbered = named /\ Size - Len(named.data) < MaxNumeric
    BY <2>1, <2>3
  <2> QED
    BY <1>5, <2>2, <2>3
<1> HIDE DEF numbered
<1>8. /\ Field("newline", 0) \in Seq(Token) /\ Len(Field("newline", 0)) = 1
      /\ Len(Field("newline", 0)) <= IntMax
      /\ Field("newline", 0)[1] = <<"newline", 0>>
  BY FieldIs DEF Kinds
<1>9. /\ Extends(whole, numbered)
      /\ \/ whole.data = numbered.data \o Field("newline", 0)
         \/ whole = numbered /\ Size - Len(numbered.data) <= 1
  <2>1. Sound(numbered)
    BY <1>6
  <2>2. Field("newline", 0) \in Seq(Token) /\ Len(Field("newline", 0)) <= IntMax
    BY <1>8
  <2>3. /\ Extends(whole, numbered)
        /\ \/ whole.data = numbered.data \o Field("newline", 0)
           \/ whole = numbered /\ Size - Len(numbered.data) <= Len(Field("newline", 0))
    BY <1>8, <2>1, <2>2, AppendExtends
  <2> HIDE DEF whole
  <2> QED
    BY <1>8, <2>3
<1>10. HasKind(whole, "newline") \/ Len(whole.data) = Size - 1
  <2>1. Len(numbered.data) \in Nat /\ Len(numbered.data) < Size
    BY <1>6, LenProperties DEF Sound
  <2>2. CASE whole.data = numbered.data \o Field("newline", 0)
    <3>1. Field("newline", 0) \in Seq(Token) /\ Len(Field("newline", 0)) > 0
          /\ Field("newline", 0)[1][1] = "newline"
      BY <1>8
    <3>2. Sound(numbered)
      BY <1>6
    <3> HIDE DEF whole
    <3>3. HasKind(whole, "newline")
      BY <2>2, <3>1, <3>2, AppendedStays
    <3> QED
      BY <3>3
  <2>3. CASE whole = numbered /\ Size - Len(numbered.data) <= 1
    BY <2>1, <2>3
  <2> QED
    BY <1>9, <2>2, <2>3
<1>11. HasKind(whole, "line") \/ Len(whole.data) > Size - MaxNumeric
  <2>1. CASE HasKind(numbered, "line")
    BY <1>6, <1>8, <1>9, <2>1, KindStays
  <2>2. CASE Len(numbered.data) > Size - MaxNumeric
    <3>1. /\ Len(numbered.data) \in Nat /\ Len(whole.data) \in Nat
          /\ Len(numbered.data) <= Len(whole.data)
      BY <1>6, <1>9, LenProperties DEF Extends, Sound
    <3> QED
      BY <2>2, <3>1
  <2> QED
    BY <1>7, <2>1, <2>2
<1>12. Extends(whole, buf)
  BY <1>6, <1>9, ExtendsTransitive
<1> HIDE DEF whole
<1>13. Finish(buf) = whole
  BY DEF Finish, whole, numbered, named, based, dashed
<1> QED
  BY <1>10, <1>11, <1>12, <1>13

-----------------------------------------------------------------------------
(* The Loggers of a thread and the output. *)

\* A record that is stamped with its own time and has room for a NUL.
Stamped(record) ==
  /\ record \in Record
  /\ Sound(record.buf)
  /\ record.buf.data # <<>>
  /\ record.buf.data[1] = <<"time", record.second>>

\* TailUnlessFull, of one record.
Finished(record) ==
  /\ HasKind(record.buf, "newline") \/ Len(record.buf.data) = Size - 1
  /\ HasKind(record.buf, "line") \/ Len(record.buf.data) > Size - MaxNumeric

StampedSeq(s) == s \in Seq(Record) /\ \A k \in 1 .. Len(s) : Stamped(s[k])

\* Another buffer that begins like the one of a record.
LEMMA BufferOfRecord ==
  ASSUME NEW record, Stamped(record), NEW buf, Extends(buf, record.buf),
         NEW new, new = [record EXCEPT !.buf = buf]
  PROVE  /\ Stamped(new) /\ new.buf = buf
         /\ new.thread = record.thread /\ new.level = record.level
<1>1. record \in [thread : Threads, level : Levels, second : Times,
                  buf : [data : Seq(Token), high : 0 .. Size]]
  BY DEF Stamped, Record, Token
<1>2. new = [thread |-> record.thread, level |-> record.level,
             second |-> record.second, buf |-> buf]
  BY <1>1
<1>3. buf \in [data : Seq(Token), high : 0 .. Size]
  BY DEF Extends, Sound
<1>4. new \in Record
  BY <1>1, <1>2, <1>3 DEF Record, Token
<1> QED
  BY <1>2, <1>4 DEF Stamped, Extends

\* The innermost Logger and the others.
LEMMA FrontIs ==
  ASSUME NEW S, NEW s \in Seq(S), s # <<>>
  PROVE  /\ Len(s) \in Nat \ {0} /\ Last(s) = s[Len(s)]
         /\ Front(s) \in Seq(S) /\ Len(Front(s)) = Len(s) - 1
         /\ \A k \in 1 .. Len(s) - 1 : Front(s)[k] = s[k]
<1>1. Len(s) \in Nat \ {0}
  BY LenProperties, EmptySeq
<1>2. Len(s) - 1 \in Int /\ 1 \in Int
  BY <1>1
<1>3. \A k \in 1 .. Len(s) - 1 : s[k] \in S
  BY <1>1, ElementOfSeq
<1>4. /\ SubSeq(s, 1, Len(s) - 1) \in Seq(S)
      /\ Len(SubSeq(s, 1, Len(s) - 1))
           = IF 1 <= Len(s) - 1 THEN Len(s) - 1 - 1 + 1 ELSE 0
      /\ \A k \in 1 .. Len(s) - 1 - 1 + 1 : SubSeq(s, 1, Len(s) - 1)[k] = s[1 + k - 1]
  BY <1>2, <1>3, SubSeqProperties
<1>5. Len(s) - 1 - 1 + 1 = Len(s) - 1 /\ \A k \in 1 .. Len(s) - 1 : 1 + k - 1 = k
  BY <1>1
<1>6. (IF 1 <= Len(s) - 1 THEN Len(s) - 1 - 1 + 1 ELSE 0) = Len(s) - 1
  <2>1. \A n \in Nat \ {0} : (IF 1 <= n - 1 THEN n - 1 - 1 + 1 ELSE 0) = n - 1
    OBVIOUS
  <2> QED
    BY <1>1, <2>1, Zenon
<1>7. Front(s) = SubSeq(s, 1, Len(s) - 1) /\ Last(s) = s[Len(s)]
  BY DEF Front, Last
<1>8. \A k \in 1 .. Len(s) - 1 : Front(s)[k] = s[k]
  BY <1>4, <1>5, <1>7
<1> QED
  BY <1>1, <1>4, <1>6, <1>7, <1>8

\* A Logger is created.
LEMMA PushStamped ==
  ASSUME NEW s, StampedSeq(s), NEW record, Stamped(record)
  PROVE  StampedSeq(Append(s, record))
<1>1. record \in Record /\ s \in Seq(Record)
  BY DEF Stamped, StampedSeq
<1>2. /\ Append(s, record) \in Seq(Record) /\ Len(s) \in Nat
      /\ Len(Append(s, record)) = Len(s) + 1
      /\ \A k \in 1 .. Len(s) : Append(s, record)[k] = s[k]
      /\ Append(s, record)[Len(s) + 1] = record
  BY <1>1, AppendProperties, LenProperties
<1>3. ASSUME NEW k \in 1 .. Len(Append(s, record)) PROVE Stamped(Append(s, record)[k])
  <2>1. k \in 1 .. Len(s) \/ k = Len(s) + 1
    BY <1>2
  <2> QED
    BY <1>2, <2>1 DEF StampedSeq
<1> QED
  BY <1>2, <1>3 DEF StampedSeq

\* The innermost Logger is destroyed.
LEMMA PopStamped ==
  ASSUME NEW s, StampedSeq(s), s # <<>>
  PROVE  Stamped(Last(s)) /\ StampedSeq(Front(s))
<1>1. s \in Seq(Record)
  BY DEF StampedSeq
<1>2. /\ Len(s) \in Nat \ {0} /\ Last(s) = s[Len(s)]
      /\ Front(s) \in Seq(Record) /\ Len(Front(s)) = Len(s) - 1
      /\ \A k \in 1 .. Len(s) - 1 : Front(s)[k] = s[k]
  BY <1>1, FrontIs
<1> QED
  BY <1>2 DEF StampedSeq

\* operator<< on the innermost Logger.
LEMMA StreamStamped ==
  ASSUME NEW s, StampedSeq(s), s # <<>>, NEW text \in Seq(Token), Len(text) <= IntMax
  PROVE  StampedSeq([s EXCEPT ![Len(s)].buf = AppendText(@, text)])
<1> DEFINE top    == Len(s)
           record == [s[top] EXCEPT !.buf = AppendText(@, text)]
           new    == [s EXCEPT ![top] = record]
<1>1. s \in Seq(Record) /\ top \in 1 .. Len(s) /\ Stamped(s[top])
  <2>1. s \in Seq(Record)
    BY DEF StampedSeq
  <2>2. Len(s) \in Nat \ {0}
    BY <2>1, FrontIs
  <2> QED
    BY <2>1, <2>2 DEF StampedSeq
<1>2. Stamped(record)
  <2>1. Extends(AppendText(s[top].buf, text), s[top].buf)
    BY <1>1, AppendExtends DEF Stamped
  <2> QED
    BY <1>1, <2>1, BufferOfRecord
<1>3. [s EXCEPT ![Len(s)].buf = AppendText(@, text)] = new
  OBVIOUS
<1> HIDE DEF record, top
<1>4. /\ new \in Seq(Record) /\ Len(new) = Len(s)
      /\ \A k \in 1 .. Len(s) : new[k] = IF k = top THEN record ELSE s[k]
  BY <1>1, <1>2, ExceptSeq DEF Stamped
<1>5. StampedSeq(new)
  BY <1>2, <1>4 DEF StampedSeq
<1> QED
  BY <1>3, <1>5

-----------------------------------------------------------------------------
(* The invariant. *)

FatalBy(t, n) == \E k \in 1 .. n : output[k].thread = t /\ output[k].level = FATAL

\* t_time and t_lastSecond agree, whatever is alive or was written is stamped,
\* what was written is finished, and a thread gets to abort() only by way of its
\* FATAL record and the flush that follows it.
LogInv ==
  /\ TypeOK
  /\ t_time = t_lastSecond
  /\ \A t \in Threads : StampedSeq(loggers[t]) /\ \A k \in 1 .. Len(loggers[t]) :
       loggers[t][k].thread = t
  /\ StampedSeq(output) /\ \A k \in 1 .. Len(output) : Finished(output[k])
  /\ \A t \in Threads : pc[t] = "flush" => FatalBy(t, Len(output))
  /\ \A t \in Threads : pc[t] = "abort" => FatalBy(t, flushed)
  /\ \A t \in aborted : pc[t] = "abort"

\* It holds in the initial states.
LEMMA LogInit == Init => LogInv
<1> SUFFICES ASSUME Init PROVE LogInv
  OBVIOUS
<1>1. /\ <<>> \in Seq(Record) /\ Len(<<>>) = 0
      /\ StampedSeq(<<>>) /\ 0 \in 0 .. Len(<<>>)
  BY DEF StampedSeq
<1>2. TypeOK
  BY <1>1 DEF Init, TypeOK, TRACE, DEBUG, FATAL
<1> QED
  BY <1>1, <1>2 DEF Init, LogInv

\* The constructor of a Logger.
LEMMA ConstructStep ==
  ASSUME LogInv, NEW t \in Threads, NEW level \in Levels, NEW errno \in {0} \cup ArgLens,
         Construct(t, level, errno)
  PROVE  LogInv'
<1> DEFINE record == [thread |-> t, level |-> level, second |-> now,
                      buf |-> Header(t_time'[t], t, level, errno)]
<1>1. /\ t_time' \in [Threads -> Times \cup {0}] /\ t_lastSecond' = t_time'
      /\ t_time'[t] = now /\ now \in Times
  <2>1. /\ t_time \in [Threads -> Times \cup {0}] /\ t_lastSecond = t_time
        /\ now \in Times
    BY DEF LogInv, TypeOK
  <2>2. CASE t_lastSecond[t] # now
    BY <2>1, <2>2 DEF Construct, NewSecond
  <2>3. CASE t_lastSecond[t] = now
    BY <2>1, <2>3 DEF Construct, NewSecond
  <2> QED
    BY <2>2, <2>3
<1>2. Stamped(record)
  <2>1. errno \in 0 .. IntMax /\ level \in TRACE .. FATAL /\ now \in Times
    BY <1>1, LengthsFit
  <2>2. /\ Sound(Header(now, t, level, errno))
        /\ Header(now, t, level, errno).data # <<>>
        /\ Header(now, t, level, errno).data[1] = <<"time", now>>
    BY <2>1, HeaderIs, Zenon
  <2>3. Header(now, t, level, errno) \in [data : Seq(Kinds \X Nat), high : 0 .. Size]
    BY <2>2 DEF Sound, Token
  <2>4. record \in Record
    BY <1>1, <2>1, <2>3 DEF Record
  <2> QED
    BY <1>1, <2>2, <2>4 DEF Stamped
<1>3. record.thread = t
  OBVIOUS
<1> HIDE DEF record
<1>4. /\ loggers' \in [Threads -> Seq(Record)]
      /\ \A u \in Threads : StampedSeq(loggers'[u]) /\ \A k \in 1 .. Len(loggers'[u]) :
           loggers'[u][k].thread = u
  <2>1. CASE FmtTid(t) = 6
    <3>1. loggers' = [loggers EXCEPT ![t] = Append(@, record)]
      BY <2>1 DEF Construct, record
    <3>2. StampedSeq(Append(loggers[t], record))
      BY <1>2, PushStamped DEF LogInv
    <3>3. \A k \in 1 .. Len(Append(loggers[t], record)) :
            Append(loggers[t], record)[k].thread = t
      <4>1. loggers[t] \in Seq(Record) /\ record \in Record
        BY <1>2 DEF LogInv, TypeOK, Stamped
      <4>2. /\ Len(loggers[t]) \in Nat
            /\ Len(Append(loggers[t], record)) = Len(loggers[t]) + 1
            /\ \A k \in 1 .. Len(loggers[t]) : Append(loggers[t], record)[k] = loggers[t][k]
            /\ Append(loggers[t], record)[Len(loggers[t]) + 1] = record
        BY <4>1, AppendProperties, LenProperties
      <4>3. TAKE k \in 1 .. Len(Append(loggers[t], record))
      <4>4. k \in 1 .. Len(loggers[t]) \/ k = Len(loggers[t]) + 1
        BY <4>2
      <4> QED
        BY <1>3, <4>2, <4>4 DEF LogInv
    <3>4. /\ loggers' \in [Threads -> Seq(Record)]
          /\ \A u \in Threads :
               loggers'[u] = IF u = t THEN Append(loggers[t], record) ELSE loggers[u]
      BY <3>1, <3>2 DEF LogInv, TypeOK, StampedSeq
    <3> QED
      BY <3>2, <3>3, <3>4 DEF LogInv
  <2>2. CASE FmtTid(t) # 6
    BY <2>2 DEF Construct, LogInv, TypeOK
  <2> QED
    BY <2>1, <2>2
<1>5. asserted' \subseteq Threads
  BY DEF LogInv, TypeOK, Construct
<1>6. UNCHANGED <<now, g_logLevel, pc, output, flushed, aborted>>
  BY DEF Construct
<1>7. TypeOK'
  BY <1>1, <1>4, <1>5, <1>6 DEF LogInv, TypeOK
<1> QED
  BY <1>1, <1>4, <1>6, <1>7 DEF LogInv, FatalBy

\* operator<<.
LEMMA StreamStep ==
  ASSUME LogInv, NEW t \in Threads, NEW len \in ArgLens, Stream(t, len)
  PROVE  LogInv'
<1> DEFINE s   == loggers[t]
           new == [s EXCEPT ![Len(s)].buf = AppendText(@, Text("arg", len))]
<1>1. /\ loggers' = [loggers EXCEPT ![t] = new] /\ s # <<>>
      /\ s \in Seq(Record) /\ loggers \in [Threads -> Seq(Record)]
  BY DEF Stream, LogInv, TypeOK
<1>2. StampedSeq(new)
  <2>1. len \in Nat /\ len <= IntMax /\ "arg" \in Kinds
    BY LengthsFit DEF Kinds
  <2>2. Text("arg", len) \in Seq(Token) /\ Len(Text("arg", len)) <= IntMax
    BY <2>1, TextIs
  <2>3. StampedSeq(s)
    BY DEF LogInv
  <2> QED
    BY <1>1, <2>2, <2>3, StreamStamped
<1>3. \A k \in 1 .. Len(new) : new[k].thread = t
  <2>1. /\ Len(s) \in Nat \ {0} /\ \A k \in 1 .. Len(s) : s[k] \in Record /\ s[k].thread = t
    BY <1>1, FrontIs, ElementOfSeq DEF LogInv
  <2> DEFINE record == [s[Len(s)] EXCEPT !.buf = AppendText(@, Text("arg", len))]
  <2>2. new = [s EXCEPT ![Len(s)] = record]
    OBVIOUS
  <2>3. record.thread = t
    <3>1. Len(s) \in 1 .. Len(s)
      BY <2>1
    <3>2. s[Len(s)] \in Record /\ s[Len(s)].thread = t
      BY <2>1, <3>1
    <3> QED
      BY <3>2 DEF Record
  <2>4. DOMAIN s = 1 .. Len(s) /\ DOMAIN new = 1 .. Len(new) /\ DOMAIN new = DOMAIN s
    BY <1>1, <1>2, LenProperties DEF StampedSeq
  <2>5. \A k \in 1 .. Len(s) : new[k] = IF k = Len(s) THEN record ELSE s[k]
    <3> HIDE DEF record
    <3> QED
      BY <2>2, <2>4
  <2> QED
    BY <2>1, <2>3, <2>4, <2>5
<1> HIDE DEF new
<1>4. /\ loggers' \in [Threads -> Seq(Record)]
      /\ \A u \in Threads : loggers'[u] = IF u = t THEN new ELSE loggers[u]
  BY <1>1, <1>2 DEF StampedSeq
<1>5. \A u \in Threads : StampedSeq(loggers'[u]) /\ \A k \in 1 .. Len(loggers'[u]) :
        loggers'[u][k].thread = u
  BY <1>2, <1>3, <1>4 DEF LogInv
<1>6. UNCHANGED <<now, g_logLevel, t_lastSecond, t_time, pc, output, flushed, aborted, asserted>>
  BY DEF Stream
<1>7. TypeOK'
  BY <1>4, <1>6 DEF LogInv, TypeOK
<1> QED
  BY <1>5, <1>6, <1>7 DEF LogInv, FatalBy

\* The destructor of a Logger, up to g_output.
LEMMA DestructStep ==
  ASSUME LogInv, NEW t \in Threads, Destruct(t)
  PROVE  LogInv'
<1> DEFINE s      == loggers[t]
           logger == Last(s)
           record == [logger EXCEPT !.buf = Finish(@)]
<1>1. s \in Seq(Record) /\ s # <<>> /\ StampedSeq(s) /\ output \in Seq(Record)
      /\ flushed \in 0 .. Len(output) /\ Len(output) \in Nat /\ pc[t] = "run"
  BY LenProperties DEF Destruct, Runs, LogInv, TypeOK
<1>2. /\ Stamped(logger) /\ StampedSeq(Front(s))
      /\ Len(s) \in Nat \ {0} /\ logger = s[Len(s)]
      /\ Front(s) \in Seq(Record) /\ Len(Front(s)) = Len(s) - 1
      /\ \A k \in 1 .. Len(s) - 1 : Front(s)[k] = s[k]
  BY <1>1, PopStamped, FrontIs
<1>3. logger.thread = t /\ \A k \in 1 .. Len(Front(s)) : Front(s)[k].thread = t
  BY <1>2 DEF LogInv
<1>4. /\ output' = Append(output, record)
      /\ loggers' = [loggers EXCEPT ![t] = Front(s)]
      /\ pc' = [pc EXCEPT ![t] = AfterOutput(logger.level)]
      /\ UNCHANGED <<now, g_logLevel, t_lastSecond, t_time, flushed, aborted, asserted>>
  BY DEF Destruct
<1> HIDE DEF logger
<1>5. /\ Stamped(record) /\ record \in Record /\ Finished(record)
      /\ record.thread = t /\ record.level = logger.level
  <2>1. /\ Extends(Finish(logger.buf), logger.buf)
        /\ HasKind(Finish(logger.buf), "newline") \/ Len(Finish(logger.buf).data) = Size - 1
        /\ HasKind(Finish(logger.buf), "line")
             \/ Len(Finish(logger.buf).data) > Size - MaxNumeric
    BY <1>2, FinishIs DEF Stamped
  <2>2. /\ Stamped(record) /\ record.buf = Finish(logger.buf)
        /\ record.thread = logger.thread /\ record.level = logger.level
    <3>1. record = [logger EXCEPT !.buf = Finish(logger.buf)]
      OBVIOUS
    <3>2. Stamped(logger) /\ Extends(Finish(logger.buf), logger.buf)
      BY <1>2, <2>1
    <3> HIDE DEF record
    <3> QED
      BY <3>1, <3>2, BufferOfRecord
  <2> QED
    BY <1>3, <2>1, <2>2 DEF Finished, Stamped
<1> HIDE DEF record
<1>6. /\ output' \in Seq(Record) /\ Len(output') = Len(output) + 1
      /\ \A k \in 1 .. Len(output) : output'[k] = output[k]
      /\ output'[Len(output) + 1] = record
  BY <1>1, <1>4, <1>5, AppendProperties
<1>7. StampedSeq(output') /\ \A k \in 1 .. Len(output') : Finished(output'[k])
  <2>1. StampedSeq(output) /\ \A k \in 1 .. Len(output) : Finished(output[k])
    BY DEF LogInv
  <2>2. ASSUME NEW k \in 1 .. Len(output')
        PROVE  Stamped(output'[k]) /\ Finished(output'[k])
    <3>1. k \in 1 .. Len(output) \/ k = Len(output) + 1
      BY <1>1, <1>6
    <3> QED
      BY <1>5, <1>6, <2>1, <3>1 DEF StampedSeq
  <2> QED
    BY <1>6, <2>2 DEF StampedSeq
<1>8. /\ loggers' \in [Threads -> Seq(Record)]
      /\ \A u \in Threads : loggers'[u] = IF u = t THEN Front(s) ELSE loggers[u]
  BY <1>2, <1>4 DEF LogInv, TypeOK
<1>9. \A u \in Threads : StampedSeq(loggers'[u]) /\ \A k \in 1 .. Len(loggers'[u]) :
        loggers'[u][k].thread = u
  BY <1>2, <1>3, <1>8 DEF LogInv
<1>10. /\ pc' \in [Threads -> {"run", "flush", "abort"}]
       /\ \A u \in Threads : u # t => pc'[u] = pc[u]
       /\ pc'[t] = "flush" => logger.level = FATAL
       /\ pc'[t] # "abort"
  BY <1>4 DEF LogInv, TypeOK, AfterOutput
<1>11. TypeOK'
  BY <1>1, <1>4, <1>6, <1>8, <1>10 DEF LogInv, TypeOK
<1>12. \A u \in Threads : pc'[u] = "flush" =>
         \E k \in 1 .. Len(output') : output'[k].thread = u /\ output'[k].level = FATAL
  <2>1. SUFFICES ASSUME NEW u \in Threads, pc'[u] = "flush"
                 PROVE  \E k \in 1 .. Len(output') :
                          output'[k].thread = u /\ output'[k].level = FATAL
    OBVIOUS
  <2>2. CASE u = t
    <3>1. Len(output) + 1 \in 1 .. Len(output')
      BY <1>1, <1>6
    <3> QED
      BY <1>5, <1>6, <1>10, <2>1, <2>2, <3>1
  <2>3. CASE u # t
    <3>1. PICK k \in 1 .. Len(output) : output[k].thread = u /\ output[k].level = FATAL
      BY <1>10, <2>1, <2>3 DEF LogInv, FatalBy
    <3>2. k \in 1 .. Len(output')
      BY <1>1, <1>6
    <3> QED
      BY <1>6, <3>1, <3>2
  <2> QED
    BY <2>2, <2>3
<1>13. \A u \in Threads : pc'[u] = "abort" =>
         \E k \in 1 .. flushed' : output'[k].thread = u /\ output'[k].level = FATAL
  <2>1. SUFFICES ASSUME NEW u \in Threads, pc'[u] = "abort"
                 PROVE  \E k \in 1 .. flushed' :
                          output'[k].thread = u /\ output'[k].level = FATAL
    OBVIOUS
  <2>2. pc[u] = "abort"
    BY <1>10, <2>1
  <2>3. PICK k \in 1 .. flushed : output[k].thread = u /\ output[k].level = FATAL
    BY <2>2 DEF LogInv, FatalBy
  <2>4. k \in 1 .. Len(output)
    BY <1>1
  <2> QED
    BY <1>4, <1>6, <2>3, <2>4
<1>14. \A u \in aborted' : pc'[u] = "abort"
  BY <1>1, <1>4, <1>10 DEF LogInv, TypeOK
<1>15. t_time' = t_lastSecond'
  BY <1>4 DEF LogInv
<1> QED
  BY <1>7, <1>9, <1>11, <1>12, <1>13, <1>14, <1>15 DEF LogInv, FatalBy

\* The steps that neither begin nor end a record.
LEMMA OtherStep ==
  ASSUME LogInv,
         \/ \E t \in Threads :
              Flush(t) \/ Abort(t) \/ \E level \in Levels : SetLogLevel(t, level)
         \/ ClockChange
         \/ UNCHANGED vars
  PROVE  LogInv'
<1>1. Len(output) \in Nat /\ flushed \in 0 .. Len(output)
  BY LenProperties DEF LogInv, TypeOK
<1>2. ASSUME NEW t \in Threads, Flush(t) PROVE LogInv'
  <2>1. /\ pc[t] = "flush" /\ flushed' = Len(output) /\ pc' = [pc EXCEPT ![t] = "abort"]
        /\ aborted = {}
        /\ UNCHANGED <<now, g_logLevel, t_lastSecond, t_time, loggers, output, aborted, asserted>>
    BY <1>2 DEF Flush
  <2>2. /\ pc' \in [Threads -> {"run", "flush", "abort"}]
        /\ \A u \in Threads : u # t => pc'[u] = pc[u]
        /\ pc'[t] = "abort"
    BY <2>1 DEF LogInv, TypeOK
  <2>3. TypeOK'
    BY <1>1, <2>1, <2>2 DEF LogInv, TypeOK
  <2>4. \A u \in Threads : pc'[u] = "abort" => FatalBy(u, Len(output))
    <3>1. SUFFICES ASSUME NEW u \in Threads, pc'[u] = "abort" PROVE FatalBy(u, Len(output))
      OBVIOUS
    <3>2. CASE u = t
      BY <2>1, <3>2 DEF LogInv
    <3>3. CASE u # t
      <4>1. PICK k \in 1 .. flushed : output[k].thread = u /\ output[k].level = FATAL
        BY <2>2, <3>1, <3>3 DEF LogInv, FatalBy
      <4>2. k \in 1 .. Len(output)
        BY <1>1
      <4> QED
        BY <4>1, <4>2 DEF FatalBy
    <3> QED
      BY <3>2, <3>3
  <2>5. \A u \in Threads : pc'[u] = "flush" => FatalBy(u, Len(output))
    BY <2>2 DEF LogInv
  <2> QED
    BY <2>1, <2>3, <2>4, <2>5 DEF LogInv, FatalBy
<1>3. ASSUME NEW t \in Threads, Abort(t) PROVE LogInv'
  <2>1. TypeOK'
    BY <1>3 DEF Abort, LogInv, TypeOK
  <2> QED
    BY <1>3, <2>1 DEF Abort, LogInv, FatalBy
<1>4. ASSUME NEW t \in Threads, NEW level \in Levels, SetLogLevel(t, level)
      PROVE  LogInv'
  <2>1. TypeOK'
    BY <1>4 DEF SetLogLevel, LogInv, TypeOK
  <2> QED
    BY <1>4, <2>1 DEF SetLogLevel, LogInv, FatalBy
<1>5. CASE ClockChange
  <2>1. TypeOK'
    BY <1>5 DEF ClockChange, LogInv, TypeOK
  <2> QED
    BY <1>5, <2>1 DEF ClockChange, LogInv, FatalBy
<1>6. CASE UNCHANGED vars
  <2>1. TypeOK'
    BY <1>6 DEF vars, LogInv, TypeOK
  <2> QED
    BY <1>6, <2>1 DEF vars, LogInv, FatalBy
<1> QED
  BY <1>2, <1>3, <1>4, <1>5, <1>6

\* Every step keeps the invariant.
THEOREM LogInvariant == Spec => []LogInv
<1>1. LogInv /\ [Next]_vars => LogInv'
  <2> SUFFICES ASSUME LogInv, [Next]_vars PROVE LogInv'
    OBVIOUS
  <2>1. CASE ClockChange \/ UNCHANGED vars
    BY <2>1, OtherStep
  <2>2. ASSUME NEW t \in Threads, NEW level \in Levels, NEW errno \in {0} \cup ArgLens,
               Construct(t, level, errno)
        PROVE  LogInv'
    BY <2>2, ConstructStep
  <2>3. ASSUME NEW t \in Threads, NEW len \in ArgLens, Stream(t, len) PROVE LogInv'
    BY <2>3, StreamStep
  <2>4. ASSUME NEW t \in Threads, Destruct(t) PROVE LogInv'
    BY <2>4, DestructStep
  <2>5. ASSUME NEW t \in Threads, Flush(t) \/ Abort(t) PROVE LogInv'
    BY <2>5, OtherStep
  <2>6. ASSUME NEW t \in Threads, NEW level \in Levels, SetLogLevel(t, level) PROVE LogInv'
    BY <2>6, OtherStep
  <2> QED
    BY <2>1, <2>2, <2>3, <2>4, <2>5, <2>6 DEF Next
<1> QED
  BY <1>1, LogInit, PTL DEF Spec

\* The state of the logger has its type.
THEOREM TypeCorrect == Spec => []TypeOK
<1>1. LogInv => TypeOK
  BY DEF LogInv
<1> QED
  BY <1>1, LogInvariant, PTL

\* No record is stamped with the text of another second, neither one that is
\* alive nor one that was written.
THEOREM StampsAreTrueAlways == Spec => []StampsAreTrue
<1>1. LogInv => StampsAreTrue
  <2>1. ASSUME NEW s, StampedSeq(s), NEW k \in DOMAIN s
        PROVE  s[k].buf.data[1] = <<"time", s[k].second>>
    <3>1. k \in 1 .. Len(s)
      BY <2>1, LenProperties DEF StampedSeq
    <3> QED
      BY <2>1, <3>1 DEF StampedSeq, Stamped
  <2> QED
    BY <2>1 DEF LogInv, StampsAreTrue
<1> QED
  BY <1>1, LogInvariant, PTL

\* A record ends with its line number and its newline unless it is full.
THEOREM TailIsKept == Spec => []TailUnlessFull
<1>1. LogInv => TailUnlessFull
  <2> SUFFICES ASSUME LogInv PROVE TailUnlessFull
    OBVIOUS
  <2>1. ASSUME NEW k \in DOMAIN output PROVE Finished(output[k])
    <3>1. k \in 1 .. Len(output)
      BY LenProperties DEF LogInv, TypeOK
    <3> QED
      BY <3>1 DEF LogInv
  <2> QED
    BY <2>1 DEF TailUnlessFull, Finished, Has, HasKind
<1> QED
  BY <1>1, LogInvariant, PTL

\* A FATAL record has left stdio's buffer when abort() ends the process.
THEOREM FatalRecordsAreFlushed == Spec => []FatalIsFlushed
<1>1. LogInv => FatalIsFlushed
  BY DEF LogInv, TypeOK, FatalIsFlushed, FatalBy
<1> QED
  BY <1>1, LogInvariant, PTL

=============================================================================
