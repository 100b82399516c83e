------------------------------ MODULE Logging ------------------------------
(***************************************************************************)
(* The Logger of logging/Logging.cpp on several threads: a record is begun *)
(* by a Logger's constructor, added to through its stream and written by   *)
(* the destructor.  Records of one thread nest, because an argument of a   *)
(* LOG_ statement may log itself.  Threads share g_logLevel, the output    *)
(* and the system clock; t_lastSecond and t_time are per thread.           *)
(*                                                                         *)
(* A character is a token <<kind, value>>.  The four fixed-width fields of *)
(* the header are one token each, and the buffer is scaled down with them. *)
(***************************************************************************)
EXTENDS FixedBuffer, Functions

CONSTANTS
  Threads,
  TidDigits,     \* digits of each thread's id, as gettid returns it
  Times,         \* seconds since the epoch the clock may show
  Levels,        \* LogLevels in use
  ArgLens,       \* lengths of the texts users stream
  BaseLen,       \* length of base_name
  LineDigits,    \* digits of the line number
  ErrnoDigits,   \* digits of an errno
  MaxNesting,    \* bound: Loggers alive on one thread
  MaxRecords     \* bound: records of all threads

TRACE == 0
DEBUG == 1
INFO  == 2
WARN  == 3
ERROR == 4
FATAL == 5

\* The clock has been set at least once since 1970; a number has a digit; no text is
\* too long for the int that Append takes (FixedBuffer's ToInt).
ASSUME LoggingAssumption ==
  /\ TidDigits \in [Threads -> Nat \ {0}] /\ Times \subseteq Nat \ {0} /\ Times # {}
  /\ Levels \subseteq TRACE .. FATAL
  /\ ArgLens \subseteq 0 .. IntMax /\ BaseLen \in 0 .. IntMax /\ IntMax >= 3
  /\ LineDigits \in Nat \ {0} /\ LineDigits < MaxNumeric /\ Size > 1
  /\ ErrnoDigits \in Nat \ {0} /\ ErrnoDigits < MaxNumeric
  /\ MaxNesting \in Nat /\ MaxRecords \in Nat

VARIABLES
  now,           \* TimeStamp::Now() in seconds
  g_logLevel,
  t_lastSecond,  \* per thread
  t_time,        \* per thread: the second whose text it holds, 0: no text yet
  loggers,       \* per thread: its Loggers that are alive, innermost last
  pc,            \* per thread
  output,        \* the records given to g_output, in order
  flushed,       \* how many of them are past stdio's buffer
  aborted,       \* the threads that called abort(), at most one gets to it
  asserted       \* threads stopped by the assertion of Logger::Impl::Impl

vars == <<now, g_logLevel, t_lastSecond, t_time, loggers, pc, output, flushed,
          aborted, asserted>>

\* The pieces of a record.
Kinds == {"time", "us", "tid", "level", "errno", " (errno=", "number", ") ", "func",
          "space", "arg", "dash", "file", ":", "line", "newline"}

Record == [thread : Threads, level : Levels, second : Times,
           buf : [data : Seq(Kinds \X Nat), high : 0 .. Size]]

\* "run": code of the user; "flush", "abort": in the destructor of a FATAL Logger.
TypeOK ==
  /\ now \in Times
  /\ g_logLevel \in TRACE .. FATAL
  /\ t_lastSecond \in [Threads -> Times \cup {0}]
  /\ t_time \in [Threads -> Times \cup {0}]
  /\ loggers \in [Threads -> Seq(Record)]
  /\ pc \in [Threads -> {"run", "flush", "abort"}]
  /\ output \in Seq(Record)
  /\ flushed \in 0 .. Len(output)
  /\ aborted \subseteq Threads
  /\ asserted \subseteq Threads

\* The environment variable MUDUO_LOG_TRACE decides the first level.
Init ==
  /\ now \in Times
  /\ g_logLevel \in {TRACE, DEBUG}
  /\ t_lastSecond = [t \in Threads |-> 0]
  /\ t_time = [t \in Threads |-> 0]
  /\ loggers = [t \in Threads |-> <<>>]
  /\ pc = [t \in Threads |-> "run"]
  /\ output = <<>>
  /\ flushed = 0
  /\ aborted = {}
  /\ asserted = {}

\* The process lives, and t is in code of the user.
Runs(t) == aborted = {} /\ asserted = {} /\ pc[t] = "run"

Alive == FoldFunction(LAMBDA stack, sum : sum + Len(stack), 0, loggers)

-----------------------------------------------------------------------------
Field(kind, value) == <<<<kind, value>>>>
Text(kind, len)    == [k \in 1 .. len |-> <<kind, len>>]

\* Mutant: the clock is taken to be monotonic.
LaterSecond(last, second) == second > last

\* Logger::Impl::FormatTime reformats t_time only in a new second.
NewSecond(last, second) == second # last

\* "%5d " of the thread id.
FmtTid(t) == (IF TidDigits[t] > 5 THEN TidDigits[t] ELSE 5) + 1

\* The text of errno and, in parentheses, its number.
Explain(buf, errno) ==
  LET opened == AppendText(AppendText(buf, Text("errno", errno)), Field(" (errno=", 0))
  IN AppendText(Numeric(opened, Text("number", ErrnoDigits)), Field(") ", 0))

\* What Logger::Impl::Impl and FormatTime stream, then the func of a TRACE or DEBUG
\* record; a string of one byte per field, but for the text of errno and its number.
Header(time, t, level, errno) ==
  LET stamped == AppendText(AppendText(EmptyBuffer, Field("time", time)), Field("us", 0))
      named   == AppendText(AppendText(stamped, Field("tid", TidDigits[t])),
                            Field("level", level))
      explained == IF errno > 0 THEN Explain(named, errno) ELSE named
  IN IF level \in {TRACE, DEBUG}
     THEN AppendText(AppendText(explained, Field("func", 0)), Field("space", 0))
     ELSE explained

\* The LOG_ macros: TRACE, DEBUG and INFO only from g_logLevel up; a SYS macro's
\* errno, when it is not 0, adds its text.
Construct(t, level, errno) ==
  /\ Runs(t)
  /\ Len(loggers[t]) < MaxNesting
  /\ Len(output) + Alive < MaxRecords
  /\ level <= INFO => g_logLevel <= level
  /\ errno > 0 => level \in {ERROR, FATAL}
  /\ IF NewSecond(t_lastSecond[t], now)
       THEN /\ t_lastSecond' = [t_lastSecond EXCEPT ![t] = now]
            /\ t_time' = [t_time EXCEPT ![t] = now]
       ELSE UNCHANGED <<t_lastSecond, t_time>>
  /\ IF FmtTid(t) = 6
       THEN /\ loggers' = [loggers EXCEPT ![t] = Append(@,
                 [thread |-> t, level |-> level, second |-> now,
                  buf |-> Header(t_time'[t], t, level, errno)])]
            /\ UNCHANGED asserted
       ELSE asserted' = asserted \cup {t} /\ UNCHANGED loggers
  /\ UNCHANGED <<now, g_logLevel, pc, output, flushed, aborted>>

\* operator<< on the stream of the innermost Logger.
Stream(t, len) ==
  /\ Runs(t) /\ loggers[t] # <<>>
  /\ LET top == Len(loggers[t]) IN
       loggers' = [loggers EXCEPT ![t][top].buf = AppendText(@, Text("arg", len))]
  /\ UNCHANGED <<now, g_logLevel, t_lastSecond, t_time, pc, output, flushed, aborted, asserted>>

\* Mutant: file and line are formatted into one piece.
FinishOnePiece(buf) ==
  AppendText(buf, Text("dash", 3) \o Text("file", BaseLen) \o Field(":", 0)
                    \o Text("line", LineDigits) \o Field("newline", 0))

\* Logger::Impl::Finish.
Finish(buf) ==
  LET named == AppendText(AppendText(AppendText(buf, Text("dash", 3)),
                                     Text("file", BaseLen)), Field(":", 0))
  IN AppendText(Numeric(named, Text("line", LineDigits)), Field("newline", 0))

\* Mutant: abort() is left to flush.
AfterOutputAbort(level) == IF level = FATAL THEN "abort" ELSE "run"

\* What follows g_output.
AfterOutput(level) == IF level = FATAL THEN "flush" ELSE "run"

\* Logger::~Logger up to g_output, one fwrite of the whole record.
Destruct(t) ==
  /\ Runs(t) /\ loggers[t] # <<>>
  /\ LET logger == Last(loggers[t]) IN
       /\ output' = Append(output, [logger EXCEPT !.buf = Finish(@)])
       /\ loggers' = [loggers EXCEPT ![t] = Front(@)]
       /\ pc' = [pc EXCEPT ![t] = AfterOutput(logger.level)]
  /\ UNCHANGED <<now, g_logLevel, t_lastSecond, t_time, flushed, aborted, asserted>>

\* g_flush(); other threads may have written since.
Flush(t) ==
  /\ aborted = {} /\ asserted = {} /\ pc[t] = "flush"
  /\ flushed' = Len(output)
  /\ pc' = [pc EXCEPT ![t] = "abort"]
  /\ UNCHANGED <<now, g_logLevel, t_lastSecond, t_time, loggers, output, aborted, asserted>>

\* abort() ends the process with what stdio holds.
Abort(t) ==
  /\ aborted = {} /\ asserted = {} /\ pc[t] = "abort"
  /\ aborted' = {t}
  /\ UNCHANGED <<now, g_logLevel, t_lastSecond, t_time, loggers, pc, output, flushed, asserted>>

SetLogLevel(t, level) ==
  /\ Runs(t)
  /\ g_logLevel' = level
  /\ UNCHANGED <<now, t_lastSecond, t_time, loggers, pc, output, flushed, aborted, asserted>>

\* External: the clock moves on, or is set back.
ClockChange ==
  /\ aborted = {} /\ asserted = {}
  /\ now' \in Times \ {now}
  /\ UNCHANGED <<g_logLevel, t_lastSecond, t_time, loggers, pc, output, flushed, aborted, asserted>>

Next ==
  \/ \E t \in Threads :
       \/ \E level \in Levels, errno \in {0} \cup ArgLens : Construct(t, level, errno)
       \/ \E len \in ArgLens : Stream(t, len)
       \/ Destruct(t)
       \/ Flush(t)
       \/ Abort(t)
       \/ \E level \in Levels : SetLogLevel(t, level)
  \/ ClockChange

Spec == Init /\ [][Next]_vars

-----------------------------------------------------------------------------
\* A record is stamped with the time of its own TimeStamp, although the text is
\* made once a second and kept per thread: nested records, records of other
\* threads and a clock set back between two records do not leave a stale text.
StampsAreTrue ==
  /\ \A k \in DOMAIN output :
       output[k].buf.data[1] = <<"time", output[k].second>>
  /\ \A t \in Threads : \A k \in DOMAIN loggers[t] :
       loggers[t][k].buf.data[1] = <<"time", loggers[t][k].second>>

Has(record, kind) == \E k \in DOMAIN record.buf.data : record.buf.data[k][1] = kind

\* What Finish adds is kept even in a record whose arguments filled the buffer:
\* the newline that separates it from the next one is lost only if the buffer is
\* full to its last usable byte, the line number only if fewer bytes are left
\* than the widest number needs.
TailUnlessFull ==
  \A k \in DOMAIN output :
    LET record == output[k] IN
      /\ ~Has(record, "newline") => Len(record.buf.data) = Size - 1
      /\ ~Has(record, "line") => Len(record.buf.data) > Size - MaxNumeric

\* LOG_FATAL and LOG_SYSFATAL: when abort() ends the process, the aborting
\* thread's FATAL record and every record written before it have left stdio's
\* buffer, whatever other threads wrote meanwhile.
FatalIsFlushed ==
  \A t \in aborted : \E k \in 1 .. flushed :
    output[k].thread = t /\ output[k].level = FATAL

\* Logging.cpp:55 asserts that the thread id fits its field of six characters.
TidFitsField == asserted = {}

=============================================================================
