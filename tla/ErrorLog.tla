------------------------------- MODULE ErrorLog -------------------------------
(***************************************************************************)
(* What the error log module writes.  A message that is the same as the    *)
(* last one is only counted; the count is written before the next one that *)
(* differs.  The log is created and deleted, as the preferences say, when  *)
(* a message is about to be written, and not when one is counted.          *)
(*                                                                         *)
(* LogError holds sLogMutex, so a message is one step.  The lines of a     *)
(* start and a shutdown are written without it.  The file of the log is a  *)
(* QTSSRollingLog (see RollingLog): here it is a sequence of lines.        *)
(***************************************************************************)
EXTENDS Naturals, Sequences, SequencesExt

CONSTANTS
    Messages,      \* texts that are not empty
    NoMessage,     \* the empty string
    Levels,        \* of verbosity
    MaxMessages,   \* bound: messages
    MaxMarks       \* bound: lines of a start or a shutdown

ASSUME ErrorAssumption ==
    NoMessage \notin Messages /\ Levels \subseteq Nat /\ {MaxMessages, MaxMarks} \subseteq Nat

VARIABLES
    logging,       \* IsErrorLogEnabled
    verbosity,     \* GetErrorLogVerbosity
    errorLog,      \* sErrorLog is not null
    lastMessage,   \* sLastErrorString
    repeats,       \* sDupErrorStringCount
    startedUp,     \* sStartedUp
    lines,         \* of the log
    received,      \* history: the messages that were not too verbose
    lost           \* history: one of them came while the log was off, and was not counted

errorVars == <<logging, verbosity, errorLog, lastMessage, repeats, startedUp, lines, received,
               lost>>

Mark      == [kind |-> "mark"]
Line(m)   == [kind |-> "message", text |-> m]
Repeat(n) == [kind |-> "repeat", times |-> n]
Marks     == Len(SelectSeq(lines, LAMBDA l : l.kind = "mark"))

ErrorTypeOK ==
    /\ {logging, errorLog, startedUp, lost} \subseteq BOOLEAN /\ verbosity \in Levels
    /\ lastMessage \in Messages \cup {NoMessage} /\ repeats \in 0..MaxMessages
    /\ \A i \in DOMAIN lines :
          lines[i] \in {Mark} \cup {Line(m) : m \in Messages}
                             \cup {Repeat(n) : n \in 1..MaxMessages}
    /\ received \in Seq(Messages)

\* Register creates the log and writes the first line.
ErrorInit ==
    /\ logging \in BOOLEAN /\ verbosity \in Levels /\ errorLog = logging
    /\ lastMessage = NoMessage /\ repeats = 0 /\ startedUp = TRUE
    /\ lines = IF logging THEN <<Mark>> ELSE <<>>
    /\ received = <<>> /\ lost = FALSE

---------------------------------------------------------------------------
\* After CheckErrorLogState there is a log if the preferences say so.
CheckErrorLogState == errorLog' = logging

\* The message is the last one again.
Duplicate(m) ==
    /\ m = lastMessage /\ repeats' = repeats + 1
    /\ UNCHANGED <<errorLog, lastMessage, lines, lost>>

\* The count goes on after it was written.
CountedOn == repeats

CountWritten == 0

\* A message that differs.  With a count to write and no log, nothing is remembered of it.
Different(m) ==
    /\ m # lastMessage /\ CheckErrorLogState
    /\ IF logging
       THEN /\ lines' = lines \o (IF repeats > 0 THEN <<Repeat(repeats)>> ELSE <<>>)
                              \o <<Line(m)>>
            /\ lastMessage' = m /\ repeats' = CountWritten /\ UNCHANGED lost
       ELSE /\ lastMessage' = IF repeats > 0 THEN lastMessage ELSE m
            /\ lost' = TRUE /\ UNCHANGED <<repeats, lines>>

LogError(m, level) ==
    /\ level <= verbosity /\ Len(received) < MaxMessages
    /\ received' = Append(received, m)
    /\ Duplicate(m) \/ Different(m)
    /\ UNCHANGED <<logging, verbosity, startedUp>>

\* A line is written only by a log that is there.
WriteMark(up) ==
    /\ startedUp # up /\ startedUp' = up /\ Marks < MaxMarks
    /\ lines' = IF errorLog THEN Append(lines, Mark) ELSE lines
    /\ UNCHANGED <<logging, verbosity, errorLog, lastMessage, repeats, received, lost>>

\* The server becomes idle, or shuts down; it runs again.
WriteShutdownMessage == WriteMark(FALSE)
WriteStartupMessage  == WriteMark(TRUE)

RereadErrorPrefs(on, level) ==
    /\ logging' = on /\ verbosity' = level
    /\ UNCHANGED <<errorLog, lastMessage, repeats, startedUp, lines, received, lost>>

ErrorNext ==
    \/ \E m \in Messages, level \in Levels : LogError(m, level)
    \/ WriteShutdownMessage \/ WriteStartupMessage
    \/ \E on \in BOOLEAN, level \in Levels : RereadErrorPrefs(on, level)

ErrorSpec == ErrorInit /\ [][ErrorNext]_errorVars

---------------------------------------------------------------------------
(* Properties *)

\* What a reader makes of the log: a message for its line, and the last one so often again as a
\* count says.
ReadBack(ls) ==
    LET seen[i \in 0..Len(ls)] ==
            IF i = 0 THEN <<>>
            ELSE CASE ls[i].kind = "mark"    -> seen[i - 1]
                   [] ls[i].kind = "message" -> Append(seen[i - 1], ls[i].text)
                   [] OTHER -> seen[i - 1] \o [j \in 1..ls[i].times |-> Last(seen[i - 1])]
    IN  seen[Len(ls)]

\* The log and the count that is still to be written tell every message, in order and as often
\* as it came, while the verbosity changes, the server starts and stops, and the log is turned
\* off and on, as long as no message is lost to that.
RepeatsCounted ==
    ~lost => ReadBack(lines) \o [i \in 1..repeats |-> lastMessage] = received
=============================================================================
