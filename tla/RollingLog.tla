------------------------------ MODULE RollingLog ------------------------------
(***************************************************************************)
(* The access log: QTSSRollingLog, and the module that creates, uses and   *)
(* deletes one.  A log rolls, that is its file gets a numbered name and a  *)
(* new one is begun, when it is large or old; its age is in the first line *)
(* of the file, and so outlives the server.                                *)
(*                                                                         *)
(* LogRequest and RollAccessLog hold sLogMutex.  RereadPrefs and           *)
(* LogCheckTask do not, though they use the same pointer; they are cut     *)
(* into steps there.  Calls of the log itself hold its fMutex.             *)
(*                                                                         *)
(* Time is in days, and no moment is midnight itself; size in lines.       *)
(* Whether files are closed between writes is fixed in a behaviour.        *)
(***************************************************************************)
EXTENDS Integers, Sequences, SequencesExt, FiniteSetsExt

CONSTANTS
    Logs, NoLog,    \* QTSSAccessLog objects
    Interval,       \* GetRollIntervalInDays
    MaxLines,       \* GetMaxLogBytes
    Numbers,        \* 1000: names for the files of a day
    MaxTime,        \* bound: days
    MaxEntries,     \* bound: requests that are logged
    MaxFiles        \* bound: files

ASSUME LogAssumption ==
    /\ NoLog \notin Logs /\ Interval \in Nat /\ MaxLines \in Nat /\ Numbers \in Nat \ {0}
    /\ MaxTime \in Nat /\ MaxEntries \in Nat /\ MaxFiles \in Nat

VARIABLES
    now,
    enabled,     \* sLogEnabled
    closing,     \* sCloseOnWrite
    accessLog,   \* sAccessLog
    log,         \* the objects: life, fLog (0 is null), fLogCreateTime, and ready: EnableLog
                 \* was called, so that fLogFullPath is not null
    files,       \* every file there was: time in its header, lines, the entry that made it
    path,        \* the file with the name of the log, 0 if there is none
    rolled,      \* the files with a day and a number
    logger,      \* the entry LogRequest is about to write, 0 outside of it
    toggler,     \* where RereadPrefs stands
    entries,     \* history: entries so far
    written      \* history: those whose WriteToLog returned, of a log that was enabled

logVars == <<now, enabled, closing, accessLog, log, files, path, rolled, logger, toggler,
             entries, written>>

\* A time_t of -1.  Its date is a day of its own.
Unknown == MaxTime + 1
Times == 0..MaxTime \cup {Unknown}
FreshLog == [life |-> "none", file |-> 0, created |-> Unknown, ready |-> FALSE]

LogTypeOK ==
    /\ now \in 0..MaxTime /\ {enabled, closing} \subseteq BOOLEAN
    /\ accessLog \in Logs \cup {NoLog}
    /\ log \in [Logs -> [life : {"none", "live"}, file : 0..MaxFiles,
                         created : Times, ready : BOOLEAN]]
    /\ files \in Seq([head : Times, lines : Seq(1..MaxEntries), by : 0..MaxEntries])
    /\ path \in 0..Len(files) /\ Range(rolled) \subseteq 1..Len(files)
    /\ DOMAIN rolled \subseteq Times \X (0..Numbers)
    /\ logger \in 0..entries /\ toggler \in {"start", "idle", "create", "enable", "delete"}
    /\ entries \in 0..MaxEntries /\ written \subseteq 1..entries

LogInit ==
    /\ now = 0 /\ enabled \in BOOLEAN /\ closing \in BOOLEAN /\ toggler = "start"
    /\ accessLog = NoLog /\ log = [l \in Logs |-> FreshLog]
    /\ files = <<>> /\ path = 0 /\ rolled = <<>>
    /\ logger = 0 /\ entries = 0 /\ written = {}

---------------------------------------------------------------------------
(* QTSSRollingLog.  A disk is an object's fLog and fLogCreateTime with the files. *)

Disk(l) == [file |-> log[l].file, created |-> log[l].created,
            files |-> files, path |-> path, rolled |-> rolled]

\* What sscanf leaves in a structure that is not initialized if the first line is an entry.
ReadLogHeader(f, garbage) ==
    IF f.head # Unknown THEN f.head ELSE IF f.lines = <<>> THEN Unknown ELSE garbage

\* A new file gets its header through WriteToLog, which closes the file when it closes files
\* between writes; the header is then read from a FILE that is no more.
EnableLog(d, e, garbage) ==
    IF d.path # 0
    THEN [d EXCEPT !.file = d.path, !.created = ReadLogHeader(d.files[d.path], garbage)]
    ELSE LET n == Len(d.files) + 1 IN
         [d EXCEPT !.file = IF closing THEN 0 ELSE n,
                   !.created = IF closing THEN garbage ELSE now,
                   !.files = Append(@, [head |-> now, lines |-> <<>>,
                                        by |-> IF closing THEN e ELSE 0]),
                   !.path = n]

CloseLog(d) == [d EXCEPT !.file = 0]

\* The name is made without looking for a free one.
NumberZero(d, day) == 0

\* The first free number of the day; the last name is used again.
Number(d, day) ==
    LET free == {n \in 0..(Numbers - 1) : <<day, n>> \notin DOMAIN d.rolled} IN
    IF free = {} THEN Numbers ELSE Min(free)

RenameLogFile(d) ==
    LET day == d.created IN
    [d EXCEPT !.rolled = [x \in DOMAIN @ \cup {<<day, Number(d, day)>>} |->
                             IF x = <<day, Number(d, day)>> THEN d.path ELSE @[x]],
              !.path = 0]

RollLog(d, e, garbage) ==
    IF d.path = 0 THEN CloseLog(d) ELSE EnableLog(RenameLogFile(CloseLog(d)), e, garbage)

Old(d) == d.created # Unknown /\ Interval # 0 /\ now - d.created >= Interval

CheckRollLog(d, e, garbage) ==
    IF /\ d.file # 0
       /\ \/ Old(d)
          \/ MaxLines # 0 /\ Len(d.files[d.file].lines) > MaxLines
    THEN RollLog(d, e, garbage) ELSE d

PutLine(d, e) ==
    IF d.file = 0 THEN d ELSE [d EXCEPT !.files[d.file].lines = Append(@, e)]

WriteToLog(d, e, garbage) ==
    LET opened == IF closing /\ d.file = 0 THEN EnableLog(d, e, garbage) ELSE d
        put    == PutLine(CheckRollLog(opened, e, garbage), e)
    IN  IF closing THEN CloseLog(put) ELSE put

\* The object l is used, and its disk is d then.
Use(l, d, life, ready) ==
    /\ Len(d.files) <= MaxFiles
    /\ log' = [log EXCEPT ![l] = [life |-> life, file |-> d.file, created |-> d.created,
                                  ready |-> ready]]
    /\ files' = d.files /\ path' = d.path /\ rolled' = d.rolled

LogUnused == UNCHANGED <<log, files, path, rolled>>

\* The object that new makes: one is as good as another.
NewLog == LET free == {l \in Logs : log[l].life = "none"} IN
          IF free = {} THEN {} ELSE {CHOOSE l \in free : TRUE}

\* Delete: the log is closed, and nothing uses the object until its task deletes it.
DeleteLog(l) == log' = [log EXCEPT ![l] = FreshLog]

---------------------------------------------------------------------------
(* QTSSAccessLogModule. *)

\* CheckAccessLogState of one thread that nobody disturbs.
CheckAccessLogState(forced, garbage) ==
    \/ /\ accessLog = NoLog /\ (forced \/ enabled)
       /\ \E l \in NewLog : /\ accessLog' = l
                            /\ Use(l, EnableLog(Disk(l), 0, garbage), "live", TRUE)
    \/ /\ accessLog # NoLog /\ ~forced /\ ~enabled
       /\ DeleteLog(accessLog) /\ accessLog' = NoLog /\ UNCHANGED <<files, path, rolled>>
    \/ /\ (accessLog = NoLog) # (forced \/ enabled)
       /\ LogUnused /\ UNCHANGED accessLog

\* Initialize, while the server starts and nobody is logged.
InitializeLog(garbage) ==
    /\ toggler = "start" /\ toggler' = "idle"
    /\ CheckAccessLogState(FALSE, garbage)
    /\ UNCHANGED <<now, enabled, closing, logger, entries, written>>

\* LogRequest, until it has formatted the entry.
LogRequest(garbage) ==
    /\ logger = 0 /\ toggler # "start" /\ entries < MaxEntries
    /\ CheckAccessLogState(FALSE, garbage)
    /\ IF accessLog' = NoLog THEN UNCHANGED <<logger, entries>>
                             ELSE logger' = entries + 1 /\ entries' = entries + 1
    /\ UNCHANGED <<now, enabled, closing, toggler, written>>

\* The end of LogRequest, with what sAccessLog points to now.  If files are closed between
\* writes, WriteToLog enables an object that RereadPrefs has only made.
WriteEntry(garbage) ==
    /\ logger # 0 /\ accessLog # NoLog
    /\ LET ready == log[accessLog].ready \/ closing
       IN  /\ Use(accessLog, WriteToLog(Disk(accessLog), logger, garbage), "live", ready)
           /\ written' = IF ready THEN written \cup {logger} ELSE written
    /\ logger' = 0
    /\ UNCHANGED <<now, enabled, closing, accessLog, toggler, entries>>

\* RollAccessLog: with logging off a log is made, rolled and deleted.  The file of an object
\* that is not enabled has no name yet and cannot be renamed.
RollAccessLog(garbage) ==
    /\ logger = 0 /\ toggler # "start"
    /\ \E l \in IF accessLog # NoLog THEN {accessLog} ELSE NewLog :
           LET ready == accessLog = NoLog \/ log[l].ready
               d == IF accessLog # NoLog THEN Disk(l) ELSE EnableLog(Disk(l), 0, garbage)
               r == IF ready THEN RollLog(d, 0, garbage) ELSE CloseLog(d)
           IN  IF enabled THEN Use(l, r, "live", ready) /\ accessLog' = l
                          ELSE /\ accessLog' = NoLog
                               /\ Use(l, [r EXCEPT !.file = 0, !.created = Unknown], "none", FALSE)
    /\ UNCHANGED <<now, enabled, closing, logger, toggler, entries, written>>

\* RereadPrefs: the preference is read, and the pointer tested.
RereadPrefs(on) ==
    /\ toggler = "idle" /\ enabled' = on
    /\ toggler' = IF accessLog = NoLog /\ on THEN "create"
                  ELSE IF accessLog # NoLog /\ ~on THEN "delete" ELSE "idle"
    /\ LogUnused /\ UNCHANGED <<now, closing, accessLog, logger, entries, written>>

\* The object is visible before it is enabled.
Create ==
    /\ toggler = "create"
    /\ \E l \in NewLog : /\ accessLog' = l
                         /\ log' = [log EXCEPT ![l] = [FreshLog EXCEPT !.life = "live"]]
    /\ toggler' = "enable"
    /\ UNCHANGED <<now, enabled, closing, files, path, rolled, logger, entries, written>>

Enable(garbage) ==
    /\ toggler = "enable" /\ accessLog # NoLog
    /\ Use(accessLog, EnableLog(Disk(accessLog), 0, garbage), "live", TRUE)
    /\ toggler' = "idle"
    /\ UNCHANGED <<now, enabled, closing, accessLog, logger, entries, written>>

Disable ==
    /\ toggler = "delete" /\ accessLog # NoLog
    /\ DeleteLog(accessLog) /\ accessLog' = NoLog /\ toggler' = "idle"
    /\ UNCHANGED <<now, enabled, closing, files, path, rolled, logger, entries, written>>

\* LogCheckTask, once an hour.  If RereadPrefs deletes the object meanwhile, this is a crash.
CheckTask(garbage) ==
    /\ accessLog # NoLog
    /\ Use(accessLog, CheckRollLog(Disk(accessLog), 0, garbage), "live", log[accessLog].ready)
    /\ UNCHANGED <<now, enabled, closing, accessLog, logger, toggler, entries, written>>

---------------------------------------------------------------------------
(* The task of an object, the clock and the server. *)

\* Run, every minute.
Run(l, garbage) ==
    /\ log[l].life = "live" /\ log[l].file # 0 /\ Old(Disk(l))
    /\ Use(l, RollLog(Disk(l), 0, garbage), "live", log[l].ready)
    /\ UNCHANGED <<now, enabled, closing, accessLog, logger, toggler, entries, written>>

Tick ==
    /\ now < MaxTime /\ now' = now + 1
    /\ LogUnused
    /\ UNCHANGED <<enabled, closing, accessLog, logger, toggler, entries, written>>

\* What a thread uses is not there: a null pointer, or an object that is deleted.
Faulty ==
    \/ logger # 0 /\ accessLog = NoLog
    \/ toggler \in {"enable", "delete"} /\ accessLog = NoLog

\* The server dies, of such a fault or of another; it may have created a file and not written
\* its header, or renamed one and not made the next.  It is started again.
Crash ==
    /\ \/ UNCHANGED <<files, path, rolled>>
       \/ /\ path = 0 /\ Len(files) < MaxFiles
          /\ files' = Append(files, [head |-> Unknown, lines |-> <<>>, by |-> 0])
          /\ path' = Len(files') /\ UNCHANGED rolled
       \/ \E l \in Logs :
             LET d == RenameLogFile(Disk(l)) IN
             /\ log[l].life = "live" /\ path # 0
             /\ files' = d.files /\ path' = d.path /\ rolled' = d.rolled
    /\ log' = [l \in Logs |-> FreshLog] /\ accessLog' = NoLog
    /\ logger' = 0 /\ toggler' = "start"
    /\ UNCHANGED <<now, enabled, closing, entries, written>>

LogNext ==
    \/ \E garbage \in {0, Unknown} :
          \/ InitializeLog(garbage) \/ LogRequest(garbage) \/ WriteEntry(garbage)
          \/ RollAccessLog(garbage) \/ Enable(garbage) \/ CheckTask(garbage)
          \/ \E l \in Logs : Run(l, garbage)
    \/ \E on \in BOOLEAN : RereadPrefs(on)
    \/ Create \/ Disable \/ Tick \/ Crash

LogSpec == LogInit /\ [][LogNext]_logVars

---------------------------------------------------------------------------
(* Properties *)

Increasing(s) == \A i, j \in 1..Len(s) : i < j => s[i] < s[j]

Named == Range(rolled) \cup {path}
Holds(e) == {i \in 1..Len(files) : e \in Range(files[i].lines)}

\* The numbers of some day are used up, and its last name was used again.
Exhausted == \E x \in DOMAIN rolled : x[2] = Numbers

\* Every request whose entry was written to a log that was enabled is in one file, in order,
\* and the file has a name, through every roll, crash and reread of the preferences
\* (WriteToLog, RollLog, RenameLogFile).  What is lost is lost when a day has more files than
\* numbers, or because a log that is closed between writes began a file for this entry.
LogWhole ==
    /\ \A i \in 1..Len(files) : Increasing(files[i].lines)
    /\ \A e \in written :
          \/ \E i \in Named : Holds(e) = {i}
          \/ \E i \in 1..Len(files) : files[i].by = e
          \/ Exhausted /\ Holds(e) # {}

\* Known to be false (LogRequest, RereadPrefs): no thread uses a log that is not there.
NoFault == ~Faulty
=============================================================================
