--------------------------- MODULE ReflectorSocket ---------------------------
(***************************************************************************)
(* The task of a reflector socket: when it runs, which packets it lets in, *)
(* and when it wakes up again.                                             *)
(*                                                                         *)
(* Packets are pushed under the socket's mutex by the broadcaster's RTSP   *)
(* connection, which then signals the task.  Run cancels the idle timer    *)
(* and takes its events before it has the mutex.  What ReflectPackets does *)
(* to the queues is in ReflectorSender; here it either leaves an output    *)
(* blocked or not.  Time counts ticks of RetryDelay milliseconds.          *)
(***************************************************************************)
EXTENDS Integers, FiniteSetsExt

CONSTANTS
    SSRCs,         \* sources that send to the socket, 0 allowed
    SSRCTimeout,   \* fTimeoutSecs
    RetryDelay,    \* fNextTimeToRun while an output is blocked
    IdleDelay      \* fNextTimeToRun otherwise

ASSUME SocketAssumption ==
    /\ SSRCs \subseteq Nat /\ SSRCTimeout \in Nat
    /\ {RetryDelay, IdleDelay} \subseteq Nat \ {0}

VARIABLES
    hasNew,        \* fHasNewPackets of the sender
    blocked,       \* an output waits to be retried
    dueIn,         \* time until fNextTimeToRun; -1 when that is 0
    running,       \* Run has read its events
    event,         \* an event is signalled to the task
    timer,         \* the idle timer is armed
    validSSRC,     \* fValidSSRC
    quiet,         \* time since fLastValidSSRCTime
    source         \* history: the last source let in, how long ago, and the one before

socketVars == <<hasNew, blocked, dueIn, running, event, timer, validSSRC, quiet, source>>
filterVars == <<validSSRC, quiet, source>>

LongestDelay == Max({RetryDelay, IdleDelay})
Quiets   == 0..(SSRCTimeout + 1)
Later(t) == Min({t + 1, SSRCTimeout + 1})

SocketTypeOK ==
    /\ {hasNew, blocked, running, event, timer} \subseteq BOOLEAN
    /\ dueIn \in -1..LongestDelay
    /\ validSSRC \in SSRCs \cup {0} /\ quiet \in Quiets
    /\ source \in [now : SSRCs \cup {0}, before : SSRCs \cup {0}, after : Quiets, age : Quiets]

SocketInit ==
    /\ hasNew = FALSE /\ blocked = FALSE /\ dueIn = -1
    /\ running = FALSE /\ event = FALSE /\ timer = FALSE
    /\ validSSRC = 0 /\ quiet = 0
    /\ source = [now |-> 0, before |-> 0, after |-> 0, age |-> 0]

\* FilterInvalidSSRCs: the first source is let in, and others only after it has been quiet
\* for the timeout; 0 always is.
Admits(ssrc) == ssrc = 0 \/ validSSRC \in {0, ssrc}
\* The timeout is not waited for.
FilterForgetful(ssrc) ==
    /\ validSSRC' = IF validSSRC = 0 THEN ssrc
                    ELSE IF ssrc # validSSRC THEN 0
                    ELSE validSSRC
    /\ quiet' = IF validSSRC \in {0, ssrc} THEN 0 ELSE quiet

FilterInvalidSSRCs(ssrc) ==
    /\ validSSRC' = IF validSSRC = 0 THEN ssrc
                    ELSE IF ssrc # validSSRC /\ quiet > SSRCTimeout THEN 0
                    ELSE validSSRC
    /\ quiet' = IF validSSRC \in {0, ssrc} THEN 0 ELSE quiet

\* PushPacket: the packet is queued or filtered, and the task is signalled in either case.
Push(ssrc) ==
    /\ FilterInvalidSSRCs(ssrc)
    /\ hasNew' = (hasNew \/ Admits(ssrc))
    /\ source' = IF Admits(ssrc) /\ ssrc # 0
                 THEN [now |-> ssrc, before |-> source.now,
                       after |-> source.age, age |-> 0] ELSE source
    /\ event' = TRUE
    /\ UNCHANGED <<blocked, dueIn, running, timer>>

\* The start of Run, before it has the mutex.
SocketStartRun ==
    /\ event /\ ~running
    /\ running' = TRUE /\ event' = FALSE /\ timer' = FALSE
    /\ UNCHANGED <<hasNew, blocked, dueIn, filterVars>>

\* New packets are not looked at.
ReflectOnTime == dueIn = 0

\* A sender without new packets whose time has not come does nothing; the time it reports
\* is not below the 0 that Run passes, so that no timer is armed.
ShouldReflectNow == hasNew \/ dueIn = 0

ReflectNow ==
    /\ running /\ ShouldReflectNow
    /\ hasNew' = FALSE
    /\ \E b \in BOOLEAN :
           /\ blocked' = b
           /\ dueIn' = IF b THEN RetryDelay ELSE IdleDelay
    /\ timer' = TRUE /\ running' = FALSE
    /\ UNCHANGED <<event, filterVars>>
NothingToReflect ==
    /\ running /\ ~ShouldReflectNow
    /\ running' = FALSE
    /\ UNCHANGED <<hasNew, blocked, dueIn, event, timer, filterVars>>

SocketTimerFires ==
    /\ timer /\ dueIn = 0
    /\ timer' = FALSE /\ event' = TRUE
    /\ UNCHANGED <<hasNew, blocked, dueIn, running, filterVars>>

SocketTick ==
    /\ quiet' = Later(quiet) /\ source' = [source EXCEPT !.age = Later(@)]
    /\ dueIn' = IF dueIn > 0 THEN dueIn - 1 ELSE dueIn
    /\ UNCHANGED <<hasNew, blocked, running, event, timer, validSSRC>>

SocketRun == SocketStartRun \/ ReflectNow \/ NothingToReflect

SocketNext == (\E ssrc \in SSRCs : Push(ssrc)) \/ SocketRun \/ SocketTimerFires \/ SocketTick

\* Task threads run signalled tasks and the timer thread fires timers.
SocketFairness == WF_socketVars(SocketRun) /\ WF_socketVars(SocketTimerFires) /\ WF_socketVars(SocketTick)
SocketSpec == SocketInit /\ [][SocketNext]_socketVars /\ SocketFairness

-----------------------------------------------------------------------------

\* "Only reflect one SSRC stream at a time" (ProcessPacket): another source is let in only
\* after the one before it has been quiet for the timeout.
OneSourceAtATime ==
    source.before \notin {0, source.now} => source.after > SSRCTimeout

\* A pushed packet is reflected, whatever the task was doing when it was signalled.
NewPacketsReflected == hasNew ~> ~hasNew

\* "this stream must still communicate when it needs to be woken up next"
\* (ShouldReflectNow): fails after a run without new packets, see the README.
RetryArmed == blocked /\ ~running => timer \/ event
=============================================================================
