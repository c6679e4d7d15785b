---------------------------- MODULE StreamWriter ----------------------------
(***************************************************************************)
(* RTPStream::Write for the streams of one client session: the overbuffer  *)
(* window, which holds back packets that are ahead of their time, and the  *)
(* thinning that follows from the delay of the packets.                    *)
(*                                                                         *)
(* A write that finds the session's mutex taken changes nothing (EAGAIN).  *)
(* Otherwise it is one step under that mutex.  Whether the RTSP connection *)
(* or the congestion window takes the packet is a choice here; the second  *)
(* is the matter of ResenderWindow.  Times count ticks, the overbuffer     *)
(* rate is an integer, and the default quality level of a stream is 0.     *)
(***************************************************************************)
EXTENDS Integers

CONSTANTS
    Streams,          \* RTP streams of the session
    UDP, Video,       \* streams over plain UDP, streams of video
    NumQualityLevels, \* fNumQualityLevels
    Sizes,            \* packet sizes
    Windows,          \* sizes that clients report, -1 for no limit
    SendInterval,     \* fSendInterval
    MaxSendAhead,     \* fMaxSendAheadTime
    OverbufferRate,   \* fOverbufferRate
    SendAhead,        \* fSendAheadDurationInMsec
    StartThicking, StartThinning, AlwaysThin, ThinAllTheWay, DropAll, ThickAllTheWay,
    NotFalling,       \* the 250 ms of UpdateQualityLevel
    CheckInterval,    \* fQualityCheckInterval
    MaxDelay,         \* bound: delay of a packet, and how far it is ahead
    MaxTime,          \* bound: the clock
    MaxBytes          \* bound: bytes between two reports

ASSUME WriterAssumption ==
    /\ UDP \subseteq Streams /\ Video \subseteq Streams
    /\ NumQualityLevels \in Nat \ {0} /\ Sizes \subseteq Nat \ {0}
    /\ Windows \subseteq Nat \cup {-1}
    /\ {SendInterval, OverbufferRate} \subseteq Nat \ {0}
    /\ {MaxSendAhead, SendAhead, NotFalling, CheckInterval, MaxDelay, MaxTime, MaxBytes}
           \subseteq Nat
    /\ {StartThicking, StartThinning, AlwaysThin, ThinAllTheWay, DropAll, ThickAllTheWay}
           \subseteq Int

VARIABLES
    clock,      \* Core::Time::Milliseconds
    window,     \* the RTPOverbufferWindow of the session
    thinning,   \* the thinning state of the session
    delays      \* the thinning state of each stream

writerVars == <<clock, window, thinning, delays>>

Unset == -1

\* The clock starts well after the bucket time 0 of a new window.
StartTime  == 2 * SendInterval + 1
Times      == {Unset, 0} \cup ((StartTime - SendInterval)..(StartTime + MaxTime + MaxDelay))
Leads      == (-(2 * MaxDelay))..(2 * MaxDelay)
Transmits  == (clock - MaxDelay)..(clock + MaxDelay)

WriterTypeOK ==
    /\ clock \in StartTime..(StartTime + MaxTime)
    /\ window \in [begin : Times, bucket : Times, prev : Times, ahead : Leads,
                   prevAhead : Leads, size : Windows \cup {-1}, bytes : 0..MaxBytes,
                   enabled : BOOLEAN]
    /\ thinning \in [level : {l \in 0..NumQualityLevels : l \in {0} \/ l # NumQualityLevels - 1},
                     play : Times, check : Times,
                     media : Times, started : BOOLEAN]
    /\ delays \in [Streams -> [last : Leads, wait : BOOLEAN]]

NewBuckets(w) ==
    [w EXCEPT !.begin = Unset, !.bucket = 0, !.prev = 0, !.ahead = 0, !.prevAhead = 0]
NewThinning == [level |-> 0, play |-> clock, check |-> 0, media |-> 0, started |-> FALSE]

WriterInit ==
    /\ clock = StartTime
    /\ window = [begin |-> Unset, bucket |-> 0, prev |-> 0, ahead |-> 0, prevAhead |-> 0,
                 size |-> -1, bytes |-> 0, enabled |-> TRUE]
    /\ thinning = NewThinning
    /\ delays = [s \in Streams |-> [last |-> 0, wait |-> FALSE]]

-----------------------------------------------------------------------------
(* RTPOverbufferWindow *)

\* The roll over of the figures at the beginning of a bucket interval.
Rolled ==
    IF clock - window.bucket > SendInterval
    THEN [window EXCEPT !.bucket = clock,
                        !.prev = IF window.bucket = 0 THEN clock - SendInterval
                                 ELSE window.bucket,
                        !.prevAhead = window.ahead]
    ELSE window
Begun == [Rolled EXCEPT !.begin = IF @ = Unset THEN clock ELSE @]

MustSend(transmit) ==
    transmit <= clock + SendInterval + IF window.enabled THEN SendAhead ELSE 0

\* The rate that is due in any case is counted as well.
GainWholeRate(w) == (clock - w.prev) * OverbufferRate

\* How much further ahead than the last bucket this one may get.
Gain(w) == (clock - w.prev) * (OverbufferRate - 1)

\* CheckTransmitTime: the new state of the window, and the time to try again, -1 for now.
CheckTransmitTime(transmit, size) ==
    LET w    == Begun
        lead == transmit - clock
        tooFar == lead >= w.prevAhead /\ lead - w.prevAhead > Gain(w)
        wait(t) == [window |-> w, wakeup |-> t]
    IN  IF MustSend(transmit) THEN wait(-1)
        ELSE IF ~w.enabled \/ w.size = 0 THEN wait(transmit)
        ELSE IF w.size # -1 /\ size * 5 > w.size - w.bytes THEN wait(clock + 5 * SendInterval)
        ELSE IF lead > MaxSendAhead THEN wait(transmit - MaxSendAhead + SendInterval)
        ELSE [window |-> [w EXCEPT !.ahead = IF tooFar THEN w.prevAhead + Gain(w) ELSE lead],
              wakeup |-> IF tooFar THEN clock + SendInterval ELSE -1]

\* SetWindowSize, from Setup and from the reports of the client.
SetWindowSize(size) ==
    /\ window' = [window EXCEPT !.size = size, !.bytes = 0]
    /\ UNCHANGED <<clock, thinning, delays>>

\* SetOverBufferState: one stream turns overbuffering off for all.
TurnOffOverbuffering ==
    /\ window.enabled
    /\ window' = [window EXCEPT !.enabled = FALSE]
    /\ UNCHANGED <<clock, thinning, delays>>

-----------------------------------------------------------------------------
(* Thinning *)

\* SetQualityLevel for a stream that is not on plain UDP: its own level stays 0, and the
\* level is that of the session.  A level that equals its own changes nothing, and the
\* level of key frames only is skipped.
SetQualityLevel(t, level) ==
    LET capped == IF level > NumQualityLevels - 1 THEN NumQualityLevels - 1
                  ELSE IF level < 0 THEN 0 ELSE level
        wanted == IF capped = NumQualityLevels - 1 THEN NumQualityLevels ELSE capped
    IN  IF wanted = 0 THEN t ELSE [t EXCEPT !.level = wanted]
SetMinQuality(t) == SetQualityLevel(t, NumQualityLevels)
SetMaxQuality(t) == SetQualityLevel(t, 0)

Checked(t, transmit) == [t EXCEPT !.check = clock, !.media = transmit]

\* The fine tuning once a check is due: down, up, and all the way up.
Tuned(t, d, delay, transmit) ==
    LET falling == delay > StartThinning /\ delay > d.last
        down  == t.level < NumQualityLevels
                 /\ (delay > AlwaysThin \/ (falling /\ ~d.wait))
        t1    == IF down THEN SetQualityLevel(t, t.level + 1) ELSE t
        wait1 == IF delay > AlwaysThin /\ t.level < NumQualityLevels THEN d.wait
                 ELSE IF falling THEN ~d.wait /\ t.level < NumQualityLevels
                 ELSE d.wait
        up    == delay < StartThicking /\ t1.level > 0 /\ delay < d.last
        t2    == IF up THEN SetQualityLevel(t1, t1.level - 1) ELSE t1
        full  == delay < ThickAllTheWay
    IN  [thinning |-> Checked(IF full THEN SetMaxQuality(t2) ELSE t2, transmit),
         delays   |-> [last |-> delay, wait |-> ~full /\ (up \/ wait1)],
         send     |-> TRUE]

\* UpdateQualityLevel for stream s: the new state, and whether the packet shall be sent.
UpdateQualityLevel(s, transmit) ==
    LET delay == clock - transmit
        t     == thinning
        d     == delays[s]
        result(tt, dd, send) == [thinning |-> tt, delays |-> dd, send |-> send]
        late  == delay > ThinAllTheWay
        t1    == IF late THEN SetMinQuality(Checked([t EXCEPT !.started = TRUE], transmit))
                 ELSE [t EXCEPT !.started = TRUE]
        d1    == IF late THEN [d EXCEPT !.last = delay] ELSE d
        due   == clock - t1.check > CheckInterval \/ transmit - t1.media > CheckInterval
    IN  IF transmit <= t.play \/ s \in UDP \cup Video THEN result(t, d, TRUE)
        ELSE IF t.check = 0
        THEN result(Checked(t, transmit), [d EXCEPT !.last = delay], TRUE)
        ELSE IF ~t.started /\ delay > StartThinning /\ delay - d.last < NotFalling
        THEN result(t, [d EXCEPT !.last = IF delay < @ THEN delay ELSE @], TRUE)
        ELSE IF late /\ delay > DropAll THEN result(t1, d1, FALSE)
        ELSE IF NumQualityLevels <= 2
        THEN result(IF delay < StartThicking /\ t1.level > 0 THEN SetMaxQuality(t1) ELSE t1,
                    d1, TRUE)
        ELSE IF due THEN Tuned(t1, d1, delay, transmit)
        ELSE result(t1, d1, TRUE)

-----------------------------------------------------------------------------
(* The session *)

\* Write of an RTP packet.  One that is too old to send is charged as if it were sent;
\* one that the connection or the resender does not take is not.
WriteRTP(s, transmit, size, taken) ==
    LET check  == CheckTransmitTime(transmit, size)
        update == UpdateQualityLevel(s, transmit)
        charged == taken \/ ~update.send
    IN  /\ taken \/ s \notin UDP
        /\ charged => window.bytes + size <= MaxBytes
        /\ IF check.wakeup > clock
           THEN window' = check.window /\ UNCHANGED <<thinning, delays>>
           ELSE /\ thinning' = update.thinning
                /\ delays' = [delays EXCEPT ![s] = update.delays]
                /\ window' = [check.window EXCEPT !.bytes = @ + IF charged THEN size ELSE 0]
        /\ UNCHANGED clock

\* Write of an RTCP packet: only without overbuffering it waits for its time.
WriteRTCP(transmit, size) ==
    /\ ~window.enabled
    /\ window' = CheckTransmitTime(transmit, size).window
    /\ UNCHANGED <<clock, thinning, delays>>

\* RTPSession::Play resets the window, but for its size, and the thinning, but for the
\* level (SetThinningParams, ResetThinningDelayParams).
Replay ==
    /\ window' = NewBuckets(window)
    /\ thinning' = [NewThinning EXCEPT !.level = thinning.level]
    /\ delays' = [s \in Streams |-> [delays[s] EXCEPT !.last = 0]]
    /\ UNCHANGED clock

WriterTick == clock < StartTime + MaxTime /\ clock' = clock + 1
              /\ UNCHANGED <<window, thinning, delays>>

WriterNext ==
    \/ \E s \in Streams, transmit \in Transmits, size \in Sizes, taken \in BOOLEAN :
           WriteRTP(s, transmit, size, taken)
    \/ \E transmit \in Transmits, size \in Sizes : WriteRTCP(transmit, size)
    \/ \E size \in Windows : SetWindowSize(size)
    \/ TurnOffOverbuffering \/ Replay \/ WriterTick

WriterSpec == WriterInit /\ [][WriterNext]_writerVars

-----------------------------------------------------------------------------

\* However the buckets fall and whichever stream writes, the lead of the packets that are
\* sent early grows by no more than the rate allows for the time since the first write,
\* counted twice: a bucket gains on the one before it for both their lengths.
LeadBounded ==
    window.ahead <=
        IF window.begin = Unset THEN 0
        ELSE (OverbufferRate - 1) * (2 * (clock - window.begin) + SendInterval)
=============================================================================
