--------------------------- MODULE MediaPath_proofs ---------------------------
(***************************************************************************)
(* Theorems about the path of the media: the source filter of the          *)
(* reflector's sockets (ReflectorSocket), the overbuffer window of the     *)
(* writers (StreamWriter), the feedback of the clients (StreamFeedback)    *)
(* and the packet queues of a broadcast (ReflectorSender).                 *)
(***************************************************************************)
EXTENDS ReflectorSender, ReflectorSocket, StreamWriter, StreamFeedback, DataLemmas

-----------------------------------------------------------------------------
(***************************************************************************)
(* OneSourceAtATime for any sources, timeout and delays.                   *)
(*                                                                         *)
(* The filter keeps no history, so the invariant says what it stands for:  *)
(* while there is a valid source it is the last one let in, and fLast-     *)
(* ValidSSRCTime is its last packet; when there is none, because another   *)
(* source ended it, the last one let in has been quiet for the timeout.    *)
(***************************************************************************)
\* The valid source is the last one let in, and nothing came from it since.
ValidIsLast == validSSRC # 0 => source.now = validSSRC /\ source.age = quiet

\* Without a valid source the last one has been quiet long enough.
EndedQuiet == validSSRC = 0 => source.now = 0 \/ source.age > SSRCTimeout

SourceInv == SocketTypeOK /\ ValidIsLast /\ EndedQuiet /\ OneSourceAtATime

-----------------------------------------------------------------------------

\* What Max and Min return on two numbers.
LEMMA Longest == LongestDelay \in Nat /\ RetryDelay <= LongestDelay /\ IdleDelay <= LongestDelay
<1> DEFINE IsLongest(x) == x \in {RetryDelay, IdleDelay}
                           /\ \A y \in {RetryDelay, IdleDelay} : x >= y
<1>1. \E x : IsLongest(x)
    <2>1. CASE RetryDelay >= IdleDelay
        BY <2>1, SocketAssumption
    <2>2. CASE ~(RetryDelay >= IdleDelay)
        BY <2>2, SocketAssumption
    <2> QED
        BY <2>1, <2>2
<1>2. LongestDelay = CHOOSE x : IsLongest(x)
    BY DEF LongestDelay, Max
<1>3. IsLongest(LongestDelay)
    BY <1>1, <1>2
<1> QED
    BY <1>3, SocketAssumption

LEMMA LaterIs ==
    ASSUME NEW t \in Quiets
    PROVE  Later(t) \in Quiets /\ (t > SSRCTimeout => Later(t) > SSRCTimeout)
<1> DEFINE IsLeast(x) == x \in {t + 1, SSRCTimeout + 1}
                         /\ \A y \in {t + 1, SSRCTimeout + 1} : x <= y
<1>1. t \in Nat /\ t + 1 \in Nat /\ SSRCTimeout \in Nat
    BY SocketAssumption DEF Quiets
<1>2. \E x : IsLeast(x)
    <2>1. CASE t + 1 <= SSRCTimeout + 1
        BY <1>1, <2>1
    <2>2. CASE ~(t + 1 <= SSRCTimeout + 1)
        BY <1>1, <2>2, SMTT(30)
    <2> QED
        BY <2>1, <2>2
<1>3. Later(t) = CHOOSE x : IsLeast(x)
    BY DEF Later, Min
<1>4. IsLeast(Later(t))
    BY <1>2, <1>3
<1> QED
    BY <1>1, <1>4 DEF Quiets

-----------------------------------------------------------------------------

LEMMA SourceStart == SocketInit => SourceInv
<1> SUFFICES ASSUME SocketInit PROVE SourceInv
    OBVIOUS
<1>1. dueIn \in -1..LongestDelay /\ 0 \in Quiets
    BY Longest, SocketAssumption DEF SocketInit, Quiets
<1>2. source \in [now : SSRCs \cup {0}, before : SSRCs \cup {0}, after : Quiets, age : Quiets]
    BY <1>1 DEF SocketInit
<1>3. SocketTypeOK
    BY <1>1, <1>2 DEF SocketInit, SocketTypeOK
<1> QED
    BY <1>3 DEF SocketInit, SourceInv, ValidIsLast, EndedQuiet, OneSourceAtATime

\* A packet arrives: it is let in if it is of the valid source, or if there is none.
LEMMA PushStep ==
    ASSUME SourceInv, NEW ssrc \in SSRCs, Push(ssrc)
    PROVE  SourceInv'
<1> USE SocketAssumption DEF Push, FilterInvalidSSRCs, Admits, Quiets
<1>1. SocketTypeOK'
    BY DEF SourceInv, SocketTypeOK
<1>2. CASE validSSRC = 0
    BY <1>1, <1>2 DEF SourceInv, SocketTypeOK, ValidIsLast, EndedQuiet, OneSourceAtATime
<1>3. CASE validSSRC # 0 /\ ssrc = validSSRC
    BY <1>1, <1>3 DEF SourceInv, SocketTypeOK, ValidIsLast, EndedQuiet, OneSourceAtATime
<1>4. CASE validSSRC # 0 /\ ssrc # validSSRC
    <2>1. UNCHANGED <<source, quiet>>
        BY <1>4 DEF SourceInv, SocketTypeOK
    <2>2. validSSRC' = validSSRC \/ (validSSRC' = 0 /\ quiet > SSRCTimeout)
        BY <1>4 DEF SourceInv, SocketTypeOK
    <2> QED
        BY <1>1, <1>4, <2>1, <2>2
        DEF SourceInv, ValidIsLast, EndedQuiet, OneSourceAtATime
<1> QED
    BY <1>2, <1>3, <1>4

\* Time passes: the source is as quiet as it was thought to be.
LEMMA TickStep ==
    ASSUME SourceInv, SocketTick
    PROVE  SourceInv'
<1>1. /\ quiet \in Quiets /\ source.age \in Quiets
      /\ source' = [source EXCEPT !.age = Later(source.age)] /\ quiet' = Later(quiet)
      /\ UNCHANGED <<hasNew, blocked, running, event, timer, validSSRC>>
    BY DEF SourceInv, SocketTypeOK, SocketTick
<1>2. dueIn' \in -1..LongestDelay
    BY Longest DEF SourceInv, SocketTypeOK, SocketTick
<1>3. /\ quiet' \in Quiets
      /\ source' \in [now : SSRCs \cup {0}, before : SSRCs \cup {0}, after : Quiets, age : Quiets]
      /\ source'.age = Later(source.age) /\ source'.now = source.now
      /\ source'.before = source.before /\ source'.after = source.after
    BY <1>1, LaterIs DEF SourceInv, SocketTypeOK
<1>4. SocketTypeOK'
    BY <1>1, <1>2, <1>3 DEF SourceInv, SocketTypeOK
<1>5. ValidIsLast' /\ OneSourceAtATime'
    BY <1>1, <1>3 DEF SourceInv, ValidIsLast, OneSourceAtATime
<1>6. EndedQuiet'
    BY <1>1, <1>3, LaterIs DEF SourceInv, EndedQuiet
<1> QED
    BY <1>4, <1>5, <1>6 DEF SourceInv

\* A step that leaves the filter alone.
LEMMA TaskStep ==
    ASSUME SourceInv, UNCHANGED filterVars, SocketTypeOK'
    PROVE  SourceInv'
    BY DEF SourceInv, filterVars, ValidIsLast, EndedQuiet, OneSourceAtATime

LEMMA SourceStep == SourceInv /\ [SocketNext]_socketVars => SourceInv'
<1> SUFFICES ASSUME SourceInv, [SocketNext]_socketVars
             PROVE  SourceInv'
    OBVIOUS
<1>0. SocketTypeOK
    BY DEF SourceInv
<1>1. ASSUME NEW ssrc \in SSRCs, Push(ssrc)
      PROVE  SourceInv'
    BY <1>1, PushStep
<1>2. CASE SocketStartRun
    <2>1. SocketTypeOK'
        BY <1>0, <1>2 DEF SocketStartRun, SocketTypeOK, filterVars
    <2> QED
        BY <1>2, <2>1, TaskStep DEF SocketStartRun
<1>3. CASE ReflectNow
    <2>1. dueIn' \in -1..LongestDelay /\ blocked' \in BOOLEAN
        BY <1>3, Longest, SocketAssumption DEF ReflectNow
    <2>2. SocketTypeOK'
        BY <1>0, <1>3, <2>1 DEF ReflectNow, SocketTypeOK, filterVars
    <2> QED
        BY <1>3, <2>2, TaskStep DEF ReflectNow
<1>4. CASE NothingToReflect
    <2>1. SocketTypeOK'
        BY <1>0, <1>4 DEF NothingToReflect, SocketTypeOK, filterVars
    <2> QED
        BY <1>4, <2>1, TaskStep DEF NothingToReflect
<1>5. CASE SocketTimerFires
    <2>1. SocketTypeOK'
        BY <1>0, <1>5 DEF SocketTimerFires, SocketTypeOK, filterVars
    <2> QED
        BY <1>5, <2>1, TaskStep DEF SocketTimerFires
<1>6. CASE SocketTick
    BY <1>6, TickStep
<1>7. CASE UNCHANGED socketVars
    <2>1. SocketTypeOK' /\ UNCHANGED filterVars
        BY <1>0, <1>7 DEF socketVars, filterVars, SocketTypeOK
    <2> QED
        BY <2>1, TaskStep
<1> QED
    BY <1>1, <1>2, <1>3, <1>4, <1>5, <1>6, <1>7 DEF SocketNext, SocketRun

\* Another source is let in only after the one before it has been quiet for the timeout
\* (FilterInvalidSSRCs), however packets and runs of the task interleave.
THEOREM OneSourceReflected == SocketSpec => []OneSourceAtATime
<1>1. SourceInv => OneSourceAtATime
    BY DEF SourceInv
<1> QED
    BY <1>1, SourceStart, SourceStep, PTL DEF SocketSpec

-----------------------------------------------------------------------------
(***************************************************************************)
(* The bound on the lead of early packets (LeadBounded) for every length   *)
(* of a bucket, every rate and every number of streams.                    *)
(*                                                                         *)
(* LeadBounded is not inductive: that a bucket gains on the one before it  *)
(* needs the lead that one ended with, and where both began.               *)
(***************************************************************************)
Rate == OverbufferRate - 1

WindowType ==
    [begin : Int, bucket : Int, prev : Int, ahead : Int, prevAhead : Int, size : Int,
     bytes : Int, enabled : BOOLEAN]

\* Nothing was written since the last PLAY.
EmptyWindow(w) == w.bucket = 0 /\ w.prev = 0 /\ w.ahead = 0 /\ w.prevAhead = 0

\* The bucket and the one before it lie between the first write and now.
Ordered(w, now) ==
    /\ StartTime <= w.begin /\ w.begin <= w.bucket /\ w.bucket <= now
    /\ w.begin - SendInterval <= w.prev /\ w.prev <= w.bucket

\* The lead at the end of the bucket before, and now.
LedBefore(w) ==
    w.prevAhead <= Rate * ((w.bucket - w.begin) + (w.prev - w.begin) + SendInterval)
LeadsNow(w, now) == w.ahead <= w.prevAhead + Rate * (now - w.prev)
Leading(w, now)  == LedBefore(w) /\ LeadsNow(w, now)

Running(w, now) == w.begin # Unset /\ Ordered(w, now) /\ Leading(w, now)

WindowOK(w, now) ==
    /\ w \in WindowType
    /\ (w.begin = Unset /\ EmptyWindow(w)) \/ Running(w, now)

LeadInv == clock \in Int /\ clock >= StartTime /\ WindowOK(window, clock)

-----------------------------------------------------------------------------
(* Arithmetic *)

LEMMA Distributes ==
    ASSUME NEW r \in Int, NEW x \in Int, NEW y \in Int
    PROVE  r * (x + y) = r * x + r * y
    OBVIOUS

LEMMA Monotone ==
    ASSUME NEW r \in Nat, NEW x \in Int, NEW y \in Int, x <= y
    PROVE  r * x <= r * y
<1>1. r * (x + (y - x)) = r * x + r * (y - x)
    BY Distributes
<1>2. x + (y - x) = y /\ y - x \in Nat
    OBVIOUS
<1>3. r * (y - x) \in Nat
    BY <1>2
<1>4. r * x \in Int /\ r * y \in Int
    OBVIOUS
<1> QED
    BY <1>1, <1>2, <1>3, <1>4

LEMMA Parameters ==
    /\ SendInterval \in Nat \ {0} /\ Rate \in Nat /\ OverbufferRate \in Nat
    /\ StartTime \in Int /\ StartTime > SendInterval
    /\ Sizes \subseteq Nat /\ Windows \subseteq Int
    /\ MaxDelay \in Nat /\ MaxSendAhead \in Nat
<1>1. SendInterval \in Nat \ {0} /\ OverbufferRate \in Nat \ {0}
    BY WriterAssumption
<1> QED
    BY <1>1, WriterAssumption DEF Rate, StartTime

-----------------------------------------------------------------------------
(* The steps of the window *)

\* The fields that the argument is about.
Same(v, w) ==
    /\ v.begin = w.begin /\ v.bucket = w.bucket /\ v.prev = w.prev
    /\ v.ahead = w.ahead /\ v.prevAhead = w.prevAhead

LEMMA SameOK ==
    ASSUME NEW v \in WindowType, NEW w, NEW now, WindowOK(w, now), Same(v, w)
    PROVE  WindowOK(v, now)
    BY DEF WindowOK, Same, EmptyWindow, Running, Ordered, Leading, LedBefore, LeadsNow

\* A window with other buckets is a window.
LEMMA WindowRebuilt ==
    ASSUME NEW w \in WindowType, NEW b \in Int, NEW k \in Int, NEW p \in Int, NEW a \in Int
    PROVE  [w EXCEPT !.bucket = k, !.prev = p, !.prevAhead = a, !.begin = b] \in WindowType
<1> DEFINE v == [w EXCEPT !.bucket = k, !.prev = p]
<1>1. v \in WindowType
    BY DEF WindowType
<1>2. [v EXCEPT !.prevAhead = a, !.begin = b] \in WindowType
    <2> HIDE DEF v
    <2> QED
        BY <1>1 DEF WindowType
<1>3. [w EXCEPT !.bucket = k, !.prev = p, !.prevAhead = a, !.begin = b]
          = [v EXCEPT !.prevAhead = a, !.begin = b]
    BY Zenon
<1> QED
    BY <1>2, <1>3

LEMMA WindowMoved ==
    ASSUME NEW w \in WindowType, NEW b \in Int, NEW k \in Int, NEW p \in Int
    PROVE  [w EXCEPT !.begin = b, !.bucket = k, !.prev = p] \in WindowType
    BY DEF WindowType

LEMMA WindowResized ==
    ASSUME NEW w \in WindowType, NEW size \in Int
    PROVE  [w EXCEPT !.size = size, !.bytes = 0] \in WindowType
<1> DEFINE v == [w EXCEPT !.size = size]
<1>1. v \in WindowType
    BY DEF WindowType
<1>2. [v EXCEPT !.bytes = 0] \in WindowType
    <2> HIDE DEF v
    <2> QED
        BY <1>1 DEF WindowType
<1> QED
    BY <1>2

\* Time passes.
LEMMA LaterOK ==
    ASSUME NEW w, NEW now \in Int, WindowOK(w, now)
    PROVE  WindowOK(w, now + 1)
<1>1. CASE w.begin = Unset /\ EmptyWindow(w)
    BY <1>1 DEF WindowOK
<1>2. CASE Running(w, now)
    <2>1. /\ w.begin \in Int /\ w.bucket \in Int /\ w.prev \in Int
          /\ w.ahead \in Int /\ w.prevAhead \in Int
        BY DEF WindowOK, WindowType
    <2>2. Ordered(w, now + 1)
        BY <1>2, <2>1, Parameters DEF Running, Ordered
    <2>3. Rate * (now - w.prev) <= Rate * (now + 1 - w.prev)
        BY <2>1, Monotone, Parameters
    <2>4. Rate * (now - w.prev) \in Int /\ Rate * (now + 1 - w.prev) \in Int
        BY <2>1, Parameters
    <2>5. LeadsNow(w, now + 1)
        <3>1. PICK u \in Int : u = Rate * (now - w.prev)
            BY <2>4
        <3>2. PICK v \in Int : v = Rate * (now + 1 - w.prev)
            BY <2>4
        <3>3. u <= v
            BY <2>3, <3>1, <3>2
        <3>4. w.ahead <= w.prevAhead + u
            BY <1>2, <3>1 DEF Running, Leading, LeadsNow
        <3>5. w.ahead <= w.prevAhead + v
            BY <2>1, <3>3, <3>4
        <3>6. LeadsNow(w, now + 1) <=> w.ahead <= w.prevAhead + v
            BY <2>1, <2>4, <3>2 DEF LeadsNow
        <3> QED
            BY <3>5, <3>6
    <2>6. Leading(w, now + 1)
        BY <1>2, <2>5, Zenon DEF Running, Leading
    <2> QED
        BY <1>2, <2>2, <2>6, Zenon DEF WindowOK, Running
<1> QED
    BY <1>1, <1>2 DEF WindowOK

\* A new bucket begins with the lead that the one before it ended with.
LEMMA RolledLeading ==
    ASSUME NEW w, NEW now \in Int, w \in WindowType, Running(w, now)
    PROVE  /\ w.ahead <= Rate * ((now - w.begin) + (w.bucket - w.begin) + SendInterval)
           /\ w.ahead <= w.ahead + Rate * (now - w.bucket)
<1>1. /\ w.begin \in Int /\ w.bucket \in Int /\ w.prev \in Int
      /\ w.ahead \in Int /\ w.prevAhead \in Int
    BY DEF WindowType
<1> DEFINE x == (w.bucket - w.begin) + (w.prev - w.begin) + SendInterval
           y == now - w.prev
<1>2. x \in Int /\ y \in Int /\ x + y = (now - w.begin) + (w.bucket - w.begin) + SendInterval
    BY <1>1, Parameters
<1>3. w.prevAhead <= Rate * x /\ w.ahead <= w.prevAhead + Rate * y
    BY DEF Running, Leading, LedBefore, LeadsNow
<1>4. Rate * (x + y) = Rate * x + Rate * y
    BY <1>2, Distributes, Parameters
<1>5. Rate * x \in Int /\ Rate * y \in Int
    BY <1>2, Parameters
<1>6. w.ahead <= Rate * (x + y)
    <2> HIDE DEF x, y
    <2> QED
        BY <1>1, <1>3, <1>4, <1>5
<1>7. now - w.bucket \in Nat
    BY <1>1 DEF Running, Ordered
<1>8. Rate * (now - w.bucket) \in Nat
    BY <1>7, Parameters
<1> QED
    BY <1>1, <1>2, <1>6, <1>8

LEMMA BegunOK ==
    ASSUME LeadInv
    PROVE  Begun \in WindowType /\ Running(Begun, clock)
<1>1. /\ window \in WindowType /\ clock \in Int /\ clock >= StartTime
      /\ window.begin \in Int /\ window.bucket \in Int /\ window.prev \in Int
      /\ window.ahead \in Int /\ window.prevAhead \in Int
    BY DEF LeadInv, WindowOK, WindowType
<1>2. CASE window.begin = Unset /\ EmptyWindow(window)
    <2>1. clock - window.bucket > SendInterval
        BY <1>1, <1>2, Parameters DEF EmptyWindow
    <2>2. Begun = [window EXCEPT !.bucket = clock, !.prev = clock - SendInterval,
                                 !.prevAhead = 0, !.begin = clock]
        BY <1>1, <1>2, <2>1 DEF Begun, Rolled, EmptyWindow, WindowType
    <2>3. Begun \in WindowType
        <3>1. clock - SendInterval \in Int /\ 0 \in Int
            BY <1>1, Parameters
        <3> QED
            BY <1>1, <2>2, <3>1, WindowRebuilt
    <2>4. /\ Begun.begin = clock /\ Begun.bucket = clock /\ Begun.prev = clock - SendInterval
          /\ Begun.ahead = 0 /\ Begun.prevAhead = 0
        BY <1>1, <1>2, <2>2 DEF EmptyWindow, WindowType
    <2>5. Rate * SendInterval \in Nat
        BY Parameters
    <2>6. /\ (clock - clock) + (clock - SendInterval - clock) + SendInterval = 0
          /\ clock - (clock - SendInterval) = SendInterval
          /\ Rate * 0 = 0
        BY <1>1, Parameters
    <2>7. Leading(Begun, clock)
        BY <2>4, <2>5, <2>6, Parameters DEF Leading, LedBefore, LeadsNow
    <2>8. Ordered(Begun, clock) /\ Begun.begin # Unset
        BY <1>1, <2>4, Parameters DEF Ordered, Unset
    <2> QED
        BY <2>3, <2>7, <2>8 DEF Running
<1>3. CASE Running(window, clock)
    <2>1. window.begin # Unset /\ window.bucket # 0
        BY <1>1, <1>3, Parameters DEF Running, Ordered
    <2>2. CASE clock - window.bucket > SendInterval
        <3>1. Begun = [window EXCEPT !.bucket = clock, !.prev = window.bucket,
                                     !.prevAhead = window.ahead]
            BY <1>1, <2>1, <2>2 DEF Begun, Rolled, WindowType
        <3>2. Begun \in WindowType
            BY <1>1, <3>1 DEF WindowType
        <3>3. /\ Begun.begin = window.begin /\ Begun.bucket = clock
              /\ Begun.prev = window.bucket
              /\ Begun.ahead = window.ahead /\ Begun.prevAhead = window.ahead
            BY <1>1, <3>1 DEF WindowType
        <3>4. Leading(Begun, clock)
            BY <1>1, <1>3, <3>3, RolledLeading DEF Leading, LedBefore, LeadsNow
        <3>5. Ordered(Begun, clock)
            BY <1>1, <1>3, <3>3, Parameters DEF Running, Ordered
        <3> QED
            BY <2>1, <3>2, <3>3, <3>4, <3>5 DEF Running
    <2>3. CASE ~(clock - window.bucket > SendInterval)
        <3>1. Begun = window
            BY <1>1, <2>1, <2>3 DEF Begun, Rolled, WindowType
        <3> QED
            BY <1>1, <1>3, <3>1
    <2> QED
        BY <2>2, <2>3
<1> QED
    BY <1>2, <1>3 DEF LeadInv, WindowOK

\* What CheckTransmitTime leaves: a lead that is no further from that of the bucket before
\* than the rate allows.
LEMMA CheckedOK ==
    ASSUME LeadInv, NEW transmit \in Int, NEW size
    PROVE  WindowOK(CheckTransmitTime(transmit, size).window, clock)
<1> DEFINE w    == Begun
           lead == transmit - clock
           tooFar == lead >= w.prevAhead /\ lead - w.prevAhead > Gain(w)
           ahead == IF tooFar THEN w.prevAhead + Gain(w) ELSE lead
           new  == CheckTransmitTime(transmit, size).window
<1>1. w \in WindowType /\ Running(w, clock) /\ clock \in Int
    BY BegunOK DEF LeadInv
<1>2. new = w \/ new = [w EXCEPT !.ahead = ahead]
    BY DEF CheckTransmitTime
<1>3. CASE new = w
    BY <1>1, <1>3 DEF WindowOK
<1>4. CASE new = [w EXCEPT !.ahead = ahead]
    <2>1. w.prev \in Int /\ w.prevAhead \in Int /\ lead \in Int /\ clock - w.prev \in Nat
        BY <1>1, Parameters DEF WindowType, Running, Ordered
    <2>2. Gain(w) = Rate * (clock - w.prev) /\ Gain(w) \in Nat
        BY <2>1, Parameters DEF Gain, Rate
    <2>3. ahead \in Int /\ ahead <= w.prevAhead + Gain(w)
        <3> HIDE DEF w, lead
        <3> QED
            BY <2>1, <2>2
    <2> HIDE DEF ahead, w
    <2>4. new \in WindowType
        BY <1>1, <1>4, <2>3 DEF WindowType
    <2>5. /\ new.begin = w.begin /\ new.bucket = w.bucket /\ new.prev = w.prev
          /\ new.prevAhead = w.prevAhead /\ new.ahead = ahead
        BY <1>1, <1>4 DEF WindowType
    <2> HIDE DEF new
    <2>6. Ordered(new, clock) /\ Leading(new, clock) /\ new.begin # Unset
        BY <1>1, <2>2, <2>3, <2>5 DEF Running, Ordered, Leading, LedBefore, LeadsNow
    <2>7. WindowOK(new, clock)
        BY <2>4, <2>6 DEF WindowOK, Running
    <2> QED
        BY <2>7 DEF new
<1> QED
    BY <1>2, <1>3, <1>4

-----------------------------------------------------------------------------

LEMMA LeadInit == WriterInit => LeadInv
    BY Parameters DEF WriterInit, LeadInv, WindowOK, WindowType, EmptyWindow, Unset

LEMMA LeadStep == LeadInv /\ [WriterNext]_writerVars => LeadInv'
<1> SUFFICES ASSUME LeadInv, [WriterNext]_writerVars
             PROVE  LeadInv'
    OBVIOUS
<1>1. clock \in Int /\ window \in WindowType /\ WindowOK(window, clock)
    BY DEF LeadInv, WindowOK
<1>2. ASSUME NEW transmit \in Transmits PROVE transmit \in Int
    BY <1>1, <1>2, Parameters DEF Transmits
<1>3. ASSUME NEW s \in Streams, NEW transmit \in Transmits, NEW size \in Sizes,
             NEW taken \in BOOLEAN, WriteRTP(s, transmit, size, taken)
      PROVE  LeadInv'
    <2> DEFINE new == CheckTransmitTime(transmit, size).window
    <2>1. WindowOK(new, clock)
        BY <1>2, CheckedOK
    <2>2. clock' = clock
        BY <1>3 DEF WriteRTP
    <2>3. window' = new \/ window' = [new EXCEPT !.bytes = @ + size]
                        \/ window' = [new EXCEPT !.bytes = @ + 0]
        BY <1>3 DEF WriteRTP
    <2>4. size \in Int
        BY Parameters
    <2> HIDE DEF new
    <2>5. new \in WindowType /\ new.bytes \in Int
        BY <2>1 DEF WindowOK, WindowType
    <2>6. window' \in WindowType /\ Same(window', new)
        BY <2>3, <2>4, <2>5 DEF WindowType, Same
    <2>7. WindowOK(window', clock)
        BY <2>1, <2>6, SameOK
    <2> QED
        BY <2>2, <2>7 DEF LeadInv
<1>4. ASSUME NEW transmit \in Transmits, NEW size \in Sizes, WriteRTCP(transmit, size)
      PROVE  LeadInv'
    BY <1>2, <1>4, CheckedOK DEF WriteRTCP, LeadInv
<1>5. ASSUME NEW size \in Windows, SetWindowSize(size)
      PROVE  LeadInv'
    <2>1. window' = [window EXCEPT !.size = size, !.bytes = 0] /\ clock' = clock
        BY <1>5 DEF SetWindowSize
    <2>2. size \in Int
        BY Parameters
    <2>3. window' \in WindowType
        BY <1>1, <2>1, <2>2, WindowResized
    <2>4. Same(window', window)
        BY <1>1, <2>1 DEF WindowType, Same
    <2> QED
        BY <1>1, <2>1, <2>3, <2>4, SameOK DEF LeadInv
<1>6. CASE TurnOffOverbuffering
    <2>1. window' = [window EXCEPT !.enabled = FALSE] /\ clock' = clock
        BY <1>6 DEF TurnOffOverbuffering
    <2>2. window' \in WindowType /\ Same(window', window)
        BY <1>1, <2>1 DEF WindowType, Same
    <2> QED
        BY <1>1, <2>1, <2>2, SameOK DEF LeadInv
<1>7. CASE Replay
    <2>1. window' = NewBuckets(window) /\ clock' = clock
        BY <1>7 DEF Replay
    <2> DEFINE v == [window EXCEPT !.begin = Unset, !.bucket = 0, !.prev = 0]
    <2>2. v \in WindowType /\ v.begin = Unset /\ v.bucket = 0 /\ v.prev = 0
        <3>1. window \in WindowType /\ Unset \in Int /\ 0 \in Int
            BY <1>1 DEF Unset
        <3>2. v \in WindowType
            BY <3>1, WindowMoved
        <3>3. v.begin = Unset /\ v.bucket = 0 /\ v.prev = 0
            BY <3>1 DEF WindowType
        <3> QED
            BY <3>2, <3>3
    <2>3. window' = [v EXCEPT !.ahead = 0, !.prevAhead = 0]
        BY <2>1, Zenon DEF NewBuckets
    <2> HIDE DEF v
    <2>4. window' \in WindowType /\ window'.begin = Unset /\ EmptyWindow(window')
        BY <2>2, <2>3 DEF WindowType, EmptyWindow
    <2> QED
        BY <1>1, <2>1, <2>4 DEF LeadInv, WindowOK
<1>8. CASE WriterTick
    BY <1>1, <1>8, LaterOK, Parameters DEF WriterTick, LeadInv
<1>9. CASE UNCHANGED writerVars
    BY <1>9 DEF writerVars, LeadInv
<1> QED
    BY <1>3, <1>4, <1>5, <1>6, <1>7, <1>8, <1>9 DEF WriterNext

LEMMA LeadFollows == LeadInv => LeadBounded
<1> SUFFICES ASSUME LeadInv PROVE LeadBounded
    OBVIOUS
<1>1. CASE window.begin = Unset /\ EmptyWindow(window)
    BY <1>1 DEF LeadBounded, EmptyWindow
<1>2. CASE Running(window, clock)
    <2> DEFINE w == window
               x == (clock - w.begin) + (w.bucket - w.begin) + SendInterval
               y == 2 * (clock - w.begin) + SendInterval
    <2>1. clock \in Int /\ w \in WindowType /\ w.begin \in Int /\ w.bucket \in Int /\ w.ahead \in Int
        BY DEF LeadInv, WindowOK, WindowType
    <2>2. x \in Int /\ y \in Int /\ x <= y
        BY <1>2, <2>1, Parameters DEF Running, Ordered
    <2>3. w.ahead <= Rate * x
        BY <1>2, <2>1, RolledLeading
    <2>4. Rate * x <= Rate * y /\ Rate * x \in Int /\ Rate * y \in Int
        BY <2>2, Monotone, Parameters
    <2>5. w.ahead <= Rate * y
        <3> HIDE DEF x, y
        <3> QED
            BY <2>1, <2>3, <2>4
    <2> QED
        BY <1>2, <2>5 DEF LeadBounded, Running, Rate
<1> QED
    BY <1>1, <1>2 DEF LeadInv, WindowOK

\* Since the first write after a PLAY no packet gets further ahead of its time than the
\* overbuffer rate allows for twice that time and one interval (CheckTransmitTime).
THEOREM LeadStaysBounded == WriterSpec => []LeadBounded
    BY LeadInit, LeadStep, LeadFollows, PTL DEF WriterSpec

-----------------------------------------------------------------------------
(***************************************************************************)
(* Theorems about StreamFeedback: the counts keep their widths and the     *)
(* loss that is accounted never exceeds what was sent, for every number of *)
(* streams, every width of the counts and every preference.                *)
(***************************************************************************)
Stats == [sent : UInt, seen : UInt, lost : UInt, intervalLost : UInt, interval : UInt]

\* The part of LossWithinSent that is about one stream.
Within(st) ==
    /\ st.lost <= st.seen /\ st.seen <= st.sent
    /\ st.intervalLost <= st.interval

\* The part of the type invariant that is about the loss accounting.
StatsOK == stats \in [UdpStreams -> Stats] /\ serverLost \in Nat

LossInv == StatsOK /\ \A s \in UdpStreams : Within(stats[s])

-----------------------------------------------------------------------------

\* A difference of two counts, taken as a UInt32.
LEMMA Difference ==
    ASSUME NEW a \in UInt, NEW b \in UInt
    PROVE  /\ (a - b) % Width \in UInt
           /\ a >= b => (a - b) % Width = a - b
           /\ a < b  => (a - b) % Width = Width + a - b
<1>1. Width \in Nat \ {0}
    BY FeedbackAssumption
<1> QED
    BY <1>1 DEF UInt

\* A report that is let in accounts for no more packets than were sent, and a stale one,
\* with a total below the one known, is not let in (ProcessIncomingRTCPPacket).
LEMMA AccountedWithin ==
    ASSUME NEW st \in Stats, NEW total \in UInt, Within(st)
    PROVE  /\ Accounted(st, total) \in Stats
           /\ Within(Accounted(st, total))
           /\ Accounted(st, total).lost >= st.lost
           /\ Accounted(st, total).sent = st.sent
<1>1. Width \in Nat \ {0}
    BY FeedbackAssumption
<1>2. /\ st.sent \in UInt /\ st.seen \in UInt /\ st.lost \in UInt
      /\ st.intervalLost \in UInt /\ st.interval \in UInt
    BY DEF Stats
<1>3. CASE ~Credible(st, total)
    BY <1>2, <1>3 DEF Accounted, Within, UInt
<1>4. CASE Credible(st, total)
    <2> DEFINE lost == IF total > st.lost THEN total ELSE st.lost
               lately == IF total > st.lost THEN total - st.lost
                         ELSE IF total = st.lost THEN 0 ELSE st.intervalLost
               acc == [st EXCEPT !.lost = lost, !.intervalLost = lately,
                                 !.interval = (st.sent - st.seen) % Width, !.seen = st.sent]
    <2>1. Accounted(st, total) = acc
        BY <1>4 DEF Accounted
    <2>2. (st.sent - st.seen) % Width = st.sent - st.seen
        BY <1>2, Difference DEF Within, UInt
    <2>3. (total - st.lost) % Width <= st.sent - st.seen
        BY <1>4, <2>2 DEF Credible
    <2>4. total >= st.lost
        <3>1. SUFFICES ASSUME total < st.lost PROVE FALSE
            BY <1>2 DEF UInt
        <3>2. (total - st.lost) % Width = Width + total - st.lost
            BY <3>1, <1>2, Difference
        <3> QED
            BY <3>2, <2>3, <1>1, <1>2 DEF Within, UInt
    <2>5. (total - st.lost) % Width = total - st.lost
        BY <2>4, <1>2, Difference
    <2>6. total - st.lost <= st.sent - st.seen
        BY <2>3, <2>5
    <2>7. lost \in UInt /\ lost <= st.sent /\ lost >= st.lost
        BY <2>4, <2>6, <1>1, <1>2 DEF Within, UInt
    <2>8. lately \in UInt /\ lately <= st.sent - st.seen
        BY <2>4, <2>6, <1>1, <1>2 DEF Within, UInt
    <2>9. st.sent - st.seen \in UInt
        BY <1>1, <1>2 DEF Within, UInt
    <2>10. /\ acc.sent = st.sent /\ acc.seen = st.sent /\ acc.lost = lost
           /\ acc.intervalLost = lately /\ acc.interval = st.sent - st.seen
           /\ acc \in Stats
        BY <2>2, <2>7, <2>8, <2>9, <1>2 DEF Stats
    <2> HIDE DEF acc, lost, lately
    <2> QED
        BY <2>1, <2>7, <2>8, <2>10, <1>2 DEF Within, UInt
<1> QED
    BY <1>3, <1>4

-----------------------------------------------------------------------------

LEMMA LossInit == FeedbackInit => LossInv
<1>1. Width \in Nat \ {0}
    BY FeedbackAssumption
<1> QED
    BY <1>1 DEF FeedbackInit, LossInv, StatsOK, Stats, Within, UInt

LEMMA LossStep == LossInv /\ [FeedbackNext]_feedbackVars => LossInv'
<1> SUFFICES ASSUME LossInv, [FeedbackNext]_feedbackVars
             PROVE  LossInv'
    OBVIOUS
<1>1. Width \in Nat \ {0}
    BY FeedbackAssumption
<1>2. ASSUME NEW s \in UdpStreams, PacketWritten(s)
      PROVE  LossInv'
    <2> DEFINE st == [stats[s] EXCEPT !.sent = stats[s].sent + 1]
    <2>1. stats[s] \in Stats /\ Within(stats[s])
        BY DEF LossInv, StatsOK
    <2>2. stats[s].sent + 1 \in UInt
        BY <1>1, <1>2, <2>1 DEF PacketWritten, Stats, UInt
    <2>3. st \in Stats
        BY <2>1, <2>2 DEF Stats
    <2>4. Within(st)
        BY <2>1 DEF Within, Stats, UInt
    <2>5. stats' = [stats EXCEPT ![s] = st] /\ serverLost' = serverLost
        BY <1>2, <2>1 DEF PacketWritten
    <2> HIDE DEF st
    <2> QED
        BY <2>3, <2>4, <2>5 DEF LossInv, StatsOK
<1>3. ASSUME NEW s \in UdpStreams, NEW total \in UInt \cup {Absent},
             NEW r \in Reports \cup {Absent}, NEW complete \in BOOLEAN,
             ProcessIncomingRTCPPacket(s, total, r, complete)
      PROVE  LossInv'
    <2>1. stats[s] \in Stats /\ Within(stats[s])
        BY DEF LossInv, StatsOK
    <2>2. CASE total = Absent
        <3>1. stats' = stats
            BY <1>3, <2>2 DEF ProcessIncomingRTCPPacket
        <3>2. serverLost' = serverLost
            BY <1>3, <3>1, <2>1 DEF ProcessIncomingRTCPPacket, LossInv, StatsOK, Stats, UInt
        <3> QED
            BY <3>1, <3>2 DEF LossInv, StatsOK
    <2>3. CASE total # Absent
        <3> DEFINE st == Accounted(stats[s], total)
        <3>1. total \in UInt
            BY <2>3
        <3>2. st \in Stats /\ Within(st) /\ st.lost >= stats[s].lost
            BY <2>1, <3>1, AccountedWithin
        <3>3. stats' = [stats EXCEPT ![s] = st]
            BY <1>3, <2>3 DEF ProcessIncomingRTCPPacket
        <3>4. stats'[s] = st
            BY <3>3 DEF LossInv, StatsOK
        <3>5. serverLost' = serverLost + st.lost - stats[s].lost
            BY <1>3, <3>4 DEF ProcessIncomingRTCPPacket
        <3>6. st.lost \in Nat /\ stats[s].lost \in Nat
            BY <3>2, <2>1 DEF Stats, UInt
        <3>7. serverLost' \in Nat
            <4> HIDE DEF st
            <4> QED
                BY <3>2, <3>5, <3>6 DEF LossInv, StatsOK
        <3> HIDE DEF st
        <3> QED
            BY <3>2, <3>3, <3>7 DEF LossInv, StatsOK
    <2> QED
        BY <2>2, <2>3
<1>4. CASE UNCHANGED feedbackVars
    BY <1>4 DEF feedbackVars, LossInv, StatsOK
<1> QED
    BY <1>2, <1>3, <1>4 DEF FeedbackNext

\* Of every stream no more packets are accounted as lost than it had sent by its last
\* report that counted, nor in an interval more than in that interval
\* (ProcessIncomingRTCPPacket).
THEOREM LossStaysWithinSent == FeedbackSpec => []LossWithinSent
<1>1. LossInv => LossWithinSent
    BY DEF LossInv, LossWithinSent, Within
<1> QED
    BY <1>1, LossInit, LossStep, PTL DEF FeedbackSpec

-----------------------------------------------------------------------------
(* The flow control module. *)

Counters == [above : 0..(LossesToThin - 1), below : 0..(LossesToThick - 1),
             worses : 0..(WorsesToThin - 1)]

\* A count that has reached its limit is set back at once.
LEMMA CountedInRange ==
    ASSUME NEW c \in Counters, NEW r \in Reports
    PROVE  Counted(c, r) \in Counters
<1>1. LossesToThin \in Nat \ {0} /\ LossesToThick \in Nat \ {0} /\ WorsesToThin \in Nat \ {0}
    BY FeedbackAssumption
<1>2. /\ c.above \in 0..(LossesToThin - 1) /\ c.below \in 0..(LossesToThick - 1)
      /\ c.worses \in 0..(WorsesToThin - 1)
    BY DEF Counters
<1>3. CASE RatchetLess(c, r) \/ RatchetMore(c, r)
    BY <1>1, <1>3 DEF Counted, Counters
<1>4. CASE ~(RatchetLess(c, r) \/ RatchetMore(c, r))
    <2> DEFINE above  == IF r.loss = "high" THEN c.above + 1 ELSE 0
               below  == IF r.loss = "low" THEN c.below + 1 ELSE 0
               worses == c.worses + IF r.worse THEN 1 ELSE 0
    <2>1. above \in 0..(LossesToThin - 1)
        BY <1>1, <1>2, <1>4 DEF RatchetLess, Above
    <2>2. below \in 0..(LossesToThick - 1)
        BY <1>1, <1>2, <1>4 DEF RatchetMore, Below
    <2>3. worses \in 0..(WorsesToThin - 1)
        BY <1>1, <1>2, <1>4 DEF RatchetLess, Worse
    <2>4. Counted(c, r) = [above |-> above, below |-> below, worses |-> worses]
        BY <1>4 DEF Counted
    <2> HIDE DEF above, below, worses
    <2> QED
        BY <2>1, <2>2, <2>3, <2>4 DEF Counters
<1> QED
    BY <1>3, <1>4

\* The quality is the best, the level below it or the worst: the others are skipped.
LEMMA AdjustedLevel ==
    ASSUME NEW q \in {0, 1, NumLevels}, NEW c, NEW r
    PROVE  Adjusted(q, c, r) \in {0, 1, NumLevels}
<1>1. NumLevels \in Nat \ {0}
    BY FeedbackAssumption
<1> QED
    BY <1>1 DEF Adjusted

FlowOK ==
    /\ report \in [UdpStreams -> Reports]
    /\ counters \in [UdpStreams -> Counters]
    /\ quality \in [UdpStreams -> {0, 1, NumLevels}]
    /\ sessionThinned \in BOOLEAN

LEMMA FlowInit == FeedbackInit => FlowOK
<1>1. LossesToThin \in Nat \ {0} /\ LossesToThick \in Nat \ {0} /\ WorsesToThin \in Nat \ {0}
    BY FeedbackAssumption
<1>2. [loss |-> "low", worse |-> FALSE, better |-> FALSE] \in Reports
    BY DEF Reports, Losses
<1>3. [above |-> 0, below |-> 0, worses |-> 0] \in Counters
    BY <1>1 DEF Counters
<1> QED
    BY <1>2, <1>3 DEF FeedbackInit, FlowOK

LEMMA FlowStep == FlowOK /\ [FeedbackNext]_feedbackVars => FlowOK'
<1> SUFFICES ASSUME FlowOK, [FeedbackNext]_feedbackVars
             PROVE  FlowOK'
    OBVIOUS
<1>1. ASSUME NEW s \in UdpStreams, PacketWritten(s)
      PROVE  FlowOK'
    BY <1>1 DEF PacketWritten, FlowOK
<1>2. ASSUME NEW s \in UdpStreams, NEW total \in UInt \cup {Absent},
             NEW r \in Reports \cup {Absent}, NEW complete \in BOOLEAN,
             ProcessIncomingRTCPPacket(s, total, r, complete)
      PROVE  FlowOK'
    <2>1. report' \in [UdpStreams -> Reports]
        BY <1>2 DEF ProcessIncomingRTCPPacket, FlowOK
    <2>2. CASE ~complete
        BY <1>2, <2>1, <2>2 DEF ProcessIncomingRTCPPacket, FlowOK
    <2>3. CASE complete
        <3>1. report'[s] \in Reports
            BY <2>1
        <3>2. ProcessRTCPPacket(s, report'[s])
            BY <1>2, <2>3 DEF ProcessIncomingRTCPPacket
        <3>3. Counted(counters[s], report'[s]) \in Counters
            BY <3>1, CountedInRange DEF FlowOK
        <3>4. Adjusted(quality[s], counters[s], report'[s]) \in {0, 1, NumLevels}
            BY AdjustedLevel DEF FlowOK
        <3>5. sessionThinned' \in BOOLEAN
            <4>1. sessionThinned' = sessionThinned
                  \/ sessionThinned' = (~sessionThinned
                         \/ Adjusted(quality[s], counters[s], report'[s]) # 0)
                BY <3>2, Zenon DEF ProcessRTCPPacket
            <4> QED
                BY <4>1, Zenon DEF FlowOK
        <3>6. counters' \in [UdpStreams -> Counters]
            BY <3>2, <3>3 DEF ProcessRTCPPacket, FlowOK
        <3>7. quality' \in [UdpStreams -> {0, 1, NumLevels}]
            BY <3>2, <3>4 DEF ProcessRTCPPacket, FlowOK
        <3> QED
            BY <2>1, <3>5, <3>6, <3>7, Zenon DEF FlowOK
    <2> QED
        BY <2>2, <2>3
<1>3. CASE UNCHANGED feedbackVars
    BY <1>3, Zenon DEF feedbackVars, FlowOK
<1> QED
    BY <1>1, <1>2, <1>3 DEF FeedbackNext

\* The counts of the loss accounting stay within their width, those of the flow control
\* below its limits, and the quality is one of the three levels that are used.
THEOREM FeedbackTypeCorrect == FeedbackSpec => []FeedbackTypeOK
<1>1. LossInv /\ FlowOK => FeedbackTypeOK
    BY DEF LossInv, StatsOK, Stats, FlowOK, Counters, FeedbackTypeOK
<1> QED
    BY <1>1, LossInit, LossStep, FlowInit, FlowStep, PTL DEF FeedbackSpec

-----------------------------------------------------------------------------
(***************************************************************************)
(* KeyFrameKept and PacketsInOnePlace for any senders, outputs, packets    *)
(* and ages.                                                               *)
(*                                                                         *)
(* The two need each other: the removal of old packets stops at the key    *)
(* frame because it is needed and in one place of its own queue, and what  *)
(* is put into the free queue came out of the queue.                       *)
(***************************************************************************)
Contents == [id : Nat, age : Nat, needed : BOOLEAN]
QueueType ==
    /\ packetQueue \in [Senders -> Seq(Packets)] /\ freeQueue \in [Senders -> Seq(Packets)]
    /\ packet \in [Packets -> Contents]
    /\ packetCount \in [Senders -> Nat]
    /\ keyFrame \in [Senders -> Packets \cup {NoPacket}]

\* No packet twice; the packets of a queue; two queues without a packet in common.
Distinct(q) == \A i, j \in 1..Len(q) : q[i] = q[j] => i = j
Members(q)  == {q[i] : i \in 1..Len(q)}
Apart(q, f) == Distinct(q) /\ Distinct(f) /\ Members(q) \cap Members(f) = {}
Owned(s)    == Members(packetQueue[s]) \cup Members(freeQueue[s])

\* Every packet is in one place of one sender's queues.
Placed ==
    /\ \A s \in Senders : Apart(packetQueue[s], freeQueue[s])
    /\ \A s, t \in Senders : s # t => Owned(s) \cap Owned(t) = {}

QueueInv == QueueType /\ Placed /\ KeyFrameKept

-----------------------------------------------------------------------------

\* The members of a queue are what Range says of it.
LEMMA RangeIs == ASSUME NEW T, NEW q \in Seq(T)
                 PROVE  Range(q) = Members(q) /\ Members(q) \subseteq T
BY DEF Range, Members

\* What Min and Max return.
LEMMA MinIs ==
    ASSUME NEW T, T \subseteq Nat, T # {}
    PROVE  Min(T) \in T /\ \A y \in T : Min(T) <= y
<1>1. \E x \in T : \A y \in T : x <= y
  BY LeastNumber
<1>2. Min(T) = CHOOSE x \in T : \A y \in T : x <= y
  BY DEF Min
<1> QED
  BY <1>1, <1>2

LEMMA MaxIs ==
    ASSUME NEW T, T \subseteq Nat, T # {}, NEW b \in Nat, \A x \in T : x <= b
    PROVE  Max(T) \in T /\ \A y \in T : Max(T) >= y
<1>1. \E x \in T : \A y \in T : x >= y
  <2>1. PICK x \in T : \A y \in T : y <= x
    BY GreatestNumber
  <2>2. \A y \in T : y \in Nat /\ x \in Nat
    OBVIOUS
  <2> QED
    BY <2>1, <2>2
<1>2. Max(T) = CHOOSE x \in T : \A y \in T : x >= y
  BY DEF Max
<1> QED
  BY <1>1, <1>2

\* Those keeps the packets that are in S, each as often as it was.
Keeps(q, S, x, n) ==
    /\ \A k \in 1..Len(x) : x[k] \in S /\ \E j \in 1..n : x[k] = q[j]
    /\ \A j \in 1..n : q[j] \in S => \E k \in 1..Len(x) : x[k] = q[j]
    /\ Distinct(x)
    /\ \A k, l \in 1..Len(x) : k < l => \E i, j \in 1..n : i < j /\ x[k] = q[i] /\ x[l] = q[j]

\* What comes earlier in x comes earlier in q.
SameOrder(x, q) ==
    \A k, l \in 1..Len(x) : k < l => \E i, j \in 1..Len(q) : i < j /\ x[k] = q[i] /\ x[l] = q[j]

LEMMA KeepsStep ==
    ASSUME NEW T, NEW S, NEW q \in Seq(T), Distinct(q), NEW n \in Nat, n + 1 \in 1..Len(q),
           NEW x \in Seq(T), Keeps(q, S, x, n),
           NEW y, y = IF q[n + 1] \in S THEN Append(x, q[n + 1]) ELSE x
    PROVE  y \in Seq(T) /\ Keeps(q, S, y, n + 1)
<1>0. q[n + 1] \in T /\ Len(x) \in Nat /\ \A j \in 1..(n + 1) : j \in 1..n \/ j = n + 1
  OBVIOUS
<1>1. CASE q[n + 1] \notin S
  <2>1. y = x
    BY <1>1
  <2> QED
    BY <1>0, <1>1, <2>1 DEF Keeps
<1>2. CASE q[n + 1] \in S
  <2>1. /\ y \in Seq(T) /\ Len(y) = Len(x) + 1 /\ y[Len(x) + 1] = q[n + 1]
        /\ \A k \in 1..Len(x) : y[k] = x[k]
    BY <1>0, <1>2
  <2>2. \A k \in 1..Len(y) : k \in 1..Len(x) \/ k = Len(x) + 1
    BY <1>0, <2>1
  <2>3. \A k \in 1..Len(y) : y[k] \in S /\ \E j \in 1..(n + 1) : y[k] = q[j]
    <3> TAKE k \in 1..Len(y)
    <3>1. CASE k \in 1..Len(x)
      BY <2>1, <3>1 DEF Keeps
    <3>2. CASE k = Len(x) + 1
      BY <1>2, <2>1, <3>2
    <3> QED
      BY <2>2, <3>1, <3>2
  <2>4. \A j \in 1..(n + 1) : q[j] \in S => \E k \in 1..Len(y) : y[k] = q[j]
    <3> TAKE j \in 1..(n + 1)
    <3> HAVE q[j] \in S
    <3>1. CASE j \in 1..n
      <4>1. PICK k \in 1..Len(x) : x[k] = q[j]
        BY <3>1 DEF Keeps
      <4>2. k \in 1..Len(y) /\ y[k] = q[j]
        BY <1>0, <2>1, <4>1
      <4> QED
        BY <4>2
    <3>2. CASE j = n + 1
      <4>1. Len(x) + 1 \in 1..Len(y)
        BY <1>0, <2>1
      <4> QED
        BY <2>1, <3>2, <4>1
    <3> QED
      BY <1>0, <3>1, <3>2
  <2>5. \A k \in 1..Len(x) : y[k] # q[n + 1]
    <3> TAKE k \in 1..Len(x)
    <3>1. PICK j \in 1..n : x[k] = q[j]
      BY DEF Keeps
    <3>2. j \in 1..Len(q) /\ j # n + 1
      OBVIOUS
    <3> QED
      BY <2>1, <3>1, <3>2 DEF Distinct
  <2>6. Distinct(y)
    <3> SUFFICES ASSUME NEW i \in 1..Len(y), NEW j \in 1..Len(y), y[i] = y[j] PROVE i = j
      BY DEF Distinct
    <3>1. CASE i \in 1..Len(x) /\ j \in 1..Len(x)
      <4>1. x[i] = x[j] /\ Distinct(x)
        BY <2>1, <3>1 DEF Keeps
      <4> QED
        BY <3>1, <4>1 DEF Distinct
    <3> QED
      BY <2>1, <2>2, <2>5, <3>1
  <2>7. ASSUME NEW k \in 1..Len(y), NEW l \in 1..Len(y), k < l
        PROVE  \E i, j \in 1..(n + 1) : i < j /\ y[k] = q[i] /\ y[l] = q[j]
    <3>1. k \in 1..Len(x) /\ y[k] = x[k]
      BY <2>1, <2>7
    <3>2. CASE l \in 1..Len(x)
      <4>1. PICK i \in 1..n, j \in 1..n : i < j /\ x[k] = q[i] /\ x[l] = q[j]
        BY <2>7, <3>1, <3>2 DEF Keeps
      <4>2. y[l] = x[l]
        BY <2>1, <3>2
      <4>3. i \in 1..(n + 1) /\ j \in 1..(n + 1)
        BY <1>0
      <4> QED
        BY <3>1, <4>1, <4>2, <4>3
    <3>3. CASE l = Len(x) + 1
      <4>1. PICK i \in 1..n : x[k] = q[i]
        BY <3>1 DEF Keeps
      <4>2. i \in 1..(n + 1) /\ n + 1 \in 1..(n + 1) /\ i < n + 1
        OBVIOUS
      <4> QED
        BY <2>1, <3>1, <3>3, <4>1, <4>2
    <3> QED
      BY <2>2, <3>2, <3>3
  <2> QED
    BY <2>1, <2>3, <2>4, <2>6, <2>7 DEF Keeps
<1> QED
  BY <1>1, <1>2

LEMMA ThoseAre ==
    ASSUME NEW T, NEW S, NEW q \in Seq(T), Distinct(q)
    PROVE  /\ Those(q, S) \in Seq(T) /\ Distinct(Those(q, S))
           /\ Members(Those(q, S)) = Members(q) \cap S
           /\ SameOrder(Those(q, S), q)
<1> DEFINE Rec(i, h) == IF i = 0 THEN <<>>
                        ELSE IF q[i] \in S THEN Append(h[i - 1], q[i]) ELSE h[i - 1]
           Good(x, i) == x \in Seq(T) /\ Keeps(q, S, x, i)
           P == {n \in Nat : n <= Len(q) =>
                    \E h : h = [i \in 0..n |-> h[i]] /\ \A i \in 0..n : h[i] = Rec(i, h)}
<1>0. Len(q) \in Nat
  OBVIOUS
<1>1. 0 \in P
  <2>1. \A i \in 0..0 : Rec(i, [j \in 0..0 |-> <<>>]) = <<>>
    OBVIOUS
  <2> DEFINE h == [j \in 0..0 |-> <<>>]
  <2>2. h = [i \in 0..0 |-> h[i]] /\ \A i \in 0..0 : h[i] = Rec(i, h)
    BY <2>1
  <2> HIDE DEF h, Rec
  <2> QED
    BY <2>2
<1>2. ASSUME NEW n \in Nat, n \in P PROVE n + 1 \in P
  <2>0. n + 1 \in Nat
    OBVIOUS
  <2> SUFFICES ASSUME n + 1 <= Len(q)
               PROVE  \E h : h = [i \in 0..(n + 1) |-> h[i]]
                             /\ \A i \in 0..(n + 1) : h[i] = Rec(i, h)
    <3> HIDE DEF Rec
    <3> QED
      BY <2>0, Zenon
  <2>1. PICK h : h = [i \in 0..n |-> h[i]] /\ \A i \in 0..n : h[i] = Rec(i, h)
    <3> HIDE DEF Rec
    <3>1. n <= Len(q)
      BY <1>0
    <3> QED
      BY <1>2, <3>1
  <2> DEFINE k == [i \in 0..(n + 1) |-> Rec(i, h)]
  <2>2. \A i \in 0..n : k[i] = h[i]
    <3> HIDE DEF Rec
    <3> QED
      BY <2>1
  <2>3. \A i \in 0..(n + 1) : k[i] = Rec(i, k)
    <3> SUFFICES ASSUME NEW i \in 0..(n + 1) PROVE Rec(i, h) = Rec(i, k)
      OBVIOUS
    <3> HIDE DEF k
    <3>1. i # 0 => i - 1 \in 0..n
      OBVIOUS
    <3> QED
      BY <2>2, <3>1
  <2>4. k = [i \in 0..(n + 1) |-> k[i]]
    <3> HIDE DEF Rec
    <3> QED
      OBVIOUS
  <2> HIDE DEF k, Rec
  <2> QED
    BY <2>3, <2>4
<1>3. Len(q) \in P
  <2> HIDE DEF P
  <2> QED
    BY <1>0, <1>1, <1>2, NumberInduction
<1> DEFINE G == CHOOSE g : g = [i \in 0..Len(q) |-> Rec(i, g)]
<1>4. G = [i \in 0..Len(q) |-> Rec(i, G)]
  <2>1. PICK h : h = [i \in 0..Len(q) |-> h[i]] /\ \A i \in 0..Len(q) : h[i] = Rec(i, h)
    <3> HIDE DEF Rec
    <3> QED
      BY <1>3
  <2>2. h = [i \in 0..Len(q) |-> Rec(i, h)]
    <3> HIDE DEF Rec
    <3> QED
      BY <2>1
  <2> HIDE DEF Rec
  <2> QED
    BY <2>2
<1>5. \A i \in 0..Len(q) : G[i] = Rec(i, G)
  <2> HIDE DEF G, Rec
  <2> QED
    BY <1>4
<1>6. Those(q, S) = G[Len(q)]
  BY DEF Those
<1> DEFINE Q == {n \in Nat : n <= Len(q) => Good(G[n], n)}
<1>7. 0 \in Q
  <2>1. G[0] = <<>>
    <3> HIDE DEF G
    <3> QED
      BY <1>0, <1>5
  <2>2. Good(<<>>, 0)
    BY DEF Keeps, Distinct
  <2> HIDE DEF G, Good
  <2> QED
    BY <2>1, <2>2
<1>8. ASSUME NEW n \in Nat, n \in Q PROVE n + 1 \in Q
  <2> SUFFICES ASSUME n + 1 <= Len(q) PROVE Good(G[n + 1], n + 1)
    <3> HIDE DEF G, Good
    <3> QED
      OBVIOUS
  <2>1. G[n + 1] = Rec(n + 1, G) /\ n + 1 \in 1..Len(q) /\ Good(G[n], n)
    <3>1. n + 1 \in 0..Len(q) /\ n + 1 \in 1..Len(q) /\ n <= Len(q)
      BY <1>0
    <3> HIDE DEF G, Good, Rec
    <3> QED
      BY <1>5, <1>8, <3>1
  <2>2. G[n + 1] = IF q[n + 1] \in S THEN Append(G[n], q[n + 1]) ELSE G[n]
    <3> HIDE DEF G
    <3> QED
      BY <2>1
  <2> HIDE DEF G
  <2> QED
    BY <2>1, <2>2, KeepsStep
<1>9. \A n \in Nat : n \in Q
  <2> HIDE DEF Q
  <2> QED
    BY <1>7, <1>8, NumberInduction
<1>10. Good(Those(q, S), Len(q))
  <2> HIDE DEF G, Good
  <2> QED
    BY <1>0, <1>6, <1>9
<1>11. PICK x \in Seq(T) : x = Those(q, S) /\ Keeps(q, S, x, Len(q))
  <2> HIDE DEF P, Q, G
  <2> QED
    BY <1>10
<1>12. Members(x) \subseteq Members(q) \cap S
  <2>1. \A k \in 1..Len(x) : x[k] \in S /\ \E j \in 1..Len(q) : x[k] = q[j]
    BY <1>11 DEF Keeps
  <2> QED
    BY <2>1 DEF Members
<1>13. Members(q) \cap S \subseteq Members(x)
  <2>1. \A j \in 1..Len(q) : q[j] \in S => \E k \in 1..Len(x) : x[k] = q[j]
    BY <1>11 DEF Keeps
  <2> QED
    BY <2>1 DEF Members
<1>14. Distinct(x) /\ SameOrder(x, q)
  BY <1>11 DEF Keeps, SameOrder
<1> HIDE DEF P, Q, G
<1> QED
  BY <1>11, <1>12, <1>13, <1>14

\* Members of queues that are put together.
LEMMA AppendedMembers ==
    ASSUME NEW T, NEW q \in Seq(T), NEW p \in T
    PROVE  /\ Append(q, p) \in Seq(T) /\ Members(Append(q, p)) = Members(q) \cup {p}
           /\ Distinct(q) /\ p \notin Members(q) => Distinct(Append(q, p))
<1> DEFINE r == Append(q, p)
<1>1. /\ r \in Seq(T) /\ Len(r) = Len(q) + 1 /\ Len(q) \in Nat /\ r[Len(q) + 1] = p
      /\ \A k \in 1..Len(q) : r[k] = q[k]
  OBVIOUS
<1> HIDE DEF r
<1>2. \A k \in 1..Len(r) : k \in 1..Len(q) \/ k = Len(q) + 1
  BY <1>1
<1>3. \A k \in 1..Len(q) : k \in 1..Len(r)
  BY <1>1
<1>3a. Len(q) + 1 \in 1..Len(r)
  BY <1>1
<1>4. Members(r) = Members(q) \cup {p}
  <2>1. Members(r) \subseteq Members(q) \cup {p}
    BY <1>1, <1>2 DEF Members
  <2>2. Members(q) \cup {p} \subseteq Members(r)
    BY <1>1, <1>3, <1>3a DEF Members
  <2> QED
    BY <2>1, <2>2
<1>5. ASSUME Distinct(q), p \notin Members(q) PROVE Distinct(r)
  <2> SUFFICES ASSUME NEW i \in 1..Len(r), NEW j \in 1..Len(r), r[i] = r[j] PROVE i = j
    BY DEF Distinct
  <2>1. \A k \in 1..Len(q) : q[k] # p
    BY <1>5 DEF Members
  <2>2. CASE i \in 1..Len(q) /\ j \in 1..Len(q)
    BY <1>1, <1>5, <2>2 DEF Distinct
  <2> QED
    BY <1>1, <1>2, <2>1, <2>2
<1> QED
  BY <1>1, <1>4, <1>5 DEF r

LEMMA JoinedMembers ==
    ASSUME NEW T, NEW q \in Seq(T), NEW r \in Seq(T)
    PROVE  /\ q \o r \in Seq(T) /\ Members(q \o r) = Members(q) \cup Members(r)
           /\ Apart(q, r) => Distinct(q \o r)
<1> DEFINE x == q \o r
<1>1. /\ x \in Seq(T) /\ Len(x) = Len(q) + Len(r) /\ Len(q) \in Nat /\ Len(r) \in Nat
      /\ \A k \in 1..Len(x) : x[k] = IF k <= Len(q) THEN q[k] ELSE r[k - Len(q)]
  OBVIOUS
<1> HIDE DEF x
<1>2. \A k \in 1..Len(x) : (k \in 1..Len(q) /\ x[k] = q[k])
                          \/ (k > Len(q) /\ k - Len(q) \in 1..Len(r) /\ x[k] = r[k - Len(q)])
  BY <1>1
<1>3. \A k \in 1..Len(q) : k \in 1..Len(x) /\ x[k] = q[k]
  BY <1>1
<1>4. \A k \in 1..Len(r) : Len(q) + k \in 1..Len(x) /\ x[Len(q) + k] = r[k]
  <2> TAKE k \in 1..Len(r)
  <2>1. Len(q) + k \in 1..Len(x) /\ ~(Len(q) + k <= Len(q)) /\ (Len(q) + k) - Len(q) = k
    BY <1>1
  <2> QED
    BY <1>1, <2>1
<1>5. Members(x) = Members(q) \cup Members(r)
  <2>1. Members(x) \subseteq Members(q) \cup Members(r)
    BY <1>2 DEF Members
  <2>2. Members(q) \subseteq Members(x)
    BY <1>3 DEF Members
  <2>3. Members(r) \subseteq Members(x)
    BY <1>4 DEF Members
  <2> QED
    BY <2>1, <2>2, <2>3
<1>6. ASSUME Apart(q, r) PROVE Distinct(x)
  <2> SUFFICES ASSUME NEW i \in 1..Len(x), NEW j \in 1..Len(x), x[i] = x[j] PROVE i = j
    BY DEF Distinct
  <2>1. \A k \in 1..Len(q), l \in 1..Len(r) : q[k] # r[l]
    BY <1>6 DEF Apart, Members
  <2>2. CASE i \in 1..Len(q) /\ j \in 1..Len(q)
    BY <1>3, <1>6, <2>2 DEF Apart, Distinct
  <2>3. CASE ~(i \in 1..Len(q)) /\ ~(j \in 1..Len(q))
    <3>1. i - Len(q) \in 1..Len(r) /\ j - Len(q) \in 1..Len(r) /\ r[i - Len(q)] = r[j - Len(q)]
      BY <1>2, <2>3
    <3>2. i - Len(q) = j - Len(q)
      BY <1>6, <3>1 DEF Apart, Distinct
    <3> QED
      BY <1>1, <3>2
  <2>4. CASE i \in 1..Len(q) /\ ~(j \in 1..Len(q))
    <3>1. x[i] = q[i] /\ j - Len(q) \in 1..Len(r) /\ x[j] = r[j - Len(q)]
      BY <1>2, <1>3, <2>4
    <3> QED
      BY <2>1, <2>4, <3>1
  <2>5. CASE ~(i \in 1..Len(q)) /\ j \in 1..Len(q)
    <3>1. x[j] = q[j] /\ i - Len(q) \in 1..Len(r) /\ x[i] = r[i - Len(q)]
      BY <1>2, <1>3, <2>5
    <3> QED
      BY <2>1, <2>5, <3>1
  <2> QED
    BY <2>2, <2>3, <2>4, <2>5
<1> QED
  BY <1>1, <1>5, <1>6 DEF x

\* Without the head of the free queue.
LEMMA TailMembers ==
    ASSUME NEW T, NEW q \in Seq(T), q # <<>>, Distinct(q)
    PROVE  /\ Tail(q) \in Seq(T) /\ Distinct(Tail(q)) /\ Head(q) \in Members(q)
           /\ Members(Tail(q)) \subseteq Members(q) \ {Head(q)}
<1> DEFINE x == Tail(q)
<1>1. /\ x \in Seq(T) /\ Len(x) = Len(q) - 1 /\ Len(q) \in Nat /\ Len(q) # 0 /\ Head(q) = q[1]
      /\ \A k \in 1..Len(x) : x[k] = q[k + 1]
  OBVIOUS
<1> HIDE DEF x
<1>2. \A k \in 1..Len(x) : k + 1 \in 1..Len(q) /\ k + 1 # 1
  BY <1>1
<1>3. 1 \in 1..Len(q)
  BY <1>1
<1>4. Members(x) \subseteq Members(q) \ {Head(q)}
  BY <1>1, <1>2, <1>3 DEF Members, Distinct
<1>5. Distinct(x)
  <2> SUFFICES ASSUME NEW i \in 1..Len(x), NEW j \in 1..Len(x), x[i] = x[j] PROVE i = j
    BY DEF Distinct
  <2>1. i + 1 = j + 1
    BY <1>1, <1>2 DEF Distinct
  <2> QED
    BY <2>1
<1> QED
  BY <1>1, <1>3, <1>4, <1>5 DEF x, Members
-----------------------------------------------------------------------------

\* What ReflectorSender says of the members of its queues.
LEMMA QueuesAre ==
    ASSUME QueueType, NEW s \in Senders
    PROVE  /\ Queued(s) = Members(packetQueue[s]) /\ Range(freeQueue[s]) = Members(freeQueue[s])
           /\ Owned(s) \subseteq Packets
           /\ DOMAIN packetQueue[s] = 1..Len(packetQueue[s]) /\ Len(packetQueue[s]) \in Nat
<1>1. packetQueue[s] \in Seq(Packets) /\ freeQueue[s] \in Seq(Packets)
  BY DEF QueueType
<1>2. Members(packetQueue[s]) \subseteq Packets /\ Members(freeQueue[s]) \subseteq Packets
  BY <1>1, RangeIs
<1> QED
  BY <1>1, <1>2, RangeIs DEF Queued, Owned

\* The queues of one sender change, and nobody else has the new members.
LEMMA PlacedStep ==
    ASSUME QueueType, Placed, NEW s \in Senders,
           NEW q \in Seq(Packets), NEW f \in Seq(Packets), Apart(q, f),
           NEW fresh, Members(q) \cup Members(f) \subseteq Owned(s) \cup fresh,
           \A t \in Senders : t # s => Owned(t) \cap fresh = {},
           packetQueue' = [packetQueue EXCEPT ![s] = q],
           freeQueue' = [freeQueue EXCEPT ![s] = f]
    PROVE  Placed' /\ packetQueue' \in [Senders -> Seq(Packets)]
                  /\ freeQueue' \in [Senders -> Seq(Packets)]
<1>1. /\ packetQueue' \in [Senders -> Seq(Packets)] /\ freeQueue' \in [Senders -> Seq(Packets)]
      /\ packetQueue'[s] = q /\ freeQueue'[s] = f
      /\ \A t \in Senders : t # s => /\ packetQueue'[t] = packetQueue[t]
                                     /\ freeQueue'[t] = freeQueue[t]
  BY DEF QueueType
<1>2. \A t \in Senders : t # s => Owned(t)' = Owned(t)
  BY <1>1 DEF Owned
<1>3. Owned(s)' \subseteq Owned(s) \cup fresh
  BY <1>1 DEF Owned
<1>4. ASSUME NEW t \in Senders PROVE Apart(packetQueue'[t], freeQueue'[t])
  BY <1>1 DEF Placed
<1>5. ASSUME NEW t \in Senders, NEW u \in Senders, t # u PROVE Owned(t)' \cap Owned(u)' = {}
  <2>1. \A v \in Senders : v # s => Owned(v) \cap Owned(s) = {}
    BY DEF Placed
  <2>2. CASE t # s /\ u # s
    BY <1>2, <1>5, <2>2 DEF Placed
  <2>3. CASE t = s
    BY <1>2, <1>3, <1>5, <2>1, <2>3
  <2>4. CASE u = s
    BY <1>2, <1>3, <1>5, <2>1, <2>4
  <2> QED
    BY <2>2, <2>3, <2>4
<1> QED
  BY <1>1, <1>4, <1>5 DEF Placed

LEMMA QueueStart == SenderInit => QueueInv
<1> SUFFICES ASSUME SenderInit PROVE QueueInv
  OBVIOUS
<1>1. QueueType
  BY SenderAssumption DEF SenderInit, QueueType, Contents, ResetData
<1>2. \A s \in Senders : /\ Apart(packetQueue[s], freeQueue[s]) /\ Owned(s) = Members(Preallocated[s])
  <2> TAKE s \in Senders
  <2>1. packetQueue[s] = <<>> /\ freeQueue[s] = Preallocated[s] /\ Preallocated[s] \in Seq(Packets)
    BY SenderAssumption DEF SenderInit
  <2>2. Members(<<>>) = {} /\ Distinct(<<>>)
    BY DEF Members, Distinct
  <2>3. DOMAIN Preallocated[s] = 1..Len(Preallocated[s])
    BY <2>1
  <2>4. Distinct(Preallocated[s])
    BY <2>3, SenderAssumption DEF Distinct
  <2> QED
    BY <2>1, <2>2, <2>4 DEF Apart, Owned
<1>3. ASSUME NEW s \in Senders, NEW t \in Senders, s # t
      PROVE  Members(Preallocated[s]) \cap Members(Preallocated[t]) = {}
  <2>1. /\ DOMAIN Preallocated[s] = 1..Len(Preallocated[s])
        /\ DOMAIN Preallocated[t] = 1..Len(Preallocated[t])
    BY SenderAssumption
  <2>2. ASSUME NEW i \in 1..Len(Preallocated[s]), NEW j \in 1..Len(Preallocated[t])
        PROVE  Preallocated[s][i] # Preallocated[t][j]
    <3>1. i \in DOMAIN Preallocated[s] /\ j \in DOMAIN Preallocated[t]
      BY <2>1
    <3> QED
      BY <1>3, <3>1, SenderAssumption
  <2> QED
    BY <2>2 DEF Members
<1>4. KeyFrameKept
  BY DEF SenderInit, KeyFrameKept
<1> QED
  BY <1>1, <1>2, <1>3, <1>4 DEF QueueInv, Placed

-----------------------------------------------------------------------------

\* Nobody has the packet that a sender takes.
LEMMA PacketTaken ==
    ASSUME QueueInv, NEW s \in Senders, NEW p \in Packets, Available(s), GetPacket(s, p)
    PROVE  /\ Rest(s) \in Seq(Packets) /\ Distinct(Rest(s))
           /\ Members(Rest(s)) \subseteq Members(freeQueue[s]) \ {p}
           /\ p \notin Members(packetQueue[s])
           /\ \A t \in Senders : t # s => p \notin Owned(t)
<1>1. /\ freeQueue[s] \in Seq(Packets) /\ Distinct(freeQueue[s])
      /\ Members(packetQueue[s]) \cap Members(freeQueue[s]) = {}
      /\ \A t \in Senders : t # s => Owned(t) \cap Owned(s) = {}
  BY DEF QueueInv, QueueType, Placed, Apart
<1>2. CASE freeQueue[s] # <<>>
  <2>1. p = Head(freeQueue[s]) /\ Rest(s) = Tail(freeQueue[s])
    BY <1>2 DEF GetPacket, Rest
  <2>2. p \in Members(freeQueue[s]) /\ Tail(freeQueue[s]) \in Seq(Packets)
        /\ Distinct(Tail(freeQueue[s]))
        /\ Members(Tail(freeQueue[s])) \subseteq Members(freeQueue[s]) \ {p}
    BY <1>1, <1>2, <2>1, TailMembers
  <2>3. p \in Owned(s)
    BY <2>2 DEF Owned
  <2> QED
    BY <1>1, <2>1, <2>2, <2>3
<1>3. CASE freeQueue[s] = <<>>
  <2>1. p = CHOOSE q \in Packets : q \notin Allocated \cup Bookmarked
    BY <1>3 DEF GetPacket
  <2>2. \E q \in Packets : q \notin Allocated \cup Bookmarked
    BY <1>3 DEF Available
  <2>3. p \notin Allocated
    BY <2>1, <2>2
  <2>4. \A t \in Senders : Owned(t) = Queued(t) \cup Range(freeQueue[t])
    BY QueuesAre DEF QueueInv, Owned
  <2>5. \A t \in Senders : p \notin Owned(t)
    BY <2>3, <2>4 DEF Allocated
  <2>6. Rest(s) = <<>> /\ Members(<<>>) = {} /\ Distinct(<<>>) /\ <<>> \in Seq(Packets)
    BY <1>3 DEF Rest, Members, Distinct
  <2> QED
    BY <2>5, <2>6 DEF Owned
<1> QED
  BY <1>2, <1>3

\* The key frames that are there stay, and the packet becomes one after it was queued.
LEMMA KeyFramesStay ==
    ASSUME QueueInv, NEW s \in Senders, NEW p \in Packets, NEW data \in Contents,
           NEW first \in BOOLEAN, BufferKeyFrame(s, p, data, first),
           \A t \in Senders : p \notin Members(packetQueue[t])
    PROVE  /\ packet' \in [Packets -> Contents]
           /\ keyFrame' \in [Senders -> Packets \cup {NoPacket}]
           /\ \A t \in Senders : keyFrame'[t] # NoPacket =>
                 /\ keyFrame'[t] \in Members(packetQueue[t]) \/ (t = s /\ keyFrame'[t] = p)
                 /\ packet'[keyFrame'[t]].needed
<1>1. /\ packet \in [Packets -> Contents] /\ keyFrame \in [Senders -> Packets \cup {NoPacket}]
      /\ p # NoPacket
  BY SenderAssumption DEF QueueInv, QueueType
<1>2. \A t \in Senders : keyFrame[t] # NoPacket =>
          /\ keyFrame[t] \in Members(packetQueue[t]) /\ packet[keyFrame[t]].needed
          /\ keyFrame[t] \in Packets /\ keyFrame[t] # p
  BY <1>1, QueuesAre DEF QueueInv, KeyFrameKept
<1>3. \A t \in Senders : keyFrame[t] # NoPacket /\ t # s => keyFrame[t] # keyFrame[s]
  <2> TAKE t \in Senders
  <2> HAVE keyFrame[t] # NoPacket /\ t # s
  <2>1. Owned(t) \cap Owned(s) = {}
    BY DEF QueueInv, Placed
  <2> QED
    BY <1>2, <2>1 DEF Owned
<1>4. CASE ~IsKeyFrame(s, first)
  <2>1. packet' = [packet EXCEPT ![p] = data] /\ keyFrame' = keyFrame
    BY <1>4 DEF BufferKeyFrame
  <2>2. packet' \in [Packets -> Contents] /\ \A q \in Packets : q # p => packet'[q] = packet[q]
    BY <1>1, <2>1
  <2>3. \A t \in Senders : keyFrame'[t] # NoPacket =>
          keyFrame'[t] \in Members(packetQueue[t]) /\ packet'[keyFrame'[t]].needed
    BY <1>2, <2>1, <2>2
  <2> QED
    BY <1>1, <2>1, <2>2, <2>3
<1>5. CASE IsKeyFrame(s, first)
  <2>1. /\ packet' = [q \in Packets |->
                 IF q = p THEN [data EXCEPT !.needed = TRUE]
                 ELSE IF q = keyFrame[s] THEN [packet[q] EXCEPT !.needed = FALSE]
                 ELSE packet[q]]
        /\ keyFrame' = [keyFrame EXCEPT ![s] = p]
    BY <1>5 DEF BufferKeyFrame
  <2>2. \A d \in Contents, b \in BOOLEAN : [d EXCEPT !.needed = b] \in Contents
                                         /\ [d EXCEPT !.needed = b].needed = b
    BY DEF Contents
  <2>3. packet' \in [Packets -> Contents] /\ packet'[p].needed
        /\ \A q \in Packets : q # p /\ q # keyFrame[s] => packet'[q] = packet[q]
    BY <1>1, <2>1, <2>2
  <2>4. keyFrame' \in [Senders -> Packets \cup {NoPacket}] /\ keyFrame'[s] = p
        /\ \A t \in Senders : t # s => keyFrame'[t] = keyFrame[t]
    BY <1>1, <2>1
  <2>5. ASSUME NEW t \in Senders, t # s, keyFrame'[t] # NoPacket
        PROVE  keyFrame'[t] \in Members(packetQueue[t]) /\ packet'[keyFrame'[t]].needed
    BY <1>2, <1>3, <2>3, <2>4, <2>5
  <2>6. keyFrame'[s] = p /\ packet'[keyFrame'[s]].needed
    BY <2>3, <2>4
  <2>7. ASSUME NEW t \in Senders, keyFrame'[t] # NoPacket
        PROVE  /\ keyFrame'[t] \in Members(packetQueue[t]) \/ (t = s /\ keyFrame'[t] = p)
               /\ packet'[keyFrame'[t]].needed
    BY <2>5, <2>6, <2>7
  <2> QED
    BY <2>3, <2>4, <2>7
<1> QED
  BY <1>4, <1>5

LEMMA IncomingStep ==
    ASSUME QueueInv, NEW s \in Senders, GetIncomingData(s)
    PROVE  QueueInv'
<1>1. PICK p \in Packets, fate \in Fates(s), first \in BOOLEAN :
          Available(s) /\ GetPacket(s, p) /\ ProcessPacket(s, p, fate, first)
  BY DEF GetIncomingData
<1>2. /\ Rest(s) \in Seq(Packets) /\ Distinct(Rest(s))
      /\ Members(Rest(s)) \subseteq Members(freeQueue[s]) \ {p}
      /\ p \notin Members(packetQueue[s])
      /\ \A t \in Senders : t # s => p \notin Owned(t)
  BY <1>1, PacketTaken
<1>3. /\ packetQueue[s] \in Seq(Packets) /\ Distinct(packetQueue[s])
      /\ Members(packetQueue[s]) \cap Members(freeQueue[s]) = {}
      /\ \A t \in Senders : t # s => Owned(t) \cap {p} = {}
      /\ \A t \in Senders : p \notin Members(packetQueue[t])
  BY <1>2 DEF QueueInv, QueueType, Placed, Apart, Owned
<1>4. CASE fate = "queued"
  <2>1. /\ packetCount' = [packetCount EXCEPT ![s] = @ + 1]
        /\ packetQueue' = [packetQueue EXCEPT ![s] = Append(packetQueue[s], p)]
        /\ BufferKeyFrame(s, p, [id |-> packetCount[s] + 1, age |-> 0,
                                 needed |-> packet[p].needed], first)
        /\ freeQueue' = [freeQueue EXCEPT ![s] = Rest(s)]
    BY <1>1, <1>4 DEF ProcessPacket
  <2>2. /\ Append(packetQueue[s], p) \in Seq(Packets)
        /\ Members(Append(packetQueue[s], p)) = Members(packetQueue[s]) \cup {p}
        /\ Distinct(Append(packetQueue[s], p))
    BY <1>3, AppendedMembers
  <2>3. Apart(Append(packetQueue[s], p), Rest(s))
    BY <1>2, <1>3, <2>2 DEF Apart
  <2>4. Members(Append(packetQueue[s], p)) \cup Members(Rest(s)) \subseteq Owned(s) \cup {p}
    BY <1>2, <2>2 DEF Owned
  <2>5. Placed' /\ packetQueue' \in [Senders -> Seq(Packets)] /\ freeQueue' \in [Senders -> Seq(Packets)]
    BY <1>2, <1>3, <2>1, <2>2, <2>3, <2>4, PlacedStep DEF QueueInv
  <2>6. packetCount' \in [Senders -> Nat] /\ packetCount[s] + 1 \in Nat /\ packet[p] \in Contents
    BY <2>1 DEF QueueInv, QueueType
  <2>7. [id |-> packetCount[s] + 1, age |-> 0, needed |-> packet[p].needed] \in Contents
    BY <2>6 DEF Contents
  <2>8. /\ packet' \in [Packets -> Contents]
        /\ keyFrame' \in [Senders -> Packets \cup {NoPacket}]
        /\ \A t \in Senders : keyFrame'[t] # NoPacket =>
              /\ keyFrame'[t] \in Members(packetQueue[t]) \/ (t = s /\ keyFrame'[t] = p)
              /\ packet'[keyFrame'[t]].needed
    BY <1>3, <2>1, <2>7, KeyFramesStay
  <2>9. QueueType'
    BY <2>5, <2>6, <2>8 DEF QueueType
  <2>10. \A t \in Senders : Members(packetQueue[t]) \cup (IF t = s THEN {p} ELSE {})
                               \subseteq Range(packetQueue'[t])
    <3> TAKE t \in Senders
    <3>1. Range(packetQueue'[t]) = Members(packetQueue'[t])
      BY <2>5, RangeIs
    <3>2. packetQueue'[t] = IF t = s THEN Append(packetQueue[s], p) ELSE packetQueue[t]
      BY <2>1 DEF QueueInv, QueueType
    <3> QED
      BY <2>2, <3>1, <3>2
  <2>11. KeyFrameKept'
    BY <2>8, <2>10 DEF KeyFrameKept, Queued
  <2> QED
    BY <2>5, <2>9, <2>11 DEF QueueInv
<1>5. CASE fate # "queued"
  <2> DEFINE back == IF fate = "lost" THEN <<>> ELSE <<p>>
             f == Rest(s) \o back
  <2>1. /\ freeQueue' = [freeQueue EXCEPT ![s] = f]
        /\ UNCHANGED <<packetQueue, packet, packetCount, keyFrame, keyUpdate>>
    BY <1>1, <1>5 DEF ProcessPacket
  <2>2. back \in Seq(Packets) /\ Distinct(back) /\ Members(back) \subseteq {p}
    BY DEF Distinct, Members
  <2> HIDE DEF back
  <2>3. f \in Seq(Packets) /\ Distinct(f) /\ Members(f) \subseteq Members(freeQueue[s]) \cup {p}
        /\ Members(f) \cap Members(packetQueue[s]) = {}
    <3>1. Apart(Rest(s), back)
      BY <1>2, <2>2 DEF Apart
    <3> QED
      BY <1>2, <1>3, <2>2, <3>1, JoinedMembers
  <2> HIDE DEF f
  <2>4. Apart(packetQueue[s], f) /\ Members(packetQueue[s]) \cup Members(f) \subseteq Owned(s) \cup {p}
    BY <1>3, <2>3 DEF Apart, Owned
  <2>5. packetQueue' = [packetQueue EXCEPT ![s] = packetQueue[s]]
    BY <2>1 DEF QueueInv, QueueType
  <2>6. Placed' /\ packetQueue' \in [Senders -> Seq(Packets)] /\ freeQueue' \in [Senders -> Seq(Packets)]
    BY <1>3, <2>1, <2>3, <2>4, <2>5, PlacedStep DEF QueueInv
  <2> QED
    BY <2>1, <2>6 DEF QueueInv, QueueType, KeyFrameKept, Queued
<1> QED
  BY <1>4, <1>5
-----------------------------------------------------------------------------

\* What is removed and what loses its mark: never the key frame of a sender.
LEMMA StopsAtKeyFrame ==
    ASSUME QueueInv, NEW s \in Senders, NEW marked, keyFrame[s] # NoPacket
    PROVE  keyFrame[s] \notin Passed(s, marked) \cup Cleared(s, marked)
<1> DEFINE n == Len(packetQueue[s])
           Stops == {n + 1} \cup {i \in DOMAIN packetQueue[s] :
                       /\ ~Removable(At(s, i), marked)
                       /\ At(s, i) = keyFrame[s] \/ packet[At(s, i)].age <= MaxAge}
<1>1. /\ keyFrame[s] \in Members(packetQueue[s]) /\ packet[keyFrame[s]].needed
      /\ DOMAIN packetQueue[s] = 1..n /\ n \in Nat /\ Distinct(packetQueue[s])
  BY QueuesAre DEF QueueInv, KeyFrameKept, Placed, Apart
<1>2. PICK k \in 1..n : At(s, k) = keyFrame[s]
  BY <1>1 DEF Members, At
<1>3. k \in Stops
  BY <1>1, <1>2 DEF Removable
<1>4. Stops \subseteq Nat
  BY <1>1
<1>5. StopAt(s, marked) = Min(Stops)
  BY DEF StopAt
<1> HIDE DEF Stops
<1>6. Min(Stops) \in Stops /\ \A i \in Stops : Min(Stops) <= i
  BY <1>3, <1>4, MinIs
<1>7. StopAt(s, marked) \in Nat /\ StopAt(s, marked) <= k
  BY <1>3, <1>4, <1>5, <1>6
<1>8. keyFrame[s] \notin Passed(s, marked)
  <2> SUFFICES ASSUME NEW i \in 1..(StopAt(s, marked) - 1), At(s, i) = keyFrame[s] PROVE FALSE
    BY DEF Passed
  <2>1. i \in 1..n /\ i # k
    BY <1>1, <1>7
  <2> QED
    BY <1>1, <1>2, <2>1 DEF At, Distinct
<1> QED
  BY <1>8 DEF Cleared

\* What is removed was in the queue.
LEMMA PassedQueued ==
    ASSUME QueueInv, NEW s \in Senders, NEW marked
    PROVE  Passed(s, marked) \cup Cleared(s, marked) \subseteq Queued(s)
<1> DEFINE n == Len(packetQueue[s])
           Stops == {n + 1} \cup {i \in DOMAIN packetQueue[s] :
                       /\ ~Removable(At(s, i), marked)
                       /\ At(s, i) = keyFrame[s] \/ packet[At(s, i)].age <= MaxAge}
<1>1. DOMAIN packetQueue[s] = 1..n /\ n \in Nat /\ Queued(s) = Members(packetQueue[s])
  BY QueuesAre DEF QueueInv
<1>2. Stops \subseteq Nat /\ n + 1 \in Stops
  BY <1>1
<1>3. StopAt(s, marked) = Min(Stops)
  BY DEF StopAt
<1> HIDE DEF Stops
<1>4. Min(Stops) \in Stops /\ \A i \in Stops : Min(Stops) <= i
  BY <1>2, MinIs
<1>5. StopAt(s, marked) \in Nat /\ StopAt(s, marked) <= n + 1
  BY <1>2, <1>3, <1>4
<1>6. \A i \in 1..(StopAt(s, marked) - 1) : i \in 1..n
  BY <1>1, <1>5
<1>7. Passed(s, marked) \subseteq Members(packetQueue[s])
  BY <1>6 DEF Passed, At, Members
<1>8. Cleared(s, marked) \subseteq Passed(s, marked) \cup Members(packetQueue[s])
  BY <1>1 DEF Cleared, At, Members
<1> QED
  BY <1>1, <1>7, <1>8

LEMMA RemoveStep ==
    ASSUME QueueInv, NEW s \in Senders, NEW marked, RemoveOldPackets(s, marked),
           UNCHANGED <<packetCount, keyFrame>>
    PROVE  QueueInv'
<1> DEFINE gone == {p \in Passed(s, marked) : Removable(p, marked)}
           rest == Those(packetQueue[s], Queued(s) \ gone)
           freed == Those(packetQueue[s], gone)
           new(p) == [packet[p] EXCEPT !.needed = (@ \/ p \in marked) /\ p \notin Cleared(s, marked)]
<1>1. /\ packetQueue' = [packetQueue EXCEPT ![s] = rest]
      /\ freeQueue' = [freeQueue EXCEPT ![s] = freeQueue[s] \o freed]
      /\ packet' = [p \in Packets |-> IF p \in gone THEN ResetData ELSE new(p)]
  BY DEF RemoveOldPackets
<1>2. gone \subseteq Queued(s) /\ Queued(s) = Members(packetQueue[s])
  BY PassedQueued, QueuesAre DEF QueueInv
<1>3. \A p \in gone : ~packet[p].needed
  BY DEF Removable
<1>4. keyFrame[s] # NoPacket => keyFrame[s] \notin gone /\ keyFrame[s] \notin Cleared(s, marked)
  BY StopsAtKeyFrame
<1>5. \A t \in Senders : keyFrame[t] # NoPacket =>
          keyFrame[t] \notin gone /\ keyFrame[t] \notin Cleared(s, marked)
  <2> SUFFICES ASSUME NEW t \in Senders, t # s, keyFrame[t] # NoPacket
               PROVE  keyFrame[t] \notin Queued(s)
    BY <1>2, <1>4, PassedQueued
  <2>1. keyFrame[t] \in Members(packetQueue[t])
    BY QueuesAre DEF QueueInv, KeyFrameKept
  <2>2. Owned(t) \cap Owned(s) = {}
    BY DEF QueueInv, Placed
  <2> QED
    BY <1>2, <2>1, <2>2 DEF Owned
<1> HIDE DEF gone
<1>6. /\ packetQueue[s] \in Seq(Packets) /\ freeQueue[s] \in Seq(Packets)
      /\ Apart(packetQueue[s], freeQueue[s])
  BY DEF QueueInv, QueueType, Placed
<1>7. /\ rest \in Seq(Packets) /\ Distinct(rest) /\ freed \in Seq(Packets) /\ Distinct(freed)
      /\ Members(rest) = Members(packetQueue[s]) \cap (Queued(s) \ gone)
      /\ Members(freed) = Members(packetQueue[s]) \cap gone
  BY <1>6, ThoseAre DEF Apart
<1> HIDE DEF rest, freed
<1>8. Members(rest) = Queued(s) \ gone /\ Members(freed) = gone
  BY <1>2, <1>7
<1>9. Apart(freeQueue[s], freed)
  BY <1>2, <1>6, <1>7, <1>8 DEF Apart
<1>10. /\ freeQueue[s] \o freed \in Seq(Packets) /\ Distinct(freeQueue[s] \o freed)
       /\ Members(freeQueue[s] \o freed) = Members(freeQueue[s]) \cup gone
  BY <1>6, <1>7, <1>8, <1>9, JoinedMembers
<1>11. /\ Apart(rest, freeQueue[s] \o freed)
       /\ Members(rest) \cup Members(freeQueue[s] \o freed) \subseteq Owned(s) \cup {}
  BY <1>2, <1>6, <1>7, <1>8, <1>10 DEF Apart, Owned
<1>12. Placed' /\ packetQueue' \in [Senders -> Seq(Packets)] /\ freeQueue' \in [Senders -> Seq(Packets)]
  <2>1. \A t \in Senders : t # s => Owned(t) \cap {} = {}
    OBVIOUS
  <2> QED
    BY <1>1, <1>7, <1>10, <1>11, <2>1, PlacedStep DEF QueueInv
<1>13. \A d \in Contents, b \in BOOLEAN : [d EXCEPT !.needed = b] \in Contents
                                        /\ [d EXCEPT !.needed = b].needed = b
  BY DEF Contents
<1>14. \A p \in Packets : new(p) \in Contents
                         /\ (packet[p].needed /\ p \notin Cleared(s, marked) => new(p).needed)
  <2> TAKE p \in Packets
  <2>1. PICK b \in BOOLEAN : b = ((packet[p].needed \/ p \in marked) /\ p \notin Cleared(s, marked))
    OBVIOUS
  <2>2. packet[p] \in Contents /\ new(p) = [packet[p] EXCEPT !.needed = b]
    BY <2>1 DEF QueueInv, QueueType
  <2> QED
    BY <1>13, <2>1, <2>2
<1> HIDE DEF new
<1>15. packet' \in [Packets -> Contents]
  <2>1. ResetData \in Contents
    BY DEF ResetData, Contents
  <2>2. \A p \in Packets : (IF p \in gone THEN ResetData ELSE new(p)) \in Contents
    BY <1>14, <2>1
  <2> QED
    BY <1>1, <2>2
<1>16. QueueType'
  BY <1>12, <1>15 DEF QueueInv, QueueType
<1>17. ASSUME NEW t \in Senders, keyFrame'[t] # NoPacket
       PROVE  keyFrame'[t] \in Queued(t)' /\ packet'[keyFrame'[t]].needed
  <2>1. PICK p \in Packets : /\ p = keyFrame[t] /\ p = keyFrame'[t] /\ p \in Queued(t)
                           /\ packet[p].needed /\ p \notin gone /\ p \notin Cleared(s, marked)
    BY <1>5, <1>17 DEF QueueInv, QueueType, KeyFrameKept
  <2>2. packet'[p].needed
    <3>1. packet'[p] = new(p)
      BY <1>1, <2>1
    <3>2. new(p).needed
      BY <1>14, <2>1
    <3> QED
      BY <3>1, <3>2
  <2>3. packetQueue'[t] = IF t = s THEN rest ELSE packetQueue[t]
    BY <1>1 DEF QueueInv, QueueType
  <2>4. Queued(t)' = Members(packetQueue'[t])
    BY <1>12, RangeIs DEF Queued
  <2>5. Queued(t) = Members(packetQueue[t])
    BY QueuesAre DEF QueueInv
  <2> QED
    BY <1>8, <2>1, <2>2, <2>3, <2>4, <2>5
<1>18. KeyFrameKept'
  BY <1>17 DEF KeyFrameKept
<1> QED
  BY <1>12, <1>16, <1>18 DEF QueueInv

-----------------------------------------------------------------------------

\* A packet may be marked, and gets older.
LEMMA OnlyContents ==
    ASSUME QueueInv, UNCHANGED <<packetQueue, freeQueue, packetCount, keyFrame>>,
           packet' \in [Packets -> Contents],
           \A p \in Packets : packet[p].needed => packet'[p].needed
    PROVE  QueueInv'
<1>1. QueueType'
  BY DEF QueueInv, QueueType
<1>2. Placed'
  BY DEF QueueInv, Placed, Owned
<1>3. KeyFrameKept'
  BY DEF QueueInv, QueueType, KeyFrameKept, Queued
<1> QED
  BY <1>1, <1>2, <1>3 DEF QueueInv

LEMMA PlayStep ==
    ASSUME QueueInv, NEW o \in Outputs, DoPlay(o) \/ PlayWaits(o)
    PROVE  QueueInv'
<1>1. UNCHANGED <<packetQueue, freeQueue, packetCount, keyFrame>>
  BY Zenon DEF DoPlay, PlayWaits
<1>2. packet' = packet \/ \E done : HaveStreamBuffers(o, done)
  BY Zenon DEF DoPlay, PlayWaits
<1>3. CASE packet' = packet
  BY <1>1, <1>3, OnlyContents DEF QueueInv, QueueType
<1>4. CASE \E done : HaveStreamBuffers(o, done)
  <2>1. PICK done : HaveStreamBuffers(o, done)
    BY <1>4
  <2> DEFINE starts == [s \in done |-> At(s, BufferStart(s, StartOffset))]
             R == Range(starts)
             new(p) == [packet[p] EXCEPT !.needed = @ \/ p \in R]
  <2>2. packet' = [p \in Packets |-> new(p)]
    BY <2>1 DEF HaveStreamBuffers
  <2> HIDE DEF R
  <2>3. \A p \in Packets : new(p) \in Contents /\ (packet[p].needed => new(p).needed)
    <3> TAKE p \in Packets
    <3>1. packet[p] \in Contents
      BY DEF QueueInv, QueueType
    <3> QED
      BY <3>1 DEF Contents
  <2> HIDE DEF new
  <2> QED
    BY <1>1, <2>2, <2>3, OnlyContents
<1> QED
  BY <1>2, <1>3, <1>4

LEMMA ClockStep ==
    ASSUME QueueInv, SenderTick
    PROVE  QueueInv'
<1> DEFINE age(p) == IF \E s \in Senders : p \in Queued(s)
                     THEN Min({packet[p].age + 1, MaxAge + 1}) ELSE packet[p].age
           new(p) == [packet[p] EXCEPT !.age = age(p)]
<1>1. packet' = [p \in Packets |-> new(p)]
  BY DEF SenderTick
<1>2. \A p \in Packets : packet[p] \in Contents /\ packet[p].age \in Nat
  BY DEF QueueInv, QueueType, Contents
<1>3. ASSUME NEW a \in Nat PROVE Min({a + 1, MaxAge + 1}) \in Nat
  <2>1. {a + 1, MaxAge + 1} \subseteq Nat
    BY SenderAssumption
  <2> QED
    BY <2>1, MinIs
<1>4. \A p \in Packets : age(p) \in Nat
  BY <1>2, <1>3
<1> HIDE DEF age
<1>5. \A p \in Packets : new(p) \in Contents /\ new(p).needed = packet[p].needed
  BY <1>2, <1>4 DEF Contents
<1> HIDE DEF new
<1>6. packet' \in [Packets -> Contents] /\ \A p \in Packets : packet[p].needed => packet'[p].needed
  BY <1>1, <1>5
<1> QED
  BY <1>6, OnlyContents DEF SenderTick

LEMMA QueueStep == QueueInv /\ [SenderNext]_senderVars => QueueInv'
<1> SUFFICES ASSUME QueueInv, [SenderNext]_senderVars PROVE QueueInv'
  OBVIOUS
<1>0. ASSUME UNCHANGED <<packetQueue, freeQueue, packet, packetCount, keyFrame>> PROVE QueueInv'
  BY <1>0, OnlyContents DEF QueueInv, QueueType
<1>1. ASSUME NEW s \in Senders, GetIncomingData(s) PROVE QueueInv'
  BY <1>1, IncomingStep
<1>2. ASSUME NEW s \in Senders, ReflectorRun(s) PROVE QueueInv'
  <2>1. PICK room \in Rooms(s) : ReflectPackets(s, room)
    BY <1>2 DEF ReflectorRun
  <2>2. PICK marked : RemoveOldPackets(s, marked)
    BY <2>1, Zenon DEF ReflectPackets
  <2>3. UNCHANGED <<packetCount, keyFrame>>
    BY <2>1, Zenon DEF ReflectPackets
  <2> QED
    BY <2>2, <2>3, RemoveStep
<1>3. ASSUME NEW o \in Outputs, DoPlay(o) \/ PlayWaits(o) PROVE QueueInv'
  BY <1>3, PlayStep
<1>4. ASSUME NEW o \in Outputs, Setup(o) \/ Pause(o) \/ RemoveOutput(o) PROVE QueueInv'
  BY <1>0, <1>4 DEF Setup, Pause, RemoveOutput, queueVars
<1>5. CASE SenderTick
  BY <1>5, ClockStep
<1>6. CASE UNCHANGED senderVars
  BY <1>0, <1>6 DEF senderVars, queueVars
<1> QED
  BY <1>1, <1>2, <1>3, <1>4, <1>5, <1>6 DEF SenderNext

\* The packet that new clients start at is in the queue and marked as needed, whatever
\* arrives, gets old or is sent (BufferKeyFrame, RemoveOldPackets).
THEOREM KeyFrameStays == SenderSpec => []KeyFrameKept
<1>1. QueueInv => KeyFrameKept
  BY DEF QueueInv
<1> QED
  BY <1>1, QueueStart, QueueStep, PTL DEF SenderSpec

\* No packet is in two queues, or twice in one (GetPacket, ProcessPacket, RemoveOldPackets).
THEOREM PacketsStayApart == SenderSpec => []PacketsInOnePlace
<1>1. QueueInv => PacketsInOnePlace
  <2> SUFFICES ASSUME QueueInv, NEW s \in Senders, NEW t \in Senders
               PROVE  LET both == packetQueue[s] \o freeQueue[s]
                      IN  /\ \A i, j \in DOMAIN both : both[i] = both[j] => i = j
                          /\ s # t => (Queued(s) \cup Range(freeQueue[s]))
                                      \cap (Queued(t) \cup Range(freeQueue[t])) = {}
    BY DEF PacketsInOnePlace
  <2> DEFINE both == packetQueue[s] \o freeQueue[s]
  <2>1. both \in Seq(Packets) /\ Distinct(both)
    BY JoinedMembers DEF QueueInv, QueueType, Placed
  <2> HIDE DEF both
  <2>2. \A i, j \in DOMAIN both : both[i] = both[j] => i = j
    BY <2>1 DEF Distinct
  <2>3. s # t => (Queued(s) \cup Range(freeQueue[s])) \cap (Queued(t) \cup Range(freeQueue[t])) = {}
    BY QueuesAre DEF QueueInv, Placed, Owned
  <2> QED
    BY <2>2, <2>3 DEF both
<1> QED
  BY <1>1, QueueStart, QueueStep, PTL DEF SenderSpec

-----------------------------------------------------------------------------
(***************************************************************************)
(* PlaceKept for any senders, outputs, packets and ages.                   *)
(*                                                                         *)
(* Packets are numbered as they arrive, and a queue has them in their      *)
(* order, so that what is behind a bookmark can be told from its number.   *)
(* An output that has not paused has bookmarks in queues only, at most one *)
(* in each, and one where something was sent to it.                        *)
(***************************************************************************)
Id(p) == packet[p].id
Numbered(s) ==
    \A i \in 1..Len(packetQueue[s]) :
        /\ Id(packetQueue[s][i]) <= packetCount[s]
        /\ \A j \in 1..Len(packetQueue[s]) : i < j => Id(packetQueue[s][i]) < Id(packetQueue[s][j])
NumberInv == \A s \in Senders : Numbered(s)

-----------------------------------------------------------------------------

\* The packets that were in a queue keep their numbers.
SameNumbers ==
    \A s \in Senders : \A p \in Members(packetQueue[s]) :
        p \in Members(packetQueue'[s]) => packet'[p].id = packet[p].id

\* A packet arrives behind those of a queue, or no queue changes.
Arrives(s, p) ==
    /\ p \in Packets /\ \A t \in Senders : p \notin Members(packetQueue[t])
    /\ packet'[p].id = packetCount[s] + 1
    /\ packetCount' = [packetCount EXCEPT ![s] = @ + 1]
    /\ packetQueue' = [packetQueue EXCEPT ![s] = Append(@, p)]

LEMMA IncomingNumbers ==
    ASSUME QueueInv, NEW s \in Senders, GetIncomingData(s)
    PROVE  /\ SameNumbers
           /\ \/ \E p \in Packets : Arrives(s, p)
              \/ UNCHANGED <<packetQueue, packetCount, packet>>
<1>1. PICK p \in Packets, fate \in Fates(s), first \in BOOLEAN :
          Available(s) /\ GetPacket(s, p) /\ ProcessPacket(s, p, fate, first)
  BY DEF GetIncomingData
<1>2. CASE fate # "queued"
  <2>1. UNCHANGED <<packetQueue, packetCount, packet>>
    BY <1>1, <1>2 DEF ProcessPacket
  <2> QED
    BY <2>1 DEF SameNumbers
<1>3. CASE fate = "queued"
  <2> DEFINE data == [id |-> packetCount[s] + 1, age |-> 0, needed |-> packet[p].needed]
  <2>1. /\ packetCount' = [packetCount EXCEPT ![s] = @ + 1]
        /\ packetQueue' = [packetQueue EXCEPT ![s] = Append(@, p)]
        /\ BufferKeyFrame(s, p, data, first)
    BY <1>1, <1>3 DEF ProcessPacket
  <2>2. \A t \in Senders : p \notin Members(packetQueue[t])
    <3>1. p \notin Members(packetQueue[s]) /\ \A t \in Senders : t # s => p \notin Owned(t)
      BY <1>1, PacketTaken
    <3> QED
      BY <3>1 DEF Owned
  <2>3. packet \in [Packets -> Contents]
    BY DEF QueueInv, QueueType
  <2>4. packet'[p].id = data.id /\ \A q \in Packets : q # p => packet'[q].id = packet[q].id
    <3>1. CASE ~IsKeyFrame(s, first)
      <4>1. packet' = [packet EXCEPT ![p] = data]
        BY <2>1, <3>1 DEF BufferKeyFrame
      <4> HIDE DEF data
      <4> QED
        BY <2>3, <4>1
    <3>2. CASE IsKeyFrame(s, first)
      <4>1. packet' = [q \in Packets |->
                 IF q = p THEN [data EXCEPT !.needed = TRUE]
                 ELSE IF q = keyFrame[s] THEN [packet[q] EXCEPT !.needed = FALSE]
                 ELSE packet[q]]
        BY <2>1, <3>2 DEF BufferKeyFrame
      <4>2. \A q \in Packets : packet[q] \in Contents
        BY <2>3
      <4>3. \A d \in Contents, b \in BOOLEAN : [d EXCEPT !.needed = b].id = d.id
        BY DEF Contents
      <4>4. [data EXCEPT !.needed = TRUE].id = data.id
        OBVIOUS
      <4> HIDE DEF data
      <4> QED
        BY <4>1, <4>2, <4>3, <4>4
    <3> QED
      BY <3>1, <3>2
  <2>5. Arrives(s, p)
    BY <2>1, <2>2, <2>4 DEF Arrives
  <2>6. SameNumbers
    <3>1. \A t \in Senders : Members(packetQueue[t]) \subseteq Packets
      BY QueuesAre DEF QueueInv, Owned
    <3> QED
      BY <2>2, <2>4, <3>1 DEF SameNumbers
  <2> QED
    BY <2>5, <2>6
<1> QED
  BY <1>2, <1>3

\* What ReflectPackets leaves of its queue.
Shrinks(s, marked) ==
    /\ SameNumbers
    /\ packetQueue'[s] \in Seq(Packets) /\ Distinct(packetQueue'[s])
    /\ SameOrder(packetQueue'[s], packetQueue[s])
    /\ Members(packetQueue'[s]) \subseteq Members(packetQueue[s])
    /\ Members(packetQueue[s]) \cap marked \subseteq Members(packetQueue'[s])
    /\ \A t \in Senders : t # s => packetQueue'[t] = packetQueue[t]

LEMMA RemovedNumbers ==
    ASSUME QueueInv, NEW s \in Senders, NEW marked, RemoveOldPackets(s, marked)
    PROVE  Shrinks(s, marked)
<1> DEFINE gone == {p \in Passed(s, marked) : Removable(p, marked)}
           rest == Those(packetQueue[s], Queued(s) \ gone)
           new(p) == [packet[p] EXCEPT !.needed = (@ \/ p \in marked) /\ p \notin Cleared(s, marked)]
<1>1. /\ packetQueue' = [packetQueue EXCEPT ![s] = rest]
      /\ packet' = [p \in Packets |-> IF p \in gone THEN ResetData ELSE new(p)]
  BY DEF RemoveOldPackets
<1>2. gone \subseteq Queued(s) /\ gone \cap marked = {}
  BY PassedQueued DEF Removable
<1> HIDE DEF gone
<1>3. /\ packetQueue \in [Senders -> Seq(Packets)] /\ packet \in [Packets -> Contents]
      /\ Distinct(packetQueue[s])
  BY DEF QueueInv, QueueType, Placed, Apart
<1>4. Queued(s) = Members(packetQueue[s])
  BY QueuesAre DEF QueueInv
<1>5. /\ rest \in Seq(Packets) /\ Distinct(rest) /\ SameOrder(rest, packetQueue[s])
      /\ Members(rest) = Members(packetQueue[s]) \cap (Queued(s) \ gone)
  <2>1. packetQueue[s] \in Seq(Packets)
    BY <1>3
  <2> QED
    BY <1>3, <2>1, ThoseAre
<1> HIDE DEF rest
<1>6. packetQueue'[s] = rest /\ \A t \in Senders : t # s => packetQueue'[t] = packetQueue[t]
  BY <1>1, <1>3
<1>7. \A p \in Packets : p \notin gone => packet'[p].id = packet[p].id
  <2>1. \A d \in Contents, b \in BOOLEAN : [d EXCEPT !.needed = b].id = d.id
    BY DEF Contents
  <2>2. \A p \in Packets : new(p).id = packet[p].id
    <3> TAKE p \in Packets
    <3>1. PICK b \in BOOLEAN : b = ((packet[p].needed \/ p \in marked) /\ p \notin Cleared(s, marked))
      OBVIOUS
    <3>2. packet[p] \in Contents /\ new(p) = [packet[p] EXCEPT !.needed = b]
      BY <1>3, <3>1
    <3> QED
      BY <2>1, <3>2
  <2> HIDE DEF new
  <2>3. \A p \in Packets : p \notin gone => packet'[p] = new(p)
    BY <1>1
  <2> QED
    BY <2>2, <2>3
<1>8. SameNumbers
  <2> SUFFICES ASSUME NEW t \in Senders, NEW p \in Members(packetQueue[t]),
                      p \in Members(packetQueue'[t])
               PROVE  packet'[p].id = packet[p].id
    BY DEF SameNumbers
  <2>1. p \in Packets
    BY QueuesAre DEF QueueInv, Owned
  <2>2. CASE t = s
    BY <1>5, <1>6, <1>7, <2>1, <2>2
  <2>3. CASE t # s
    <3>1. Owned(t) \cap Owned(s) = {}
      BY <2>3 DEF QueueInv, Placed
    <3>2. p \notin gone
      BY <1>2, <1>4, <3>1 DEF Owned
    <3> QED
      BY <1>7, <2>1, <3>2
  <2> QED
    BY <2>2, <2>3
<1>9. /\ Members(packetQueue'[s]) \subseteq Members(packetQueue[s])
      /\ Members(packetQueue[s]) \cap marked \subseteq Members(packetQueue'[s])
  BY <1>2, <1>4, <1>5, <1>6
<1> QED
  BY <1>5, <1>6, <1>8, <1>9 DEF Shrinks

\* Steps that touch no queue leave the numbers alone.
LEMMA OtherNumbers ==
    ASSUME QueueInv, \/ \E o \in Outputs : \/ Setup(o) \/ DoPlay(o) \/ PlayWaits(o)
                                           \/ Pause(o) \/ RemoveOutput(o)
                     \/ SenderTick \/ UNCHANGED senderVars
    PROVE  SameNumbers /\ UNCHANGED <<packetQueue, packetCount>>
<1>1. UNCHANGED <<packetQueue, packetCount>>
  BY Zenon DEF Setup, DoPlay, PlayWaits, Pause, RemoveOutput, SenderTick, senderVars, queueVars
<1>2. \/ packet' = packet \/ SenderTick \/ \E done : \E o : HaveStreamBuffers(o, done)
  BY Zenon DEF Setup, DoPlay, PlayWaits, Pause, RemoveOutput, senderVars, queueVars
<1>3. \A p \in Packets : packet[p] \in Contents
  BY DEF QueueInv, QueueType
<1>4. \A p \in Packets : packet'[p].id = packet[p].id
  <2>1. CASE packet' = packet
    BY <2>1
  <2>2. CASE SenderTick
    BY <1>3, <2>2 DEF SenderTick, Contents
  <2>3. ASSUME NEW done, NEW o, HaveStreamBuffers(o, done)
        PROVE  \A p \in Packets : packet'[p].id = packet[p].id
    BY <1>3, <2>3 DEF HaveStreamBuffers, Contents
  <2> QED
    BY <1>2, <2>1, <2>2, <2>3
<1>5. \A t \in Senders : Members(packetQueue[t]) \subseteq Packets
  BY QueuesAre DEF QueueInv, Owned
<1> QED
  BY <1>1, <1>4, <1>5 DEF SameNumbers

\* The numbers in a queue that has not changed.
LEMMA NumberedSame ==
    ASSUME QueueInv, SameNumbers, NEW s \in Senders, Numbered(s),
           packetQueue'[s] = packetQueue[s], packetCount'[s] = packetCount[s]
    PROVE  Numbered(s)'
<1>1. \A i \in 1..Len(packetQueue[s]) : packet'[packetQueue[s][i]].id = packet[packetQueue[s][i]].id
  BY DEF SameNumbers, Members
<1> QED
  BY <1>1 DEF Numbered, Id

LEMMA NumberStep == QueueInv /\ NumberInv /\ [SenderNext]_senderVars => NumberInv'
<1> SUFFICES ASSUME QueueInv, NumberInv, [SenderNext]_senderVars, NEW t \in Senders
             PROVE  Numbered(t)'
  BY DEF NumberInv
<1>0. Numbered(t)
  BY DEF NumberInv
<1>1. ASSUME NEW s \in Senders, GetIncomingData(s) PROVE Numbered(t)'
  <2>1. SameNumbers
    BY <1>1, IncomingNumbers
  <2>2. CASE UNCHANGED <<packetQueue, packetCount, packet>>
    BY <1>0, <2>1, <2>2, NumberedSame
  <2>3. ASSUME NEW p \in Packets, Arrives(s, p) PROVE Numbered(t)'
    <3>0. packetCount \in [Senders -> Nat] /\ packetQueue \in [Senders -> Seq(Packets)]
      BY DEF QueueInv, QueueType
    <3>1. CASE t # s
      <4>1. packetQueue'[t] = packetQueue[t] /\ packetCount'[t] = packetCount[t]
        BY <2>3, <3>0, <3>1 DEF Arrives
      <4> QED
        BY <1>0, <2>1, <4>1, NumberedSame
    <3>2. CASE t = s
      <4>1. PICK q \in Seq(Packets) : q = packetQueue[t]
        BY <3>0
      <4>2. PICK r \in Seq(Packets) : r = packetQueue'[t] /\ r = Append(q, p)
        <5>1. packetQueue'[t] = Append(q, p)
          BY <2>3, <3>0, <3>2, <4>1 DEF Arrives
        <5>2. Append(q, p) \in Seq(Packets)
          OBVIOUS
        <5> QED
          BY <5>1, <5>2
      <4>3. PICK n \in Nat : n = packetCount[t] /\ packetCount'[t] = n + 1
        BY <2>3, <3>0, <3>2 DEF Arrives
      <4>4. /\ Len(r) = Len(q) + 1 /\ Len(q) \in Nat /\ r[Len(q) + 1] = p
            /\ \A i \in 1..Len(q) : r[i] = q[i]
        BY <4>2
      <4>5. \A i \in 1..Len(q) : /\ packet'[r[i]].id = packet[q[i]].id
                               /\ packet[q[i]].id \in Nat /\ packet[q[i]].id <= n
        <5> TAKE i \in 1..Len(q)
        <5>1. q[i] \in Members(q) /\ r[i] = q[i] /\ q[i] \in Packets
          BY <4>4 DEF Members
        <5>2. i \in 1..Len(r)
          BY <4>4
        <5>3. q[i] \in Members(r)
          BY <5>1, <5>2 DEF Members
        <5>4. packet'[q[i]].id = packet[q[i]].id
          BY <2>1, <4>1, <4>2, <5>1, <5>3 DEF SameNumbers
        <5>5. packet[q[i]].id \in Nat
          BY <5>1 DEF QueueInv, QueueType, Contents
        <5>6. packet[q[i]].id <= n
          BY <1>0, <4>1, <4>3 DEF Numbered, Id
        <5> QED
          BY <5>1, <5>4, <5>5, <5>6
      <4>6. packet'[p].id = n + 1
        BY <2>3, <3>2, <4>3 DEF Arrives
      <4>7. \A i, j \in 1..Len(q) : i < j => packet[q[i]].id < packet[q[j]].id
        BY <1>0, <4>1 DEF Numbered, Id
      <4>8. \A i \in 1..Len(r) : i \in 1..Len(q) \/ i = Len(q) + 1
        BY <4>4
      <4>9. ASSUME NEW i \in 1..Len(r) PROVE packet'[r[i]].id <= n + 1
        BY <4>4, <4>5, <4>6, <4>8
      <4>10. ASSUME NEW i \in 1..Len(r), NEW j \in 1..Len(r), i < j
             PROVE  packet'[r[i]].id < packet'[r[j]].id
        <5>1. i \in 1..Len(q)
          BY <4>4, <4>10
        <5>2. CASE j \in 1..Len(q)
          BY <4>5, <4>7, <4>10, <5>1, <5>2
        <5>3. CASE j = Len(q) + 1
          <6>1. packet'[r[j]].id = n + 1
            BY <4>4, <4>6, <5>3
          <6>2. packet'[r[i]].id \in Nat /\ packet'[r[i]].id <= n
            BY <4>5, <5>1
          <6> QED
            BY <6>1, <6>2
        <5> QED
          BY <4>8, <5>2, <5>3
      <4> QED
        BY <4>2, <4>3, <4>9, <4>10 DEF Numbered, Id
    <3> QED
      BY <3>1, <3>2
  <2> QED
    BY <1>1, <2>2, <2>3, IncomingNumbers
<1>2. ASSUME NEW s \in Senders, ReflectorRun(s) PROVE Numbered(t)'
  <2>1. PICK room \in Rooms(s) : ReflectPackets(s, room)
    BY <1>2 DEF ReflectorRun
  <2>2. PICK marked : RemoveOldPackets(s, marked)
    BY <2>1, Zenon DEF ReflectPackets
  <2>3. packetCount' = packetCount
    BY <2>1, Zenon DEF ReflectPackets
  <2>4. Shrinks(s, marked)
    BY <2>2, RemovedNumbers
  <2>5. CASE t # s
    BY <1>0, <2>3, <2>4, <2>5, NumberedSame DEF Shrinks
  <2>6. CASE t = s
    <3>1. PICK q : q = packetQueue[t]
      OBVIOUS
    <3>2. PICK r : r = packetQueue'[t]
      OBVIOUS
    <3>3. SameOrder(r, q) /\ Members(r) \subseteq Members(q)
      BY <2>4, <2>6, <3>1, <3>2 DEF Shrinks
    <3>4. \A p \in Members(r) : packet'[p].id = packet[p].id
      BY <2>4, <3>1, <3>2, <3>3 DEF Shrinks, SameNumbers
    <3>5. ASSUME NEW i \in 1..Len(r) PROVE packet'[r[i]].id <= packetCount'[t]
      <4>1. r[i] \in Members(r)
        BY DEF Members
      <4>2. PICK j \in 1..Len(q) : r[i] = q[j]
        BY <3>3, <4>1 DEF Members
      <4>3. packet[q[j]].id <= packetCount[t]
        BY <1>0, <3>1 DEF Numbered, Id
      <4> QED
        BY <2>3, <3>4, <4>1, <4>2, <4>3
    <3>6. ASSUME NEW i \in 1..Len(r), NEW j \in 1..Len(r), i < j
          PROVE  packet'[r[i]].id < packet'[r[j]].id
      <4>1. PICK k \in 1..Len(q), l \in 1..Len(q) : k < l /\ r[i] = q[k] /\ r[j] = q[l]
        BY <3>3, <3>6 DEF SameOrder
      <4>2. r[i] \in Members(r) /\ r[j] \in Members(r)
        BY DEF Members
      <4>3. packet[q[k]].id < packet[q[l]].id
        BY <1>0, <3>1, <4>1 DEF Numbered, Id
      <4> QED
        BY <3>4, <4>1, <4>2, <4>3
    <3> QED
      BY <3>2, <3>5, <3>6 DEF Numbered, Id
  <2> QED
    BY <2>5, <2>6
<1>3. ASSUME \/ \E o \in Outputs : \/ Setup(o) \/ DoPlay(o) \/ PlayWaits(o)
                                   \/ Pause(o) \/ RemoveOutput(o)
             \/ SenderTick \/ UNCHANGED senderVars
      PROVE  Numbered(t)'
  BY <1>0, <1>3, OtherNumbers, NumberedSame
<1> QED
  BY <1>1, <1>2, <1>3 DEF SenderNext
-----------------------------------------------------------------------------

OutputType ==
    /\ watch \in [Outputs -> {"none", "ready", "playing"}] /\ paused \in [Outputs -> BOOLEAN]
    /\ bookmarks \in [Outputs -> [1..NumBookmarks -> Packets \cup {NoPacket}]]
    /\ lastSent \in [Outputs -> [Senders -> Nat]] /\ started \in [Outputs -> [Senders -> BOOLEAN]]

\* The bookmarks of an output that has not paused.
Unused(o) ==
    /\ \A i \in 1..NumBookmarks : bookmarks[o][i] = NoPacket
    /\ \A s \in Senders : lastSent[o][s] = 0
InQueues(o) ==
    \A i \in 1..NumBookmarks : bookmarks[o][i] # NoPacket => \E s \in Senders : i \in Mine(o, s)
OneEach(o) ==
    \A s \in Senders : \A i, j \in Mine(o, s) : i = j
Followed(o) ==
    \A s \in Senders : /\ started[o][s] <=> lastSent[o][s] > 0
                       /\ lastSent[o][s] > 0 => Mine(o, s) # {}
Marks(o) ==
    ~paused[o] => /\ watch[o] # "playing" => Unused(o)
                  /\ InQueues(o) /\ OneEach(o) /\ Followed(o)

PlaceInv == QueueInv /\ NumberInv /\ OutputType /\ \A o \in Outputs : Marks(o)

LEMMA PlaceStart == SenderInit => PlaceInv
<1> SUFFICES ASSUME SenderInit PROVE PlaceInv
  OBVIOUS
<1>1. NumberInv
  BY DEF SenderInit, NumberInv, Numbered
<1>2. OutputType
  BY DEF SenderInit, OutputType
<1>3. ASSUME NEW o \in Outputs PROVE Marks(o)
  <2>1. \A s \in Senders : Queued(s) = {}
    BY DEF SenderInit, Queued, Range
  <2>2. Unused(o) /\ \A s \in Senders : ~started[o][s]
    BY DEF SenderInit, Unused
  <2>3. \A s \in Senders : Mine(o, s) = {}
    BY <2>1 DEF Mine
  <2> QED
    BY <2>2, <2>3 DEF Marks, InQueues, OneEach, Followed, Unused
<1> QED
  BY <1>1, <1>2, <1>3, QueueStart DEF PlaceInv

-----------------------------------------------------------------------------

LEMMA IndexIs ==
    ASSUME QueueInv, NEW s \in Senders, NEW p \in Queued(s)
    PROVE  IndexOf(s, p) \in 1..Len(packetQueue[s]) /\ At(s, IndexOf(s, p)) = p
<1>1. DOMAIN packetQueue[s] = 1..Len(packetQueue[s]) /\ p \in Members(packetQueue[s])
  BY QueuesAre DEF QueueInv
<1>2. \E i \in DOMAIN packetQueue[s] : At(s, i) = p
  BY <1>1 DEF Members, At
<1> QED
  BY <1>1, <1>2 DEF IndexOf

\* A queue is read from a bookmark in it, or from a place of its own.
LEMMA StartIs ==
    ASSUME QueueInv, NEW s \in Senders, NEW o \in Outputs, packetQueue[s] # <<>>
    PROVE  /\ Start(o, s) \in 1..Len(packetQueue[s])
           /\ \A i \in Mine(o, s) : OneEach(o) => At(s, Start(o, s)) = bookmarks[o][i]
<1>0. DOMAIN packetQueue[s] = 1..Len(packetQueue[s]) /\ Len(packetQueue[s]) \in Nat
      /\ Len(packetQueue[s]) # 0
  <2>1. packetQueue[s] \in Seq(Packets)
    BY DEF QueueInv, QueueType
  <2> QED
    BY <2>1
<1>1. CASE Mine(o, s) # {}
  <2> DEFINE m == Min(Mine(o, s))
  <2>1. Mine(o, s) \subseteq Nat
    BY DEF Mine
  <2>2. m \in Mine(o, s)
    BY <1>1, <2>1, MinIs
  <2>3. Start(o, s) = IndexOf(s, bookmarks[o][m]) /\ bookmarks[o][m] \in Queued(s)
    BY <1>1, <2>2 DEF Start, Mine
  <2>4. Start(o, s) \in 1..Len(packetQueue[s]) /\ At(s, Start(o, s)) = bookmarks[o][m]
    BY <2>3, IndexIs
  <2> HIDE DEF m
  <2> QED
    BY <2>2, <2>4 DEF OneEach
<1>2. CASE Mine(o, s) = {}
  <2>1. Start(o, s) = NewOutputStart(s)
    BY <1>2 DEF Start
  <2>2. CASE keyFrame[s] # NoPacket
    <3>1. keyFrame[s] \in Queued(s) /\ NewOutputStart(s) = IndexOf(s, keyFrame[s])
      BY <2>2 DEF QueueInv, KeyFrameKept, NewOutputStart
    <3> QED
      BY <1>2, <2>1, <3>1, IndexIs
  <2>3. CASE keyFrame[s] = NoPacket
    <3>1. NewOutputStart(s) = IF BufferStart(s, 0) # 0 THEN BufferStart(s, 0) ELSE 1
      BY <2>3 DEF NewOutputStart
    <3>2. BufferStart(s, 0) # 0 => BufferStart(s, 0) \in 1..Len(packetQueue[s])
      <4> DEFINE young == {i \in DOMAIN packetQueue[s] : packet[At(s, i)].age <= OverBuffer - 0}
      <4>1. BufferStart(s, 0) = IF young = {} THEN 0 ELSE Min(young)
        BY DEF BufferStart
      <4>2. young \subseteq 1..Len(packetQueue[s]) /\ young \subseteq Nat
        BY <1>0
      <4> HIDE DEF young
      <4> QED
        BY <4>1, <4>2, MinIs
    <3>3. 1 \in 1..Len(packetQueue[s])
      BY <1>0
    <3> QED
      BY <1>2, <2>1, <3>1, <3>2, <3>3
  <2> QED
    BY <2>2, <2>3
<1> QED
  BY <1>1, <1>2

\* There is a bookmark for every sender.
LEMMA SlotIs ==
    ASSUME PlaceInv, NEW s \in Senders, NEW o \in Outputs, ~paused[o]
    PROVE  /\ Slot(o, s) \in 1..NumBookmarks
           /\ Slot(o, s) \in Mine(o, s) \/ (Mine(o, s) = {} /\ bookmarks[o][Slot(o, s)] = NoPacket)
<1>0. InQueues(o) /\ OneEach(o) /\ NumBookmarks \in Nat
  BY SenderAssumption DEF PlaceInv, Marks
<1>1. CASE Mine(o, s) # {}
  <2>1. Mine(o, s) \subseteq Nat /\ Mine(o, s) \subseteq 1..NumBookmarks
    BY DEF Mine
  <2>2. Slot(o, s) = Min(Mine(o, s))
    BY <1>1 DEF Slot
  <2> QED
    BY <1>1, <2>1, <2>2, MinIs
<1>2. CASE Mine(o, s) = {} /\ Empty(o) # {}
  <2>1. /\ Empty(o) \subseteq Nat /\ Empty(o) \subseteq 1..NumBookmarks
        /\ \A x \in Empty(o) : x <= NumBookmarks
    BY <1>0 DEF Empty
  <2>2. Slot(o, s) = Max(Empty(o))
    BY <1>2 DEF Slot
  <2>3. Slot(o, s) \in Empty(o)
    BY <1>0, <1>2, <2>1, <2>2, MaxIs
  <2> QED
    BY <1>2, <2>1, <2>3 DEF Empty
<1>3. CASE Mine(o, s) = {} /\ Empty(o) = {}
  <2> DEFINE T == Senders \ {s}
             f == [i \in 1..NumBookmarks |-> CHOOSE t \in T : i \in Mine(o, t)]
  <2>1. \A i \in 1..NumBookmarks : \E t \in T : i \in Mine(o, t)
    BY <1>0, <1>3 DEF InQueues, Empty
  <2>2. \A i \in 1..NumBookmarks : f[i] \in T /\ i \in Mine(o, f[i])
    BY <2>1
  <2>3. f \in [1..NumBookmarks -> T]
    BY <2>2
  <2> HIDE DEF f
  <2>4. IsFiniteSet(T) /\ Cardinality(T) = Cardinality(Senders) - 1 /\ Cardinality(Senders) \in Nat
        /\ Cardinality(T) \in Nat
    BY FS_RemoveElement, FS_CardinalityType, SenderAssumption
  <2>5. IsFiniteSet(1..NumBookmarks) /\ Cardinality(1..NumBookmarks) = NumBookmarks
    <3>1. NumBookmarks >= 1
      BY <1>0, <2>4, SenderAssumption
    <3> QED
      BY <1>0, <3>1, FS_Interval
  <2>6. Cardinality(T) < Cardinality(1..NumBookmarks)
    BY <1>0, <2>4, <2>5, SenderAssumption
  <2> HIDE DEF T
  <2>7. PICK i \in 1..NumBookmarks, j \in 1..NumBookmarks : i # j /\ f[i] = f[j]
    BY <2>3, <2>4, <2>5, <2>6, FS_PigeonHole
  <2> QED
    BY <1>0, <2>2, <2>7 DEF OneEach, T
<1> QED
  BY <1>1, <1>2, <1>3
-----------------------------------------------------------------------------

\* Some element of a set has n before it, unless all have fewer.
LEMMA RankReached ==
    ASSUME NEW L \in Nat, NEW S \in SUBSET (1..L), NEW i \in S, NEW n \in Nat, ~(Before(S, i) < n)
    PROVE  \E j \in S : j <= i /\ Before(S, j) = n
<1> DEFINE Lower(j) == {k \in S : k < j}
           T == {j \in S : Before(S, j) >= n}
<1>0. IsFiniteSet(S) /\ \A x \in S : x \in Nat
  <2>1. IsFiniteSet(1..L) /\ \A x \in 1..L : x \in Nat
    BY FS_Interval
  <2> QED
    BY <2>1, FS_Subset
<1>1. \A j \in S : /\ IsFiniteSet(Lower(j)) /\ Before(S, j) \in Nat
                  /\ Before(S, j) = Cardinality(Lower(j))
  <2> TAKE j \in S
  <2>1. IsFiniteSet(Lower(j))
    BY <1>0, FS_Subset
  <2> QED
    BY <2>1, FS_CardinalityType DEF Before
<1>1a. \A j \in S : Before(S, j) \in Nat
  <2> HIDE DEF Lower
  <2> QED
    BY <1>1
<1>2. T \subseteq Nat /\ i \in T
  <2>1. Before(S, i) >= n
    BY <1>1a
  <2> QED
    BY <1>0, <2>1
<1>3. PICK j \in T : \A k \in T : j <= k
  <2> HIDE DEF T
  <2> QED
    BY <1>2, LeastNumber
<1>3a. j \in S /\ Before(S, j) >= n /\ j \in Nat /\ j <= i
  BY <1>0, <1>2, <1>3
<1>4. CASE Before(S, j) = n
  BY <1>3a, <1>4
<1>5. CASE Before(S, j) # n
  <2>1. Before(S, j) > n
    BY <1>1a, <1>3a, <1>5
  <2>2. Lower(j) # {}
    <3> HIDE DEF Lower
    <3> QED
      BY <1>1, <1>3a, <2>1, FS_EmptySet
  <2>3. /\ Lower(j) \subseteq Nat /\ \A k \in Lower(j) : k <= j
    <3>1. \A k \in Lower(j) : k \in S /\ k < j
      OBVIOUS
    <3> HIDE DEF Lower
    <3>2. ASSUME NEW k \in Lower(j) PROVE k \in Nat /\ k <= j
      <4>1. k \in S /\ k < j
        BY <3>1
      <4>2. k \in Nat /\ j \in Nat
        BY <1>0, <1>3a, <4>1
      <4> QED
        BY <4>1, <4>2
    <3> QED
      BY <3>2
  <2>4. PICK k \in Lower(j) : \A x \in Lower(j) : x <= k
    <3> HIDE DEF Lower
    <3> QED
      BY <1>3a, <2>2, <2>3, GreatestNumber
  <2>5. k \in S /\ k < j /\ k \in Nat
    BY <1>0, <2>4
  <2>6. Lower(k) = Lower(j) \ {k}
    <3>1. \A x \in S : x < k <=> x < j /\ x # k
      <4> TAKE x \in S
      <4>1. x < j => x <= k
        BY <2>4
      <4>2. x \in Nat
        BY <1>0
      <4> QED
        BY <1>3a, <2>5, <4>1, <4>2
    <3> QED
      BY <3>1
  <2>7. Before(S, k) = Before(S, j) - 1
    <3> HIDE DEF Lower
    <3> QED
      BY <1>1, <1>3a, <2>4, <2>5, <2>6, FS_RemoveElement
  <2>8. Before(S, k) >= n
    BY <1>1a, <1>3a, <2>1, <2>7
  <2>9. k \in T
    BY <2>5, <2>8
  <2> QED
    BY <1>3, <1>3a, <2>5, <2>9
<1> QED
  BY <1>4, <1>5

\* What an output has got after it took r packets of a queue.
NowSent(o, s, r) ==
    IF Written(o, s, r) # {} THEN Id(At(s, Max(Written(o, s, r)))) ELSE lastSent[o][s]

LEMMA SentTo ==
    ASSUME PlaceInv, NEW s \in Senders, NEW o \in Outputs, packetQueue[s] # <<>>, NEW r \in Nat
    PROVE  /\ LastPacket(o, s, r) \in Queued(s)
           /\ NowSent(o, s, r) \in Nat /\ NowSent(o, s, r) >= lastSent[o][s]
           /\ ~paused[o] => (NowSent(o, s, r) > 0 <=> started[o][s] \/ Written(o, s, r) # {})
           /\ ~paused[o] /\ NowSent(o, s, r) > 0 =>
                 \A i \in 1..Len(packetQueue[s]) :
                    i >= Start(o, s) /\ Id(At(s, i)) > NowSent(o, s, r) =>
                       \E b \in Awaited(o, s) : b <= i /\ LastPacket(o, s, r) = At(s, b)
<1> DEFINE L == Len(packetQueue[s])
           S == ToWrite(o, s)
           W == Written(o, s, r)
           B == BlocksAt(o, s, r)
           rest == {i \in Start(o, s)..L : packet[At(s, i)].id > lastSent[o][s]}
           first == {i \in rest : packet[At(s, i)].id >= firstSeq[o][s]}
<1>0. /\ QueueInv /\ (~paused[o] => Followed(o)) /\ lastSent[o][s] \in Nat /\ L \in Nat /\ L # 0
      /\ Start(o, s) \in 1..L /\ DOMAIN packetQueue[s] = 1..L
      /\ Queued(s) = Members(packetQueue[s])
  <2>1. packetQueue[s] \in Seq(Packets)
    BY DEF PlaceInv, QueueInv, QueueType
  <2>2. L \in Nat /\ L # 0
    BY <2>1
  <2> QED
    BY <2>2, StartIs, QueuesAre DEF PlaceInv, QueueInv, Marks, OutputType
<1>1. /\ \A i \in 1..L : At(s, i) \in Queued(s) /\ Id(At(s, i)) \in Nat
      /\ \A i, j \in 1..L : i < j => Id(At(s, i)) < Id(At(s, j))
  <2>1. \A i \in 1..L : At(s, i) \in Queued(s)
    BY <1>0 DEF Members, At
  <2>2. Queued(s) \subseteq Packets /\ \A p \in Packets : Id(p) \in Nat
    BY <1>0, QueuesAre DEF QueueInv, QueueType, Owned, Contents, Id
  <2>3. \A i, j \in 1..L : i < j => Id(At(s, i)) < Id(At(s, j))
    BY DEF PlaceInv, NumberInv, Numbered, At
  <2> QED
    BY <2>1, <2>2, <2>3
<1>2. rest \subseteq 1..L /\ rest \subseteq Nat /\ first \subseteq rest
  BY <1>0
<1>3. S = IF started[o][s] \/ first = {} THEN (IF started[o][s] THEN rest ELSE {})
          ELSE {i \in rest : i >= Min(first)}
  BY DEF ToWrite
<1>4. \A i \in rest : Id(At(s, i)) > lastSent[o][s] /\ i \in Awaited(o, s)
  BY <1>0, <1>2 DEF Awaited, Id
<1>5. \A i \in 1..L : i >= Start(o, s) /\ Id(At(s, i)) > lastSent[o][s] => i \in rest
  BY <1>0 DEF Id
<1>6. first # {} => Min(first) \in first
  <2>1. first \subseteq Nat
    BY <1>2
  <2> HIDE DEF first
  <2> QED
    BY <2>1, MinIs
<1> HIDE DEF rest, first
<1>7. S \subseteq rest /\ S \in SUBSET (1..L)
  BY <1>2, <1>3
<1>8. W \subseteq S /\ B \subseteq S /\ (\A i \in S : i \in W <=> Before(S, i) < r)
      /\ (\A i \in S : i \in B <=> Before(S, i) = r)
  BY DEF Written, BlocksAt
<1> HIDE DEF S
<1>9. LastPacket(o, s, r) = At(s, IF B # {} THEN Min(B) ELSE L)
  BY DEF LastPacket
<1>9a. NowSent(o, s, r) = IF W # {} THEN Id(At(s, Max(W))) ELSE lastSent[o][s]
  BY DEF NowSent
<1> HIDE DEF W, B
<1>10. B # {} => Min(B) \in B /\ \A y \in B : Min(B) <= y
  <2>1. B \subseteq Nat
    BY <1>2, <1>7, <1>8
  <2> QED
    BY <2>1, MinIs
<1>11. W # {} => Max(W) \in W /\ \A y \in W : Max(W) >= y
  <2>1. W \subseteq Nat /\ \A x \in W : x <= L
    BY <1>7, <1>8
  <2> QED
    BY <1>0, <2>1, MaxIs
<1>12. LastPacket(o, s, r) \in Queued(s)
  <2>1. L \in 1..L
    BY <1>0
  <2>2. B # {} => Min(B) \in 1..L
    BY <1>7, <1>8, <1>10
  <2> QED
    BY <1>1, <1>9, <2>1, <2>2
<1>13. /\ NowSent(o, s, r) \in Nat /\ NowSent(o, s, r) >= lastSent[o][s]
       /\ W # {} => NowSent(o, s, r) > lastSent[o][s]
  <2>1. CASE W = {}
    BY <1>0, <1>9a, <2>1
  <2>2. CASE W # {}
    <3>1. PICK w \in W : w = Max(W)
      BY <1>11, <2>2
    <3>2. w \in rest /\ w \in 1..L
      BY <1>7, <1>8
    <3>3. Id(At(s, w)) > lastSent[o][s] /\ Id(At(s, w)) \in Nat
      BY <1>1, <1>4, <3>2
    <3> QED
      BY <1>0, <1>9a, <2>2, <3>1, <3>3
  <2> QED
    BY <2>1, <2>2
<1>14. ASSUME ~paused[o] PROVE NowSent(o, s, r) > 0 <=> started[o][s] \/ W # {}
  <2>1. started[o][s] <=> lastSent[o][s] > 0
    <3>1. Followed(o)
      BY <1>0, <1>14
    <3> QED
      BY <3>1, Zenon DEF Followed
  <2>2. W = {} => NowSent(o, s, r) = lastSent[o][s]
    BY <1>9a
  <2> QED
    BY <1>0, <1>13, <2>1, <2>2
<1>15. ASSUME ~paused[o], NowSent(o, s, r) > 0, NEW i \in 1..L, i >= Start(o, s), Id(At(s, i)) > NowSent(o, s, r)
       PROVE  \E b \in Awaited(o, s) : b <= i /\ LastPacket(o, s, r) = At(s, b)
  <2>1. i \in rest
    BY <1>0, <1>1, <1>5, <1>13, <1>15
  <2>2. W # {} => /\ Max(W) \in 1..L /\ Max(W) \in S
                  /\ \A w \in W : w \in 1..L /\ w <= Max(W) /\ Id(At(s, w)) <= NowSent(o, s, r)
    <3> SUFFICES ASSUME W # {} PROVE /\ Max(W) \in 1..L /\ Max(W) \in S
                  /\ \A w \in W : w \in 1..L /\ w <= Max(W) /\ Id(At(s, w)) <= NowSent(o, s, r)
      OBVIOUS
    <3>1. PICK m \in W : m = Max(W) /\ m \in 1..L /\ NowSent(o, s, r) = Id(At(s, m))
      BY <1>7, <1>8, <1>9a, <1>11
    <3>2. \A w \in W : w \in 1..L /\ w <= m
      BY <1>7, <1>8, <1>11, <3>1
    <3>3. \A w \in W : Id(At(s, w)) <= Id(At(s, m))
      <4> TAKE w \in W
      <4>1. w \in 1..L /\ w <= m /\ Id(At(s, w)) \in Nat /\ Id(At(s, m)) \in Nat
        BY <1>1, <3>1, <3>2
      <4>2. w = m \/ w < m
        BY <3>1, <4>1
      <4> QED
        BY <1>1, <3>1, <4>1, <4>2
    <3> QED
      BY <1>8, <3>1, <3>2, <3>3
  <2>3. i \notin W
    <3>1. ASSUME i \in W PROVE Id(At(s, i)) <= NowSent(o, s, r)
      BY <2>2, <3>1
    <3> QED
      BY <1>1, <1>13, <1>15, <3>1
  <2>4. i \in S
    <3>1. CASE started[o][s]
      BY <1>3, <2>1, <3>1
    <3>2. CASE ~started[o][s]
      <4>1. W # {}
        BY <1>14, <1>15, <3>2
      <4>2. PICK m \in 1..L : m = Max(W) /\ m \in S /\ NowSent(o, s, r) = Id(At(s, m))
        BY <1>9a, <2>2, <4>1
      <4>3. first # {} /\ m >= Min(first) /\ Min(first) \in 1..L
        BY <1>2, <1>3, <1>6, <3>2, <4>2
      <4>4. ~(i < m) /\ i # m
        BY <1>1, <1>15, <4>2
      <4>5. i >= Min(first)
        BY <4>3, <4>4
      <4> QED
        BY <1>3, <2>1, <3>2, <4>3, <4>5
    <3> QED
      BY <3>1, <3>2
  <2>5. PICK j \in S : j <= i /\ Before(S, j) = r
    <3>1. ~(Before(S, i) < r)
      BY <1>8, <2>3, <2>4
    <3>2. L \in Nat /\ S \in SUBSET (1..L)
      BY <1>0, <1>7
    <3> HIDE DEF L
    <3> QED
      BY <2>4, <3>1, <3>2, RankReached
  <2>6. j \in B
    BY <1>8, <2>5
  <2>7. Min(B) \in Awaited(o, s) /\ Min(B) <= j /\ Min(B) \in Nat /\ j \in Nat
    BY <1>2, <1>4, <1>7, <1>8, <1>10, <2>6
  <2> QED
    BY <1>9, <2>5, <2>6, <2>7
<1> QED
  BY <1>12, <1>13, <1>14, <1>15 DEF W
-----------------------------------------------------------------------------

\* What ReflectPackets does to an output, and the packets it marks.
Served(s, o) == watch[o] = "playing" /\ packetQueue[s] # <<>>
MarkOf(s, o, r) == NeedRelocateBookMark(s, LastPacket(o, s, r))
Marked(s, room) == {MarkOf(s, o, room[o]) : o \in {u \in Outputs : Served(s, u)}}

\* What ReflectPackets notes down of the output o.
StartedIs(s, room, o) ==
    \A t \in Senders : started'[o][t] <=>
        (started[o][t] \/ (t = s /\ Served(s, o) /\ Written(o, s, room[o]) # {}))

LEMMA ReflectEffect ==
    ASSUME PlaceInv, NEW s \in Senders, NEW room \in Rooms(s), ReflectPackets(s, room)
    PROVE  /\ RemoveOldPackets(s, Marked(s, room))
           /\ UNCHANGED <<packetCount, keyFrame, watch, paused>>
           /\ OutputType'
           /\ \A o \in Outputs :
                 /\ room[o] \in Nat
                 /\ Served(s, o) =>
                       /\ Slot(o, s) # 0 => bookmarks'[o] = [bookmarks[o] EXCEPT
                                                ![Slot(o, s)] = MarkOf(s, o, room[o])]
                       /\ lastSent'[o] = [lastSent[o] EXCEPT ![s] = NowSent(o, s, room[o])]
                 /\ ~Served(s, o) => bookmarks'[o] = bookmarks[o] /\ lastSent'[o] = lastSent[o]
                 /\ StartedIs(s, room, o)
<1> DEFINE served == IF packetQueue[s] = <<>> THEN {} ELSE Playing
           sent   == {o \in served : Written(o, s, room[o]) # {}}
           mark   == [o \in served |-> NeedRelocateBookMark(s, LastPacket(o, s, room[o]))]
<1>1. /\ bookmarks' = [o \in Outputs |->
               IF o \in served /\ Slot(o, s) # 0
               THEN [bookmarks[o] EXCEPT ![Slot(o, s)] = mark[o]] ELSE bookmarks[o]]
      /\ lastSent' = [o \in Outputs |->
               IF o \in sent
               THEN [lastSent[o] EXCEPT ![s] = packet[At(s, Max(Written(o, s, room[o])))].id]
               ELSE lastSent[o]]
      /\ started' = [o \in Outputs |-> [started[o] EXCEPT ![s] = @ \/ o \in sent]]
      /\ RemoveOldPackets(s, Range(mark))
      /\ UNCHANGED <<packetCount, keyFrame, watch, paused>>
  BY Zenon DEF ReflectPackets
<1>2. \A o \in Outputs : o \in served <=> Served(s, o)
  BY DEF Served, Playing
<1>3. served \subseteq Outputs
  BY DEF Playing
<1> HIDE DEF served
<1>4. \A o \in served : mark[o] = MarkOf(s, o, room[o])
  BY DEF MarkOf
<1>5. Range(mark) = Marked(s, room)
  <2>1. Range(mark) = {mark[o] : o \in served}
    BY DEF Range
  <2>2. served = {u \in Outputs : Served(s, u)}
    BY <1>2, <1>3
  <2> QED
    BY <1>4, <2>1, <2>2 DEF Marked
<1>6. \A o \in Outputs : o \in sent <=> Served(s, o) /\ Written(o, s, room[o]) # {}
  BY <1>2
<1> HIDE DEF sent, mark
<1>7. \A o \in Outputs : room[o] \in Nat
  BY SenderAssumption DEF Rooms, Counts
<1>8. /\ bookmarks \in [Outputs -> [1..NumBookmarks -> Packets \cup {NoPacket}]]
      /\ lastSent \in [Outputs -> [Senders -> Nat]] /\ started \in [Outputs -> [Senders -> BOOLEAN]]
  BY DEF PlaceInv, OutputType
<1>9. ASSUME NEW o \in Outputs
      PROVE  started'[o] \in [Senders -> BOOLEAN]
             /\ \A t \in Senders : started'[o][t] <=> (started[o][t] \/ (t = s /\ o \in sent))
  <2>1. started'[o] = [started[o] EXCEPT ![s] = @ \/ o \in sent]
    BY <1>1
  <2>2. PICK f \in [Senders -> BOOLEAN] : f = started[o]
    BY <1>8
  <2>3. PICK b \in BOOLEAN : b = (f[s] \/ o \in sent)
    OBVIOUS
  <2>4. started'[o] = [f EXCEPT ![s] = b]
    BY <2>1, <2>2, <2>3
  <2>5. b <=> (f[s] \/ o \in sent)
    BY <2>3, Zenon
  <2> QED
    BY <2>2, <2>4, <2>5
<1>10. ASSUME NEW o \in Outputs
       PROVE  lastSent'[o] = IF Served(s, o) THEN [lastSent[o] EXCEPT ![s] = NowSent(o, s, room[o])]
                             ELSE lastSent[o]
  <2>1. CASE o \in sent
    BY <1>1, <1>6, <2>1 DEF NowSent, Id
  <2>2. CASE o \notin sent /\ Served(s, o)
    <3>1. NowSent(o, s, room[o]) = lastSent[o][s]
      BY <1>6, <2>2 DEF NowSent
    <3> QED
      BY <1>1, <1>8, <2>2, <3>1
  <2>3. CASE ~Served(s, o)
    BY <1>1, <1>6, <2>3
  <2> QED
    BY <2>1, <2>2, <2>3
<1>11. ASSUME NEW o \in Outputs
       PROVE  /\ ~Served(s, o) => bookmarks'[o] = bookmarks[o]
              /\ Served(s, o) /\ Slot(o, s) # 0 =>
                    bookmarks'[o] = [bookmarks[o] EXCEPT ![Slot(o, s)] = MarkOf(s, o, room[o])]
              /\ Slot(o, s) = 0 => bookmarks'[o] = bookmarks[o]
  BY <1>1, <1>2, <1>4
<1>12. OutputType'
  <2>1. watch' = watch /\ paused' = paused
    BY <1>1
  <2>2. started' \in [Outputs -> [Senders -> BOOLEAN]]
    BY <1>1, <1>9
  <2>3. ASSUME NEW o \in Outputs, Served(s, o)
        PROVE  NowSent(o, s, room[o]) \in Nat /\ MarkOf(s, o, room[o]) \in Packets \cup {NoPacket}
    <3>1. packetQueue[s] # <<>>
      BY <2>3 DEF Served
    <3>2. NowSent(o, s, room[o]) \in Nat /\ LastPacket(o, s, room[o]) \in Queued(s)
      BY <1>7, <3>1, SentTo
    <3>3. Queued(s) \subseteq Packets
      BY QueuesAre DEF PlaceInv, QueueInv, Owned
    <3>4. keyFrame[s] \in Packets \cup {NoPacket}
      BY DEF PlaceInv, QueueInv, QueueType
    <3> QED
      BY <3>2, <3>3, <3>4 DEF MarkOf, NeedRelocateBookMark
  <2>4. ASSUME NEW o \in Outputs
        PROVE  lastSent'[o] \in [Senders -> Nat]
               /\ bookmarks'[o] \in [1..NumBookmarks -> Packets \cup {NoPacket}]
    <3>0. /\ lastSent[o] \in [Senders -> Nat]
          /\ bookmarks[o] \in [1..NumBookmarks -> Packets \cup {NoPacket}]
      BY <1>8
    <3>1. lastSent'[o] \in [Senders -> Nat]
      <4>1. CASE Served(s, o)
        <5>1. PICK n \in Nat : n = NowSent(o, s, room[o])
          BY <2>3, <4>1
        <5> QED
          BY <1>10, <3>0, <4>1, <5>1
      <4> QED
        BY <1>10, <3>0, <4>1
    <3>2. CASE Served(s, o) /\ Slot(o, s) # 0
      <4>1. PICK m \in Packets \cup {NoPacket} : m = MarkOf(s, o, room[o])
        BY <2>3, <3>2
      <4>2. bookmarks'[o] = [bookmarks[o] EXCEPT ![Slot(o, s)] = m]
        BY <1>11, <3>2, <4>1
      <4> QED
        BY <3>0, <3>1, <4>2
    <3>3. CASE ~(Served(s, o) /\ Slot(o, s) # 0)
      BY <1>8, <1>11, <3>1, <3>3
    <3> QED
      BY <3>2, <3>3
  <2>5. lastSent' \in [Outputs -> [Senders -> Nat]]
    BY <1>1, <2>4
  <2>6. bookmarks' \in [Outputs -> [1..NumBookmarks -> Packets \cup {NoPacket}]]
    BY <1>1, <2>4
  <2> QED
    BY <2>1, <2>2, <2>5, <2>6 DEF PlaceInv, OutputType
<1>13. ASSUME NEW o \in Outputs
       PROVE  StartedIs(s, room, o)
  <2>1. \A t \in Senders : started'[o][t] <=> (started[o][t] \/ (t = s /\ o \in sent))
    BY <1>9
  <2>2. o \in sent <=> Served(s, o) /\ Written(o, s, room[o]) # {}
    BY <1>6
  <2> QED
    BY <2>1, <2>2, Zenon DEF StartedIs
<1> QED
  BY <1>1, <1>5, <1>7, <1>10, <1>11, <1>12, <1>13
-----------------------------------------------------------------------------

\* An output with which nothing happens: its bookmarks are in the queues they were in.
LEMMA MarksSame ==
    ASSUME PlaceInv, NEW o \in Outputs,
           watch'[o] = watch[o] \/ (watch'[o] # "playing" /\ watch[o] # "playing"),
           paused'[o] = paused[o], bookmarks'[o] = bookmarks[o], lastSent'[o] = lastSent[o],
           \A s \in Senders : started'[o][s] <=> started[o][s],
           ~paused[o] => \A s \in Senders, i \in 1..NumBookmarks :
               bookmarks[o][i] \in Queued(s)' <=> bookmarks[o][i] \in Queued(s)
    PROVE  Marks(o)'
<1>1. SUFFICES ASSUME ~paused[o] PROVE Marks(o)'
  BY DEF Marks
<1>2. /\ watch[o] # "playing" => Unused(o)
      /\ InQueues(o) /\ OneEach(o) /\ Followed(o)
  BY <1>1 DEF PlaceInv, Marks
<1>3. \A s \in Senders : Mine(o, s)' = Mine(o, s)
  <2> TAKE s \in Senders
  <2>1. Mine(o, s) = {i \in 1..NumBookmarks : bookmarks[o][i] \in Queued(s)}
    BY DEF Mine
  <2>2. Mine(o, s)' = {i \in 1..NumBookmarks : bookmarks[o][i] \in Queued(s)'}
    BY DEF Mine
  <2> QED
    BY <1>1, <2>1, <2>2
<1>4. watch'[o] # "playing" => Unused(o)'
  BY <1>2 DEF Unused
<1>5. InQueues(o)' /\ OneEach(o)'
  BY <1>2, <1>3 DEF InQueues, OneEach
<1>6. Followed(o)'
  <2>1. \A s \in Senders : started'[o][s] <=> lastSent'[o][s] > 0
    <3>1. \A s \in Senders : started[o][s] <=> lastSent[o][s] > 0
      BY <1>2, Zenon DEF Followed
    <3>2. \A s \in Senders : started'[o][s] <=> started[o][s]
      OBVIOUS
    <3> QED
      BY <3>1, <3>2
  <2>2. \A s \in Senders : lastSent'[o][s] > 0 => Mine(o, s)' # {}
    BY <1>2, <1>3 DEF Followed
  <2> QED
    BY <2>1, <2>2, Zenon DEF Followed
<1> QED
  BY <1>1, <1>4, <1>5, <1>6 DEF Marks

\* Nothing is a bookmark in two queues, and no bookmark is the packet that arrives.
LEMMA QueuesDiffer ==
    ASSUME QueueInv, NEW s \in Senders, NEW t \in Senders, s # t, NEW p, p \in Queued(s)
    PROVE  p \notin Queued(t)
<1>1. Owned(s) \cap Owned(t) = {}
  BY DEF QueueInv, Placed
<1> QED
  BY <1>1, QueuesAre DEF QueueInv, Owned

LEMMA IncomingMarks ==
    ASSUME PlaceInv, QueueInv', NEW s \in Senders, GetIncomingData(s), NEW o \in Outputs
    PROVE  Marks(o)'
<1>1. /\ UNCHANGED outputVars
      /\ (\E p \in Packets : Arrives(s, p)) \/ UNCHANGED packetQueue
  <2>1. UNCHANGED outputVars
    BY DEF GetIncomingData
  <2> QED
    BY <2>1, IncomingNumbers DEF PlaceInv
<1>2. ASSUME ~paused[o], NEW t \in Senders, NEW i \in 1..NumBookmarks
      PROVE  bookmarks[o][i] \in Queued(t)' <=> bookmarks[o][i] \in Queued(t)
  <2>1. CASE UNCHANGED packetQueue
    BY <2>1 DEF Queued
  <2>2. ASSUME NEW p \in Packets, Arrives(s, p)
        PROVE  bookmarks[o][i] \in Queued(t)' <=> bookmarks[o][i] \in Queued(t)
    <3>1. packetQueue \in [Senders -> Seq(Packets)] /\ p # NoPacket
      BY SenderAssumption DEF PlaceInv, QueueInv, QueueType
    <3>2. Queued(t) = Members(packetQueue[t]) /\ packetQueue[t] \in Seq(Packets)
      BY <3>1, QueuesAre DEF PlaceInv, QueueInv
    <3>3. packetQueue'[t] = IF t = s THEN Append(packetQueue[t], p) ELSE packetQueue[t]
      BY <2>2, <3>1 DEF Arrives
    <3>4. /\ Append(packetQueue[t], p) \in Seq(Packets)
          /\ Members(Append(packetQueue[t], p)) = Members(packetQueue[t]) \cup {p}
      BY <3>2, AppendedMembers
    <3>5. packetQueue'[t] \in Seq(Packets)
      BY <3>2, <3>3, <3>4
    <3>6. Queued(t)' = Members(packetQueue'[t])
      BY <3>5, RangeIs DEF Queued
    <3>7. bookmarks[o][i] # p
      <4>1. InQueues(o)
        BY <1>2 DEF PlaceInv, Marks
      <4>2. bookmarks[o][i] # NoPacket => \E u \in Senders : bookmarks[o][i] \in Members(packetQueue[u])
        BY <4>1, QueuesAre DEF PlaceInv, QueueInv, InQueues, Mine
      <4> QED
        BY <2>2, <3>1, <4>2 DEF Arrives
    <3> QED
      BY <3>2, <3>3, <3>4, <3>6, <3>7
  <2> QED
    BY <1>1, <2>1, <2>2
<1> QED
  BY <1>1, <1>2, MarksSame DEF outputVars

\* The requests of a client, and the clock.
LEMMA OutputMarks ==
    ASSUME PlaceInv, \/ \E u \in Outputs : \/ Setup(u) \/ DoPlay(u) \/ PlayWaits(u)
                                          \/ Pause(u) \/ RemoveOutput(u)
                     \/ SenderTick \/ UNCHANGED senderVars
    PROVE  OutputType' /\ \A o \in Outputs : Marks(o)'
<1>0. UNCHANGED packetQueue
  BY Zenon DEF Setup, DoPlay, PlayWaits, Pause, RemoveOutput, SenderTick, senderVars, queueVars
<1>1. /\ watch \in [Outputs -> {"none", "ready", "playing"}] /\ paused \in [Outputs -> BOOLEAN]
      /\ bookmarks \in [Outputs -> [1..NumBookmarks -> Packets \cup {NoPacket}]]
      /\ lastSent \in [Outputs -> [Senders -> Nat]] /\ started \in [Outputs -> [Senders -> BOOLEAN]]
  BY DEF PlaceInv, OutputType
<1>2. \A s \in Senders : Queued(s)' = Queued(s)
  BY <1>0 DEF Queued
<1>3. ASSUME NEW o \in Outputs,
             watch'[o] = watch[o] \/ (watch'[o] # "playing" /\ watch[o] # "playing"),
             paused'[o] = paused[o], bookmarks'[o] = bookmarks[o], lastSent'[o] = lastSent[o],
             started'[o] = started[o]
      PROVE  Marks(o)'
  BY <1>2, <1>3, MarksSame
<1>4. CASE SenderTick \/ UNCHANGED senderVars
  <2>1. UNCHANGED <<watch, paused, bookmarks, lastSent, started>>
    BY <1>4, Zenon DEF SenderTick, senderVars, outputVars
  <2> QED
    BY <1>1, <1>3, <2>1 DEF OutputType
<1>5. ASSUME NEW u \in Outputs, Setup(u) PROVE OutputType' /\ \A o \in Outputs : Marks(o)'
  <2>1. /\ watch' = [watch EXCEPT ![u] = "ready"] /\ watch[u] = "none"
        /\ UNCHANGED <<paused, bookmarks, lastSent, started>>
    BY <1>5 DEF Setup
  <2>2. \A o \in Outputs : watch'[o] = watch[o] \/ (watch'[o] # "playing" /\ watch[o] # "playing")
    BY <1>1, <2>1
  <2> QED
    BY <1>1, <1>3, <2>1, <2>2 DEF OutputType
<1>6. ASSUME NEW u \in Outputs, DoPlay(u) \/ PlayWaits(u)
      PROVE  OutputType' /\ \A o \in Outputs : Marks(o)'
  <2>1. /\ watch[u] = "ready" /\ UNCHANGED <<paused, bookmarks, lastSent>>
        /\ started' = [started EXCEPT ![u] = [s \in Senders |-> FALSE]]
        /\ watch' = [watch EXCEPT ![u] = "playing"] \/ watch' = watch
    BY <1>6 DEF DoPlay, PlayWaits
  <2>2. \A o \in Outputs : o # u => watch'[o] = watch[o] /\ started'[o] = started[o]
    BY <1>1, <2>1
  <2>3. OutputType'
    BY <1>1, <2>1 DEF OutputType
  <2>4. ASSUME ~paused[u] PROVE Unused(u) /\ InQueues(u) /\ OneEach(u)
    BY <2>1, <2>4 DEF PlaceInv, Marks
  <2>5. Marks(u)'
    <3> SUFFICES ASSUME ~paused[u] PROVE Unused(u)' /\ InQueues(u)' /\ OneEach(u)' /\ Followed(u)'
      BY <2>1 DEF Marks
    <3>1. Unused(u) /\ InQueues(u) /\ OneEach(u)
      BY <2>4
    <3>2. \A s \in Senders : Mine(u, s)' = Mine(u, s)
      BY <1>2, <2>1 DEF Mine
    <3>3. Unused(u)' /\ InQueues(u)' /\ OneEach(u)'
      BY <2>1, <3>1, <3>2 DEF Unused, InQueues, OneEach
    <3>4. \A s \in Senders : started'[u][s] = FALSE /\ lastSent'[u][s] = 0
      BY <1>1, <2>1, <3>1 DEF Unused
    <3> QED
      BY <3>3, <3>4 DEF Followed
  <2>6. ASSUME NEW o \in Outputs, o # u PROVE Marks(o)'
    BY <1>3, <2>1, <2>2, <2>6
  <2> QED
    BY <2>3, <2>5, <2>6
<1>7. ASSUME NEW u \in Outputs, Pause(u) PROVE OutputType' /\ \A o \in Outputs : Marks(o)'
  <2>1. /\ watch' = [watch EXCEPT ![u] = "ready"] /\ paused' = [paused EXCEPT ![u] = TRUE]
        /\ UNCHANGED <<bookmarks, lastSent, started>>
    BY <1>7 DEF Pause
  <2>2. Marks(u)'
    BY <1>1, <2>1 DEF Marks
  <2>3. ASSUME NEW o \in Outputs, o # u PROVE Marks(o)'
    BY <1>1, <1>3, <2>1, <2>3
  <2> QED
    BY <1>1, <2>1, <2>2, <2>3 DEF OutputType
<1>8. ASSUME NEW u \in Outputs, RemoveOutput(u) PROVE OutputType' /\ \A o \in Outputs : Marks(o)'
  <2>1. /\ watch' = [watch EXCEPT ![u] = "none"] /\ paused' = [paused EXCEPT ![u] = FALSE]
        /\ bookmarks' = [bookmarks EXCEPT ![u] = [i \in 1..NumBookmarks |-> NoPacket]]
        /\ lastSent' = [lastSent EXCEPT ![u] = [s \in Senders |-> 0]]
        /\ started' = [started EXCEPT ![u] = [s \in Senders |-> FALSE]]
    BY <1>8 DEF RemoveOutput
  <2>2. OutputType'
    BY <1>1, <2>1 DEF OutputType
  <2>3. /\ \A i \in 1..NumBookmarks : bookmarks'[u][i] = NoPacket
        /\ \A s \in Senders : lastSent'[u][s] = 0 /\ started'[u][s] = FALSE
    BY <1>1, <2>1
  <2>4. \A s \in Senders : Mine(u, s)' = {}
    <3>1. \A s \in Senders : NoPacket \notin Queued(s)
      BY QueuesAre, SenderAssumption DEF PlaceInv, QueueInv, Owned
    <3> QED
      BY <1>2, <2>3, <3>1 DEF Mine
  <2>5. Marks(u)'
    BY <2>3, <2>4 DEF Marks, Unused, InQueues, OneEach, Followed
  <2>6. ASSUME NEW o \in Outputs, o # u PROVE Marks(o)'
    BY <1>1, <1>3, <2>1, <2>6
  <2> QED
    BY <2>2, <2>5, <2>6
<1> QED
  BY <1>4, <1>5, <1>6, <1>7, <1>8
-----------------------------------------------------------------------------

\* What is known when ReflectPackets has served an output: one bookmark is in the queue.
ServedIs(s, o, r, k) ==
    /\ k \in 1..NumBookmarks /\ Mine(o, s)' = {k} /\ bookmarks'[o][k] = MarkOf(s, o, r)
    /\ MarkOf(s, o, r) \in Queued(s)
    /\ \A i \in 1..NumBookmarks : i # k => bookmarks'[o][i] = bookmarks[o][i] /\ i \notin Mine(o, s)
    /\ \A t \in Senders : t # s => Mine(o, t)' = Mine(o, t) /\ k \notin Mine(o, t)
    /\ lastSent'[o][s] = NowSent(o, s, r)
    /\ \A t \in Senders : t # s => lastSent'[o][t] = lastSent[o][t]

LEMMA ServedHolds ==
    ASSUME PlaceInv, NEW s \in Senders, NEW room \in Rooms(s), ReflectPackets(s, room),
           NEW o \in Outputs, ~paused[o], Served(s, o)
    PROVE  ServedIs(s, o, room[o], Slot(o, s))
<1> DEFINE k == Slot(o, s)
           m == MarkOf(s, o, room[o])
<1>1. /\ k \in 1..NumBookmarks
      /\ k \in Mine(o, s) \/ (Mine(o, s) = {} /\ bookmarks[o][k] = NoPacket)
  BY SlotIs
<1>2. k # 0
  BY <1>1
<1>3. /\ bookmarks'[o] = [bookmarks[o] EXCEPT ![k] = m]
      /\ lastSent'[o] = [lastSent[o] EXCEPT ![s] = NowSent(o, s, room[o])]
      /\ room[o] \in Nat /\ RemoveOldPackets(s, Marked(s, room))
  BY <1>2, ReflectEffect
<1>4. /\ bookmarks[o] \in [1..NumBookmarks -> Packets \cup {NoPacket}]
      /\ lastSent[o] \in [Senders -> Nat]
  BY DEF PlaceInv, OutputType
<1>5. m \in Queued(s)
  <2>1. packetQueue[s] # <<>>
    BY DEF Served
  <2>2. LastPacket(o, s, room[o]) \in Queued(s)
    BY <1>3, <2>1, SentTo
  <2>3. keyFrame[s] # NoPacket => keyFrame[s] \in Queued(s)
    BY DEF PlaceInv, QueueInv, KeyFrameKept
  <2> QED
    BY <2>2, <2>3 DEF MarkOf, NeedRelocateBookMark
<1>6. m \in Marked(s, room)
  BY DEF Marked
<1> HIDE DEF m, k
<1>7. Shrinks(s, Marked(s, room))
  BY <1>3, RemovedNumbers DEF PlaceInv
<1>8. /\ Queued(s)' \subseteq Queued(s) /\ m \in Queued(s)'
      /\ \A t \in Senders : t # s => Queued(t)' = Queued(t)
  <2>1. Queued(s) = Members(packetQueue[s])
    BY QueuesAre DEF PlaceInv, QueueInv
  <2>2. Queued(s)' = Members(packetQueue'[s])
    BY <1>7, RangeIs DEF Queued, Shrinks
  <2>3. \A t \in Senders : t # s => Queued(t)' = Queued(t)
    BY <1>7 DEF Shrinks, Queued
  <2> QED
    BY <1>5, <1>6, <1>7, <2>1, <2>2, <2>3 DEF Shrinks
<1>9. /\ bookmarks'[o][k] = m
      /\ \A i \in 1..NumBookmarks : i # k => bookmarks'[o][i] = bookmarks[o][i]
  BY <1>1, <1>3, <1>4
<1>10. \A i \in 1..NumBookmarks : i # k => i \notin Mine(o, s)
  BY <1>1 DEF PlaceInv, Marks, OneEach
<1>11. Mine(o, s)' = {k}
  <2>1. \A i \in 1..NumBookmarks : i \in Mine(o, s)' <=> bookmarks'[o][i] \in Queued(s)'
    BY DEF Mine
  <2>2. Mine(o, s)' \subseteq 1..NumBookmarks
    BY DEF Mine
  <2>3. \A i \in 1..NumBookmarks : i # k => bookmarks[o][i] \notin Queued(s)
    BY <1>10 DEF Mine
  <2> QED
    BY <1>1, <1>8, <1>9, <2>1, <2>2, <2>3
<1>12. \A t \in Senders : t # s => Mine(o, t)' = Mine(o, t) /\ k \notin Mine(o, t)
  <2> SUFFICES ASSUME NEW t \in Senders, t # s
               PROVE  Mine(o, t)' = Mine(o, t) /\ k \notin Mine(o, t)
    OBVIOUS
  <2>1. m \notin Queued(t)
    BY <1>5, QueuesDiffer DEF PlaceInv
  <2>2. bookmarks[o][k] \notin Queued(t)
    <3>1. CASE k \in Mine(o, s)
      <4>1. bookmarks[o][k] \in Queued(s)
        BY <3>1 DEF Mine
      <4> QED
        BY <4>1, QueuesDiffer DEF PlaceInv
    <3>2. CASE bookmarks[o][k] = NoPacket
      BY <3>2, QueuesAre, SenderAssumption DEF PlaceInv, QueueInv, Owned
    <3> QED
      BY <1>1, <3>1, <3>2
  <2>3. \A i \in 1..NumBookmarks : bookmarks'[o][i] \in Queued(t)' <=> bookmarks[o][i] \in Queued(t)
    BY <1>8, <1>9, <2>1, <2>2
  <2>4. Mine(o, t) = {i \in 1..NumBookmarks : bookmarks[o][i] \in Queued(t)}
    BY DEF Mine
  <2>5. Mine(o, t)' = {i \in 1..NumBookmarks : bookmarks'[o][i] \in Queued(t)'}
    BY DEF Mine
  <2> QED
    BY <2>2, <2>3, <2>4, <2>5
<1>13. /\ lastSent'[o][s] = NowSent(o, s, room[o])
       /\ \A t \in Senders : t # s => lastSent'[o][t] = lastSent[o][t]
  BY <1>3, <1>4
<1> QED
  BY <1>1, <1>5, <1>9, <1>10, <1>11, <1>12, <1>13 DEF ServedIs, m, k

LEMMA ReflectMarks ==
    ASSUME PlaceInv, NEW s \in Senders, NEW room \in Rooms(s), ReflectPackets(s, room),
           NEW o \in Outputs
    PROVE  Marks(o)'
<1>1. /\ UNCHANGED <<watch, paused>> /\ room[o] \in Nat
      /\ RemoveOldPackets(s, Marked(s, room))
      /\ ~Served(s, o) => bookmarks'[o] = bookmarks[o] /\ lastSent'[o] = lastSent[o]
  BY ReflectEffect
<1>2. \A t \in Senders : started'[o][t] <=>
          (started[o][t] \/ (t = s /\ Served(s, o) /\ Written(o, s, room[o]) # {}))
  <2>1. StartedIs(s, room, o)
    BY ReflectEffect
  <2> QED
    BY <2>1, Zenon DEF StartedIs
<1>3. CASE ~Served(s, o)
  <2>1. ASSUME ~paused[o], NEW t \in Senders, NEW i \in 1..NumBookmarks
        PROVE  bookmarks[o][i] \in Queued(t)' <=> bookmarks[o][i] \in Queued(t)
    <3>1. Shrinks(s, Marked(s, room))
      BY <1>1, RemovedNumbers DEF PlaceInv
    <3>2. CASE t # s
      BY <3>1, <3>2 DEF Shrinks, Queued
    <3>3. CASE t = s
      <4>1. Queued(s) = Members(packetQueue[s]) /\ NoPacket \notin Queued(s)
        BY QueuesAre, SenderAssumption DEF PlaceInv, QueueInv, Owned
      <4>2. Queued(s)' = Members(packetQueue'[s])
        BY <3>1, RangeIs DEF Queued, Shrinks
      <4>3. Queued(s)' \subseteq Queued(s)
        BY <3>1, <4>1, <4>2 DEF Shrinks
      <4>4. CASE watch[o] # "playing"
        <5>1. bookmarks[o][i] = NoPacket
          BY <2>1, <4>4 DEF PlaceInv, Marks, Unused
        <5> QED
          BY <3>3, <4>1, <4>3, <5>1
      <4>5. CASE packetQueue[s] = <<>>
        <5>1. Queued(s) = {}
          BY <4>1, <4>5 DEF Members
        <5> QED
          BY <3>3, <4>3, <5>1
      <4> QED
        BY <1>3, <4>4, <4>5 DEF Served
    <3> QED
      BY <3>2, <3>3
  <2>2. \A t \in Senders : started'[o][t] <=> started[o][t]
    BY <1>2, <1>3
  <2> QED
    BY <1>1, <1>3, <2>1, <2>2, MarksSame
<1>4. CASE Served(s, o)
  <2> SUFFICES ASSUME ~paused[o] PROVE InQueues(o)' /\ OneEach(o)' /\ Followed(o)'
    BY <1>1, <1>4 DEF Marks, Served
  <2>1. PICK k : ServedIs(s, o, room[o], k)
    BY <1>4, ServedHolds
  <2>2. InQueues(o) /\ OneEach(o) /\ Followed(o)
    BY DEF PlaceInv, Marks
  <2>3. InQueues(o)'
    <3> SUFFICES ASSUME NEW i \in 1..NumBookmarks, bookmarks'[o][i] # NoPacket
                 PROVE  \E t \in Senders : i \in Mine(o, t)'
      BY DEF InQueues
    <3>1. CASE i = k
      BY <2>1, <3>1 DEF ServedIs
    <3>2. CASE i # k
      <4>1. bookmarks[o][i] # NoPacket /\ i \notin Mine(o, s)
        BY <2>1, <3>2 DEF ServedIs
      <4>2. PICK t \in Senders : i \in Mine(o, t)
        BY <2>2, <4>1 DEF InQueues
      <4> QED
        BY <2>1, <4>1, <4>2 DEF ServedIs
    <3> QED
      BY <3>1, <3>2
  <2>4. OneEach(o)'
    <3> SUFFICES ASSUME NEW t \in Senders PROVE \A i, j \in Mine(o, t)' : i = j
      BY DEF OneEach
    <3>1. Mine(o, t)' = {k} \/ Mine(o, t)' = Mine(o, t)
      BY <2>1 DEF ServedIs
    <3> QED
      BY <2>2, <3>1 DEF OneEach
  <2>5. ASSUME NEW t \in Senders PROVE started'[o][t] <=> lastSent'[o][t] > 0
    <3>1. CASE t = s
      <4>1. packetQueue[s] # <<>>
        BY <1>4 DEF Served
      <4>2. NowSent(o, s, room[o]) > 0 <=> started[o][s] \/ Written(o, s, room[o]) # {}
        BY <1>1, <4>1, SentTo
      <4>3. lastSent'[o][s] = NowSent(o, s, room[o])
        BY <2>1 DEF ServedIs
      <4>4. started'[o][s] <=> started[o][s] \/ Written(o, s, room[o]) # {}
        BY <1>2, <1>4
      <4> QED
        BY <3>1, <4>2, <4>3, <4>4
    <3>2. CASE t # s
      <4>1. started[o][t] <=> lastSent[o][t] > 0
        BY <2>2, Zenon DEF Followed
      <4>2. lastSent'[o][t] = lastSent[o][t]
        BY <2>1, <3>2 DEF ServedIs
      <4>3. started'[o][t] <=> started[o][t]
        BY <1>2, <3>2
      <4> QED
        BY <4>1, <4>2, <4>3
    <3> QED
      BY <3>1, <3>2
  <2>6. ASSUME NEW t \in Senders PROVE lastSent'[o][t] > 0 => Mine(o, t)' # {}
    <3>1. CASE t = s
      BY <2>1, <3>1 DEF ServedIs
    <3>2. CASE t # s
      BY <2>1, <2>2, <3>2 DEF ServedIs, Followed
    <3> QED
      BY <3>1, <3>2
  <2>7. Followed(o)'
    BY <2>5, <2>6, Zenon DEF Followed
  <2> QED
    BY <2>3, <2>4, <2>7
<1> QED
  BY <1>3, <1>4

LEMMA PlaceStep == PlaceInv /\ [SenderNext]_senderVars => PlaceInv'
<1> SUFFICES ASSUME PlaceInv, [SenderNext]_senderVars PROVE PlaceInv'
  OBVIOUS
<1>1. QueueInv' /\ NumberInv'
  BY QueueStep, NumberStep DEF PlaceInv
<1>2. ASSUME NEW s \in Senders, GetIncomingData(s)
      PROVE  OutputType' /\ \A o \in Outputs : Marks(o)'
  <2>1. UNCHANGED <<watch, paused, bookmarks, lastSent, started>>
    BY <1>2, Zenon DEF GetIncomingData, outputVars
  <2>2. OutputType'
    BY <2>1 DEF PlaceInv, OutputType
  <2> QED
    BY <1>1, <1>2, <2>2, IncomingMarks
<1>3. ASSUME NEW s \in Senders, ReflectorRun(s)
      PROVE  OutputType' /\ \A o \in Outputs : Marks(o)'
  <2>1. PICK room \in Rooms(s) : ReflectPackets(s, room)
    BY <1>3 DEF ReflectorRun
  <2> QED
    BY <2>1, ReflectEffect, ReflectMarks
<1>4. OutputType' /\ \A o \in Outputs : Marks(o)'
  BY <1>2, <1>3, OutputMarks DEF SenderNext
<1> QED
  BY <1>1, <1>4 DEF PlaceInv

LEMMA PlaceHolds == SenderSpec => []PlaceInv
BY PlaceStart, PlaceStep, PTL DEF SenderSpec

-----------------------------------------------------------------------------

\* What is behind a bookmark, told from the numbers.
BehindIs(o) ==
    \A s \in Senders : \A i \in Mine(o, s) :
        Behind(o, s) = {x \in Queued(s) : Id(x) > lastSent[o][s] /\ Id(x) < Id(bookmarks[o][i])}

LEMMA BehindHolds == PlaceInv => \A o \in Outputs : ~paused[o] => BehindIs(o)
<1> SUFFICES ASSUME PlaceInv, NEW o \in Outputs, ~paused[o], NEW s \in Senders, NEW i \in Mine(o, s)
             PROVE  Behind(o, s) = {x \in Queued(s) : /\ Id(x) > lastSent[o][s]
                                                      /\ Id(x) < Id(bookmarks[o][i])}
  BY DEF BehindIs
<1> DEFINE L == Len(packetQueue[s])
<1>1. DOMAIN packetQueue[s] = 1..L /\ L \in Nat /\ Queued(s) = {At(s, j) : j \in 1..L}
  BY QueuesAre DEF PlaceInv, QueueInv, Members, At
<1>2. packetQueue[s] # <<>>
  <2>1. bookmarks[o][i] \in Queued(s)
    BY DEF Mine
  <2> QED
    BY <1>1, <2>1
<1>3. PICK k \in 1..L : k = Start(o, s) /\ At(s, k) = bookmarks[o][i]
  BY <1>2, StartIs DEF PlaceInv, Marks
<1>4. \A j \in 1..L : j < k <=> Id(At(s, j)) < Id(At(s, k))
  <2> TAKE j \in 1..L
  <2>1. Queued(s) \subseteq Packets /\ \A p \in Packets : Id(p) \in Nat
    BY QueuesAre DEF PlaceInv, QueueInv, QueueType, Owned, Contents, Id
  <2>2. Id(At(s, j)) \in Nat /\ Id(At(s, k)) \in Nat
    BY <1>1, <2>1
  <2>3. \A a, b \in 1..L : a < b => Id(At(s, a)) < Id(At(s, b))
    BY DEF PlaceInv, NumberInv, Numbered, At
  <2>4. j < k \/ j = k \/ k < j
    BY <1>1
  <2> QED
    BY <2>2, <2>3, <2>4
<1>5. Behind(o, s) = {At(s, j) : j \in {l \in 1..L : Id(At(s, l)) > lastSent[o][s] /\ l < k}}
  <2>1. Awaited(o, s) = {l \in 1..L : Id(At(s, l)) > lastSent[o][s]}
    BY <1>1 DEF Awaited, Id
  <2> HIDE DEF L
  <2> QED
    BY <1>3, <2>1 DEF Behind
<1> HIDE DEF L
<1> QED
  BY <1>1, <1>3, <1>4, <1>5

LEMMA BehindNext == PlaceInv' => (\A o \in Outputs : ~paused[o] => BehindIs(o))'
BY BehindHolds, PTL

\* Nothing comes behind a bookmark that stays where it is.
LEMMA SameBehind ==
    ASSUME PlaceInv, SameNumbers, NEW o \in Outputs, BehindIs(o), BehindIs(o)', NEW s \in Senders,
           lastSent'[o][s] = lastSent[o][s], NEW i \in Mine(o, s), i \in Mine(o, s)',
           bookmarks'[o][i] = bookmarks[o][i],
           packetQueue'[s] \in Seq(Packets),
           \A x \in Queued(s)' : x \in Queued(s) \/ \A y \in Queued(s) : packet'[x].id > packet[y].id,
           \A x \in Queued(s)' : packet'[x].id \in Nat
    PROVE  Behind(o, s)' \subseteq Behind(o, s)
<1> DEFINE b == bookmarks[o][i]
<1>1. b \in Queued(s) /\ b \in Queued(s)'
  BY DEF Mine
<1>2. /\ Behind(o, s) = {x \in Queued(s) : Id(x) > lastSent[o][s] /\ Id(x) < Id(b)}
      /\ Behind(o, s)' = {x \in Queued(s)' : /\ packet'[x].id > lastSent[o][s]
                                             /\ packet'[x].id < packet'[b].id}
  <2>1. Behind(o, s) = {x \in Queued(s) : Id(x) > lastSent[o][s] /\ Id(x) < Id(b)}
    BY DEF BehindIs
  <2>2. Behind(o, s)' = {x \in Queued(s)' : Id(x)' > lastSent'[o][s] /\ Id(x)' < Id(bookmarks[o][i])'}
    BY DEF BehindIs
  <2> QED
    BY <2>1, <2>2 DEF Id
<1>3. \A x \in Queued(s) : x \in Queued(s)' => packet'[x].id = packet[x].id
  <2>1. Queued(s) = Members(packetQueue[s])
    BY QueuesAre DEF PlaceInv, QueueInv
  <2>2. Queued(s)' = Members(packetQueue'[s])
    BY RangeIs DEF Queued
  <2> QED
    BY <2>1, <2>2 DEF SameNumbers
<1> HIDE DEF b
<1> SUFFICES ASSUME NEW x \in Behind(o, s)' PROVE x \in Behind(o, s)
  OBVIOUS
<1>4. x \in Queued(s)' /\ packet'[x].id > lastSent[o][s] /\ packet'[x].id < packet'[b].id
  BY <1>2
<1>5. x \in Queued(s)
  <2>1. ASSUME x \notin Queued(s) PROVE FALSE
    <3>1. packet'[x].id > packet[b].id /\ packet'[b].id = packet[b].id
      BY <1>1, <1>3, <1>4, <2>1
    <3> QED
      BY <1>1, <1>4, <3>1
  <2> QED
    BY <2>1
<1> QED
  BY <1>1, <1>2, <1>3, <1>4, <1>5 DEF Id

\* An output that was served is moved only over packets that wait behind an old one.
LEMMA ServedBehind ==
    ASSUME PlaceInv, NEW s \in Senders, NEW room \in Rooms(s), ReflectPackets(s, room),
           NEW o \in Outputs, ~paused[o], Served(s, o), lastSent'[o][s] > 0, BehindIs(o)'
    PROVE  \/ Behind(o, s)' \subseteq Behind(o, s)
           \/ \E j \in Awaited(o, s) : packet[At(s, j)].age > RelocateAge
<1> SUFFICES ASSUME \A j \in Awaited(o, s) : ~(packet[At(s, j)].age > RelocateAge),
                    NEW x \in Behind(o, s)'
             PROVE  x \in Behind(o, s)
  OBVIOUS
<1> DEFINE L == Len(packetQueue[s])
           r == room[o]
<1>1. PICK k : ServedIs(s, o, r, k)
  BY ServedHolds
<1>2. /\ r \in Nat /\ RemoveOldPackets(s, Marked(s, room)) /\ packetQueue[s] # <<>>
  BY ReflectEffect DEF Served
<1>3. Shrinks(s, Marked(s, room))
  BY <1>2, RemovedNumbers DEF PlaceInv
<1>4. /\ Queued(s)' \subseteq Queued(s) /\ DOMAIN packetQueue[s] = 1..L /\ L \in Nat
      /\ Queued(s) = {At(s, j) : j \in 1..L}
      /\ \A y \in Queued(s)' : packet'[y].id = packet[y].id
  <2>1. Queued(s) = Members(packetQueue[s]) /\ DOMAIN packetQueue[s] = 1..L /\ L \in Nat
    BY QueuesAre DEF PlaceInv, QueueInv
  <2>2. Queued(s)' = Members(packetQueue'[s])
    BY <1>3, RangeIs DEF Queued, Shrinks
  <2> QED
    BY <1>3, <2>1, <2>2 DEF Shrinks, SameNumbers, Members, At
<1>5. /\ x \in Queued(s)' /\ Id(x) > NowSent(o, s, r)
      /\ Id(x) < Id(MarkOf(s, o, r))
  <2>1. k \in Mine(o, s)' /\ lastSent'[o][s] = NowSent(o, s, r) /\ bookmarks'[o][k] = MarkOf(s, o, r)
    BY <1>1 DEF ServedIs
  <2>2. Behind(o, s)' = {y \in Queued(s)' : Id(y)' > lastSent'[o][s] /\ Id(y)' < Id(bookmarks[o][k])'}
    BY <2>1 DEF BehindIs
  <2>3. /\ x \in Queued(s)' /\ packet'[x].id > lastSent'[o][s]
        /\ packet'[x].id < packet'[bookmarks'[o][k]].id
    BY <2>2 DEF Id
  <2>4. bookmarks'[o][k] \in Queued(s)'
    BY <2>1 DEF Mine
  <2> QED
    BY <1>4, <2>1, <2>3, <2>4 DEF Id
<1>6. /\ NowSent(o, s, r) > 0 /\ NowSent(o, s, r) >= lastSent[o][s] /\ NowSent(o, s, r) \in Nat
      /\ lastSent[o][s] \in Nat
      /\ \A i \in 1..L :
            i >= Start(o, s) /\ Id(At(s, i)) > NowSent(o, s, r) =>
                \E b \in Awaited(o, s) : b <= i /\ LastPacket(o, s, r) = At(s, b)
  <2>1. NowSent(o, s, r) > 0
    BY <1>1 DEF ServedIs
  <2>2. lastSent[o][s] \in Nat
    BY DEF PlaceInv, OutputType
  <2> HIDE DEF r
  <2> QED
    BY <1>2, <2>1, <2>2, SentTo
<1> HIDE DEF L, r
<1>7. PICK j \in 1..L : x = At(s, j)
  BY <1>4, <1>5
<1>8. Queued(s) \subseteq Packets /\ \A p \in Packets : Id(p) \in Nat
  BY QueuesAre DEF PlaceInv, QueueInv, QueueType, Owned, Contents, Id
<1>9. j \in Awaited(o, s)
  <2>1. Id(x) > lastSent[o][s]
    BY <1>4, <1>5, <1>6, <1>8
  <2> QED
    BY <1>4, <1>7, <2>1 DEF Awaited, Id
<1>10. CASE j < Start(o, s)
  BY <1>7, <1>9, <1>10 DEF Behind
<1>11. CASE ~(j < Start(o, s))
  <2>0. Start(o, s) \in 1..L
    BY <1>2, StartIs DEF PlaceInv, L
  <2>1. j >= Start(o, s)
    BY <1>11, <2>0
  <2>2. PICK b \in Awaited(o, s) : b <= j /\ LastPacket(o, s, r) = At(s, b)
    BY <1>5, <1>6, <1>7, <2>1
  <2>3. MarkOf(s, o, r) = At(s, b)
    BY <2>2 DEF MarkOf, NeedRelocateBookMark
  <2>4. b \in 1..L
    BY <1>4 DEF Awaited
  <2>5. \A c, d \in 1..L : c < d => Id(At(s, c)) < Id(At(s, d))
    BY DEF PlaceInv, NumberInv, Numbered, At, L
  <2>6. Id(At(s, j)) \in Nat /\ Id(At(s, b)) \in Nat
    BY <1>4, <1>8, <2>4
  <2>7. b = j \/ b < j
    BY <2>2, <2>4
  <2>8. Id(At(s, b)) <= Id(At(s, j))
    BY <2>4, <2>5, <2>6, <2>7
  <2> QED
    BY <1>5, <1>7, <2>3, <2>6, <2>8
<1> QED
  BY <1>10, <1>11
-----------------------------------------------------------------------------

\* A step leaves an output its place.
KeepsPlace(o, s) ==
    watch'[o] = "playing" /\ ~paused'[o] /\ lastSent'[o][s] > 0 =>
        /\ Cardinality(Mine(o, s)') = 1
        /\ \/ Behind(o, s)' \subseteq Behind(o, s)
           \/ \E i \in Awaited(o, s) : packet[At(s, i)].age > RelocateAge

\* A step that leaves the queue, but for a packet at its end, and the bookmark in it.
LEMMA SamePlace ==
    ASSUME PlaceInv, PlaceInv', SameNumbers, NEW o \in Outputs, NEW s \in Senders,
           ~paused[o], ~paused'[o], lastSent'[o][s] > 0, lastSent'[o][s] = lastSent[o][s],
           \A i \in Mine(o, s) : i \in Mine(o, s)' /\ bookmarks'[o][i] = bookmarks[o][i],
           \A x \in Queued(s)' : x \in Queued(s) \/ \A y \in Queued(s) : packet'[x].id > packet[y].id
    PROVE  Behind(o, s)' \subseteq Behind(o, s)
<1>1. BehindIs(o) /\ BehindIs(o)'
  <2>1. \A u \in Outputs : ~paused[u] => BehindIs(u)
    BY BehindHolds
  <2>2. (\A u \in Outputs : ~paused[u] => BehindIs(u))'
    BY BehindNext
  <2> QED
    BY <2>1, <2>2
<1>2. PICK i \in Mine(o, s) : TRUE
  BY DEF PlaceInv, Marks, Followed
<1>3. packetQueue'[s] \in Seq(Packets) /\ \A p \in Packets : packet'[p].id \in Nat
  BY DEF PlaceInv, QueueInv, QueueType, Contents
<1>4. \A x \in Queued(s)' : packet'[x].id \in Nat
  <2>1. Queued(s)' \subseteq Packets
    BY <1>3, RangeIs DEF Queued
  <2> QED
    BY <1>3, <2>1
<1> QED
  BY <1>1, <1>2, <1>3, <1>4, SameBehind

LEMMA OneBookmark ==
    ASSUME PlaceInv', NEW o \in Outputs, NEW s \in Senders, ~paused'[o], lastSent'[o][s] > 0
    PROVE  Cardinality(Mine(o, s)') = 1
<1>1. OneEach(o)' /\ Followed(o)'
  BY DEF PlaceInv, Marks
<1>2. PICK k \in Mine(o, s)' : Mine(o, s)' = {k}
  <2>1. Mine(o, s)' # {} /\ \A i, j \in Mine(o, s)' : i = j
    BY <1>1 DEF OneEach, Followed
  <2> QED
    BY <2>1
<1> QED
  BY <1>2, FS_Singleton

LEMMA PlaceNotLost ==
    ASSUME PlaceInv, PlaceInv', [SenderNext]_senderVars, NEW o \in Outputs, NEW s \in Senders
    PROVE  KeepsPlace(o, s)
<1> SUFFICES ASSUME watch'[o] = "playing", ~paused'[o], lastSent'[o][s] > 0
             PROVE  \/ Behind(o, s)' \subseteq Behind(o, s)
                    \/ \E i \in Awaited(o, s) : packet[At(s, i)].age > RelocateAge
  BY OneBookmark DEF KeepsPlace
<1>0. Queued(s) = Members(packetQueue[s]) /\ packetQueue \in [Senders -> Seq(Packets)]
  BY QueuesAre DEF PlaceInv, QueueInv, QueueType
<1>1. ASSUME NEW t \in Senders, GetIncomingData(t) PROVE Behind(o, s)' \subseteq Behind(o, s)
  <2>1. UNCHANGED <<watch, paused, bookmarks, lastSent>>
    BY <1>1, Zenon DEF GetIncomingData, outputVars
  <2>2. SameNumbers
    BY <1>1, IncomingNumbers DEF PlaceInv
  <2>3. CASE packetQueue' = packetQueue
    <3>1. Queued(s)' = Queued(s) /\ Mine(o, s)' = Mine(o, s)
      BY <2>1, <2>3 DEF Queued, Mine
    <3> QED
      BY <2>1, <2>2, <3>1, SamePlace
  <2>4. ASSUME NEW p \in Packets, Arrives(t, p) PROVE Behind(o, s)' \subseteq Behind(o, s)
    <3>1. packetQueue'[s] = IF t = s THEN Append(packetQueue[s], p) ELSE packetQueue[s]
      BY <1>0, <2>4 DEF Arrives
    <3>2. packetQueue[s] \in Seq(Packets)
      BY <1>0
    <3>3. /\ Append(packetQueue[s], p) \in Seq(Packets)
          /\ Members(Append(packetQueue[s], p)) = Members(packetQueue[s]) \cup {p}
      BY <3>2, AppendedMembers
    <3>4. Queued(s)' = IF t = s THEN Queued(s) \cup {p} ELSE Queued(s)
      BY <1>0, <3>1, <3>2, <3>3, RangeIs DEF Queued
    <3>5. \A i \in Mine(o, s) : i \in Mine(o, s)' /\ bookmarks'[o][i] = bookmarks[o][i]
      <4>1. \A i \in 1..NumBookmarks : bookmarks[o][i] \in Queued(s) => bookmarks'[o][i] \in Queued(s)'
        BY <2>1, <3>4
      <4> QED
        BY <2>1, <4>1 DEF Mine
    <3>6. t = s => \A y \in Queued(s) : packet'[p].id > packet[y].id
      <4> SUFFICES ASSUME t = s, NEW y \in Queued(s) PROVE packet'[p].id > packet[y].id
        OBVIOUS
      <4>1. PICK i \in 1..Len(packetQueue[s]) : y = packetQueue[s][i]
        BY <1>0 DEF Members
      <4>2. packet[y].id <= packetCount[s]
        BY <4>1 DEF PlaceInv, NumberInv, Numbered, Id
      <4>3. packet'[p].id = packetCount[s] + 1
        BY <2>4 DEF Arrives
      <4>4. packetCount[s] \in Nat /\ packet[y].id \in Nat
        <5>1. y \in Packets
          BY QueuesAre DEF PlaceInv, QueueInv, Owned
        <5> QED
          BY <5>1 DEF PlaceInv, QueueInv, QueueType, Contents
      <4> QED
        BY <4>2, <4>3, <4>4
    <3>7. \A x \in Queued(s)' : x \in Queued(s) \/ \A y \in Queued(s) : packet'[x].id > packet[y].id
      BY <3>4, <3>6
    <3> QED
      BY <2>1, <2>2, <3>5, <3>7, SamePlace
  <2> QED
    BY <1>1, <2>3, <2>4, IncomingNumbers DEF PlaceInv
<1>2. ASSUME NEW t \in Senders, ReflectorRun(t)
      PROVE  \/ Behind(o, s)' \subseteq Behind(o, s)
             \/ \E i \in Awaited(o, s) : packet[At(s, i)].age > RelocateAge
  <2>1. PICK room \in Rooms(t) : ReflectPackets(t, room)
    BY <1>2 DEF ReflectorRun
  <2>2. /\ UNCHANGED <<watch, paused>> /\ RemoveOldPackets(t, Marked(t, room))
        /\ ~Served(t, o) => bookmarks'[o] = bookmarks[o] /\ lastSent'[o] = lastSent[o]
    BY <2>1, ReflectEffect
  <2>3. ~paused[o] /\ watch[o] = "playing"
    BY <2>2
  <2>4. CASE t = s /\ Served(s, o)
    <3>1. BehindIs(o)'
      <4>1. (\A u \in Outputs : ~paused[u] => BehindIs(u))'
        BY BehindNext
      <4> QED
        BY <4>1
    <3> QED
      BY <2>1, <2>3, <2>4, <3>1, ServedBehind
  <2>5. CASE t = s /\ ~Served(s, o)
    <3>1. packetQueue[s] = <<>> /\ lastSent[o][s] > 0
      BY <2>2, <2>3, <2>5 DEF Served
    <3>2. Mine(o, s) # {}
      BY <2>3, <3>1 DEF PlaceInv, Marks, Followed
    <3>3. Queued(s) = {}
      BY <1>0, <3>1 DEF Members
    <3> QED
      BY <3>2, <3>3 DEF Mine
  <2>6. CASE t # s
    <3>1. Shrinks(t, Marked(t, room))
      BY <2>2, RemovedNumbers DEF PlaceInv
    <3>2. SameNumbers /\ Queued(s)' = Queued(s)
      BY <2>6, <3>1 DEF Shrinks, Queued
    <3>3. lastSent'[o][s] = lastSent[o][s]
          /\ \A i \in Mine(o, s) : i \in Mine(o, s)' /\ bookmarks'[o][i] = bookmarks[o][i]
      <4>1. CASE Served(t, o)
        <5>1. PICK k : ServedIs(t, o, room[o], k)
          BY <2>1, <2>3, <4>1, ServedHolds
        <5>2. Mine(o, s) \subseteq 1..NumBookmarks
          BY DEF Mine
        <5> QED
          BY <2>6, <5>1, <5>2 DEF ServedIs
      <4>2. CASE ~Served(t, o)
        <5>1. bookmarks'[o] = bookmarks[o] /\ lastSent'[o] = lastSent[o]
          BY <2>2, <4>2
        <5> QED
          BY <3>2, <5>1 DEF Mine
      <4> QED
        BY <4>1, <4>2
    <3> QED
      BY <2>3, <3>2, <3>3, SamePlace
  <2> QED
    BY <2>4, <2>5, <2>6
<1>3. ASSUME \/ \E u \in Outputs : \/ Setup(u) \/ DoPlay(u) \/ PlayWaits(u)
                                   \/ Pause(u) \/ RemoveOutput(u)
             \/ SenderTick \/ UNCHANGED senderVars
      PROVE  Behind(o, s)' \subseteq Behind(o, s)
  <2>1. SameNumbers /\ Queued(s)' = Queued(s)
    BY <1>3, OtherNumbers DEF PlaceInv, Queued
  <2>2. bookmarks'[o] = bookmarks[o] /\ lastSent'[o] = lastSent[o] /\ ~paused[o]
    <3>0. /\ watch \in [Outputs -> {"none", "ready", "playing"}] /\ paused \in [Outputs -> BOOLEAN]
          /\ bookmarks \in [Outputs -> [1..NumBookmarks -> Packets \cup {NoPacket}]]
          /\ lastSent \in [Outputs -> [Senders -> Nat]]
      BY DEF PlaceInv, OutputType
    <3>1. CASE UNCHANGED <<bookmarks, lastSent, paused>>
      BY <3>1
    <3>2. ASSUME NEW u \in Outputs, Pause(u)
          PROVE  bookmarks'[o] = bookmarks[o] /\ lastSent'[o] = lastSent[o] /\ ~paused[o]
      BY <3>0, <3>2 DEF Pause
    <3>3. ASSUME NEW u \in Outputs, RemoveOutput(u)
          PROVE  bookmarks'[o] = bookmarks[o] /\ lastSent'[o] = lastSent[o] /\ ~paused[o]
      <4>1. u # o
        BY <3>0, <3>3 DEF RemoveOutput
      <4> QED
        BY <3>0, <3>3, <4>1 DEF RemoveOutput
    <3>4. \/ UNCHANGED <<bookmarks, lastSent, paused>>
          \/ \E u \in Outputs : Pause(u) \/ RemoveOutput(u)
      BY <1>3, Zenon DEF Setup, DoPlay, PlayWaits, SenderTick, senderVars, outputVars
    <3> QED
      BY <3>1, <3>2, <3>3, <3>4
  <2>3. Mine(o, s)' = Mine(o, s)
    BY <2>1, <2>2 DEF Mine
  <2> QED
    BY <2>1, <2>2, <2>3, SamePlace
<1> QED
  BY <1>1, <1>2, <1>3 DEF SenderNext

\* PlaceKept: a client that does not pause has one bookmark in every queue from which
\* something was sent to it, and is moved over packets that it has not got only while it
\* waits for one that is too old, for any senders with a bookmark for each, any ages and
\* any number of packets (SendPacketsToOutput, NeedRelocateBookMark, RemoveOldPackets).
THEOREM PlaceStaysKept == SenderSpec => PlaceKept
<1>1. PlaceInv /\ PlaceInv' /\ [SenderNext]_senderVars =>
          [\A o \in Outputs, s \in Senders :
              watch'[o] = "playing" /\ ~paused'[o] /\ lastSent'[o][s] > 0 =>
                  /\ Cardinality(Mine(o, s)') = 1
                  /\ \/ Behind(o, s)' \subseteq Behind(o, s)
                     \/ \E i \in Awaited(o, s) : packet[At(s, i)].age > RelocateAge]_senderVars
  BY PlaceNotLost DEF KeepsPlace
<1> QED
  BY <1>1, PlaceHolds, PTL DEF SenderSpec, PlaceKept
=============================================================================
