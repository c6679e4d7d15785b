---------------------------- MODULE ResenderWindow ----------------------------
(***************************************************************************)
(* Reliable UDP: the packets each RTP stream of a session keeps until they *)
(* are acknowledged (RTPPacketResender), and the congestion window all     *)
(* streams of the session share (RTPBandwidthTracker).                     *)
(*                                                                         *)
(* All of it runs under the session mutex.  The loop of ResendDueEntries   *)
(* and the loop of ClearOutstandingPackets take one step for each packet.  *)
(* Times are kept relative to the present, so that Tick is the clock.  The *)
(* smoothed round-trip time is not modelled: a sample leaves some value    *)
(* between the two limits the code clamps the timeout to.  Packets and     *)
(* acknowledgements travel by UDP: any sequence number can be acknowledged *)
(* at any time, twice, or never.                                           *)
(***************************************************************************)
EXTENDS Integers, Sequences, FiniteSetsExt

CONSTANTS
    NStreams,   \* streams of the session, in the order of qtssCliSesStreamObjects
    SeqNums,    \* RTP sequence numbers
    Sizes,      \* packet sizes
    AgeLimits,  \* how long a packet is worth sending, at the time it is written
    Windows,    \* the client window sizes the preferences offer
    MSS,        \* kMaximumSegmentSize
    Slack,      \* the 2000 of the assertions on fBytesInList
    MinRTO, MaxRTO,  \* kMinRetransmitIntervalMSecs, kMaxRetransmitIntervalMSecs
    Backoff,    \* the 250 msec of AdjustWindowForRetransmit
    SlowStart   \* fUseSlowStart

ASSUME ResenderAssumption ==
    /\ NStreams \in Nat \ {0}
    /\ Sizes \subseteq Nat \ {0}
    /\ AgeLimits \subseteq Int
    /\ Windows \subseteq Nat \ {0, 1}
    /\ MSS \in Nat \ {0} /\ Slack \in Nat
    /\ MinRTO \in Nat /\ MaxRTO \in Nat /\ MinRTO <= MaxRTO
    /\ Backoff \in Nat
    /\ SlowStart \in BOOLEAN

Streams == 1..NStreams

VARIABLES
    list,           \* fPacketArray[0 .. fPacketsInList - 1] of each stream
    bytes,          \* fBytesInList
    cwnd,           \* fCongestionWindow
    ssthresh,       \* fSlowStartThreshold
    clientWindow,   \* fClientWindow
    rto,            \* fCurRetransmitTimeout
    sinceAdjust,    \* time since fLastCongestionAdjust, up to Backoff + 1
    playing,        \* fState = qtssPlayingState
    loopPc,             \* "free", or the loop that holds the session mutex
    st,             \* stream the loop is at
    at,             \* packetIndex of the resend loop, from 1
    writing         \* the loop runs on behalf of a Write

window == <<bytes, cwnd, ssthresh, clientWindow, rto, sinceAdjust>>
loop   == <<loopPc, st, at, writing>>
resenderVars   == <<list, window, playing, loop>>

Ages    == 0..(MaxRTO + 1)
Entries == [seq : SeqNums, size : Sizes, age : Ages, left : Int, resent : BOOLEAN]

ResenderInit ==
    /\ list = [s \in Streams |-> <<>>]
    /\ bytes = 0
    /\ cwnd = MSS
    /\ ssthresh = 0
    /\ clientWindow = 0
    /\ rto = MinRTO
    /\ sinceAdjust = Backoff + 1
    /\ playing = FALSE
    /\ loopPc = "free" /\ st = 1 /\ at = 0 /\ writing = FALSE

-----------------------------------------------------------------------------
(* RTPBandwidthTracker                                                     *)

Least(a, b)    == IF a < b THEN a ELSE b
Greatest(a, b) == IF a > b THEN a ELSE b

IsFlowControlled      == bytes >= cwnd
ReadyForAckProcessing == clientWindow > 0 /\ cwnd > 0

\* Only the first PLAY sets the window.
SetWindowSize(w) ==
    IF clientWindow > 0
    THEN UNCHANGED <<clientWindow, cwnd, ssthresh, sinceAdjust>>
    ELSE /\ clientWindow' = w
         /\ sinceAdjust' = Backoff + 1
         /\ cwnd' = IF SlowStart THEN w \div 2 ELSE w
         /\ ssthresh' = Greatest(MSS, IF SlowStart THEN (w * 3) \div 4 ELSE w)

\* Variant: the window outgrows the client's.
OpenedUncapped(n) ==
    LET b == Least(n, bytes)
    IN cwnd + IF cwnd >= ssthresh THEN (b * b) \div cwnd ELSE b

\* The congestion window after n bytes, more than what is outstanding or not.
Opened(n) ==
    LET b == Least(n, bytes)
    IN Least(clientWindow,
             cwnd + IF cwnd >= ssthresh THEN (b * b) \div cwnd ELSE b)

\* Variant: bytes that are no longer outstanding stay counted.
EmptyWindowKeeping(n, update) ==
    /\ bytes' = bytes
    /\ cwnd' = IF n = 0 THEN cwnd ELSE Opened(n)

EmptyWindow(n, update) ==
    /\ bytes' = IF update THEN bytes - Least(n, bytes) ELSE bytes
    /\ cwnd' = IF n = 0 THEN cwnd ELSE Opened(n)

\* A retransmission closes the window, at most once in 250 msec.
AdjustWindowForRetransmit ==
    IF sinceAdjust > Backoff
    THEN /\ ssthresh' = (cwnd * 3) \div 4
         /\ cwnd' = Greatest(MSS, cwnd \div 2)
         /\ sinceAdjust' = 0
    ELSE /\ ssthresh' = Greatest(MSS, ssthresh)
         /\ cwnd' = Greatest(MSS, cwnd)
         /\ UNCHANGED sinceAdjust

\* The timeout after one more round-trip sample.
AddToRTTEstimate == rto' \in MinRTO..MaxRTO

-----------------------------------------------------------------------------
(* RTPPacketResender                                                       *)

\* RemovePacket(i): the last packet takes the place of the removed one.
Without(q, i) == SubSeq([q EXCEPT ![i] = q[Len(q)]], 1, Len(q) - 1)

Has(s, n) == \E i \in 1..Len(list[s]) : list[s][i].seq = n

\* RTCP brings an acknowledgement of sequence number n of stream s.
AckPacket(s, n) ==
    /\ loopPc = "free" /\ ReadyForAckProcessing
    /\ IF Has(s, n)
       THEN LET i == CHOOSE j \in 1..Len(list[s]) : list[s][j].seq = n
                e == list[s][i]
            IN /\ EmptyWindow(e.size, TRUE)
               /\ list' = [list EXCEPT ![s] = Without(@, i)]
               /\ IF e.resent THEN UNCHANGED rto ELSE AddToRTTEstimate
       ELSE EmptyWindow(MSS, FALSE) /\ UNCHANGED <<list, rto>>
    /\ UNCHANGED <<ssthresh, clientWindow, sinceAdjust, playing, loop>>

\* ReliableRTPWrite goes through the packets of every stream of the session,
\* each stream from the last packet to the first, before it looks at its own.
\* RTPSession::Run does so when it comes before it is time to send.
StartResend(write) ==
    /\ loopPc = "free" /\ playing
    /\ loopPc' = "resend" /\ st' = 1 /\ at' = Len(list[1]) /\ writing' = write
    /\ UNCHANGED <<list, window, playing>>

ReliableRTPWrite           == StartResend(TRUE)
SendRetransmits == StartResend(FALSE)

Due(e) == e.age > rto

NotDue ==
    /\ loopPc = "resend" /\ at > 0 /\ ~Due(list[st][at])
    /\ at' = at - 1
    /\ UNCHANGED <<list, window, playing, loopPc, st, writing>>

\* Variant: an old packet is resent like any other.
ExpiredNever(e) == FALSE

Expired(e) == e.left < 0

DropExpired ==
    /\ loopPc = "resend" /\ at > 0 /\ Due(list[st][at]) /\ Expired(list[st][at])
    /\ EmptyWindow(list[st][at].size, TRUE)
    /\ list' = [list EXCEPT ![st] = Without(@, at)]
    /\ at' = at - 1
    /\ UNCHANGED <<ssthresh, clientWindow, rto, sinceAdjust, playing, loopPc, st, writing>>

Resend ==
    /\ loopPc = "resend" /\ at > 0 /\ Due(list[st][at]) /\ ~Expired(list[st][at])
    /\ list' = [list EXCEPT ![st][at].age = 0, ![st][at].resent = TRUE]
    /\ IF list[st][at].resent THEN UNCHANGED rto ELSE AddToRTTEstimate
    /\ AdjustWindowForRetransmit
    /\ at' = at - 1
    /\ UNCHANGED <<bytes, clientWindow, playing, loopPc, st, writing>>

NextStream ==
    /\ loopPc = "resend" /\ at = 0 /\ st < NStreams
    /\ st' = st + 1 /\ at' = Len(list[st + 1])
    /\ UNCHANGED <<list, window, playing, loopPc, writing>>

\* Variant: a number that is in the list already is kept again.
AddPacketAgain(s, n, size, limit) ==
    IF limit > 0
    THEN /\ list' = [list EXCEPT ![s] = Append(@,
                        [seq |-> n, size |-> size, age |-> 0, left |-> limit, resent |-> FALSE])]
         /\ bytes' = bytes + size
    ELSE UNCHANGED <<list, bytes>>

\* GetEmptyEntry and FillWindow; a number that is in the list already, or a
\* packet that is too late to be sent again, is not kept.
AddPacket(s, n, size, limit) ==
    IF limit > 0 /\ ~Has(s, n)
    THEN /\ list' = [list EXCEPT ![s] = Append(@,
                        [seq |-> n, size |-> size, age |-> 0, left |-> limit, resent |-> FALSE])]
         /\ bytes' = bytes + size
    ELSE UNCHANGED <<list, bytes>>

\* The loop is done.  A Write adds its packet (which nothing has looked at so
\* far) and sends it, unless the window is full.
EndResend ==
    /\ loopPc = "resend" /\ at = 0 /\ st = NStreams
    /\ IF writing /\ ~IsFlowControlled
       THEN \E s \in Streams, n \in SeqNums, size \in Sizes, limit \in AgeLimits :
                AddPacket(s, n, size, limit)
       ELSE UNCHANGED <<list, bytes>>
    /\ loopPc' = "free" /\ st' = 1 /\ writing' = FALSE
    /\ UNCHANGED <<cwnd, ssthresh, clientWindow, rto, sinceAdjust, playing, at>>

\* RTPSession::Play sets the window and clears what the last play left.
PlaySession(w) ==
    /\ loopPc = "free"
    /\ playing' = TRUE
    /\ SetWindowSize(w)
    /\ loopPc' = "clear" /\ st' = 1
    /\ UNCHANGED <<list, bytes, rto, at, writing>>

\* ClearOutstandingPackets, one packet after the other ...
ClearPacket ==
    /\ loopPc = "clear" /\ list[st] # <<>>
    /\ EmptyWindow(Head(list[st]).size, FALSE)
    /\ list' = [list EXCEPT ![st] = Tail(@)]
    /\ UNCHANGED <<ssthresh, clientWindow, rto, sinceAdjust, playing, loop>>

\* ... and then what the window still counts, for whichever stream.
ClearStream ==
    /\ loopPc = "clear" /\ list[st] = <<>>
    /\ EmptyWindow(bytes, TRUE)
    /\ IF st < NStreams THEN st' = st + 1 /\ UNCHANGED loopPc
                        ELSE st' = 1 /\ loopPc' = "free"
    /\ UNCHANGED <<list, ssthresh, clientWindow, rto, sinceAdjust, playing, at, writing>>

Pause ==
    /\ loopPc = "free" /\ playing
    /\ playing' = FALSE
    /\ UNCHANGED <<list, window, loop>>

\* Time passes while no loop runs: a loop is short against the times that matter.
Tick ==
    /\ loopPc = "free"
    /\ list' = [s \in Streams |-> [i \in 1..Len(list[s]) |->
                  [list[s][i] EXCEPT !.age = Least(@ + 1, MaxRTO + 1), !.left = Greatest(@ - 1, -1)]]]
    /\ sinceAdjust' = Least(sinceAdjust + 1, Backoff + 1)
    /\ UNCHANGED <<bytes, cwnd, ssthresh, clientWindow, rto, playing, loop>>

ResendLoop == NotDue \/ DropExpired \/ Resend \/ NextStream \/ EndResend
ClearLoop  == ClearPacket \/ ClearStream

ResenderNext ==
    \/ \E s \in Streams, n \in SeqNums : AckPacket(s, n)
    \/ ReliableRTPWrite \/ SendRetransmits \/ ResendLoop
    \/ \E w \in Windows : PlaySession(w)
    \/ ClearLoop \/ Pause \/ Tick

ResenderSpec == ResenderInit /\ [][ResenderNext]_resenderVars

(***************************************************************************)
(* The task of a playing session is run again after at most                *)
(* max_retransmit_delay, loops end, and time passes whatever the session   *)
(* does.  Nothing makes the client acknowledge anything.                   *)
(***************************************************************************)
ResenderFairness ==
    /\ WF_resenderVars(ResendLoop) /\ WF_resenderVars(ClearLoop)
    /\ WF_resenderVars(SendRetransmits) /\ SF_resenderVars(Tick)

FairResenderSpec == ResenderSpec /\ ResenderFairness

-----------------------------------------------------------------------------
\* Every variable has its type; a loop is inside the lists.
ResenderTypeOK ==
    /\ list \in [Streams -> Seq(Entries)]
    /\ bytes \in Nat
    /\ cwnd \in Nat /\ ssthresh \in Nat /\ clientWindow \in Nat
    /\ rto \in MinRTO..MaxRTO
    /\ sinceAdjust \in 0..(Backoff + 1)
    /\ playing \in BOOLEAN
    /\ loopPc \in {"free", "resend", "clear"}
    /\ st \in Streams
    /\ at \in 0..Len(list[st])
    /\ writing \in BOOLEAN

\* A stream keeps a sequence number once: an acknowledgement takes out the
\* whole of what it acknowledges.
NoDuplicateSeq ==
    \A s \in Streams : \A i, k \in 1..Len(list[s]) :
        list[s][i].seq = list[s][k].seq => i = k

Kept == UNION {{<<s, i>> : i \in 1..Len(list[s])} : s \in Streams}

\* The bytes the shared window counts are those of the packets the streams
\* keep, whichever of them was acknowledged, expired or cleared.
BytesMatch ==
    loopPc # "clear" => bytes = MapThenSumSet(LAMBDA p : list[p[1]][p[2]].size, Kept)

\* The congestion window never closes for good and never exceeds what the
\* client can take, or one packet.
WindowBounded ==
    /\ clientWindow > 0 => cwnd \in 1..Greatest(clientWindow, MSS)
    /\ clientWindow = 0 => bytes = 0

\* Assert(fBytesInList < fClientWindow + 2000), of which the code says "this
\* assert hits": it does not as long as no packet is larger than the slack
\* and the client's window holds one packet.
AssertHolds == clientWindow > 0 => bytes < clientWindow + Slack

\* A session that plays is not flow controlled for ever, even if its client
\* never acknowledges anything.
FlowControlReleased == playing /\ IsFlowControlled ~> ~(playing /\ IsFlowControlled)

-----------------------------------------------------------------------------
(* What a comment of the source says and the code does not keep.           *)

\* "make sure that it is at least 1 packet", of the slow start threshold
ThresholdOnePacket == clientWindow > 0 => ssthresh >= MSS
=============================================================================
