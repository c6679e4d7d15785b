--------------------------- MODULE StreamFeedback ---------------------------
(***************************************************************************)
(* What the server makes of the RTCP packets of its clients: the loss      *)
(* accounting of RTPStream::ProcessIncomingRTCPPacket and the flow control *)
(* module (QTSSFlowControlModule), which changes the quality level of the  *)
(* streams over UDP.                                                       *)
(*                                                                         *)
(* RTCP packets come late, twice or not at all.  One is handled in one     *)
(* step under the session's mutex; when the mutex is taken it is dumped.   *)
(* Counts are UInt32 in the code and unsigned of a small width here, and a *)
(* stream sends fewer packets than wrap its count.  The client's report of *)
(* its quality stays until its next one, and every RTCP packet of any kind *)
(* makes the module look at it again.                                      *)
(***************************************************************************)
EXTENDS Integers

CONSTANTS
    UdpStreams,     \* streams over plain UDP of one client session
    NumLevels,      \* fNumQualityLevels
    LossesToThin, LossesToThick, WorsesToThin,   \* preferences of the module
    Width,          \* 2^32: counts are taken modulo Width
    Absent          \* a part that a datagram does not have

Losses  == {"low", "middle", "high"}  \* to loss_thick_tolerance and loss_thin_tolerance
Reports == [loss : Losses, worse : BOOLEAN, better : BOOLEAN]
UInt    == 0..(Width - 1)

ASSUME FeedbackAssumption ==
    /\ NumLevels \in Nat \ {0}
    /\ {LossesToThin, LossesToThick, WorsesToThin, Width} \subseteq Nat \ {0}
    /\ Absent \notin UInt \cup Reports

VARIABLES
    stats,          \* fPacketCount, fLastPacketCount, fTotalLostPackets and the interval's
    report,         \* the last quality report: loss percentage, getting worse, better
    counters,       \* the module's three counters
    quality,        \* fQualityLevel
    sessionThinned, \* fStartedThinning of the session
    serverLost      \* the server's total of lost packets

feedbackVars == <<stats, report, counters, quality, sessionThinned, serverLost>>

FeedbackTypeOK ==
    /\ stats \in [UdpStreams -> [sent : UInt, seen : UInt, lost : UInt,
                                 intervalLost : UInt, interval : UInt]]
    /\ report \in [UdpStreams -> Reports]
    /\ counters \in [UdpStreams -> [above : 0..(LossesToThin - 1),
                                    below : 0..(LossesToThick - 1),
                                    worses : 0..(WorsesToThin - 1)]]
    /\ quality \in [UdpStreams -> {0, 1, NumLevels}]
    /\ sessionThinned \in BOOLEAN /\ serverLost \in Nat

FeedbackInit ==
    /\ stats = [s \in UdpStreams |-> [sent |-> 0, seen |-> 0, lost |-> 0,
                                      intervalLost |-> 0, interval |-> 0]]
    /\ report = [s \in UdpStreams |-> [loss |-> "low", worse |-> FALSE, better |-> FALSE]]
    /\ counters = [s \in UdpStreams |-> [above |-> 0, below |-> 0, worses |-> 0]]
    /\ quality = [s \in UdpStreams |-> 0]
    /\ sessionThinned = FALSE /\ serverLost = 0

-----------------------------------------------------------------------------
(* ProcessRTCPPacket of the flow control module *)

\* The counts after a look at report r, the two conditions, and the new quality.
Above(c, r) == r.loss = "high" /\ c.above + 1 >= LossesToThin
Below(c, r) == r.loss = "low" /\ c.below + 1 >= LossesToThick
Worse(c, r) == r.worse /\ c.worses + 1 >= WorsesToThin

RatchetLess(c, r) == Above(c, r) \/ Worse(c, r)
RatchetMore(c, r) == Below(c, r) \/ r.better

\* Every adjustment starts all three again.
Counted(c, r) ==
    IF RatchetLess(c, r) \/ RatchetMore(c, r) THEN [above |-> 0, below |-> 0, worses |-> 0]
    ELSE [above  |-> IF r.loss = "high" THEN c.above + 1 ELSE 0,
          below  |-> IF r.loss = "low" THEN c.below + 1 ELSE 0,
          worses |-> c.worses + IF r.worse THEN 1 ELSE 0]

\* Less quality is the first level below the best, then the worst; more is the way back.
Adjusted(q, c, r) ==
    IF RatchetLess(c, r) /\ q < NumLevels THEN IF q + 1 > 1 THEN NumLevels ELSE q + 1
    ELSE IF RatchetMore(c, r) /\ q > 0 THEN IF q - 1 > 1 THEN 1 ELSE q - 1
    ELSE q

\* The session counts as thinned from any adjustment until one that leaves a stream at its
\* best.  The server's number of thinned sessions is read-only for a module: both calls
\* that should change it fail.
ProcessRTCPPacket(s, r) ==
    LET c == counters[s]
        q == Adjusted(quality[s], c, r)
    IN  /\ counters' = [counters EXCEPT ![s] = Counted(c, r)]
        /\ quality' = [quality EXCEPT ![s] = q]
        /\ sessionThinned' = IF RatchetLess(c, r) \/ RatchetMore(c, r)
                             THEN ~sessionThinned \/ q # 0 ELSE sessionThinned

-----------------------------------------------------------------------------
(* ProcessIncomingRTCPPacket *)

\* The difference is taken as a signed number.
CredibleSigned(st, total) == total - st.lost <= st.sent - st.seen

\* More can not be lost since the last report than was sent; a report from before the last
\* one makes the unsigned difference huge.
Credible(st, total) == (total - st.lost) % Width <= (st.sent - st.seen) % Width

Accounted(st, total) ==
    IF ~Credible(st, total) THEN st
    ELSE [st EXCEPT !.lost = IF total > @ THEN total ELSE @,
                    !.intervalLost = IF total > st.lost THEN total - st.lost
                                     ELSE IF total = st.lost THEN 0 ELSE @,
                    !.interval = (st.sent - st.seen) % Width,
                    !.seen = st.sent]

\* A datagram holds at most one receiver report and one quality report; total and r are
\* Absent when it does not.  The modules look at it only if every part of it parses.
ProcessIncomingRTCPPacket(s, total, r, complete) ==
    /\ stats' = IF total = Absent THEN stats ELSE [stats EXCEPT ![s] = Accounted(@, total)]
    /\ serverLost' = serverLost + stats'[s].lost - stats[s].lost
    /\ report' = IF r = Absent THEN report ELSE [report EXCEPT ![s] = r]
    /\ IF complete THEN ProcessRTCPPacket(s, report'[s])
       ELSE UNCHANGED <<counters, quality, sessionThinned>>

\* Write counts a packet.
PacketWritten(s) ==
    /\ stats[s].sent + 1 < Width
    /\ stats' = [stats EXCEPT ![s].sent = @ + 1]
    /\ UNCHANGED <<report, counters, quality, sessionThinned, serverLost>>

FeedbackNext ==
    \E s \in UdpStreams :
        \/ PacketWritten(s)
        \/ \E total \in UInt \cup {Absent}, r \in Reports \cup {Absent}, complete \in BOOLEAN :
               ProcessIncomingRTCPPacket(s, total, r, complete)

FeedbackSpec == FeedbackInit /\ [][FeedbackNext]_feedbackVars

-----------------------------------------------------------------------------

\* Whatever reports come, late, twice or wrong, a stream has not lost more packets than it
\* had sent by the last report that counted, nor in the last interval more than in that
\* interval: the flow control and the statistics divide the two
\* (ProcessIncomingRTCPPacket).
LossWithinSent ==
    \A s \in UdpStreams :
        /\ stats[s].lost <= stats[s].seen /\ stats[s].seen <= stats[s].sent
        /\ stats[s].intervalLost <= stats[s].interval
=============================================================================
