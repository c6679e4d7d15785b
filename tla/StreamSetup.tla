------------------------------ MODULE StreamSetup ------------------------------
(***************************************************************************)
(* How packets of clients find their way: the channel numbers a connection *)
(* gives to interleaved streams, the table by which datagrams are told     *)
(* apart, and the streams of a broadcast that pushed packets go to.        *)
(*                                                                         *)
(* SETUP adds an RTPStream to a client session, on any connection that     *)
(* names the session.  A stream over TCP gets the next two channels of the *)
(* connection, a stream over UDP a pair of sockets on which no other       *)
(* stream receives from the same client address.  All SETUPs run under the *)
(* mutex of the map of broadcasts, streams are deleted on the tasks of     *)
(* their sessions.  A session that pushes has a broadcast of its own; who  *)
(* may broadcast what is in ReflectorRegistry.                             *)
(***************************************************************************)
EXTENDS Integers, Sequences, FiniteSets

CONSTANTS
    ClientSessions,
    PushSessions,        \* the sessions whose SETUPs have mode=record
    Connections,
    NumTracks,      \* tracks of each presentation, with the IDs 1 .. NumTracks
    Destinations,   \* client addresses with an RTCP port
    Pairs,          \* socket pairs
    Standing,       \* the pairs of SetupUDPSockets, one for each local address
    MaxSetups,      \* bound: SETUPs; fewer than the 128 after which fCurChannelNum is 0 again
    Nobody          \* null

ASSUME SetupAssumption ==
    /\ PushSessions \subseteq ClientSessions /\ Standing \subseteq Pairs
    /\ NumTracks \in Nat /\ MaxSetups \in 0..127
    /\ Nobody \notin ClientSessions /\ Nobody \notin Pairs /\ Nobody \notin Destinations
    /\ Nobody \notin ClientSessions \X Nat

VARIABLES
    phase,      \* of a session: "new", "live", out of the map ("closed") or "deleted"
    added,      \* qtssCliSesStreamObjects of each session
    given,      \* fChNumToSessIDMap of each connection; fCurChannelNum is twice its length
    recording,  \* sRTSPBroadcastSessionAttr of each connection: whose broadcast
    table,      \* the demuxer of each pair: the stream of a destination
    pairRefs    \* fRefCount of each pair

setupVars == <<phase, added, given, recording, table, pairRefs>>

TrackIDs == 1..NumTracks

\* fRTPChannel, fRTCPChannel, and for UDP fSockets and the remote address
StreamObjects ==
    [track : TrackIDs, conn : Connections, tcp : BOOLEAN, rtp : Nat, rtcp : Nat,
     pair : Pairs \cup {Nobody}, dest : Destinations \cup {Nobody},
     state : {"up", "unregistered", "deleted"}]

StreamIDs == UNION {{<<c, i>> : i \in 1..Len(added[c])} : c \in ClientSessions}
Object(s) == added[s[1]][s[2]]

SetupInit ==
    /\ phase = [c \in ClientSessions |-> "new"]
    /\ added = [c \in ClientSessions |-> <<>>]
    /\ given = [k \in Connections |-> <<>>]
    /\ recording = [k \in Connections |-> Nobody]
    /\ table = [p \in Pairs |-> [d \in Destinations |-> Nobody]]
    /\ pairRefs = [p \in Pairs |-> IF p \in Standing THEN 1 ELSE 0]

-----------------------------------------------------------------------------
(* SETUP                                                                   *)

\* DoSetup refuses a track that is pushed already; a client that watches may
\* set a track up again.
MaySetUp(c, t) ==
    /\ phase[c] \in {"new", "live"} /\ Cardinality(StreamIDs) < MaxSetups
    /\ c \in PushSessions => \A i \in 1..Len(added[c]) : added[c][i].track # t

AddStream(c, s) ==
    /\ added' = [added EXCEPT ![c] = Append(@, s)]
    /\ phase' = [phase EXCEPT ![c] = "live"]

\* GetTwoChannelNumbers
SetupTcp(c, k, t) ==
    /\ MaySetUp(c, t)
    /\ AddStream(c, [track |-> t, conn |-> k, tcp |-> TRUE,
                     rtp |-> 2 * Len(given[k]), rtcp |-> 2 * Len(given[k]) + 1,
                     pair |-> Nobody, dest |-> Nobody, state |-> "up"])
    /\ given' = [given EXCEPT ![k] = Append(@, c)]
    /\ UNCHANGED <<recording, table, pairRefs>>

IsBound(p) == pairRefs[p] > 0

\* GetUDPSocketPair: a pair that is bound and on which nobody receives from d,
\* or else a new one.
SocketPairsFor(d) ==
    LET free == {p \in Pairs : IsBound(p) /\ table[p][d] = Nobody}
    IN IF free # {} THEN free ELSE {p \in Pairs : ~IsBound(p)}

\* A multicast destination has a pair of its own (CreateUDPSocketPair).
NewSocketPairs == {p \in Pairs : ~IsBound(p)}

SetupUdp(c, k, t, d, multicast) ==
    /\ MaySetUp(c, t)
    /\ \E p \in IF multicast THEN NewSocketPairs ELSE SocketPairsFor(d) :
          /\ AddStream(c, [track |-> t, conn |-> k, tcp |-> FALSE, rtp |-> 0, rtcp |-> 0,
                           pair |-> p, dest |-> d, state |-> "up"])
          /\ table' = [table EXCEPT ![p][d] = <<c, Len(added[c]) + 1>>]
          /\ pairRefs' = [pairRefs EXCEPT ![p] = @ + 1]
    /\ UNCHANGED <<given, recording>>

\* RECORD, on whichever connection (DoPlay)
RecordOn(c, k) ==
    /\ c \in PushSessions /\ phase[c] = "live"
    /\ recording' = [recording EXCEPT ![k] = c]
    /\ UNCHANGED <<phase, added, given, table, pairRefs>>

-----------------------------------------------------------------------------
(* The end of a session: it leaves the map and is deleted with its streams, *)
(* one after the other.                                                    *)

CloseSession(c) ==
    /\ phase[c] = "live"
    /\ phase' = [phase EXCEPT ![c] = "closed"]
    /\ UNCHANGED <<added, given, recording, table, pairRefs>>

\* Stream i is the one ~RTPSession is at.
Deleting(c, i) ==
    /\ phase[c] = "closed" /\ i \in 1..Len(added[c])
    /\ added[c][i].state # "deleted"
    /\ \A j \in 1..(i - 1) : added[c][j].state = "deleted"

Deleted(c, i) ==
    /\ added' = [added EXCEPT ![c][i].state = "deleted"]
    /\ phase' = [phase EXCEPT ![c] = IF i = Len(added[c]) THEN "deleted" ELSE @]

DeleteTcpStream(c, i) ==
    /\ Deleting(c, i) /\ added[c][i].tcp
    /\ Deleted(c, i)
    /\ UNCHANGED <<given, recording, table, pairRefs>>

\* Variant: the stream stays in the table.
UnregisterNothing(c, i) ==
    /\ Deleting(c, i) /\ ~added[c][i].tcp /\ added[c][i].state = "up"
    /\ added' = [added EXCEPT ![c][i].state = "unregistered"]
    /\ UNCHANGED <<phase, given, recording, table, pairRefs>>

\* ~RTPStream waits for the RTCP task, which holds the mutex of the table
\* while the stream it found there processes a packet ...
UnregisterStream(c, i) ==
    /\ Deleting(c, i) /\ ~added[c][i].tcp /\ added[c][i].state = "up"
    /\ table' = [table EXCEPT ![added[c][i].pair][added[c][i].dest] = Nobody]
    /\ added' = [added EXCEPT ![c][i].state = "unregistered"]
    /\ UNCHANGED <<phase, given, recording, pairRefs>>

\* ... and then gives its sockets back.
ReleaseStream(c, i) ==
    /\ Deleting(c, i) /\ ~added[c][i].tcp /\ added[c][i].state = "unregistered"
    /\ pairRefs' = [pairRefs EXCEPT ![added[c][i].pair] = @ - 1]
    /\ Deleted(c, i)
    /\ UNCHANGED <<given, recording, table>>

SetupNext ==
    \/ \E c \in ClientSessions, k \in Connections, t \in TrackIDs : SetupTcp(c, k, t)
    \/ \E c \in ClientSessions, k \in Connections, t \in TrackIDs, d \in Destinations,
          multicast \in BOOLEAN : SetupUdp(c, k, t, d, multicast)
    \/ \E c \in ClientSessions, k \in Connections : RecordOn(c, k)
    \/ \E c \in ClientSessions : CloseSession(c)
    \/ \E c \in ClientSessions : \E i \in 1..Len(added[c]) :
          DeleteTcpStream(c, i) \/ UnregisterStream(c, i) \/ ReleaseStream(c, i)

SetupSpec == SetupInit /\ [][SetupNext]_setupVars

-----------------------------------------------------------------------------
(* Packets of the clients                                                  *)

\* RTCPTask::Run, for a datagram from d on pair p.
DatagramTo(p, d) == table[p][d]

\* The channels GetSessionIDForChannelNum knows, and the session of each.
Channels(k)      == 0..(2 * Len(given[k]) - 1)
SessionOf(k, ch) == given[k][(ch \div 2) + 1]

\* FindRTPStreamForChannelNum(ch) of session c returns its stream i, the first
\* that has the channel on whatever connection; one over UDP has 0 twice.
HasChannel(c, i, ch) == ch \in {added[c][i].rtp, added[c][i].rtcp}
FindsStream(c, i, ch) ==
    HasChannel(c, i, ch) /\ \A j \in 1..(i - 1) : ~HasChannel(c, j, ch)

\* ProcessRTPData: the track of the stream of the broadcast that a packet on
\* channel ch goes to, if there are so many.
PushedTo(ch) == (ch \div 2) + 1

-----------------------------------------------------------------------------
\* Every variable has its type.
SetupTypeOK ==
    /\ phase \in [ClientSessions -> {"new", "live", "closed", "deleted"}]
    /\ added \in [ClientSessions -> Seq(StreamObjects)]
    /\ given \in [Connections -> Seq(ClientSessions)]
    /\ recording \in [Connections -> PushSessions \cup {Nobody}]
    /\ table \in [Pairs -> [Destinations -> (ClientSessions \X Nat) \cup {Nobody}]]
    /\ pairRefs \in [Pairs -> Nat]


\* The RTCP of a stream over UDP finds that stream until it is deleted,
\* however many streams send to one address, and never a deleted one.
DatagramsReach ==
    /\ \A s \in StreamIDs : ~Object(s).tcp /\ Object(s).state = "up" =>
          DatagramTo(Object(s).pair, Object(s).dest) = s
    /\ \A p \in Pairs, d \in Destinations : DatagramTo(p, d) # Nobody =>
          /\ DatagramTo(p, d) \in StreamIDs
          /\ LET o == Object(DatagramTo(p, d))
             IN ~o.tcp /\ o.state = "up" /\ o.pair = p /\ o.dest = d

\* A pair is bound exactly as long as a stream uses it, or for ever.
PairsCounted ==
    \A p \in Pairs : pairRefs[p] =
        Cardinality({s \in StreamIDs : Object(s).pair = p /\ Object(s).state # "deleted"})
        + IF p \in Standing THEN 1 ELSE 0

\* HandleIncomingDataPacket uses the stream it looks up without a check: there
\* is one for each channel of a session that is in the map.
StreamFound ==
    \A k \in Connections : \A ch \in Channels(k) :
        phase[SessionOf(k, ch)] = "live" =>
            \E i \in 1..Len(added[SessionOf(k, ch)]) : HasChannel(SessionOf(k, ch), i, ch)

OverOneConnection(c) == \A i, j \in 1..Len(added[c]) :
    added[c][i].tcp /\ added[c][j].tcp => added[c][i].conn = added[c][j].conn

\* Interleaved RTCP reaches the stream that was given its channel on this
\* connection, if the session's interleaved streams are all on one.
FeedbackReaches ==
    \A k \in Connections : \A ch \in Channels(k) :
        LET c == SessionOf(k, ch)
        IN phase[c] = "live" /\ OverOneConnection(c) /\ ch % 2 = 1 =>
               \A i \in 1..Len(added[c]) : FindsStream(c, i, ch) =>
                   added[c][i].tcp /\ added[c][i].conn = k /\ added[c][i].rtcp = ch

\* A client pushes one presentation on its connection and nothing else, all of
\* its tracks over TCP and in their order.
PushesInOrder(k) ==
    LET c == recording[k]
    IN /\ c # Nobody /\ phase[c] = "live"
       /\ \A n \in 1..Len(given[k]) : given[k][n] = c
       /\ \A i \in 1..Len(added[c]) :
             added[c][i].tcp /\ added[c][i].conn = k /\ added[c][i].track = i

\* What such a client pushes is reflected as the track it set up.
PushReaches ==
    \A k \in Connections : PushesInOrder(k) => \A ch \in Channels(k) :
        \E i \in 1..Len(added[recording[k]]) :
            FindsStream(recording[k], i, ch) /\ added[recording[k]][i].track = PushedTo(ch)

\* Every packet of a client reaches the stream it is for.
StreamsReached == DatagramsReach /\ PairsCounted /\ StreamFound /\ FeedbackReaches /\ PushReaches

-----------------------------------------------------------------------------
(* What a comment of the source says and the code does not keep.           *)

\* "one stream per every 2 channels": what a client pushes on the channels of a
\* track is reflected as that track.
PushedToItsTrack ==
    \A k \in Connections : \A c \in PushSessions : \A i \in 1..Len(added[c]) :
        recording[k] = c /\ phase[c] = "live" /\ added[c][i].tcp /\ added[c][i].conn = k
            => added[c][i].track = PushedTo(added[c][i].rtp)
=============================================================================
