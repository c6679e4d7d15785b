------------------------------ MODULE StreamLocks ------------------------------
(***************************************************************************)
(* The mutexes of the server, in the order in which each task takes them.  *)
(*                                                                         *)
(* A task that runs is a sequence of waits: for each mutex it asks for,    *)
(* the mutexes it holds meanwhile.  What happens between two waits cannot  *)
(* stop the task and is not modelled; a mutex is given back when the task  *)
(* goes on to a wait that does not hold it, or ends.  Mutexes are          *)
(* recursive.  A wait may be a TryLock: a task that does not get that      *)
(* mutex goes on without the part it protects.                             *)
(*                                                                         *)
(* Left out: mutexes that are only taken by a task that takes nothing      *)
(* while it has them (the dictionaries of requests and of RTP streams, the *)
(* logs, the heaps of the tasks), and fReadMutex, always taken together    *)
(* with fSessionMutex.  One UDP socket of a stream, and one of the pool,   *)
(* stands for the pair.                                                    *)
(***************************************************************************)
EXTENDS Integers, FiniteSets, SequencesExt

CONSTANTS
    Broadcasters, \* clients that broadcast, each with its connection and its client session
    Viewers,      \* clients that watch the broadcast
    NumStreams,   \* streams of the broadcast
    Workers,      \* task threads: as many tasks run at the same time
    Reread        \* the preferences are reread while the server runs

Peers == Broadcasters \cup Viewers

ASSUME LocksAssumption ==
    /\ IsFiniteSet(Peers)
    /\ NumStreams \in Nat /\ Workers \in Nat
    /\ Reread \in BOOLEAN

VARIABLE todo   \* the waits a task still has before it; none when it does not run

lockVars == <<todo>>

-----------------------------------------------------------------------------
(* The mutexes.                                                            *)

RtspMutex(c)    == <<"rtsp", c>>         \* fSessionMutex of the RTSPSession
SessionMutex(c) == <<"session", c>>      \* fSessionMutex of the RTPSession
Attributes(c)   == <<"attributes", c>>   \* the mutex of its dictionary
PointerMutex(c) == <<"pointer", c>>      \* fRTSPSessionMutex, for its fRTSPSession
OutputMutex(c)  == <<"output", c>>       \* of its RTPSessionOutput
Bucket(s)       == <<"bucket", s>>       \* fBucketMutex of the ReflectorStream
Demuxer(s)      == <<"demuxer", s>>      \* of the sockets the stream receives on
SessionMap      == <<"broadcasts">>      \* sSessionMap of the reflector module
RTPMap          == <<"sessions">>        \* fRTPMap of the server
ServerMutex     == <<"server">>          \* fMutex of the server
PrefsMutex      == <<"prefs">>           \* fPrefsMutex of the server's preferences
Pool            == <<"pool">>            \* the RTPSocketPool
RTCPDemuxer     == <<"rtcp">>            \* of the sockets of the pool

-----------------------------------------------------------------------------
(* Waits, and how they are put together.                                   *)

\* A wait: skip is the number of waits that are left out if a TryLock fails.
Wait(m, try, skip) == <<[wants |-> m, has |-> {}, try |-> try, skip |-> skip]>>

While(m, body) == [i \in DOMAIN body |-> [body[i] EXCEPT !.has = @ \cup {m}]]

\* Lock, the body, Unlock.
Hold(m, body) == Wait(m, FALSE, 0) \o While(m, body)
Touch(m)      == Hold(m, <<>>)

\* TryLock, and the body only if that was successful.
Attempt(m, body) == Wait(m, TRUE, Len(body)) \o While(m, body)

\* TryLock and Unlock; without success the rest is for another time.
OrLater(m, rest) == Wait(m, TRUE, Len(rest)) \o rest

EachStream(Op(_)) == FlattenSeq([s \in 1..NumStreams |-> Op(s)])
EachViewer(Op(_)) == FlattenSeq([i \in 1..Cardinality(Viewers) |-> Op(SetToSeq(Viewers)[i])])

\* The buckets of all streams at once, in the order of the streams.
HoldBuckets(body) == FoldRight(LAMBDA m, rest : Hold(m, rest), [s \in 1..NumStreams |-> Bucket(s)], body)

-----------------------------------------------------------------------------
(* What the handlers have in common.                                       *)

\* RTPSession::Teardown.
Teardown(c) == Touch(PointerMutex(c))

\* ReflectorSession::TearDownAllOutputs: each output sets the reason, then tears down.
TearDownAllOutputs ==
    EachStream(LAMBDA s : Hold(Bucket(s), EachViewer(LAMBDA c : Touch(Attributes(c)) \o Teardown(c))))

\* RTPStream::ProcessIncomingRTCPPacket drops the packet rather than wait.
LockedRTCPPacket(c) == Attempt(SessionMutex(c), <<>>)

\* RTSPSessionInterface::InterleavedWrite, under the mutex of the session's pointer to it.
InterleavedWrite(c) == Hold(PointerMutex(c), Attempt(RtspMutex(c), <<>>))

\* Variant: the writer waits for the session.
WriteWaits(c) == Hold(SessionMutex(c), InterleavedWrite(c))

\* RTPStream::Write drops the packet, or has it sent again, rather than wait.
Write(c) == Attempt(SessionMutex(c), InterleavedWrite(c))

\* RTPStream::Setup: a reliable stream asks for its directory, and all but interleaved
\* streams take a socket pair of the pool that does not have the address yet.
SetupStream(transport) ==
    (IF transport = "RUDP" THEN Touch(PrefsMutex) ELSE <<>>)
        \o IF transport = "TCP" THEN <<>> ELSE Hold(Pool, Touch(RTCPDemuxer)) \o Touch(RTCPDemuxer)

\* AddRTPStream, RTPSession::AddStream and the setup of the new stream.
AddRTPStream(c, transport) == HoldBuckets(SetupStream(transport) \o Touch(Attributes(c)))

\* RTPStream::SendSetupResponse: AppendTransport reads the source address for UDP.
SendSetupResponse(transport) == IF transport = "TCP" THEN <<>> ELSE Touch(PrefsMutex)

-----------------------------------------------------------------------------
(* A connection: RTSPSession::Run.                                         *)

\* A request from the lock to the cleanup: the client session is found or created, its
\* bandwidth noted, then each role has its mutex; the reflector module handles the request.
Request(c, handling) ==
    Hold(RtspMutex(c),
         Touch(RTPMap) \o Touch(Attributes(c))
             \o Hold(SessionMutex(c), Hold(SessionMap, handling))
             \o Touch(SessionMutex(c)) \o Touch(RTPMap))

\* The first request of a connection makes the client session: Activate registers it.
FirstRequest(c, handling) ==
    Hold(RtspMutex(c),
         Touch(RTPMap) \o Hold(SessionMutex(c), Touch(RTPMap) \o Touch(ServerMutex))
             \o Touch(RTPMap) \o Touch(Attributes(c))
             \o Hold(SessionMutex(c), Hold(SessionMap, handling))
             \o Touch(SessionMutex(c)) \o Touch(RTPMap))

\* An output leaves each stream and is no longer counted there.
RemoveOutput == EachStream(LAMBDA s : Touch(Bucket(s)) \o Touch(Bucket(s)))

\* DoDescribe of a client that may watch already, with the profile of its player.
Describe(c) == Touch(Attributes(c)) \o RemoveOutput \o Touch(Attributes(c)) \o Touch(PrefsMutex)

\* DoSetup of a viewer: its output is added to each stream and counted there.
SetupToWatch(c, transport) ==
    EachStream(LAMBDA s : Touch(Bucket(s)) \o Touch(Bucket(s)))
        \o Touch(Attributes(c)) \o AddRTPStream(c, transport) \o Touch(Attributes(c))
        \o SendSetupResponse(transport)

\* DoSetup of a broadcaster: BindSockets adds each stream to its socket, then the client
\* is made known to the sockets.
SetupToPush(c, transport) ==
    Hold(SessionMap, EachStream(LAMBDA s : Touch(Demuxer(s))))
        \o Touch(Attributes(c)) \o EachStream(LAMBDA s : Touch(Demuxer(s)))
        \o Touch(Attributes(c)) \o AddRTPStream(c, transport)
        \o SendSetupResponse(transport)

\* DoPlay of a viewer: the profile of the player is read from the preferences, the
\* first packets are looked up if it asks for them, and RTPSession::Play counts it.
Play(c, rtpInfo) ==
    Touch(Attributes(c)) \o Touch(PrefsMutex)
        \o (IF rtpInfo THEN HoldBuckets(<<>>) ELSE <<>>)
        \o Touch(ServerMutex)

\* DoPlay of a broadcaster.
Record(c) == Touch(Attributes(c)) \o Touch(Attributes(c))

\* A packet that comes interleaved.  PushPacket takes a free packet of the socket, then
\* the demuxer again to have it processed.
HandleIncomingDataPacket(c, handling) ==
    Hold(RtspMutex(c), Touch(RTPMap) \o Hold(Attributes(c), handling) \o Touch(RTPMap))

PushPacket(s) == Touch(Demuxer(s)) \o Touch(Demuxer(s))

\* A connection that has died tears its client session down, without its mutex.
Dying(c) == Touch(RTPMap) \o Teardown(c) \o Touch(RTPMap)

ConnectionRuns(c) ==
    {Request(c, Teardown(c)), Dying(c), HandleIncomingDataPacket(c, LockedRTCPPacket(c))}
        \cup (IF c \notin Viewers THEN {} ELSE
                 {FirstRequest(c, Describe(c)), Request(c, Describe(c))} \cup
                 {FirstRequest(c, SetupToWatch(c, tr)) : tr \in {"TCP", "UDP", "RUDP"}}
                     \cup {Request(c, SetupToWatch(c, tr)) : tr \in {"TCP", "UDP", "RUDP"}}
                     \cup {Request(c, Play(c, info)) : info \in BOOLEAN})
        \cup (IF c \notin Broadcasters THEN {} ELSE
                 {FirstRequest(c, SetupToPush(c, tr)) : tr \in {"TCP", "UDP"}}
                     \cup {Request(c, SetupToPush(c, tr)) : tr \in {"TCP", "UDP"}}
                     \cup {Request(c, Record(c))}
                     \cup {HandleIncomingDataPacket(c, LockedRTCPPacket(c) \o PushPacket(s)) : s \in 1..NumStreams})

-----------------------------------------------------------------------------
(* The other tasks.                                                        *)

\* RTPSession::Run after a kill or a timeout: out of the map, DestroySession of the
\* module, then the streams and the session are deleted.
DestroySession(handling) == Hold(SessionMap, handling)

CloseBroadcast(c, killClients) ==
    DestroySession(Touch(Attributes(c)) \o EachStream(LAMBDA s : Touch(Demuxer(s)))
                       \o IF killClients THEN TearDownAllOutputs ELSE <<>>)

CloseWatching(c) ==
    DestroySession(RemoveOutput \o Touch(Attributes(c)))

DeleteSession == Touch(RTCPDemuxer) \o Touch(Pool) \o Touch(ServerMutex)

SessionRuns(c) ==
    {OrLater(RTPMap, ending \o DeleteSession) :
        ending \in (IF c \in Broadcasters THEN {CloseBroadcast(c, kill) : kill \in BOOLEAN} ELSE {CloseWatching(c)})}

\* ReflectorSocket::Run: what has come is taken in, then the sender reflects it, an RTCP
\* sender after it has counted the viewers for its report.
ReflectPackets(s) ==
    Touch(Bucket(s)) \o Hold(Bucket(s), EachViewer(LAMBDA c : Hold(OutputMutex(c), Write(c))))

SocketRun(s) == Hold(Demuxer(s), Touch(Demuxer(s)) \o ReflectPackets(s))

\* RTCPTask::Run.
RTCPRun(c) == Hold(Pool, Hold(RTCPDemuxer, LockedRTCPPacket(c)))

\* RTPStatsUpdaterTask::Run.
StatisticsRun == Hold(ServerMutex, Touch(RTPMap))

\* QTSServer::RereadPrefsService: the listeners, then the reread role, in which the
\* reflector module looks for announced kills and carries one out.
RereadRun(kill) ==
    Hold(PrefsMutex, Touch(PrefsMutex) \o Touch(ServerMutex) \o Hold(SessionMap, kill))

RereadRuns ==
    {RereadRun(<<>>)} \cup
    {RereadRun(Touch(SessionMap) \o TearDownAllOutputs \o Teardown(c)) : c \in Broadcasters}

-----------------------------------------------------------------------------
Of(kind, S) == {<<kind, x>> : x \in S}

Tasks ==
    Of("connection", Peers) \cup Of("client", Peers) \cup Of("socket", 1..NumStreams)
        \cup {<<"rtcp">>, <<"statistics">>} \cup (IF Reread THEN {<<"reread">>} ELSE {})

Runs(t) ==
    CASE t[1] = "connection" -> ConnectionRuns(t[2])
      [] t[1] = "client"     -> SessionRuns(t[2])
      [] t[1] = "socket"     -> {SocketRun(t[2])}
      [] t[1] = "rtcp"       -> {RTCPRun(c) : c \in Viewers}
      [] t[1] = "statistics" -> {StatisticsRun}
      [] t[1] = "reread"     -> RereadRuns

Running == {t \in Tasks : todo[t] # <<>>}

Next1(t) == Head(todo[t])

\* The mutexes a task has while it waits.
Held(t) == IF todo[t] = <<>> THEN {} ELSE Next1(t).has

Holders(m) == {t \in Running : m \in Held(t)}

Free(t, m) == Holders(m) \subseteq {t}

LockInit == todo = [t \in Tasks |-> <<>>]

\* A thread takes a task up.
Begin(t) ==
    /\ todo[t] = <<>>
    /\ Cardinality(Running) < Workers
    /\ \E run \in Runs(t) : todo' = [todo EXCEPT ![t] = run]

\* Mutex::Lock, or TryLock with success.
Acquire(t) ==
    /\ t \in Running
    /\ Free(t, Next1(t).wants)
    /\ todo' = [todo EXCEPT ![t] = Tail(@)]

\* TryLock without success.
GiveUpLock(t) ==
    /\ t \in Running
    /\ Next1(t).try
    /\ ~Free(t, Next1(t).wants)
    /\ todo' = [todo EXCEPT ![t] = SubSeq(@, 2 + Next1(t).skip, Len(@))]

LockNext == \E t \in Tasks : Begin(t) \/ Acquire(t) \/ GiveUpLock(t)

LockSpec == LockInit /\ [][LockNext]_lockVars

-----------------------------------------------------------------------------
\* No tasks wait for each other: in every set of tasks one waits for nothing that another
\* one of them holds.  It is what the comments before the TryLocks are about ("We cannot
\* wait for this mutex to be freed (there would be a deadlock possibility)",
\* RTSPSessionInterface::InterleavedWrite) and what RereadPrefsService says it takes care of.
NoDeadlock ==
    \A S \in (SUBSET Running) \ {{}} :
        \E t \in S : Next1(t).try \/ Holders(Next1(t).wants) \cap S \subseteq {t}
=============================================================================
