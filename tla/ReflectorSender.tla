--------------------------- MODULE ReflectorSender ---------------------------
(***************************************************************************)
(* The packet queues of a reflected broadcast: every sender (the RTP or    *)
(* the RTCP side of a ReflectorStream) has a socket with a free queue, the *)
(* queue of the packets that arrived, and a task that writes them to every *)
(* output (RTPSessionOutput), one output for each client that watches.     *)
(*                                                                         *)
(* A step of ReflectPackets holds the socket's mutex, the bucket mutex and *)
(* the mutexes of the outputs, and is atomic here.  It may be taken at any *)
(* time: when the task really runs is the matter of ReflectorSocket.  A    *)
(* packet is a pointer: a bookmark goes on pointing to it when it is freed *)
(* and used again.  Ages count ticks up to the first one past MaxAge.      *)
(***************************************************************************)
EXTENDS Integers, Sequences, FiniteSetsExt, Functions

CONSTANTS
    Senders,       \* senders of the session
    H264, Audio,   \* senders of an H.264 video, of an audio stream
    Rtcp,          \* RTCP senders
    Outputs,       \* RTPSessionOutput objects
    Packets,       \* ReflectorPacket objects
    Preallocated,  \* the free queue each socket is built with
    NumBookmarks,  \* fNumBookmarks
    MaxCount,      \* bound: packets that arrive
    OverBuffer,    \* sOverBufferInMsec
    FirstOffset,   \* sFirstPacketOffsetMsec
    MaxAge,        \* sMaxPacketAgeMSec
    RelocateAge,   \* sRelocatePacketAgeMSec
    NoPacket       \* nullptr

ASSUME SenderAssumption ==
    /\ H264 \subseteq Senders /\ Audio \subseteq Senders \ H264 /\ Rtcp \subseteq Senders
    /\ NoPacket \notin Packets
    /\ IsFiniteSet(Senders) /\ NumBookmarks \in Nat /\ Cardinality(Senders) <= NumBookmarks
    /\ {OverBuffer, FirstOffset, MaxAge, RelocateAge} \subseteq Nat
    /\ Preallocated \in [Senders -> Seq(Packets)]
    /\ \A s, t \in Senders : \A i \in DOMAIN Preallocated[s], j \in DOMAIN Preallocated[t] :
           Preallocated[s][i] = Preallocated[t][j] => s = t /\ i = j
    /\ MaxCount \in Nat

VARIABLES
    packetQueue,   \* fPacketQueue of each sender, oldest first
    freeQueue,     \* fFreeQueue of its socket
    packet,        \* the contents of each ReflectorPacket
    packetCount,   \* fPacketCount
    keyFrame,      \* fKeyFrameStartPacketElementPointer
    keyUpdate,     \* fHasVideoKeyFrameUpdate of the session
    withInfo,      \* clients whose PLAY is answered with rtpInfoEnabled
    watch,         \* state of the client session of each output
    paused,        \* history: its client has paused
    bookmarks,     \* fBookmarkedPacketsElemsArray
    lastSent,      \* last packet ID sent to each RTP stream of the output
    started,       \* its packet count is not zero
    firstSeq       \* qtssRTPStrFirstSeqNumber

queueVars  == <<packetQueue, freeQueue, packet, packetCount, keyFrame, keyUpdate>>
outputVars == <<withInfo, watch, paused, bookmarks, lastSent, started, firstSeq>>
senderVars == <<queueVars, outputVars>>

Ages       == 0..(MaxAge + 1)
Counts     == 0..MaxCount
ResetData  == [id |-> 0, age |-> 0, needed |-> FALSE]

At(s, i)    == packetQueue[s][i]
Queued(s)   == Range(packetQueue[s])
IndexOf(s, p) == CHOOSE i \in DOMAIN packetQueue[s] : At(s, i) = p
Bookmarked  == UNION {Range(bookmarks[o]) : o \in Outputs}
Allocated   == UNION {Queued(s) \cup Range(freeQueue[s]) : s \in Senders}
Arrived     == FoldFunction(+, 0, packetCount)

\* The packets of queue q that are in S, in their order.
Those(q, S) ==
    LET those[i \in 0..Len(q)] ==
            IF i = 0 THEN <<>>
            ELSE IF q[i] \in S THEN Append(those[i - 1], q[i]) ELSE those[i - 1]
    IN  those[Len(q)]

SenderInit ==
    /\ packetQueue = [s \in Senders |-> <<>>] /\ freeQueue = Preallocated
    /\ packet = [p \in Packets |-> ResetData]
    /\ packetCount = [s \in Senders |-> 0]
    /\ keyFrame = [s \in Senders |-> NoPacket] /\ keyUpdate = FALSE
    /\ withInfo \in SUBSET Outputs
    /\ watch = [o \in Outputs |-> "none"] /\ paused = [o \in Outputs |-> FALSE]
    /\ bookmarks = [o \in Outputs |-> [i \in 1..NumBookmarks |-> NoPacket]]
    /\ lastSent = [o \in Outputs |-> [s \in Senders |-> 0]]
    /\ firstSeq = [o \in Outputs |-> [s \in Senders |-> 0]]
    /\ started = [o \in Outputs |-> [s \in Senders |-> FALSE]]

-----------------------------------------------------------------------------
(* Packets arrive. *)

\* GetPacket: the head of the free queue, or a new packet.  An object that nothing points
\* to any more can stand for the new one.
GetPacket(s, p) ==
    IF freeQueue[s] # <<>> THEN p = Head(freeQueue[s])
    ELSE p = CHOOSE q \in Packets : q \notin Allocated \cup Bookmarked
Available(s) == freeQueue[s] # <<>> \/ ~(Packets \subseteq Allocated \cup Bookmarked)

\* The packet is used and stays in the free queue.
RestKept(s) == freeQueue[s]

Rest(s) == IF freeQueue[s] = <<>> THEN <<>> ELSE Tail(freeQueue[s])

\* BufferKeyFrame: the first packet of a video key frame, and the next audio packet,
\* become the packet a new client starts at, and are kept.
IsKeyFrame(s, first) ==
    \/ s \in H264 /\ first
    \/ s \in Audio /\ keyUpdate
BufferKeyFrame(s, p, data, first) ==
    IF ~IsKeyFrame(s, first)
    THEN packet' = [packet EXCEPT ![p] = data] /\ UNCHANGED <<keyFrame, keyUpdate>>
    ELSE /\ packet' = [q \in Packets |->
                 IF q = p THEN [data EXCEPT !.needed = TRUE]
                 ELSE IF q = keyFrame[s] THEN [packet[q] EXCEPT !.needed = FALSE]
                 ELSE packet[q]]
         /\ keyFrame' = [keyFrame EXCEPT ![s] = p]
         /\ keyUpdate' = (s \in H264)

\* A packet is queued, goes back to the free queue (RTCP that is no sender report) or,
\* with the wrong SSRC, is lost: ProcessPacket returns and nobody puts it back.
Fates(s) == IF s \in Rtcp THEN {"queued", "returned", "lost"} ELSE {"queued", "lost"}
ProcessPacket(s, p, fate, first) ==
    \/ /\ fate = "queued" /\ Arrived < MaxCount
       /\ packetCount' = [packetCount EXCEPT ![s] = @ + 1]
       /\ packetQueue' = [packetQueue EXCEPT ![s] = Append(@, p)]
       /\ BufferKeyFrame(s, p, [id |-> packetCount[s] + 1, age |-> 0,
                                needed |-> packet[p].needed], first)
       /\ freeQueue' = [freeQueue EXCEPT ![s] = Rest(s)]
    \/ /\ fate # "queued"
       /\ freeQueue' = [freeQueue EXCEPT
                            ![s] = Rest(s) \o IF fate = "lost" THEN <<>> ELSE <<p>>]
       /\ UNCHANGED <<packetQueue, packet, packetCount, keyFrame, keyUpdate>>

\* PushPacket for a packet of the broadcaster's RTSP connection, and GetIncomingData, one
\* datagram a step.  The packet taken before RecvFrom says EAGAIN is lost as well.
GetIncomingData(s) ==
    /\ \E p \in Packets, fate \in Fates(s), first \in BOOLEAN :
           Available(s) /\ GetPacket(s, p) /\ ProcessPacket(s, p, fate, first)
    /\ UNCHANGED outputVars

-----------------------------------------------------------------------------
(* The outputs. *)

Setup(o) ==
    /\ watch[o] = "none"
    /\ watch' = [watch EXCEPT ![o] = "ready"]
    /\ UNCHANGED <<queueVars, withInfo, paused, bookmarks, lastSent, started, firstSeq>>

\* The oldest packet within the buffer time, offset ticks into it; 0 if there is none.
BufferStart(s, offset) ==
    LET young == {i \in DOMAIN packetQueue[s] :
                      packet[At(s, i)].age <= OverBuffer - offset}
    IN  IF young = {} THEN 0 ELSE Min(young)
StartOffset == IF FirstOffset > OverBuffer THEN OverBuffer ELSE FirstOffset

\* HaveStreamBuffers, when the response shall name the first packet of every stream: the
\* client starts at its sequence number.  GetFirstPacketInfo marks that packet.  The streams
\* are taken in some order up to the first that has no packet yet.
Buffered == {s \in Senders \ Rtcp : BufferStart(s, StartOffset) # 0}
HaveStreamBuffers(o, done) ==
    LET starts == [s \in done |-> At(s, BufferStart(s, StartOffset))]
    IN  /\ packet' = [p \in Packets |-> [packet[p] EXCEPT !.needed = @ \/ p \in Range(starts)]]
        /\ firstSeq' = [firstSeq EXCEPT ![o] =
                           [s \in Senders |-> IF s \in done THEN packet[starts[s]].id ELSE @[s]]]
DoPlay(o) ==
    /\ watch[o] = "ready"
    /\ IF o \in withInfo
       THEN Senders \ Rtcp = Buffered /\ HaveStreamBuffers(o, Buffered)
       ELSE UNCHANGED <<packet, firstSeq>>
    /\ watch' = [watch EXCEPT ![o] = "playing"]
    /\ started' = [started EXCEPT ![o] = [s \in Senders |-> FALSE]]
    /\ UNCHANGED <<packetQueue, freeQueue, packetCount, keyFrame, keyUpdate>>
    /\ UNCHANGED <<withInfo, paused, bookmarks, lastSent>>
\* The request is tried again later.
PlayWaits(o) ==
    /\ watch[o] = "ready" /\ o \in withInfo /\ Senders \ Rtcp # Buffered
    /\ started' = [started EXCEPT ![o] = [s \in Senders |-> FALSE]]
    /\ \E done \in SUBSET Buffered : HaveStreamBuffers(o, done)
    /\ UNCHANGED <<packetQueue, freeQueue, packetCount, keyFrame, keyUpdate>>
    /\ UNCHANGED <<withInfo, watch, paused, bookmarks, lastSent>>

Pause(o) ==
    /\ watch[o] = "playing"
    /\ watch' = [watch EXCEPT ![o] = "ready"]
    /\ paused' = [paused EXCEPT ![o] = TRUE]
    /\ UNCHANGED <<queueVars, withInfo, bookmarks, lastSent, started, firstSeq>>

\* The client session closes; its output and its RTP streams are deleted.
RemoveOutput(o) ==
    /\ watch[o] # "none"
    /\ watch' = [watch EXCEPT ![o] = "none"]
    /\ paused' = [paused EXCEPT ![o] = FALSE]
    /\ bookmarks' = [bookmarks EXCEPT ![o] = [i \in 1..NumBookmarks |-> NoPacket]]
    /\ lastSent' = [lastSent EXCEPT ![o] = [s \in Senders |-> 0]]
    /\ firstSeq' = [firstSeq EXCEPT ![o] = [s \in Senders |-> 0]]
    /\ started' = [started EXCEPT ![o] = [s \in Senders |-> FALSE]]
    /\ UNCHANGED <<queueVars, withInfo>>

-----------------------------------------------------------------------------
(* ReflectPackets *)

\* GetBookMarkedPacket: the slot of a bookmark in this queue, else the last empty slot,
\* else 0; and the packet to go on with, else the one new outputs start with.
Mine(o, s)  == {i \in 1..NumBookmarks : bookmarks[o][i] \in Queued(s)}
Empty(o)    == {i \in 1..NumBookmarks : bookmarks[o][i] = NoPacket}
Slot(o, s)  == IF Mine(o, s) # {} THEN Min(Mine(o, s))
               ELSE IF Empty(o) # {} THEN Max(Empty(o)) ELSE 0
NewOutputStart(s) ==
    IF keyFrame[s] # NoPacket THEN IndexOf(s, keyFrame[s])
    ELSE IF BufferStart(s, 0) # 0 THEN BufferStart(s, 0) ELSE 1
Start(o, s) ==
    IF Mine(o, s) # {} THEN IndexOf(s, bookmarks[o][Min(Mine(o, s))]) ELSE NewOutputStart(s)

\* FilterPacket and PacketAlreadySent: the positions of the queue that WritePacket sends
\* when the client takes them.  Sequence numbers follow the packet IDs and do not wrap.
ToWrite(o, s) ==
    LET rest == {i \in Start(o, s)..Len(packetQueue[s]) :
                     packet[At(s, i)].id > lastSent[o][s]}
        first == {i \in rest : packet[At(s, i)].id >= firstSeq[o][s]}
    IN  IF started[o][s] \/ first = {} THEN (IF started[o][s] THEN rest ELSE {})
        ELSE {i \in rest : i >= Min(first)}

\* SendPacketsToOutput: the client takes room packets before it blocks.
Before(S, i)     == Cardinality({j \in S : j < i})
Written(o, s, room) == {i \in ToWrite(o, s) : Before(ToWrite(o, s), i) < room}
BlocksAt(o, s, room) == {i \in ToWrite(o, s) : Before(ToWrite(o, s), i) = room}
LastPacket(o, s, room) ==
    At(s, IF BlocksAt(o, s, room) # {} THEN Min(BlocksAt(o, s, room))
          ELSE Len(packetQueue[s]))

\* A client is moved whenever there is a key frame.
RelocateAlways(s, p) == IF keyFrame[s] # NoPacket THEN keyFrame[s] ELSE p

\* NeedRelocateBookMark: from an old packet to a newer key frame.
NeedRelocateBookMark(s, p) ==
    IF /\ packet[p].age > RelocateAge /\ keyFrame[s] # NoPacket
       /\ packet[keyFrame[s]].age < packet[p].age
    THEN keyFrame[s] ELSE p

\* RemoveOldPackets: frees what is old and not needed, forgets the marks of the others,
\* and stops at the key frame or the first packet that is not old.
Removable(p, marked) == ~(packet[p].needed \/ p \in marked) /\ packet[p].age > MaxAge
StopAt(s, marked) ==
    Min({Len(packetQueue[s]) + 1} \cup
        {i \in DOMAIN packetQueue[s] :
             /\ ~Removable(At(s, i), marked)
             /\ At(s, i) = keyFrame[s] \/ packet[At(s, i)].age <= MaxAge})
Passed(s, marked)  == {At(s, i) : i \in 1..(StopAt(s, marked) - 1)}
\* The key frame loses its mark as well.
ClearedKeyToo(s, marked) ==
    {At(s, i) : i \in {j \in DOMAIN packetQueue[s] : j <= StopAt(s, marked)}}

Cleared(s, marked) ==
    Passed(s, marked) \cup
    {At(s, i) : i \in {j \in DOMAIN packetQueue[s] :
                           j = StopAt(s, marked) /\ At(s, j) # keyFrame[s]}}
RemoveOldPackets(s, marked) ==
    LET gone == {p \in Passed(s, marked) : Removable(p, marked)}
    IN  /\ packetQueue' = [packetQueue EXCEPT ![s] = Those(@, Queued(s) \ gone)]
        /\ freeQueue' = [freeQueue EXCEPT ![s] = @ \o Those(packetQueue[s], gone)]
        /\ packet' = [p \in Packets |->
               IF p \in gone THEN ResetData
               ELSE [packet[p] EXCEPT !.needed = (@ \/ p \in marked)
                                                   /\ p \notin Cleared(s, marked)]]

Playing == {o \in Outputs : watch[o] = "playing"}
ReflectPackets(s, room) ==
    LET served == IF packetQueue[s] = <<>> THEN {} ELSE Playing
        sent   == {o \in served : Written(o, s, room[o]) # {}}
        mark   == [o \in served |-> NeedRelocateBookMark(s, LastPacket(o, s, room[o]))]
    IN  /\ bookmarks' = [o \in Outputs |->
               IF o \in served /\ Slot(o, s) # 0
               THEN [bookmarks[o] EXCEPT ![Slot(o, s)] = mark[o]] ELSE bookmarks[o]]
        /\ lastSent' = [o \in Outputs |->
               IF o \in sent
               THEN [lastSent[o] EXCEPT ![s] = packet[At(s, Max(Written(o, s, room[o])))].id]
               ELSE lastSent[o]]
        /\ started' = [o \in Outputs |->
               [started[o] EXCEPT ![s] = @ \/ o \in sent]]
        /\ RemoveOldPackets(s, Range(mark))
        /\ UNCHANGED <<packetCount, keyFrame, keyUpdate, withInfo, watch, paused, firstSeq>>

\* How many packets each client takes.
Rooms(s) ==
    {room \in [Outputs -> Counts] :
        \A o \in Outputs : room[o] <= IF o \in Playing THEN Cardinality(ToWrite(o, s)) ELSE 0}
ReflectorRun(s) == \E room \in Rooms(s) : ReflectPackets(s, room)

\* A tick of the clock.
SenderTick ==
    /\ packet' = [p \in Packets |->
           [packet[p] EXCEPT !.age = IF \E s \in Senders : p \in Queued(s)
                                     THEN Min({@ + 1, MaxAge + 1}) ELSE @]]
    /\ UNCHANGED <<packetQueue, freeQueue, packetCount, keyFrame, keyUpdate>>
    /\ UNCHANGED outputVars

SenderNext ==
    \/ \E s \in Senders : GetIncomingData(s) \/ ReflectorRun(s)
    \/ \E o \in Outputs : Setup(o) \/ DoPlay(o) \/ PlayWaits(o) \/ Pause(o) \/ RemoveOutput(o)
    \/ SenderTick

SenderSpec == SenderInit /\ [][SenderNext]_senderVars

-----------------------------------------------------------------------------
(* What the queues promise. *)

\* The packet new clients start at stays in the queue, marked as needed, however old it
\* gets and whatever the outputs do: otherwise ReflectPackets would follow a pointer into
\* the free queue (BufferKeyFrame and RemoveOldPackets).
KeyFrameKept ==
    \A s \in Senders : keyFrame[s] # NoPacket =>
        keyFrame[s] \in Queued(s) /\ packet[keyFrame[s]].needed

\* A packet is in one place of one queue: no socket fills a packet that another sender
\* still reflects (GetPacket, RemoveOldPackets).
PacketsInOnePlace ==
    \A s, t \in Senders :
        LET both == packetQueue[s] \o freeQueue[s]
        IN  /\ \A i, j \in DOMAIN both : both[i] = both[j] => i = j
            /\ s # t => (Queued(s) \cup Range(freeQueue[s]))
                        \cap (Queued(t) \cup Range(freeQueue[t])) = {}

\* The packets of a queue that an output has not got, and those of them that lie behind
\* the packet it goes on with.
Awaited(o, s) == {i \in DOMAIN packetQueue[s] : packet[At(s, i)].id > lastSent[o][s]}
Behind(o, s)  == {At(s, i) : i \in {j \in Awaited(o, s) : j < Start(o, s)}}

\* A client that does not pause never loses its place: once something was sent to it, one
\* bookmark says where it goes on, and it is only moved over packets it has not got yet
\* when it waits for one that is older than the age from which a slow client goes on with
\* the newest key frame (SendPacketsToOutput, NeedRelocateBookMark, RemoveOldPackets).
PlaceKept ==
    [][\A o \in Outputs, s \in Senders :
           watch'[o] = "playing" /\ ~paused'[o] /\ lastSent'[o][s] > 0 =>
               /\ Cardinality(Mine(o, s)') = 1
               /\ \/ Behind(o, s)' \subseteq Behind(o, s)
                  \/ \E i \in Awaited(o, s) : packet[At(s, i)].age > RelocateAge]_senderVars
=============================================================================
