# EDSS in TLA+

EDSS is a streaming server: players set up sessions over RTSP and receive RTP packets, and
broadcasters announce and push streams that the server reflects to the players. This directory
holds TLA+ modules that model the parts of its code where threads, timers and the network decide
what happens, the TLC configurations that check them on small instances, and proofs that TLAPS
checks for every instance. All paths below are relative to the repository; "the library" is
CxxFramework (namespace `CF`), a git submodule whose code is not in the tree.

## 1. The system

Everything that lives longer than a call is a *task*: an object with a `Run` method that a pool of
threads calls when an event was signalled to it, when its timer fired, or when a positive value its
last `Run` returned has gone by. `Run` returning a negative value deletes the object. One task
never runs on two threads at once; everything else may happen between any two steps of two tasks
unless a mutex forbids it.

| Component | State | Operations | Talks to |
|---|---|---|---|
| RTSP session (`RTSPSession`, `RTSPSessionInterface`) | the connection's `fState`, `fRTSPSession`'s counterpart `fRTPSession`, the last session ID, `fObjectHolders`, `fLiveSession`, read and session mutexes | `Run` (13 states), `SetupRequest`, `FindRTPSession`, `CreateNewRTPSession`, `CleanupRequest`, HTTP tunnelling, `InterleavedWrite` | RTP session map, modules (roles), RTP session |
| RTP session (`RTPSession`, `RTPSessionInterface`) | its map entry and reference count, `fRTSPSession`, `fState`, streams, timers | `Activate`, `AddStream`, `Play`, `Pause`, `Teardown`, `Run` | map, RTSP session, streams, modules |
| RTP stream (`RTPStream`) | transport, quality level, counters | `Setup`, `Write`, `InterleavedWrite`, `ReliableRTPWrite`, `ProcessIncomingRTCPPacket` | resender, overbuffer window, RTSP session |
| Reliable UDP (`RTPPacketResender`, `RTPBandwidthTracker`) | packets not acknowledged, congestion window, retransmission timeout | add, acknowledge, resend or expire, clear | client |
| Overbuffer window (`RTPOverbufferWindow`) | bytes since the client's last report, bucket times | `CheckTransmitTime`, `AddPacketToWindow` | stream |
| Reflector registry (`QTSSReflectorModule`, `ReflectorSession`) | the map of broadcasts with a reference count each, the broadcaster, the outputs | DESCRIBE, ANNOUNCE, SETUP, PLAY, TEARDOWN, session closing | map of reflector sessions, RTP sessions |
| Reflector data path (`ReflectorStream`, `ReflectorSender`, `ReflectorSocket`, `RTPSessionOutput`) | packet queues, free queue, bookmarks, key frame, output buckets | `Run` of a socket: receive, queue, reflect, remove old packets | outputs, RTP streams |
| Request and response streams (`RTSPRequestStream`, `RTSPResponseStream`) | a buffer, what was put back, the unsent rest of the output | `ReadRequest`, `Read`, `SnarfRetreat`, `WriteV`, `Flush` | RTSP session, sockets |
| Server (`main.cpp`, `EDSS`, `QTSServer`) | two processes, signal flags, server state, listeners, client list, counters | fork and wait, start, `DoIdle`, `RereadPrefsService`, `CreateListeners` | everything |
| Dictionaries (`QTSSDictionary`) | attributes, values, the object lock | get, set, add, remove, iterate | API callbacks |
| Flow control module | three counters in each stream | the RTCP role | RTP stream |
| Access log (`QTSSAccessLogModule`, `QTSSRollingLog`) | the log object, its file, the files it rolled | log a request, roll, reread preferences | a task of its own, disk |
| Preferences (`QTSSPrefs`, `QTSServerPrefs`, `XMLPrefsParser`) | the elements of the configuration file, an attribute map per module | set, add, remove, reread, defaults | dictionaries, modules, disk |
| Error log (`QTSSErrorLogModule`) | the log object, the last message and how often it came again | log a message, start and shutdown lines | `QTSSRollingLog` |
| Other modules (access, admin, ...) | little | one function per role | callbacks |

### What is hard in it

* Two objects with different life times point at each other: the connection looks a session up and
  holds a counted reference in the map; the session keeps a plain pointer at the connection and is
  counted in `fObjectHolders`. Either may die first, and each is deleted by its own task.
* Reflector threads call `QTSS_Teardown` and `QTSS_Write` on sessions that belong to other threads.
* A session is killed by a timer, by a TEARDOWN, by the end of its connection and by the end of a
  broadcast, in any order and more than once.
* Packets and acknowledgements get lost, duplicated and reordered; packets are kept for a limited
  time in lists with fixed sizes and recycled.
* A broadcast is shared by players and a broadcaster, each of which may leave first, and its packets
  are shared by players that read at different speeds through plain pointers.
* A request may wait, with its mutexes held, for a module, for its body or for a full socket, while
  other tasks write packets into the same connection and a second connection takes over its input.
* Values, logs and listeners outlive the call that made them: preferences are set in place and
  reread while they are used, log files outlive crashes, and two processes share the signals.

The file `PROJECT.json` lists each hazard at its line with the properties that cover it.

## 2. Modules

| Module | What it is |
|---|---|
| `SessionLifecycle` | RTSP and RTP sessions: creation, use, binding, teardown, timeout, destruction; the server's client list |
| `SessionLease` | what the session map and the two counts promise to the rest of the server; `SessionLifecycle` implements it |
| `MCSessionLifecycle` | its instances for TLC |
| `ResenderWindow` | reliable UDP: the resend lists of a session's streams and the congestion window they share |
| `MCResenderWindow` | its instances for TLC |
| `Sessions_proofs` | the TLAPS proofs about `SessionLifecycle` and `ResenderWindow` |
| `ReflectorRegistry` | the map of broadcasts: who broadcasts and watches what, and when a broadcast is deleted |
| `BroadcastDirectory` | what the map promises to its clients; `ReflectorRegistry` implements it |
| `ReflectorRegistry_proofs` | the TLAPS proofs about `ReflectorRegistry` |
| `MCReflectorRegistry` | its instances for TLC |
| `ReflectorSender` | the packet queues of a broadcast: arrival, key frame, bookmarks of the outputs, removal |
| `ReflectorSocket` | the task of a reflector socket: its wake-ups, and the filter by source |
| `StreamWriter` | `RTPStream::Write`: overbuffer window and thinning by delay |
| `StreamFeedback` | receiver reports, their accounting, and the flow control module |
| `MediaPath_proofs` | the TLAPS proofs about these four |
| `MCMedia` | instances of `ReflectorRegistry`, `ReflectorSender`, `ReflectorSocket` and `StreamWriter` for TLC |
| `StreamLocks` | the mutexes of the server and the order in which each task takes them |
| `StreamSetup` | the channels and sockets of streams, and where packets of clients go |
| `Streams_proofs` | the TLAPS proofs about `StreamSetup` and `StreamLocks` |
| `MCSessionLocks` | instances of `SessionLifecycle`, `ResenderWindow`, `StreamFeedback`, `StreamLocks` and `StreamSetup` for TLC |
| `RequestStream` | the cutting of what arrives into requests and bodies, encoded or not |
| `RtspConnection` | `RTSPSession::Run` with modules that wait, and the output it shares with packets |
| `HttpTunnel` | the two halves of an HTTP tunnel becoming one session |
| `Service_proofs` | the TLAPS proofs about `RequestStream`, `RtspConnection`, `HttpTunnel`, `ServerControl` with `ListenerSet`, and `ErrorLog` |
| `AttributeStore` | one attribute of a dictionary and its memory |
| `RollingLog` | the access log: `QTSSRollingLog` and the module that owns one |
| `ListenerSet` | `CreateListeners` at the start and when preferences are reread |
| `ServerControl` | the two processes, their signals, start and stop; extends `ListenerSet` |
| `Preferences` | the preferences, their map of attributes and the elements of the configuration file |
| `ErrorLog` | what the error log module writes, counts and forgets |
| `Storage_proofs` | the TLAPS proofs about `AttributeStore`, `RollingLog` and `Preferences` |
| `MCService` | instances of the eight parts of the service for TLC |
| `MCService_proofs` | the TLAPS proof that every part keeps its types |
| `DataLemmas` | lemmas about numbers, sequences and sums that the proof modules share |

The registry and the three modules of the media path that `MCMedia` composes share no variable, and neither do
the eight of the service, or the five of the sessions: each stands for one object and its mutex. `MCMedia`, `MCService` and `MCSessionLocks` choose the
part a behaviour is of in its first state, so that the parts do not multiply. What they do share are mutexes and
threads, which `StreamLocks` is about.

### SessionLifecycle

`pc[s]` says where `RTSPSession::Run` of connection `s` stands. A request goes through
`idle → found → (activate → list → resolve →) serve → (tearing →) post → (bind → count →) send → idle`.
The steps are cut where another thread can see the difference:

| `pc` | Code (`src/Server.tproj`) |
|---|---|
| `idle` | `kReadingRequest`, waiting for a request or an interleaved packet; a request that is too long or malformed goes on at `post` (`BadRequest`) |
| `found` | after `SetupRequest` has looked up the session (`FindRTPSession`), before the modules |
| `activate`, `list`, `resolve` | `CreateNewRTPSession`: before `Register` in `RTPSession::Activate`, between it and the client list, before the final `Resolve` |
| `serve` | filtering to processing: the roles run, a module may ask to be called again |
| `tearing` | inside `RTPSession::Teardown`, called by the handler of TEARDOWN |
| `post` | `kPostProcessingRequest` |
| `bind`, `count` | `UpdateRTSPSession`: after letting the old connection go, and between the store of the pointer and the increment |
| `send` | `kSendingResponse` and `kCleaningUp` |
| `end` … `endRelease` | after the loop: resolve the last session, tear it down, release references until there is none |
| `clean`, `check` | `CleanupRequest` and the test "Only delete if it is ok to delete!" |
| `parked` | dead but held; waits to be woken |
| `dtor`, `freed` | `Run` returned -1; the destructor is done |

`stage[r]` is the session's way: `unborn`, `created`, `registered` (in the map), `closing`
(unregistered, the modules of the closing role run), `closed` (`Run` returned -1), `unlisted`
(`~RTPSession` done), `dropped` (`~RTPSessionInterface` has given up the connection), `freed`.
`refs` and `holders` are the two counts. `owe[x]` stands for a thread between the decrement of
`fObjectHolders` and the `Signal` that follows when it became zero: the counter is atomic, the two
statements together are not. `tearing[r]` is the mutex of `Teardown` and `tearBy[r]` its holder.

What clients and other threads may do is the constant `Env`, a subset of four behaviours:
`foreign` (a Session header names a session of another connection), `several` (a second SETUP makes
a new session while the first is registered), `crossTeardown` (a reflector thread tears a session
down), `stall` (the creating thread is delayed for longer than the session timeout). Each of them
is allowed by the code. They are separated because the properties that hold depend on them, and
the project says which one breaks what (section 5). The constant `Refreshed` names the sessions whose
timeout is refreshed for ever, whether or not their connection lives; it bears on the fairness only.

Left out of this module: reading and parsing, authentication and authorisation, the answers, the
sending of packets (`RtspConnection`), HTTP tunnels (`HttpTunnel`), the limits of `OverMaxConnections`. Two simplifications matter:
the ID of a session is the session (the 64-bit numbers `GenerateNewSessionID` draws are taken to be
different), and `QTSS_Teardown` by a module other than the reflector is not modelled.

### SessionLease

For each session its object (`absent`, `present`, `retired`, `gone`), the set of connections that hold
a lease on it, and the connection it points at; plus the set of deleted connections. It says: a
lease is only taken on a present object, an object retires only when no lease is left, a connection
is deleted only when no object points at it. It knows nothing of counts, mutexes or events.
`SessionLifecycle` maps to it by `ObjectState`, `Leasing` and the pointer, and TLC checks
`LeaseKept == Lease!LeaseSpec` as a property.

### ResenderWindow

`RTPPacketResender` keeps, for each stream, the packets that were sent and not yet acknowledged;
one `RTPBandwidthTracker` per session counts their bytes and decides how many may be outstanding.

| Variable | Code |
|---|---|
| `list[s]` | `fPacketArray[0 .. fPacketsInList - 1]`; an entry has its sequence number, its size, its age since it was sent (`fAddedTime`), what is left of its life (`fExpireTime`), and whether it was resent (`fNumResends > 0`) |
| `bytes`, `cwnd`, `ssthresh`, `clientWindow` | `fBytesInList`, `fCongestionWindow`, `fSlowStartThreshold`, `fClientWindow` |
| `rto`, `sinceAdjust` | `fCurRetransmitTimeout`, time since `fLastCongestionAdjust` |
| `loopPc`, `st`, `at`, `writing` | the loop that runs, its stream, its index, and whether a packet that is written runs it |

Writing a packet (`ReliableRTPWrite`) goes through the lists of *all* streams of the session before it looks at the window, and
so does `RTPSession::Run` between packets; `RTPSession::Play` clears the lists of all streams. Each
loop takes one step per packet, so that the count the streams share is checked in the middle of the
loops as well. All of this runs under the session mutex, so the loops are not interrupted. Any
acknowledgement may arrive between two of them: of a packet in a list, of one that was removed, or of
one never sent.

Data left out: the payload, and the smoothed round-trip time. A sample leaves *some* value between
`kMinRetransmitIntervalMSecs` and `kMaxRetransmitIntervalMSecs` in `rto`, which is what the code
clamps it to. Times are relative to the present, `Tick` is the clock. The array of `GetEmptyEntry`
grows whenever it is full, so its branch that gives up a packet for lack of room cannot run and has
no action. The product of two 32-bit byte counts in `EmptyWindow` is taken to fit; where it does not,
the code opens the window by less, which the bounds below allow.

### ReflectorRegistry

A broadcaster ANNOUNCEs a description, sets up the tracks, and PLAYs; the first SETUP makes a
`ReflectorSession` and puts it into `sSessionMap`. A viewer's first SETUP makes an
`RTPSessionOutput` in it. Every user holds a reference; who gives back the last one deletes the session.

| Variable | Code |
|---|---|
| `sdp[p]`, `map[p]` | `FileCache` has a description for the path; `sSessionMap` |
| `obj[r]` | the `ReflectorSession`: not made, alive, signalled `kKillEvent`, deleted by its task |
| `path[r]`, `refs[r]`, `outs[r]` | `fSourceID`, the count of its `Ref`, the outputs in its streams |
| `setup[r]`, `caster[r]`, `sock[r]` | the tracks with `fSetupToReceive`, `fBroadcasterSession`, `fBroadcasterClientSession` of its sockets |
| `pushing[c]`, `viewing[c]`, `data[c]` | `sClientBroadcastSessionAttr`, `sOutputAttr`, `sRTSPBroadcastSessionAttr`: never set, set to null, or a session |
| `life[c]`, `streams[c]`, `waiting[c]` | the client session, the tracks it broadcasts, the session whose `UnRegister` it waits in |
| `down` | a null or dangling pointer was followed |

`ProcessRTSPRequest`, `DestroySession` and `KillCommandPathInList` hold the mutex of the map from
begin to end, so each handler is one action. `Run` of a killed session and the packets do not take it, and
`UnRegister`, a part of the library, waits on a condition for the last reference: `RecordNext`
begins that wait and `Wake` ends it. *Assumption on the library*: the wait gives the mutex up and
takes the session out of the map after it, not before.

`Env` says what clients do beyond one clean broadcast: `rival` (a second client broadcasts under the same
path), `refused` (a SETUP of a track that is unknown or set up already), `redescribe` (DESCRIBE while watching),
`both` (one client session broadcasts and watches). All are requests the module accepts.

Left out: packet queues (`ReflectorSender`), output buckets, the contents of
descriptions, PLAY and PAUSE of viewers, authorisation, redirects, the reports of `Run` to other modules,
`.kill` announcements, whose path never matches a registered name.

### BroadcastDirectory

At most one broadcast is on the air under a path; clients join the one that is; a broadcast goes off
the air only when nobody uses it, nobody joins it afterwards, and only then it is deleted. It knows of no
counts, attributes or pointers. `DirectoryKept == Directory!DirectorySpec` is a property of
`ReflectorRegistry` and holds whatever the clients do.

### ReflectorSender

A `ReflectorPacket` is a pointer that goes round: from the free queue of a socket into the queue of a
sender, past every output, and back when it is old. `packetQueue[s]`, `freeQueue[s]` and `packet[p]`
are those; `keyFrame[s]` is `fKeyFrameStartPacketElementPointer`, `bookmarks[o]` the array of an output,
of which any entry may be overwritten by another sender's. One action is one handler:
`GetIncomingData` (with the key frame detection of `BufferKeyFrame`), `ReflectPackets` with all it calls
(new output or bookmark, relocation to a newer key frame, sending until the client blocks,
`RemoveOldPackets`), and the SETUP, PLAY, PAUSE and removal of an output. A pointer that was freed and
used again is the same pointer. Left out: the contents of a packet but for "starts a key frame",
RTCP rewriting, the relay, buckets (every output is served in every run).

### ReflectorSocket

When the task of a socket runs. `PushPacket` filters by source, queues and signals; `Run` first cancels
the timer and takes its events, then gets the mutex, and a sender that has nothing to do reports a
time that is never used. `hasNew`, `blocked` and `dueIn` are what `ReflectPackets` leaves; `event`, `timer` and
`running` are the task. `source` is a history of the sources let in.

### StreamWriter

A write is one step under the session mutex; one that finds the mutex taken changes nothing.
`CheckTransmitTime` holds back packets that are early, by more or less as the buckets fall;
`UpdateQualityLevel` sends, drops and changes the quality level as the packets get late. Whether the
connection or the congestion window takes the packet is a choice. Levels are the session's (TCP
and reliable UDP); streams over plain UDP are thinned by `StreamFeedback`.

### StreamFeedback

`ProcessIncomingRTCPPacket` compares an unsigned total of losses with the last one and with what was
sent; `Width` is the width of the counts. `ProcessRTCPPacket` of the flow control module counts good and
bad reports in three counters and changes the quality. A datagram has at most one
report of each kind, and any number of them may come, of any content, in any order.

### StreamSetup

A client's packets come in three ways, and each way has a table that says which stream a packet is for.

| Variable | Code |
|---|---|
| `added[c]` | the streams of a session in the order of their SETUPs (`qtssCliSesStreamObjects`), with their track, connection, channels, sockets and address |
| `given[k]` | `fChNumToSessIDMap` of a connection: the session of each two channels; `fCurChannelNum` is twice its length |
| `table[p]` | the demuxer of a socket pair: the stream that receives from an address |
| `pairRefs[p]` | how many streams use a socket pair, one more for the pairs bound at the start |
| `recording[k]` | the broadcast that a connection pushes to (`sRTSPBroadcastSessionAttr`) |
| `phase[c]` | the session: new, in the map, out of it, deleted |

`SetupTcp` and `SetupUdp` are the module's `DoSetup` with `AddStream` and `RTPStream::Setup`, one step each since the map of broadcasts
is locked. The end of a session is cut where the RTCP task may run: a stream leaves the table
(`UnregisterStream`, which waits for a packet that the stream is working on) and gives its sockets back afterwards (`ReleaseStream`).
`DatagramTo`, `FindsStream` and `PushedTo` are the three lookups: `RTCPTask::Run`, `HandleIncomingDataPacket` and `ProcessRTPData`.

The socket pool and the demuxer belong to the library. *Assumption on the library*: `GetUDPSocketPair` returns a bound pair on which
nobody receives from the address, or binds a new one, and a pair is closed when its last user gives it back. Left out: the
texts of the transport headers, failures of sockets, authorisation, and who may broadcast what (`ReflectorRegistry`).

### StreamLocks

The other modules take for granted that a handler gets its mutexes. Here nothing else is left of it: a run of a task is a
sequence of *waits*, each with the mutex it asks for (`wants`), those the task has meanwhile (`has`), whether it is a
`TryLock` (`try`), and how many waits the code leaves out if that fails (`skip`). `Hold`, `Touch`, `Attempt` and
`OrLater` put them together as the scopes of the code are nested, so that a definition reads like the calls of its
handler. `todo[t]` is what is left of the run of task `t`; `Begin` takes a run up, `Acquire` goes on past a wait, `GiveUpLock` past a failed `TryLock`.
A broken-off run (an error response) holds a part of what a complete one holds, and has no sequence of its own.

The order the code keeps, from the outside in:

| Task | Mutexes |
|---|---|
| a request | RTSP session, RTP session, map of broadcasts; in it buckets, then the socket pool, then the demuxer of the RTCP sockets; the attributes, the preferences, the server |
| an interleaved packet | RTSP session, attributes; in them a try at the RTP session, or the demuxer of a reflector socket |
| a reflector socket | its demuxer, the bucket, the output, a try at the RTP session, the pointer to the connection, a try at the RTSP session |
| the end of a client session | a try at the map of sessions; the map of broadcasts; in it demuxers, or buckets and the attributes and pointers of the viewers |
| RTCP | the socket pool, a demuxer, a try at the RTP session |
| statistics | the server, the map of sessions |
| the reread | the preferences; in them the server, the map of broadcasts and what is in it |

The first and the third meet head-on: the request has the RTP session and asks for buckets, the socket has the bucket and asks
for the RTP session. That the third only tries is what the property depends on, and what its mutant takes away.

Left out: mutexes under which nothing else is taken, ANNOUNCE (the map alone), HTTP tunnels, and a request
that waits for a module with its mutexes held (`RtspConnection` shows that it goes on).

### RequestStream

Bytes are numbered from the beginning of what the client means to say, `Script` has the lengths of its
messages, and the buffer holds intervals of them: no text. `Advance` and `Fill` are the two ways
through an iteration of `ReadRequest` (bytes put back, or bytes off the socket), `ReadBody` is `Read`, `CleanUp` the
dumping of a request, and `SnarfRetreat` the taking over of a POST connection. Encoded groups that
are not complete stay at the end of the buffer.

### RtspConnection

`conn` and `role` are the states of `Run`; `mod` is the module that is called, `waits` that it asked to be
called again. In `Run` a step is what happens between two places where it may return: the head of the
loop, a call of a module, a send. `buf` is what the output stream has not sent, `room` what the socket takes.
`InterleavedWrite` comes from other tasks and is refused while the mutex is held. `owed` is a history of
what the client was promised, in units of half a response or packet.

### HttpTunnel

Any number of sessions of one client with the same cookie. `entry` is `sHTTPProxyTunnelMap` at that
cookie, `refs` its count, `input[s]` the session whose connection `s` reads, `reader[s]` the session that has
`fReadMutex`. `RegisterRTSPSession` runs under the map's mutex; `Bind`, the second half of the joining, does
not, and `Destroy` waits in `UnRegister` for the references.

### AttributeStore

`slot` is the `DictValueElement`: number of values, pointer, lengths, who allocated it. Values of a fixed
size and a single string lie in the block, several strings and objects are pointers in it, and `SetValue`,
`CreateObjectValue`, `RemoveValue` and `SetNumValues` convert one form into the other. `heap` has the blocks in use and
`stray` remembers a deletion of something else. `GetValuePtr` gives out a block to who has the object lock.

### RollingLog, ListenerSet and ServerControl

`RollingLog`: `files` is every file there was, with the time in its header and the entries in it; `path` is the
file with the log's name and `rolled` the files with a day and a number. The operations of
`QTSSRollingLog` are operators on a *disk* (an object's `fLog` and `fLogCreateTime`, with the files), composed as
the code composes them; the module's handlers are actions. `LogRequest` and `RollAccessLog` hold
`sLogMutex`; `RereadPrefs` and `LogCheckTask` do not, and their steps are separate. A creation time may be read off a
structure that is not initialized, or off a `FILE` that is closed: that is a choice. `Crash` may fall between
two writes to the disk.

`ListenerSet`: a listener is `bound`, `listening`, `dying` until its task has run, and holds its place
that long. `CreateListeners` keeps, opens and gives up as the code does, in the old array and the new one.

`ServerControl`: `parent` is the loop of `CFInit`, `child` the methods of `EDSS` in their order, `childPID` and
`inherited` the two copies of `sChildPID`. A signal is caught by `sigcatcher` of the process it was sent to and
handed on, acted on, lost, or deadly, depending on where both stand.

### Preferences and ErrorLog

`Preferences`: `tree` is the tag of a module in the configuration file, element by element (a `PREF` with a value, a
`LIST-PREF` with values in it); `attrs` and `valid` are `fAttrArray` and `fNumValidAttrs` of the module's instance map, where a
removed attribute stays as an entry that may be used again. `SetPreference`, `RemovePrefValue` and `RemovePreference` are
`SetValue`, `RemoveValue` and `RemoveInstanceAttribute` with the completion routine that changes the element;
`GetAttribute` is how a module asks for a preference in its role. `phase` is `RereadPrefsService`: the file is parsed and
the server's preferences reread in one step, since the service holds their mutex; then the module's attributes are
counted, reread under its own mutex, and its role is called, and calls of the API come in between. `serverTree` and
`portValues` are one preference of the server with several values. `dangling` ends a behaviour: from
there on the code reads the name of an element it has deleted. `unsaved` and `mistyped` are histories: the preferences whose first value
did not reach the file, and whether the server's had an element of another type without a value when it was last read. A name is in the file once
(`PrefsAssumption`); objects as values are left out.

`ErrorLog`: `LogError` is one step under `sLogMutex`. `lastMessage` and `repeats` are `sLastErrorString` and
`sDupErrorStringCount`. The log is a sequence of lines that outlives the object; the preferences that turn it on and off may change at
any time. The lines of a start and a shutdown are written without the mutex, in one step each.

## 3. Runs

| Run | Instance | Checks |
|---|---|---|
| `lifecycle` | one part at a time: 1 connection, 2 sessions one after the other, the timeout of one refreshed for ever, `Env = {}`; reliable UDP with 2 streams, 2 sequence numbers, packets of one segment and of half a segment, a window of one and a half; with fairness | `RefsMatch`, `HoldersMatch`, `ClientListMatches`, `NoDuplicateSeq`, `BytesMatch`, `WindowBounded`; `DeadConnectionFreed`, `OrphanSessionFreed`, `FlowControlReleased`; `LeaseKept` |
| `lifecycle_reflected` | one part at a time: 1 connection, 2 sessions at a time, `Env = {several, crossTeardown}`; the mutexes of 1 broadcaster and 1 viewer, 2 streams, 3 task threads; the SETUPs of 2 sessions on 2 connections, 1 address, 3 socket pairs; the reports about 1 stream, with counts of 2 bits | `RequestHoldsSession`, `NoDeadlock`, `StreamsReached`, `LossWithinSent` |
| `locks_reread` | the mutexes with 1 stream, 2 task threads, and the reread of preferences | finds `NoDeadlock` violated |
| `lifecycle_playing` | 1 connection, 1 session | finds `PlayingMatches` violated |
| `lifecycle_shared` | 2 connections, 1 session, `Env = {foreign}` | finds `NoRequestWhenClosing` violated |
| `setup_pushed` | the SETUPs of `lifecycle_reflected` | finds `PushedToItsTrack` violated |
| `resender_threshold` | reliable UDP as in `lifecycle`, with a window of two segments | finds `ThresholdOnePacket` violated |
| `registry_rivals` | 3 clients, 2 session objects, 1 path, 1 track, every behaviour, viewers torn down with their broadcaster; symmetric | `RefsExact`; `DirectoryKept` |
| `registry_duplicate` | 3 clients, 2 session objects, 1 path, 2 tracks, `Env = {rival}` | finds `OneBroadcasterPerTrack` violated |
| `registry_refused` | 2 clients, `Env = {rival}` | finds `BroadcastPlayed` violated |
| `media` | one part at a time: the registry with 3 clients, 2 session objects, 1 path, 2 tracks, `Env = {}`; 2 senders, 1 output, 3 packets; 2 sources and the source 0; 1 stream, 4 ticks; with fairness | `NoAbandonedBroadcast`, `BroadcasterKnown`, `ServerUp`, `KeyFrameKept`, `PacketsInOnePlace`, `OneSourceAtATime`, `LeadBounded`; `PlaceKept`; `NewPacketsReflected`, `StoppedBroadcastEnds` |
| `service` | one part at a time: 5 messages in a buffer of 10; a module for each role but one; 3 halves; 2 threads, 3 values; 2 logs, 3 files; 2 places, 3 signals, 2 children; 2 preferences and one of the server, 4 calls; 2 messages, 4 times; with fairness | `ServiceTypeOK`, `StreamWhole`, `RequestsInOrder`, `TunnelFindable`, `DonorKept`, `ValuesKept`, `MemoryKept`, `LogWhole`, `AsConfigured`, `FileFollowsValues`, `RepeatsCounted`; `RequestEnds`, `InterruptStops`, `RereadFollowsFile` |

The type invariants of `SessionLifecycle` and `ResenderWindow` are proved (section 4), and so not checked again, and neither is
the assertion of `AssertNeverHits`.

**Bounds of the lifecycle.** One connection with two sessions has every pair of threads that meet in this code: the
connection's `Run` against a session's `Run`, against the timers, against a reflector thread, and
the teardown of an old session against the creation of the next. Two connections meet only through
a session they share (`foreign`), which is the run with two connections. `MaxPlays` stops the
counter that `RTPSession::Play` increments without bound, and is zero in `lifecycle_reflected`, which is not about it; `MaxHolders` stops the leak that the run
with reflector threads shows; both are guards of the action that counts and of nothing else.

**Bounds of the resender.** Two streams are what it takes for one to empty the byte count of the
other. A segment is two units: a packet of half a segment lets the byte count be below, at and above
the window, and the divisions by 2 and 4 round. The round-trip timeout has two values and a packet
lives for one tick or has expired when it is written, so that every order of timeout,
acknowledgement and expiry occurs. The window is full with one packet of a segment and one of a half, or open after one of
either.

**Bounds of the setups.** Two sessions that meet on a connection, and a session that uses two, are all the ways in which
channels get mixed up; one of the sessions pushes. Both sessions have the same address, so that every stream over UDP wants
the same place in a table. Three SETUPs (`MaxSetups`) are two streams of one session and one of the other, or three of
one; three pairs are one that is always there and one for each further stream. Sessions are not made anew.

**Bounds of the registry.** Three clients are two that broadcast or watch and one that joins after one of
them has left. A session object is used once; two of them are a broadcast and the next one under the
same path. Paths meet in nothing but `map`, so one is enough. Clients do not come back and nothing
forces them to act, so a run may end with every client closed: deadlock is not checked. `registry_rivals`
has `KillOnStop` true because more is torn down then; the shipped configuration, as in `media`, has it false.

**Bounds of the mutexes.** A task that waits for another is in a chain, and the chains of this code need at most one client
of each kind: viewers meet only in what they share with the broadcast (two of them, with one stream, were checked once as well: 1.5 million states). Two streams have their buckets taken
together and one by one. With three threads every cycle of two and of three tasks occurs; eight tasks share the threads. The
sequences are finite, and the system never stops, so deadlock is checked in this run.

**Bounds of the media path.** Three packets are one that is old and needed, one that is being sent and one
that arrives; two senders are an H.264 video and its audio, whose bookmarks share an array, with no
packets in reserve, so that freed ones are used again at once. A fourth packet lies between the one a slow client waits for
and the key frame it is moved to: one sender with four packets was checked once as well (286227 states), which is how it was found that
a client may be moved over packets that are not old. Ages stop one tick past the age of removal, and
the source of a packet is one of two or the 0 that is always let in. The time of the writer runs for four
buckets of one tick with a rate of two, which is what it takes for a bucket to gain on two others;
delays reach past every threshold of the thinning. `Width = 4` lets every difference of counts wrap.

**Bounds of the service.** The five messages have a body that is longer than a group, one that is not, none,
and a last message that is as long as half of the buffer; POST connections take over twice. One module
for each role but the preprocessors, which all wait alike; the socket takes one response at a time. A third half is the POST
that replaces another one. An array of strings has two pointers when it is new, so that the third value makes it
grow, and a long value is longer than a block. Two logs are what `RereadPrefs` and a request make against each
other; a day has one number, and one name that is used again. Two places with three settings
keep, drop, open and repeat one; the option `-p` names one of them. Two children are a server and the one
it is restarted as, three signals two that race and a third at the other process. The files of preferences have a list
and a simple element, each preference in one of them only, and one in another form; the server's has a list of one, as it is
shipped, a value of the wrong type, or the wrong type and no value. Four calls are enough to add a preference, remove it and add it again before a reread. Two messages
are one that comes again and one that ends its count; four are enough for a count on each side of a log that was off. The bounds
`MaxEntries`, `MaxFiles`, `MaxTime`, `MaxForks`, `MaxSignals`, `MaxCalls`, `MaxMessages` and `MaxMarks` stop the histories, so deadlock is not checked; in the media run clients may leave for good.

**Fairness of the lifecycle** (`Fairness`). Weak fairness for the steps that `Run` takes by itself: the thread pool
calls every task that has work. Weak fairness for the timeout of a session whose connection is dead
(`Abandoned`), unless it is one of `Refreshed`. A dead connection ends the requests, which refresh the timeout,
but not the rest of what does: each RTCP packet the client sends by UDP (`RTPStream.cpp:1374`, whether
or not the connection lives), each packet of a broadcast that is pushed (`ReflectorStream.cpp:1648`), each packet that
still gets through the socket of a parked connection (`RTPStream.cpp:768`). `Refreshed` is the set of
sessions for which that goes on for ever: their timeout may fire, in a pause, but nothing makes it.
Such a session is deleted all the same when it was killed, or when the end of `Run` finds it: bound to the connection
and remembered by it (`Doomed`). Otherwise it stays, and with it the dead connection if it is bound to
that: a session whose requests all said `Connection: close` was never bound (`RTSPSession.cpp:938`,
`:964`), and after a SETUP the connection has forgotten the ID (`:1065`). `OrphanSessionFreed` and
`DeadConnectionFreed` claim nothing of these; a client that goes on reporting keeps them for ever. None of the fairness is about what a client
does: sending, hanging up, falling silent, a timeout of a live session. That a *live* client's killed session goes away is not claimed:
`TryUnRegister` polls, and a client that keeps sending requests can be found at work each time.

**Fairness of the resender.** The loops end (weak); the task of a playing session runs again, as `Run`
returns at most `max_retransmit_delay` (weak on `SendRetransmits`); time passes (strong on `Tick`,
since loops disable it again and again). Nothing makes the client acknowledge anything: what opens the window
is that packets expire.

**Fairness of the registry.** The task of a session that got its kill event runs, and a client session that
was torn down is closed by its task (weak). Nothing makes a client send or leave, so what
`StoppedBroadcastEnds` claims is only of broadcasts all of whose users were torn down.

**Fairness of the media path.** A signalled task runs, a timer fires, time passes (weak), which is what
the library's threads do. Nothing makes a packet arrive or a client read.

**Fairness of the service.** Of `RtspConnection`: the task runs when it was signalled, a module that was asked to wait signals,
a ready socket reports, and a client that has begun a request sends its body and reads, or leaves (weak); a
module does not ask to be called again for ever (strong on `ModuleReturns`, which is enabled only at the call). A client that stops in the
middle of a body without leaving is ended by the timeout task, which is not relied on. Of
`ServerControl`: `DoIdle` is called once a second, a `wait` returns, and a parent that has forked goes on (weak).

## 4. Proofs

`Sessions_proofs` proves of `SessionLifecycle`, for every finite set of sessions, every set of connections, every
bound:

| Theorem | Says | Assumes of `Env` |
|---|---|---|
| `TypesCorrect` | `Spec => []TypeOK` | nothing |
| `RequestsHoldTheirSession` | `Spec => []RequestHoldsSession` | no `foreign`, `crossTeardown`, `stall` |
| `HoldersCounted` | `Spec => []HoldersMatch` | the same |
| `NoConnectionDangles` | `Spec => []NoDanglingConnection` | the same |
| `ClientListCounted` | `Spec => []ClientListMatches` | the same |
| `ReferencesMatch` | `Spec => []RefsMatch` | `Env = {}` |
| `LeaseImplemented` | `Spec => Lease!LeaseSafeSpec`: every step is one of `SessionLease` or changes nothing of it | `Env = {}` |

The safety theorems follow from one inductive invariant, `LifecycleInv`, the conjunction of
`TypeOK` with parts that are not properties of interest but make it inductive:

* where sessions come from and who may name them: what a connection has in `fRTPSession`, in its last
  session ID or in `known` was created by it, and what is not yet created is nowhere;
* who holds a reference: a session that a request works on is registered, or just created, and its
  reference count is the positive one that `TryUnRegister` looks at;
* who is counted: `holders[s]` is the cardinality of `Bound(s)`, the sessions that point at `s` and
  are past the increment and before the decrement, and a connection in its destructor has none;
* who tears down: the holder of the teardown mutex is the thread that stands inside `Teardown`
  (`TearInv`), and a freed connection has nothing left (`GoneInv`).

The counting step rests on four lemmas on `Bound` (it is finite; a step leaves it alone, takes one
session out, or puts one in) that every action cites. `ClientListCounted` adds `ClientInv`: a session is in the
list exactly between its entry and its destructor. For `ReferencesMatch` and `LeaseImplemented` a connection
must have one session at a time (`SingleInv`): a session just created is where its creator is at work, one in
use has the count one, and the session that a dying connection still uses is the one whose ID it remembers. With
`several` that last part is false, and so are both theorems (section 5). `LeaseImplemented` goes action by action: the
lemmas `AcquireStep`, `GiveBackStep`, `UnpointStep` and `PlainStep` say how a change of one connection looks from
`SessionLease`. The fairness in `LeaseSpec`, and the liveness, are model-checked only: fairness and ENABLED are out of the prover's reach.

`Sessions_proofs` proves of `ResenderWindow`, for any number of streams, windows, packet sizes and limits:

| Theorem | Says | Assumes |
|---|---|---|
| `ResenderTypes` | `Spec => []TypeOK`: no loop leaves a packet array | nothing |
| `WindowStaysBounded` | `Spec => []WindowBounded` | nothing |
| `AssertNeverHits` | `Spec => []AssertHolds` | `Roomy`: a window takes a segment, a packet fits the slack of 2000 |
| `NoSequenceNumberTwice` | `Spec => []NoDuplicateSeq` | nothing |
| `WindowCountsWhatIsKept` | `Spec => []BytesMatch` | nothing |

The first two follow from `BaseInv`: the types, `StartedInv` (nothing is outstanding and no loop runs
before the first PLAY sets the window, which is why no operation divides by a window of zero), and
`OpenInv` (the congestion window is at least one byte and at most the client's window or a segment).
`AssertNeverHits` adds `OverInv`: bytes are only added while fewer than a congestion window of them
are outstanding, so that one packet is all that can be beyond it. `NoSequenceNumberTwice` rests on
`WithoutDistinct`: moving the last packet into the gap keeps the numbers distinct. `WindowCountsWhatIsKept` is about a sum
over the lists of all streams, which the model takes with a fold over a set: `DataLemmas` shows that the fold has a value and that it
does not depend on the order (`Sums`, `SumOrder`, `SumUnique`), and `Counted` follows the sum through the steps of each loop, with
what a loop has taken off a list and not yet off the count. Only the liveness is left to TLC.

`ReflectorRegistry_proofs` proves for any finite set of clients, any sessions, paths and tracks, both
settings of `KillOnStop`:

| Theorem | Says | Assumes of `Env` |
|---|---|---|
| `RegistryTypes` | `Spec => []TypeOK` | nothing |
| `ReferencesExact` | `Spec => []RefsExact` | nothing |
| `DeletedSessionsUnused` | `Spec => []DeletedUnused` | nothing |
| `DirectoryImplemented` | `Spec => DirectoryKept`: the handlers implement `BroadcastDirectory` | nothing |
| `BroadcasterAlwaysKnown` | `Spec => []BroadcasterKnown` | no `rival`, `refused` |
| `ServerStaysUp` | `Spec => []ServerUp` | `Env = {}` |
| `BroadcastsAreUsed` | `Spec => []NoAbandonedBroadcast` | no `redescribe` |

All rest on `RegistryInv`: the three properties with `MapInv` (what is in the map is alive and under its own
path, so that ending a session empties one entry), `OutsInv` (outputs and the attributes of the clients
agree, so that each output is counted and given back once) and `UnbornInv`. `LeaveUsers` and `JoinUsers`
say once what leaving and joining do to the counts; every action cites them. The refinement uses the
same two lemmas: a step in which a client leaves is `Leave`, or unseen if the same client both watches and broadcasts.
The last three each add one invariant: `CasterInv` (a session has at most one broadcaster, and what the session, the client
and the RTSP session say of it agree), `CalmInv` (attributes lead to live sessions, and
no client both watches and broadcasts), `CountedInv` (what is in the map has a user, or the handler that makes
it is about to join). The assumptions are needed: section 5 says what happens without them. `StoppedBroadcastEnds` is model-checked.

`Streams_proofs` proves for any sessions, connections, tracks, addresses and sockets, and up to 127 SETUPs, which is
where the channel numbers wrap:

| Theorem | Says |
|---|---|
| `SetupInvHolds` | `SetupSpec => []SetupInv`, which has the types |
| `PacketsReachTheirStreams` | `SetupSpec => []StreamsReached` |

`SetupInv` says that the table has exactly the streams that are up (`Registered`, `Entered`), that the count of a pair is that of
the streams that use it (`PairsCounted`; without it a new stream might take the place of another), and that the
map of a connection leads to a stream with the channels (`Numbered`, `Even`). `InTurn` is what `PushReaches` needs: a session
that is alone on its connection has its streams in the order of their channels. What adding a stream and changing
its state do to the users of a pair are `UsersAdded` and `UsersChanged`, which every action cites.

It also proves `NoTasksWaitForEachOther`, `OrderAssumption => (LockSpec => []NoDeadlock)`, for any finite sets of
broadcasters and viewers, streams and threads. `OrderAssumption` excludes the two deadlocks of section 5: no reread of the preferences,
and nobody who both broadcasts and watches. The argument is an order: `Rank` numbers the mutexes, and every wait of every task is for a mutex of
a greater rank than all it holds (`Ordered`), but for the one that `Mine` names, a connection that asks for the attributes of its own
client, which nobody asks for who holds what is after them. `Fine` says this of a whole run, and one lemma for each way of building runs
(`Hold`, `Attempt`, `OrLater`, `EachStream`, `HoldBuckets`) shows that it is kept, so that each handler is a line. `LockInv` adds that
a mutex has one holder; in a circle of waiting tasks, the one that asks for the greatest rank waits for one that asks for a greater one.

The proofs about the later modules:

| Theorem | Says |
|---|---|
| `OneSourceReflected` | `SocketSpec => []OneSourceAtATime`, for any sources, timeout and delays |
| `KeyFrameStays`, `PacketsStayApart` | `SenderSpec => []KeyFrameKept`, `[]PacketsInOnePlace`, for any number of packets and outputs |
| `PlaceStaysKept` | `SenderSpec => PlaceKept`, the action property: no step moves a bookmark over a packet that was still to be sent |
| `LeadStaysBounded` | `WriterSpec => []LeadBounded`, for any rate, bucket length and streams |
| `LossStaysWithinSent`, `FeedbackTypeCorrect` | `FeedbackSpec => []LossWithinSent`, and the types, for any width of the counts and any thresholds |
| `ClientGetsWholeUnits` | `ConnSpec => []StreamWhole`, for any number of modules and any room in the socket |
| `TunnelStaysFindable`, `DonorStaysAlive` | `TunnelSpec => []TunnelFindable`, `[]DonorKept`, for any number of halves |
| `OneReaderPerConnection` | `TunnelSpec => []OneReader`; no run checks it |
| `RequestsComeInOrder` | `RequestSpec => []RequestsInOrder`, for any messages, buffer, encoding and number of POST connections |
| `ListensAsConfigured` | `ControlSpec => []AsConfigured`, for any places, settings, processes and signals |
| `MessagesCounted` | `ErrorSpec => []RepeatsCounted`, for any messages and levels |
| `ReadAsSet`, `NothingLeaked` | `StoreSpec => []ValuesKept`, `[]MemoryKept`, for any values and sizes, any number of values and threads, and any set of blocks that is not too small |
| `EntriesStay`, `LogTypes` | `LogSpec => []LogWhole`, `[]LogTypeOK`, for any interval, size, files, numbers, entries and objects |
| `FileIsFollowed`, `RereadTakesFile`, `PrefsTypes` | `PrefsSpec => []FileFollowsValues`, `RereadFollowsFile`, `[]PrefsTypeOK`, for any files in which a name is once |
| `ServiceTypes` | `ServiceSpec => []ServiceTypeOK`: the types of all eight parts, whichever runs |

* `SourceInv` adds to the property what the filter keeps instead of a history: the valid source is the last one
  let in and its age is `quiet`; without one, the last has been quiet for the timeout.
* `QueueInv` is the types of the queues and pools, that each packet is in one place, and that the key frame is in its queue: none of
  the three is inductive without the others. `PlaceInv` adds that numbers increase along a queue (`NumberInv`) and says of each output where
  its bookmarks are (`Marks`): in queues, one for each sender at most, one where something was sent, unless it has paused. That a place for a bookmark is found
  is the pigeonhole principle (`SlotIs`), and needs the assumption that an output has as many places as there are senders; `ReflectorOutput` has two, for
  the two senders of a stream. `BehindHolds` turns "behind a bookmark" into a comparison of numbers.
* `LeadInv` bounds the lead at the end of the bucket before as well, and orders the beginnings of the buckets
  against the first write and the clock. Each case of `CheckTransmitTime` is a lemma on integers.
* `LossInv` is the types of the counts and the property; its arithmetic is one lemma on unsigned differences.
  The flow control module is not part of it; the types are proved from `FlowOK`.
* `ConnInv` has two halves: `Control`, which says who holds the session mutex in which state of `Run` (`Locked`), and `Output`: what
  is owed ends behind a whole unit, or inside the response that is being written, which happens under that mutex alone.
* `TunnelInv` says that who is about to bind has joined the registered session (`AllJoined`), only one at a time
  (`OneJoins`), so that nothing moves the registration between the two steps. `OneReader` adds that a session that was never
  bound reads its own connection.
* `StreamInv` adds to the property where the stream is while no request is whole (`NextBegins`), what is left of an encoded group
  (`GroupsLeft`), and that a request that is served is a whole one (`ServedWhole`). `FrontierMoves` is the arithmetic of decoding in pieces.
* `ListInv` adds that no two listeners that live are at one place: those that are kept are chosen by their place. A socket object for each listener to
  be made is part of the guard of `CreateListeners` (memory does not run out).
* `CountInv` adds that the message that is counted is the last one that is read in the log. `ReadLines` says what each kind of line adds to
  what is read.
* `StoreInv` is the shape of the memory (`Rep`): the values in the block itself (`Flat`), or an array of pointers to blocks of their own,
  each to another (`Listed`), and nothing else in use. Neither property is inductive without it: that a block is deleted once needs that no two
  pointers are the same, and that the value which is left alone goes back into the block needs to know where it was. `Listed` allows for a block that is made and
  not yet in the array, so that a call is followed in its steps: splitting the first value off, enlarging the array, putting the new value.
  `Room` says that a free block remains: the assumption that a finite set has two blocks more than an attribute has values is
  that `new` does not fail. Both properties, and the proof, are up to `overlong` (section 5).
* `LogInv` has a half about files and one about entries. `FilesInv`: every file has a name, unless a day used up its last number, and what an object has
  open is a file; the creation of a file, its header and each rename are operators on the disk, and there is a lemma for each. `EntriesInv`: what a file holds is in order and
  older than the next entry, and each entry that was written is in exactly one file (`Landed`) or a file was begun for it (`MadeFor`). `LogWhole` alone is
  not inductive: that the file to which the next entry goes stays in order needs that it holds nothing newer.
* `PrefsInv` says that the map is sound (`SoundEntries`: one entry for a name and a type with those that were removed, one in use for a name, and
  their count), that a name is in the file once, and that every element is followed by an entry in use (`AllFollow`, `PortFollows`). A call of the API is one lemma about the
  map and one about the element, which agree; `RereadElementsAre` follows the loop over the elements by induction, and says which entries it has left alone.
  `NamesSeen` is why `RemoveMissing` sees every entry in use though it takes the smaller of two counts: what is added in between is behind what was counted,
  and the count of the map is exact. That a name is once in the file is an assumption on the files that are given (`PrefsAssumption`); with a name twice
  the code reads the first and overwrites it with the second.
* `ServiceInv` is the conjunction of the invariants of the eight parts; a step of the service is, for each part, a step of it or none (`ServiceParts`).
  Four of them are strengthened by the types of what no other property needs: `RequestTyped`, `ErrorTyped`, `ControlTyped` and `StoreTyped`. The last one
  follows the one call that `StoreInv` says nothing of, the one that sets `overlong`: what it leaves behind is wrong (section 5), and still of its type.

Where a proof needs an induction over data (a least number, that a fold over a set exists, that flattening a sequence goes element by element), `DataLemmas`
does it once, by the set of counterexamples and its least element. The prover knows nothing of `SelectSeq`, so that `ReflectorSender` has the
elements of a sequence that pass a test as a recursive function (`Those`); so are `Kept`, `Begin` and `ReadBack`, which `StepsExist` is for.

Every invariant and action property of the passing runs is proved. Only model-checked: liveness, under fairness, which with ENABLED is out of
the prover's reach.

## 5. What the checks show

* A client that stays on its own connection, with one session at a time, is served as the comments
  promise: both counts are exact at every moment, nothing is used after its deletion, and whatever
  dies is deleted in the end.
* **The playing counter drifts** (`lifecycle_playing`). `RTPSession::Play` increments
  `fNumRTPPlayingSessions` at every PLAY, `~RTPSession` decrements it once. The comment says that
  pause and play are ignored.
* **A shared session closes under a request** (`lifecycle_shared`). A dying connection releases
  references of its last session until the count is zero, those of other connections included.
* **The slow start threshold falls below a packet** (`resender_threshold`). A comment promises "make
  sure that it is at least 1 packet"; the assignment after it is three quarters of the congestion window, which
  may itself be one segment.
* The assertion that the code comments with "this assert hits" does not fail in the modelled operations: the
  byte count is exact whatever arrives, and at most one packet exceeds the window.
* **A track gets a second broadcaster** (`registry_duplicate`). "check duplicate broadcasts" looks at a mark of
  the track that any leaving broadcaster clears for all tracks.
* **A refused broadcaster fails an assertion** (`registry_refused`). After the refusal the attribute is there and null,
  and `DoPlay` asserts that it is not.
* Reference counts of broadcasts are exact and no broadcast is deleted while somebody uses it, whatever clients do, as
  long as the server does not follow one of the pointers below.
* With `rival` or `refused`, `BroadcasterKnown` and `ServerUp` fail: a refused client stays the broadcaster
  that packets refresh and kill commands tear down, after it was deleted too; the null attribute is followed by the next SETUP.
* With `redescribe`, `NoAbandonedBroadcast` fails: the reference a DESCRIBE gives back is not looked at, and if
  it was the last one the broadcast stays in the map for nobody. `ServerUp` fails: the output attribute is null.
* With `both`, `ServerUp` fails: a client session that broadcasts and watches leaves its output behind.
* With `several`, `RefsMatch` fails: the end of `Run` overwrites `fRTPSession`, and the reference the
  interrupted request held on another session is never released. That session is never deleted.
* With `crossTeardown`, `HoldersMatch` fails: `Teardown` runs under the RTSP session mutex and
  `UpdateRTSPSession` under the session mutex, and the two overlap. The connection keeps a count.
* **The reread of preferences may stop the server** (`locks_reread`). `RereadPrefsService` keeps the mutex of the preferences while the reflector module
  asks for the map of broadcasts (`QTSServer.cpp:1185`, `QTSSReflectorModule.cpp:1870`); a request that has the map asks for the preferences
  (`RTPStream.cpp:631`, and the player profile of PLAY and DESCRIBE). Both wait for ever, and every later request with them.
* Datagrams reach the stream they are for, interleaved RTCP the one that was given the channel if the session keeps to one connection, and what is pushed is
  reflected as the right track if the client sets up all tracks, alone on its connection and in their order.
* **A pushed track may be reflected as another** (`setup_pushed`). `ProcessRTPData` takes half of the channel number for the index of the stream
  (`QTSSReflectorModule.cpp:649`), but channels are numbered by connection and in the order of the SETUPs. `HaveStreamBuffers` takes the place of a
  player's stream for that of the broadcast's in the same way (line 1671).
* `FindRTPStreamForChannelNum` does not look at the connection (`RTPSession.cpp:183`): a session with interleaved streams on two connections has
  each channel twice, and the first stream gets the RTCP of both. After 128 SETUPs on a connection `fCurChannelNum`, a byte, is 0 again, and the map
  of channels is copied into one with no entry (`RTSPSessionInterface.cpp:210`).
* Sockets that are bound for a second stream to one address are not registered for events, as those of the start are (`QTSServer.cpp:594`): their
  RTCP is read when some other pair has a packet.
* Otherwise no tasks of a broadcaster and a viewer wait for each other. **With a client that broadcasts over TCP and watches too** `NoDeadlock` fails: the packet it
  pushes has the attributes of its session and asks for the socket's demuxer, the socket has that and asks for the bucket, and the end of the broadcast
  has the bucket and asks for the attributes (`ReflectorStream.cpp:416`, `RTPSessionOutput.cpp:775`).
* `RTPStream::InterleavedWrite` tests the pointer to the connection before it takes the mutex of that pointer (`RTPStream.cpp:745`); `Teardown` sets
  it to null under this mutex alone, although its comment relies on the session mutex (`RTPSession.cpp:383`), and then the null is followed.
* With no behaviour at all, the last `Signal` of `DecrementObjectHolderCount` may reach a connection
  whose own `Run` has read the zero and deleted it. No property states the contrary, since no
  comment of the code does; the window is in the list of hazards.

What the media path and the service show, and what their code does beside what a property says. The statements named here
as false are in the modules, after the properties; no run checks them:

* Packets, key frames and bookmarks stay in step, and **a playing client loses only while it waits for what is too old**: it is moved over packets it
  has not got only when the one it waits for is too old, and the packets moved over with it may be younger. A client that pauses
  comes back with a bookmark that may point to a packet in another use: `PlaceKept` speaks of clients that do not.
* **A blocked output is not retried by its timer** (`RetryArmed` is false). `ShouldReflectNow` is to report when the
  stream must be woken; it is given a 0, and a minimum with 0 arms nothing. The next packet wakes it.
* The overbuffer comment says that the client gets never more than double; a bucket gains for its own length and for that of the one before,
  and the proved bound counts both. Dropped packets are charged as sent (`RTPStream.cpp:1132`); a new window size forgets the bytes in flight.
* `SetQualityLevel` compares with a level that is 0 for TCP and reliable UDP: such a stream, once thinned, never gets back to 0, and level
  N−1 becomes N (`RTPStream.cpp:349`).
* Losses never exceed what was sent, whatever arrives. A quality report is counted again with every later RTCP
  packet; a packet that finds the session mutex taken is dumped. The module reads `qtssSvrNumThinned` from the stream, with a wrong length
  (`QTSSFlowControlModule.cpp:441`).
* Requests come out whole and in order, **unless a POST takes over after a part of a put back body was read** (`SnarfReplacesAll` is
  false): `SnarfRetreat` keeps `fRetreatBytesRead`. A body read off the socket of a tunnel is not decoded.
* A request always ends and gives its mutexes back, and no packet lands inside a response. A response that is closed after its end
  is truncated if the flush finds the socket full. After an authentication module waited, all of them are called again.
* A tunnel is always found by its cookie, and no connection has two readers. **A POST may take over between the reading of a
  request and its handling** (`ServesItsRequest` is false): the read mutex is given back in between. A POST may join a GET session that is dying.
* Attributes keep their values and blocks through every sequence of calls but one: a first string longer than the
  array of pointers (`QTSSDictionary.cpp:321`). The lock is asked for, not its owner; the inner of two nested unlocks clears it; the destructor
  of a dictionary does not delete the dynamic ones; a reread that finds fewer values of a string rewrites the file (`SetNumValues`).
* Every entry of the access log stays in one named file through rolls and crashes, except when a day has more files than
  numbers, and except **the entry that begins a file when files are closed between writes**: the header closes the file, its time is read off a
  closed `FILE`, and the entry is dropped. Turning that option off leaves the log silent. A file without a header is not rolled by age.
* **The log may be deleted under a request** (`NoFault` is false): `RereadPrefs` does not take `sLogMutex` (`QTSSAccessLogModule.cpp:794`, `:804`, `:809`).
* The listeners agree with the preferences as last read. The port of the option `-p` is forgotten by a reread (`QTSServer.cpp:1206`);
  a port given up and asked for again stays closed while its old listener is dying; a port named twice gives a listener that is listed twice.
* A caught interrupt ends both processes if the server still runs. One that follows a request to terminate in the next second does not: the
  restart was decided. A second signal is not "forceful", as the comment has it (`main.cpp:124`). Signals that come while no child lives are lost; before the server exists they
  kill the process they reach. A child that cannot open its ports at a restart ends the parent as well.
* After a reread the preferences are those of the file whatever was set, removed and added before, **unless the type of
  one was changed there**: the comment says "Remove the old one from the map, add the new one" (`QTSSPrefs.cpp:138`), but `RemoveInstanceAttribute`
  also deletes the element that is being read. The reread goes on with its freed name and the next element in its place; the preference is lost
  from the file, and behind the last element the name is null. The model stops there (`dangling`).
* The file has what the server uses, **unless the first value of a list of one is set**: `XMLTag::SetValue` does nothing to a tag with tags in it,
  and the next reread brings the old value back. `rtsp_port` is such a list in the configuration that is shipped (`config.xml:60`).
* **An element of the server's that has no value and the wrong type** gets the defaults before its type is looked at (`QTSServerPrefs.cpp:442`, and `:478` for the type), and keeps
  the type in the file; at the next reread the wrong type is seen, and a value that was set since is replaced by the defaults. The proof found it: no file of the run had such an element.
* A server preference with several values that is missing in the file gets its defaults, but keeps further values it had; an attribute that a
  reread removes keeps its values, and has them again if it is added again with its type (`QTSSDictionary.cpp:795`). Removing an attribute twice would count it
  out twice. The parser is shared by the preferences of all modules, each of which has a mutex of its own; `Parse` replaces the tree under that of the server only.
* The error log tells every message in order and as often as it came, **unless one came while it was off**: that one becomes the last message without being
  written, and once the log is on its repeats are reported under the line before. A count is not written at shutdown.
  `StateChange` and the hourly task use `sErrorLog` without `sLogMutex`.
* Also met: `OverMaxConnections` allows one more than the limit (`RTSPSession.cpp:1902`); `GetTwoChannelNumbers` tests for null the wrong way round
  (`RTSPSessionInterface.cpp:200`); an announced kill looks up the bare path, which no session has (`QTSSReflectorModule.cpp:1014`).

These executions need another thread at the right moment, which is why they are not seen in tests.

## 6. Not modelled

The components of `PROJECT.json` with status `not_modelled` say why, one by one. In short:

* Vendored code (`mongoose.c`, `frozen.c`, `nilib2.c`), the movie file library that nothing calls while
  streaming, the API headers and the stubs are more than a third of the implementation. They are not the server's logic.
* The administration module (with `AdminElementNode.cpp`) and the splitter are not built
  (`APIModules/CMakeLists.txt`), and `SequenceNumberMap` is built and not called. The lock order of the server mutex and the preference mutex, which are
  taken both ways round, matters only with the administration module; `StreamLocks` has the one order without it.
* Parsers and formatters of SDP, RTSP headers, RTCP fields, XML and the text of log entries keep nothing that outlives a call. What a parsed
  value does is modelled at the place that uses it.
* Single preferences are constants of the models that depend on them.
* Access control never runs: `fSkipAuthorization` is true from the start and no module clears it (`RTSPRequestInterface.cpp:193`), so that `Run` goes from
  routing to preprocessing (`RTSPSession.cpp:556`). The attribute is writable, and `RtspConnection` allows both ways. `ReadEntireFile` is compiled to look into a cache of descriptions only (`QTSSModuleUtils.h:41` and `:45`),
  where no user or group file is.
* Of the modelled components, the notes in `PROJECT.json` name the operations that are left out.

## 7. Plan

1. The buckets of a reflected session and the output's own thinning, in `ReflectorSender`.
2. Sender reports; the failures of sockets in `StreamSetup`; the two channels of a session on two connections.
3. The HTTP tunnel in `StreamLocks`.
4. Preferences that are objects, and the iteration over the attributes of a static map.
