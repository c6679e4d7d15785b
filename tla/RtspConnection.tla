---------------------------- MODULE RtspConnection ----------------------------
(***************************************************************************)
(* The task of one RTSP connection: RTSPSession::Run, the modules it calls *)
(* for a request, and the output stream that the responses share with      *)
(* interleaved packets.                                                    *)
(*                                                                         *)
(* Run goes through the states of a request; in several it gives up its    *)
(* thread, with the read and session mutexes held, until an event arrives. *)
(* RTP sessions write packets from their own tasks.  Bytes are counted in  *)
(* units: a response is two, header and rest, and so is a packet.  The     *)
(* cutting of the input is in RequestStream, tunnels are in HttpTunnel,    *)
(* and what the modules do to RTP sessions is in SessionLifecycle.         *)
(***************************************************************************)
EXTENDS Naturals, Sequences, FiniteSetsExt

CONSTANTS
    NumModules,  \* modules in each of Roles
    MaxRoom      \* room in the socket's send buffer

Roles == <<"filter", "route", "authenticate", "authorize", "preprocess", "request", "postprocess">>
Role  == 1..Len(Roles)
Preprocess == 5
Request    == 6
Post       == 7

ASSUME ConnectionAssumption ==
    /\ NumModules \in [Role -> Nat] /\ NumModules[Request] <= 1
    /\ MaxRoom \in Nat \ {0}

VARIABLES
    conn,       \* fState: reading, serving (with role), sending, cleaning; gone
    role,       \* the role being called
    mod,        \* fCurrentModule
    waits,      \* fModuleState.eventRequested
    running,    \* Run is active
    checks,     \* it is at the head of its loop
    signal,     \* an event is signalled
    kill,       \* a timeout or kill event among them
    asked,      \* the event asked of the socket
    live,       \* fLiveSession
    connected,  \* the socket has not noticed that the client is gone
    peer,       \* the client is there
    pending,    \* what it has sent
    body,       \* the rest of the request: none, due or here
    held,       \* fReadMutex and fSessionMutex
    keep,       \* GetResponseKeepAlive
    put,        \* units of the response written
    buf,        \* unsent part of fOutputStream
    room,       \* free space of the socket
    owed, last  \* history: what the client is yet to get, and what it got last

inVars   == <<peer, pending, body>>
outVars  == <<buf, room, owed, last>>
taskVars == <<running, checks, signal, kill, asked>>
callVars == <<role, mod, waits>>
connVars == <<conn, callVars, taskVars, live, connected, inVars, held, keep, put, outVars>>

Kinds == {"request", "data", "long"}
Units == {"response", "packet"} \X {1, 2}

ConnTypeOK ==
    /\ conn \in {"reading", "serving", "sending", "cleaning", "gone"}
    /\ role \in Role /\ mod \in Nat
    /\ {waits, running, checks, signal, kill, live, connected, peer, held, keep} \subseteq BOOLEAN
    /\ asked \in {"none", "input", "output"}
    /\ pending \in Kinds \cup {"none"} /\ body \in {"none", "due", "here"}
    /\ put \in 0..2 /\ room \in 0..MaxRoom
    /\ buf \in Seq(Units) /\ owed \in Seq(Units) /\ last \in Units

ConnInit ==
    /\ conn = "reading" /\ role = 1 /\ mod = 0 /\ waits = FALSE
    /\ running = FALSE /\ checks = FALSE /\ signal = FALSE /\ kill = FALSE /\ asked = "input"
    /\ live = TRUE /\ connected = TRUE /\ peer = TRUE
    /\ pending = "none" /\ body = "none" /\ held = FALSE /\ keep = TRUE
    /\ put = 0 /\ buf = <<>> /\ room = MaxRoom /\ owed = <<>> /\ last = <<"response", 2>>

-----------------------------------------------------------------------------
\* Output

\* What is buffered after n units of the buffer and the data were sent: the rest.
Unsent(data, n) == SubSeq(buf \o data, n + 1, Len(buf) + Len(data))

\* n units reach the socket; accepted is what the caller may take for sent.
Deliver(n, accepted) ==
    /\ room' = room - n
    /\ owed' = SubSeq(owed \o accepted, n + 1, Len(owed) + Len(accepted))
    /\ last' = IF n = 0 THEN last ELSE (owed \o accepted)[Min({n, Len(owed \o accepted)})]

\* Put, and RTSPRequestInterface::Write: response units up to the n-th are buffered.
Put(n) ==
    LET data == [i \in 1..(n - put) |-> <<"response", put + i>>] IN
    put' = n /\ buf' = buf \o data /\ owed' = owed \o data /\ UNCHANGED <<room, last>>

\* The session mutex is not tried.
WriteAnyway == conn # "gone"

\* InterleavedWrite only tries the mutex.
MayWrite == conn # "gone" /\ ~held

\* InterleavedWrite and WriteV with kAllOrNothing: a packet none of which was sent is refused,
\* the rest of one sent in part is buffered.
InterleavedWrite ==
    LET packet == <<<<"packet", 1>>, <<"packet", 2>>>>
        n      == Min({room, Len(buf) + 2})
    IN
    /\ MayWrite /\ n > 0
    /\ IF n <= Len(buf)
       THEN Deliver(n, <<>>) /\ buf' = Unsent(<<>>, n)
       ELSE Deliver(n, packet) /\ buf' = Unsent(packet, n)
    /\ UNCHANGED <<conn, callVars, taskVars, live, connected, inVars, held, keep, put>>

-----------------------------------------------------------------------------
\* Run

Return(event) == running' = FALSE /\ checks' = FALSE /\ asked' = event
Break         == checks' = TRUE /\ UNCHANGED <<running, asked>>
FallThrough   == UNCHANGED <<running, checks, asked>>

\* The events are taken when Run starts.
StartRun ==
    /\ signal /\ ~running /\ conn # "gone"
    /\ running' = TRUE /\ checks' = TRUE /\ signal' = FALSE /\ kill' = FALSE
    /\ live' = (live /\ ~kill)
    /\ UNCHANGED <<asked, conn, callVars, connected, inVars, held, keep, put, outVars>>

Loop ==
    /\ running /\ checks /\ live /\ connected
    /\ checks' = FALSE
    /\ UNCHANGED <<running, signal, kill, asked, conn, callVars, live, connected,
                   inVars, held, keep, put, outVars>>
\* The end of Run, when no RTP session holds the connection.
Die ==
    /\ running /\ checks /\ ~(live /\ connected)
    /\ conn' = "gone" /\ held' = FALSE /\ Return("none")
    /\ UNCHANGED <<signal, kill, callVars, live, connected, inVars, keep, put, outVars>>

At(s) == running /\ ~checks /\ conn = s

\* ReadRequest, and what is done at once: the mutexes are taken; a packet is handled and a
\* request that is too long is answered without a module.
Read ==
    /\ At("reading")
    /\ \/ /\ pending = "none" /\ peer
          /\ Return("input")
          /\ UNCHANGED <<conn, callVars, connected, inVars, held, keep, put, outVars>>
       \/ /\ pending = "none" /\ ~peer
          /\ connected' = FALSE /\ Break
          /\ UNCHANGED <<conn, callVars, inVars, held, keep, put, outVars>>
       \/ /\ pending # "none"
          /\ pending' = "none" /\ held' = TRUE
          /\ mod' = 0 /\ waits' = FALSE
          /\ \/ /\ pending = "data" /\ conn' = "cleaning" /\ role' = 1 /\ body' = "none" /\ Break
                /\ put' = 0 /\ UNCHANGED <<keep, outVars>>
             \/ /\ pending = "request" /\ conn' = "serving" /\ role' = 1 /\ FallThrough
                /\ body' \in {"none", "due"} /\ keep' \in BOOLEAN
                /\ put' = 0 /\ UNCHANGED outVars
             \/ /\ pending = "long" /\ conn' = "serving" /\ role' = Post /\ Break
                /\ body' = "none" /\ keep' = FALSE
                /\ put' = 2
                /\ buf' = buf \o <<<<"response", 1>>, <<"response", 2>>>>
                /\ owed' = owed \o <<<<"response", 1>>, <<"response", 2>>>>
                /\ UNCHANGED <<room, last>>
          /\ UNCHANGED <<peer, connected>>
    /\ UNCHANGED <<signal, kill, live>>

\* The condition of the loop over the modules of the role.
More ==
    /\ mod < NumModules[role]
    /\ put = 0 \/ waits \/ role \in {Request, Post}

\* A module may write, and may take the body; in the last role nothing is written any more.
Dispatch ==
    /\ At("serving") /\ More
    /\ live' = IF role = Post THEN keep ELSE live
    /\ \E n \in put..(IF role = Post THEN put ELSE 2) : Put(n)
    /\ body' \in {body, IF body = "here" THEN "none" ELSE body}
    /\ UNCHANGED <<conn, role, signal, kill, connected, peer, pending, held, keep>>

ModuleReturns == Dispatch /\ put' # 1 /\ mod' = mod + 1 /\ waits' = FALSE /\ FallThrough

\* The module has asked for an event.  The authentication loop begins again at the first
\* module and without the request for an event (no module there has written by then).
ModuleWaits ==
    /\ Dispatch /\ Return("none")
    /\ IF Roles[role] = "authenticate" THEN put' = 0 /\ mod' = 0 /\ waits' = FALSE
       ELSE mod' = mod /\ waits' = (role # Request)

\* After the last module: a response leads to the last role; so may the parsing of the
\* request, a refusal, or the canned answer if no module responded.  Authentication and
\* authorization are skipped unless a module has set qtssRTSPReqSkipAuthorization to false.
EndRole ==
    /\ At("serving") /\ ~More
    /\ mod' = 0 /\ waits' = FALSE
    /\ \/ /\ role = Post /\ live' = keep
          /\ conn' = "sending" /\ FallThrough /\ UNCHANGED <<role, put, outVars>>
       \/ /\ role = Request /\ role' = Post /\ FallThrough
          /\ Put(2) /\ UNCHANGED <<conn, live>>
       \/ /\ role < Request
          /\ \/ put > 0 \/ Roles[role] \in {"filter", "authorize"}
          /\ role' = Post /\ Break /\ Put(2) /\ UNCHANGED <<conn, live>>
       \/ /\ role < Request /\ put = 0
          /\ \/ role' = role + 1 /\ FallThrough
             \/ Roles[role] = "route" /\ role' = Preprocess /\ Break
          /\ UNCHANGED <<conn, live, put, outVars>>
    /\ UNCHANGED <<signal, kill, connected, inVars, held, keep>>

\* The event is not asked for.
NoWakeup(n) == "none"

\* What Run waits for when units are left after a flush.
Writable(n) == "output"

Flush ==
    LET n == IF peer THEN Min({room, Len(buf)}) ELSE 0 IN
    /\ At("sending")
    /\ Deliver(n, <<>>) /\ buf' = Unsent(<<>>, n)
    /\ connected' = (peer \/ buf = <<>>)
    /\ IF buf' = <<>> THEN conn' = "cleaning" /\ FallThrough
       ELSE conn' = conn /\ Return(Writable(n))
    /\ UNCHANGED <<signal, kill, callVars, live, inVars, held, keep, put>>

\* DumpRequestData and CleanupRequest.
Clean ==
    /\ At("cleaning")
    /\ IF body = "due" /\ peer
       THEN Return("input") /\ UNCHANGED <<conn, held, body, connected>>
       ELSE /\ conn' = "reading" /\ held' = FALSE /\ body' = "none" /\ Break
            /\ connected' = (body # "due" /\ connected)
    /\ UNCHANGED <<signal, kill, callVars, live, peer, pending, keep, put, outVars>>

RunStep == StartRun \/ Loop \/ Die \/ Read \/ ModuleReturns \/ ModuleWaits \/ EndRole \/ Flush \/ Clean

-----------------------------------------------------------------------------
\* Events

\* A module that waits signals the connection, the socket does when what was asked for is there.
ModuleSignals ==
    /\ conn = "serving" /\ ~running /\ ~signal /\ asked = "none"
    /\ signal' = TRUE
    /\ UNCHANGED <<running, checks, kill, asked, conn, callVars, live, connected, inVars,
                   held, keep, put, outVars>>
SocketReady ==
    /\ \/ asked = "input"  /\ (pending # "none" \/ body = "here" \/ ~peer)
       \/ asked = "output" /\ (room > 0 \/ ~peer)
    /\ signal' = TRUE /\ asked' = "none"
    /\ UNCHANGED <<running, checks, kill, conn, callVars, live, connected, inVars,
                   held, keep, put, outVars>>

\* fTimeoutTask, or another task that gives the connection up.
Kill ==
    /\ conn # "gone" /\ ~kill /\ live
    /\ kill' = TRUE /\ signal' = TRUE
    /\ UNCHANGED <<running, checks, asked, conn, callVars, live, connected, inVars,
                   held, keep, put, outVars>>

ClientSends ==
    /\ peer /\ pending = "none" /\ body # "due"
    /\ pending' \in Kinds
    /\ UNCHANGED <<peer, body, conn, callVars, taskVars, live, connected, held, keep, put, outVars>>
ClientSendsBody ==
    /\ peer /\ body = "due" /\ body' = "here"
    /\ UNCHANGED <<peer, pending, conn, callVars, taskVars, live, connected, held, keep, put, outVars>>
ClientReads ==
    /\ peer /\ room < MaxRoom /\ room' \in (room + 1)..MaxRoom
    /\ UNCHANGED <<buf, owed, last, conn, callVars, taskVars, live, connected, inVars, held, keep, put>>
ClientLeaves ==
    /\ peer /\ peer' = FALSE
    /\ UNCHANGED <<pending, body, conn, callVars, taskVars, live, connected, held, keep, put, outVars>>

ConnNext ==
    \/ RunStep \/ InterleavedWrite \/ ModuleSignals \/ SocketReady \/ Kill
    \/ ClientSends \/ ClientSendsBody \/ ClientReads \/ ClientLeaves

\* Signalled tasks run, sockets report, and modules answer in the end; the client reads and
\* sends what it has begun, or leaves.
ConnFairness ==
    /\ WF_connVars(RunStep) /\ SF_connVars(ModuleReturns)
    /\ WF_connVars(ModuleSignals) /\ WF_connVars(SocketReady)
    /\ WF_connVars(ClientSendsBody) /\ WF_connVars(ClientReads)
ConnSpec == ConnInit /\ [][ConnNext]_connVars /\ ConnFairness

-----------------------------------------------------------------------------

Follows(x, y) == y[2] = IF x[2] = 1 THEN 2 ELSE 1
Joined(x, y)  == Follows(x, y) /\ (x[2] = 1 => x[1] = y[1])

\* "make sure that anyone sending interleaved data on this session won't be allowed to do so
\* until we are done sending our response" (Run): the client gets each response and each
\* accepted packet once, whole and in order, however a send is cut and a module waits.
StreamWhole ==
    conn # "gone" =>
        /\ buf = owed
        /\ LET s == <<last>> \o owed IN \A i \in 1..(Len(s) - 1) : Joined(s[i], s[i + 1])

\* The mutexes are given back: no event a request waits for is missed.
RequestEnds == held ~> ~held
=============================================================================
