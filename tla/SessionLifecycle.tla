--------------------------- MODULE SessionLifecycle ---------------------------
(***************************************************************************)
(* The lifetimes of the two long-lived objects of the server and the two  *)
(* counts that tie them together.                                          *)
(*                                                                         *)
(*   - An RTSPSession (a member of RTSP) is the task that serves one TCP   *)
(*     connection.  RTSPSession::Run is its only code, and it runs on one  *)
(*     thread at a time.                                                   *)
(*   - An RTPSession (a member of RTP) is the task of one client session.  *)
(*     It is found by its session ID in the server's RTPSessionMap.        *)
(*                                                                         *)
(* refs[r] is the count the map keeps of the pointers handed out to r: r   *)
(* must not be unregistered while it is positive.  holders[s] is           *)
(* fObjectHolders: the number of RTP sessions that keep s in fRTSPSession, *)
(* and s must not be deleted while it is positive.                         *)
(*                                                                         *)
(* A step of this module is a stretch of code in which no other thread can *)
(* observe or change the state modelled here.  The map (CF::RefTable), the *)
(* task events and the timers belong to an external library and appear as  *)
(* the code uses them.                                                     *)
(***************************************************************************)
EXTENDS Integers, FiniteSets

CONSTANTS
    RTSP,       \* RTSPSession objects, one per accepted connection
    RTP,        \* RTPSession objects; each stands for its session ID too
    None,       \* the null pointer, and the empty session ID
    Env,        \* what clients and other threads are allowed to do
    Refreshed,  \* RTPSession objects whose timeout is refreshed for ever, see Fairness
    MaxPlays,   \* bound on the playing counter, see PlayRequest
    MaxHolders  \* bound on the holder counts, see CrossTeardown

(***************************************************************************)
(* "foreign"       a request may name, in its Session header, a session    *)
(*                 that was created over another connection                *)
(* "several"       a connection may create a session while an earlier one  *)
(*                 of its own is still registered (a second SETUP)         *)
(* "crossTeardown" a reflector thread may call QTSS_Teardown on a session  *)
(*                 (ReflectorStream::TearDownAllOutputs)                   *)
(* "stall"         the thread that creates an RTP session may be delayed   *)
(*                 for longer than the session's timeout                   *)
(***************************************************************************)
Behaviours == {"foreign", "several", "crossTeardown", "stall"}

ASSUME ConstantsAssumption ==
    /\ IsFiniteSet(RTP)
    /\ None \notin RTSP \cup RTP
    /\ RTSP \cap RTP = {}
    /\ Env \subseteq Behaviours
    /\ Refreshed \subseteq RTP
    /\ MaxPlays \in Nat /\ MaxHolders \in Nat

VARIABLES
    pc,         \* where each connection's Run stands
    live,       \* IsLiveSession(): fLiveSession and the socket is connected
    ev,         \* a timeout or kill event (or the closing of the socket) is pending
    holders,    \* fObjectHolders
    cur,        \* fRTPSession
    last,       \* fLastRTPSessionID, the characters
    lastOn,     \* fLastRTPSessionIDPtr.Len > 0
    stage,      \* how far each RTP session has come
    refs,       \* its reference count in the RTPSessionMap
    rtsp,       \* fRTSPSession
    killed,     \* a timeout or kill event of the RTP session is pending
    home,       \* the connection whose request created the session
    known,      \* sessions whose creating request has been answered: a client
                \* can have the ID, and a broadcast the session as an output
    firstPlay,  \* fIsFirstPlay
    tearing,    \* a thread is inside RTPSession::Teardown
    tearBy,     \* that thread: a connection, or None for a reflector thread
    owe,        \* the connection a thread took to zero holders and must Signal
    clients,    \* qtssSvrClientSessions
    nRTP,       \* fNumRTPSessions
    nPlaying    \* fNumRTPPlayingSessions

connVars == <<pc, live, ev, cur, last, lastOn>>
rtpVars  == <<stage, refs, killed, home, known, firstPlay>>
bindVars == <<holders, rtsp, owe>>
tearVars == <<tearing, tearBy>>
srvVars  == <<clients, nRTP, nPlaying>>
vars     == <<connVars, rtpVars, bindVars, tearVars, srvVars>>

\* The states of a request, from the one that finds the session to the one that lets it go.
RequestPcs == {"found", "activate", "list", "resolve", "serve", "tearing",
               "post", "bind", "count", "send"}
EndPcs     == {"end", "endTeardown", "endTearing", "endTest", "endRelease",
               "clean", "check", "parked", "dtor", "freed"}
Pcs        == {"none", "idle"} \cup RequestPcs \cup EndPcs
Stages     == {"unborn", "created", "registered", "closing", "closed",
               "unlisted", "dropped", "freed"}

Init ==
    /\ pc = [s \in RTSP |-> "none"]
    /\ live = [s \in RTSP |-> FALSE]
    /\ ev = [s \in RTSP |-> FALSE]
    /\ holders = [s \in RTSP |-> 0]
    /\ cur = [s \in RTSP |-> None]
    /\ last = [s \in RTSP |-> None]
    /\ lastOn = [s \in RTSP |-> FALSE]
    /\ stage = [r \in RTP |-> "unborn"]
    /\ refs = [r \in RTP |-> 0]
    /\ rtsp = [r \in RTP |-> None]
    /\ killed = [r \in RTP |-> FALSE]
    /\ home = [r \in RTP |-> None]
    /\ known = {}
    /\ firstPlay = [r \in RTP |-> TRUE]
    /\ tearing = [r \in RTP |-> FALSE]
    /\ tearBy = [r \in RTP |-> None]
    /\ owe = [x \in RTSP \cup RTP |-> None]
    /\ clients = {}
    /\ nRTP = 0
    /\ nPlaying = 0

-----------------------------------------------------------------------------
(* The map of RTP sessions (CF::RefTable) and the holder count.            *)

Registered(r) == r # None /\ stage[r] = "registered"

\* Session IDs a client on connection s may put in a Session header, or send
\* interleaved packets for.
Names(s) == {r \in known : home[r] = s \/ "foreign" \in Env}

\* Resolve and Release of the map: count one user more, or one user less.
Resolve(r) == refs' = [refs EXCEPT ![r] = @ + 1]
Release(r) == refs' = [refs EXCEPT ![r] = @ - 1]

\* Variant: the last holder does not signal the connection.
DecrementSilently(t, x) ==
    /\ holders' = [holders EXCEPT ![t] = @ - 1]
    /\ owe' = [owe EXCEPT ![x] = None]

\* --fObjectHolders of connection t by thread x; the call then goes on to
\* Signal t if the count became zero.
Decrement(t, x) ==
    /\ holders' = [holders EXCEPT ![t] = @ - 1]
    /\ owe' = [owe EXCEPT ![x] = IF holders[t] = 1 THEN t ELSE None]

\* The Signal(kKillEvent) that ends DecrementObjectHolderCount.
Wake(x) ==
    /\ owe[x] # None
    /\ ev' = [ev EXCEPT ![owe[x]] = TRUE]
    /\ owe' = [owe EXCEPT ![x] = None]
    /\ UNCHANGED <<pc, live, cur, last, lastOn, rtpVars, holders, rtsp, tearVars, srvVars>>

-----------------------------------------------------------------------------
(* RTPSession::Teardown, under the fRTSPSessionMutex of r.                 *)

\* Lock, and give up the connection the session points at.
TeardownEnter(r, x) ==
    /\ ~tearing[r]
    /\ tearing' = [tearing EXCEPT ![r] = TRUE]
    /\ tearBy' = [tearBy EXCEPT ![r] = x]
    /\ IF rtsp[r] # None THEN Decrement(rtsp[r], r) ELSE UNCHANGED <<holders, owe>>

\* Variant: the pointer stays after the count is given up.
TeardownKeepsPointer(r) ==
    /\ tearing[r] /\ owe[r] = None
    /\ killed' = [killed EXCEPT ![r] = TRUE]
    /\ tearing' = [tearing EXCEPT ![r] = FALSE]
    /\ tearBy' = [tearBy EXCEPT ![r] = None]
    /\ pc' = [s \in RTSP |->
                IF s # tearBy[r] THEN pc[s]
                ELSE IF pc[s] = "tearing" THEN "post" ELSE "endTest"]
    /\ UNCHANGED <<rtsp, live, ev, cur, last, lastOn, stage, refs, home, known, firstPlay,
                   holders, owe, srvVars>>

\* Null the pointer, Signal(kKillEvent) the session and unlock.
TeardownLeave(r) ==
    /\ tearing[r] /\ owe[r] = None
    /\ rtsp' = [rtsp EXCEPT ![r] = None]
    /\ killed' = [killed EXCEPT ![r] = TRUE]
    /\ tearing' = [tearing EXCEPT ![r] = FALSE]
    /\ tearBy' = [tearBy EXCEPT ![r] = None]
    /\ pc' = [s \in RTSP |->
                IF s # tearBy[r] THEN pc[s]
                ELSE IF pc[s] = "tearing" THEN "post" ELSE "endTest"]
    /\ UNCHANGED <<live, ev, cur, last, lastOn, stage, refs, home, known, firstPlay,
                   holders, owe, srvVars>>

\* A broadcast ends, and the thread that ends it tears down its outputs.  When
\* it reads a null pointer while UpdateRTSPSession stores one, the connection
\* keeps a count nobody gives back; MaxHolders bounds how often.
CrossTeardown(r) ==
    /\ "crossTeardown" \in Env /\ \A s \in RTSP : holders[s] <= MaxHolders
    /\ stage[r] \in {"registered", "closing"} /\ r \in known
    /\ TeardownEnter(r, None)
    /\ UNCHANGED <<connVars, rtpVars, rtsp, srvVars>>

-----------------------------------------------------------------------------
(* The connection and its events.                                          *)

Accept(s) ==
    /\ pc[s] = "none"
    /\ pc' = [pc EXCEPT ![s] = "idle"]
    /\ live' = [live EXCEPT ![s] = TRUE]
    /\ UNCHANGED <<ev, cur, last, lastOn, rtpVars, bindVars, tearVars, srvVars>>

\* The socket closes; IsLiveSession() is false from here on, and Run is woken.
Disconnect(s) ==
    /\ live[s]
    /\ live' = [live EXCEPT ![s] = FALSE]
    /\ ev' = [ev EXCEPT ![s] = TRUE]
    /\ UNCHANGED <<pc, cur, last, lastOn, rtpVars, bindVars, tearVars, srvVars>>

\* The timeout task of the connection fires.
Timeout(s) ==
    /\ pc[s] \notin {"none", "dtor", "freed"} /\ ~ev[s]
    /\ ev' = [ev EXCEPT ![s] = TRUE]
    /\ UNCHANGED <<pc, live, cur, last, lastOn, rtpVars, bindVars, tearVars, srvVars>>

\* Run starts again with an event pending: "just consider the session dead".
NoticeEvent(s) ==
    /\ pc[s] \in {"idle", "serve", "send", "parked"} /\ ev[s]
    /\ ev' = [ev EXCEPT ![s] = FALSE]
    /\ live' = [live EXCEPT ![s] = FALSE]
    /\ pc' = [pc EXCEPT ![s] = "end"]
    /\ UNCHANGED <<cur, last, lastOn, rtpVars, bindVars, tearVars, srvVars>>

\* while (this->IsLiveSession()) ends the loop.
LeaveLoop(s) ==
    /\ pc[s] \in {"idle", "serve", "post", "send"} /\ ~live[s]
    /\ pc' = [pc EXCEPT ![s] = "end"]
    /\ UNCHANGED <<live, ev, cur, last, lastOn, rtpVars, bindVars, tearVars, srvVars>>

-----------------------------------------------------------------------------
(* A request.                                                              *)

\* A whole request is there: FindRTPSession looks for the ID in the header,
\* or for the ID the connection remembers.
FindSession(s) ==
    /\ pc[s] = "idle" /\ live[s]
    /\ pc' = [pc EXCEPT ![s] = "found"]
    /\ \E h \in Names(s) \cup {None} :
         LET id == IF h # None THEN h ELSE IF lastOn[s] THEN last[s] ELSE None
         IN IF Registered(id)
            THEN cur' = [cur EXCEPT ![s] = id] /\ Resolve(id)
            ELSE UNCHANGED <<cur, refs>>
    /\ UNCHANGED <<live, ev, last, lastOn, stage, killed, home, known, firstPlay,
                   bindVars, tearVars, srvVars>>

\* A request that overfills the buffer, is not base64 or cannot be parsed is
\* answered before a session is looked up.
BadRequest(s) ==
    /\ pc[s] = "idle" /\ live[s]
    /\ pc' = [pc EXCEPT ![s] = "post"]
    /\ UNCHANGED <<live, ev, cur, last, lastOn, rtpVars, bindVars, tearVars, srvVars>>

\* An interleaved packet: HandleIncomingDataPacket resolves the session of its
\* channel and keeps the reference until kCleaningUp.
DataPacket(s) ==
    /\ pc[s] = "idle" /\ live[s]
    /\ pc' = [pc EXCEPT ![s] = "send"]
    /\ \E r \in Names(s) :
         IF Registered(r)
         THEN cur' = [cur EXCEPT ![s] = r] /\ Resolve(r)
         ELSE UNCHANGED <<cur, refs>>
    /\ UNCHANGED <<live, ev, last, lastOn, stage, killed, home, known, firstPlay,
                   bindVars, tearVars, srvVars>>

\* OPTIONS, a ping PLAY, a refused session: the response is there already.
EarlyResponse(s) ==
    /\ pc[s] = "found"
    /\ pc' = [pc EXCEPT ![s] = "post"]
    /\ UNCHANGED <<live, ev, cur, last, lastOn, rtpVars, bindVars, tearVars, srvVars>>

UseSession(s) ==
    /\ pc[s] = "found" /\ cur[s] # None
    /\ pc' = [pc EXCEPT ![s] = "serve"]
    /\ UNCHANGED <<live, ev, cur, last, lastOn, rtpVars, bindVars, tearVars, srvVars>>

\* CreateNewRTPSession: new RTPSession and a session ID of its own ...
CreateSession(s) ==
    /\ pc[s] = "found" /\ cur[s] = None
    /\ "several" \in Env \/ \A q \in RTP : home[q] = s => stage[q] # "registered"
    /\ pc' = [pc EXCEPT ![s] = "activate"]
    /\ \E r \in RTP :
         /\ stage[r] = "unborn"
         /\ stage' = [stage EXCEPT ![r] = "created"]
         /\ home' = [home EXCEPT ![r] = s]
         /\ cur' = [cur EXCEPT ![s] = r]
         /\ last' = [last EXCEPT ![s] = r]
    /\ lastOn' = [lastOn EXCEPT ![s] = TRUE]
    /\ UNCHANGED <<live, ev, refs, killed, known, firstPlay, bindVars, tearVars, srvVars>>

\* ... Activate enters it into the map ...
RegisterSession(s) ==
    /\ pc[s] = "activate"
    /\ pc' = [pc EXCEPT ![s] = "list"]
    /\ stage' = [stage EXCEPT ![cur[s]] = "registered"]
    /\ UNCHANGED <<live, ev, cur, last, lastOn, refs, killed, home, known, firstPlay,
                   bindVars, tearVars, srvVars>>

\* ... and into the server's client list, under the server mutex ...
ListSession(s) ==
    /\ pc[s] = "list"
    /\ pc' = [pc EXCEPT ![s] = "resolve"]
    /\ clients' = clients \cup {cur[s]}
    /\ nRTP' = nRTP + 1
    /\ UNCHANGED <<live, ev, cur, last, lastOn, rtpVars, bindVars, tearVars, nPlaying>>

\* ... and CreateNewRTPSession takes its own reference, or finds nothing and
\* goes on (the Assert is empty in a release build).
ResolveSession(s) ==
    /\ pc[s] = "resolve"
    /\ pc' = [pc EXCEPT ![s] = "serve"]
    /\ IF Registered(cur[s]) THEN Resolve(cur[s]) ELSE UNCHANGED refs
    /\ UNCHANGED <<live, ev, cur, last, lastOn, stage, killed, home, known, firstPlay,
                   bindVars, tearVars, srvVars>>

\* The roles run and a response is there.  A SETUP makes the connection forget
\* its session ID for the next request, any other method brings it back.
Serve(s) ==
    /\ pc[s] = "serve" /\ live[s]
    /\ pc' = [pc EXCEPT ![s] = "post"]
    /\ \E setup \in BOOLEAN : lastOn' = [lastOn EXCEPT ![s] = ~setup /\ last[s] # None]
    /\ UNCHANGED <<live, ev, cur, last, rtpVars, bindVars, tearVars, srvVars>>

\* RTPSession::Play counts a playing session at every PLAY.  MaxPlays bounds
\* the count, which nothing in the code bounds.
PlayRequest(s) ==
    /\ pc[s] = "serve" /\ live[s] /\ nPlaying < MaxPlays
    /\ pc' = [pc EXCEPT ![s] = "post"]
    /\ lastOn' = [lastOn EXCEPT ![s] = last[s] # None]
    /\ firstPlay' = [firstPlay EXCEPT ![cur[s]] = FALSE]
    /\ nPlaying' = nPlaying + 1
    /\ UNCHANGED <<live, ev, cur, last, stage, refs, killed, home, known, bindVars,
                   tearVars, clients, nRTP>>

\* The handler of TEARDOWN calls QTSS_Teardown on its own session.
TeardownRequest(s) ==
    /\ pc[s] = "serve" /\ live[s]
    /\ TeardownEnter(cur[s], s)
    /\ pc' = [pc EXCEPT ![s] = "tearing"]
    /\ lastOn' = [lastOn EXCEPT ![s] = last[s] # None]
    /\ UNCHANGED <<live, ev, cur, last, rtpVars, rtsp, srvVars>>

\* kPostProcessingRequest: a request that is not keep-alive ends the
\* connection; otherwise UpdateRTSPSession makes it the one that cur[s] points
\* at.  A session that pointed elsewhere lets its old connection go first.  The
\* session mutex of cur[s] keeps two requests from doing this at once.
Post(s) ==
    /\ pc[s] = "post"
    /\ \E keepAlive \in BOOLEAN :
         LET alive == live[s] /\ keepAlive
             r     == cur[s]
         IN /\ live' = [live EXCEPT ![s] = alive]
            /\ IF r # None /\ alive /\ rtsp[r] # s
               THEN /\ \A t \in RTSP : cur[t] = r => pc[t] \notin {"bind", "count"}
                    /\ IF rtsp[r] # None THEN Decrement(rtsp[r], s)
                                         ELSE UNCHANGED <<holders, owe>>
                    /\ pc' = [pc EXCEPT ![s] = "bind"]
               ELSE /\ UNCHANGED <<holders, owe>>
                    /\ pc' = [pc EXCEPT ![s] = "send"]
    /\ UNCHANGED <<ev, cur, last, lastOn, rtpVars, rtsp, tearVars, srvVars>>

BindSession(s) ==
    /\ pc[s] = "bind" /\ owe[s] = None
    /\ pc' = [pc EXCEPT ![s] = "count"]
    /\ rtsp' = [rtsp EXCEPT ![cur[s]] = s]
    /\ UNCHANGED <<live, ev, cur, last, lastOn, rtpVars, holders, owe, tearVars, srvVars>>

\* IncrementObjectHolderCount
CountHolder(s) ==
    /\ pc[s] = "count"
    /\ pc' = [pc EXCEPT ![s] = "send"]
    /\ holders' = [holders EXCEPT ![s] = @ + 1]
    /\ UNCHANGED <<live, ev, cur, last, lastOn, rtpVars, rtsp, owe, tearVars, srvVars>>

\* Variant: the pointer is forgotten, the reference is not released.
ForgetCurrent(s) ==
    /\ cur' = [cur EXCEPT ![s] = None]
    /\ UNCHANGED refs

\* CleanupRequest lets the session go, and forgets the ID of a dead connection.
ReleaseCurrent(s) ==
    /\ IF cur[s] # None THEN Release(cur[s]) ELSE UNCHANGED refs
    /\ cur' = [cur EXCEPT ![s] = None]

\* The response is flushed: kCleaningUp, and back to kReadingRequest.
FinishRequest(s) ==
    /\ pc[s] = "send"
    /\ pc' = [pc EXCEPT ![s] = "idle"]
    /\ ReleaseCurrent(s)
    /\ last' = [last EXCEPT ![s] = IF live[s] THEN @ ELSE None]
    /\ lastOn' = [lastOn EXCEPT ![s] = @ /\ live[s]]
    /\ known' = known \cup ({cur[s]} \ {None})
    /\ UNCHANGED <<live, ev, stage, killed, home, firstPlay, bindVars, tearVars, srvVars>>

-----------------------------------------------------------------------------
(* The end of a connection, after the loop of Run.                         *)

\* Variant: the session is left to its timeout.
EndWithoutTeardown(s) ==
    /\ pc[s] = "end"
    /\ pc' = [pc EXCEPT ![s] = "clean"]
    /\ UNCHANGED <<live, ev, cur, last, lastOn, rtpVars, bindVars, tearVars, srvVars>>

\* Holders are left: find the session last used and tear it down.
EndResolve(s) ==
    /\ pc[s] = "end"
    /\ IF holders[s] # 0 /\ lastOn[s] /\ Registered(last[s])
       THEN /\ cur' = [cur EXCEPT ![s] = last[s]]
            /\ Resolve(last[s])
            /\ pc' = [pc EXCEPT ![s] = "endTeardown"]
       ELSE /\ pc' = [pc EXCEPT ![s] = "clean"]
            /\ UNCHANGED <<cur, refs>>
    /\ UNCHANGED <<live, ev, last, lastOn, stage, killed, home, known, firstPlay,
                   bindVars, tearVars, srvVars>>

EndTeardown(s) ==
    /\ pc[s] = "endTeardown"
    /\ TeardownEnter(cur[s], s)
    /\ pc' = [pc EXCEPT ![s] = "endTearing"]
    /\ UNCHANGED <<live, ev, cur, last, lastOn, rtpVars, rtsp, srvVars>>

\* while (theRef->GetRefCount() > 0) theMap->Release(...)
EndTest(s) ==
    /\ pc[s] = "endTest"
    /\ IF refs[cur[s]] > 0
       THEN pc' = [pc EXCEPT ![s] = "endRelease"] /\ UNCHANGED cur
       ELSE /\ pc' = [pc EXCEPT ![s] = "clean"]
            /\ cur' = [cur EXCEPT ![s] = None]
    /\ UNCHANGED <<live, ev, last, lastOn, rtpVars, bindVars, tearVars, srvVars>>

EndRelease(s) ==
    /\ pc[s] = "endRelease"
    /\ pc' = [pc EXCEPT ![s] = "endTest"]
    /\ Release(cur[s])
    /\ UNCHANGED <<live, ev, cur, last, lastOn, stage, killed, home, known, firstPlay,
                   bindVars, tearVars, srvVars>>

\* CleanupRequest of a dead connection
Clean(s) ==
    /\ pc[s] = "clean"
    /\ pc' = [pc EXCEPT ![s] = "check"]
    /\ ReleaseCurrent(s)
    /\ last' = [last EXCEPT ![s] = None]
    /\ lastOn' = [lastOn EXCEPT ![s] = FALSE]
    /\ UNCHANGED <<live, ev, stage, killed, home, known, firstPlay, bindVars, tearVars, srvVars>>

\* "Only delete if it is ok to delete!"
CheckHolders(s) ==
    /\ pc[s] = "check"
    /\ pc' = [pc EXCEPT ![s] = IF holders[s] = 0 THEN "dtor" ELSE "parked"]
    /\ UNCHANGED <<live, ev, cur, last, lastOn, rtpVars, bindVars, tearVars, srvVars>>

DeleteConnection(s) ==
    /\ pc[s] = "dtor"
    /\ pc' = [pc EXCEPT ![s] = "freed"]
    /\ UNCHANGED <<live, ev, cur, last, lastOn, rtpVars, bindVars, tearVars, srvVars>>

-----------------------------------------------------------------------------
(* RTPSession::Run.                                                        *)

\* The timeout task of the session fires.  Without "stall" the creating
\* request is done by then.
Expire(r) ==
    /\ stage[r] = "registered" /\ ~killed[r]
    /\ "stall" \in Env \/ \A s \in RTSP : cur[s] = r => pc[s] \notin {"list", "resolve"}
    /\ killed' = [killed EXCEPT ![r] = TRUE]
    /\ UNCHANGED <<connVars, stage, refs, home, known, firstPlay, bindVars, tearVars, srvVars>>

\* Variant: a killed session leaves the map under its users.
UnregisterAlways(r) ==
    /\ stage[r] = "registered" /\ killed[r]
    /\ stage' = [stage EXCEPT ![r] = "closing"]
    /\ killed' = [killed EXCEPT ![r] = FALSE]
    /\ UNCHANGED <<connVars, refs, home, known, firstPlay, bindVars, tearVars, srvVars>>

\* A killed session leaves the map if nobody has it (TryUnRegister); otherwise
\* it signals itself again and tries later.
Unregister(r) ==
    /\ stage[r] = "registered" /\ killed[r] /\ refs[r] <= 0
    /\ stage' = [stage EXCEPT ![r] = "closing"]
    /\ killed' = [killed EXCEPT ![r] = FALSE]
    /\ UNCHANGED <<connVars, refs, home, known, firstPlay, bindVars, tearVars, srvVars>>

\* The modules of the ClientSessionClosing role are done, over several calls of
\* Run if they ask for it.  The reflector module takes the session out of the
\* outputs, after which no reflector thread can tear it down.
FinishClosing(r) ==
    /\ stage[r] = "closing" /\ ~tearing[r]
    /\ stage' = [stage EXCEPT ![r] = "closed"]
    /\ UNCHANGED <<connVars, refs, killed, home, known, firstPlay, bindVars, tearVars, srvVars>>

\* Variant: the count is lowered, the entry of the list stays.
UnlistCountOnly(r) ==
    /\ stage[r] = "closed"
    /\ stage' = [stage EXCEPT ![r] = "unlisted"]
    /\ nRTP' = nRTP - 1
    /\ nPlaying' = IF firstPlay[r] THEN nPlaying ELSE nPlaying - 1
    /\ UNCHANGED <<connVars, refs, killed, home, known, firstPlay, bindVars, tearVars, clients>>

\* ~RTPSession: out of the client list, under the server mutex.
Unlist(r) ==
    /\ stage[r] = "closed"
    /\ stage' = [stage EXCEPT ![r] = "unlisted"]
    /\ clients' = clients \ {r}
    /\ nRTP' = nRTP - 1
    /\ nPlaying' = IF firstPlay[r] THEN nPlaying ELSE nPlaying - 1
    /\ UNCHANGED <<connVars, refs, killed, home, known, firstPlay, bindVars, tearVars>>

\* ~RTPSessionInterface gives up the connection.
DropHolder(r) ==
    /\ stage[r] = "unlisted"
    /\ stage' = [stage EXCEPT ![r] = "dropped"]
    /\ IF rtsp[r] # None THEN Decrement(rtsp[r], r) ELSE UNCHANGED <<holders, owe>>
    /\ UNCHANGED <<connVars, refs, killed, home, known, firstPlay, rtsp, tearVars, srvVars>>

FreeSession(r) ==
    /\ stage[r] = "dropped" /\ owe[r] = None
    /\ stage' = [stage EXCEPT ![r] = "freed"]
    /\ UNCHANGED <<connVars, refs, killed, home, known, firstPlay, bindVars, tearVars, srvVars>>

-----------------------------------------------------------------------------
\* The steps Run takes by itself once a request has come or the connection is dead.
RunConnection(s) ==
    \/ NoticeEvent(s) \/ LeaveLoop(s)
    \/ EarlyResponse(s) \/ UseSession(s) \/ CreateSession(s) \/ RegisterSession(s)
    \/ ListSession(s) \/ ResolveSession(s)
    \/ Serve(s) \/ PlayRequest(s) \/ TeardownRequest(s)
    \/ Post(s) \/ BindSession(s) \/ CountHolder(s) \/ FinishRequest(s)
    \/ EndResolve(s) \/ EndTeardown(s) \/ EndTest(s) \/ EndRelease(s)
    \/ Clean(s) \/ CheckHolders(s) \/ DeleteConnection(s)

Connection(s) ==
    \/ Accept(s) \/ Disconnect(s) \/ Timeout(s)
    \/ FindSession(s) \/ BadRequest(s) \/ DataPacket(s) \/ RunConnection(s)

RunSession(r) ==
    Unregister(r) \/ FinishClosing(r) \/ Unlist(r) \/ DropHolder(r) \/ FreeSession(r)

Session(r) == Expire(r) \/ CrossTeardown(r) \/ TeardownLeave(r) \/ RunSession(r)

\* Every connection and every session is gone for good.
Terminated ==
    /\ \A s \in RTSP : pc[s] = "freed"
    /\ \A r \in RTP : stage[r] \in {"unborn", "freed"}
    /\ UNCHANGED vars

Next ==
    \/ \E s \in RTSP : Connection(s)
    \/ \E r \in RTP : Session(r)
    \/ \E x \in RTSP \cup RTP : Wake(x)
    \/ Terminated

Spec == Init /\ [][Next]_vars

\* The connection of r is on its way out, and so is any other that may name r.
Abandoned(r) ==
    /\ home[r] # None /\ pc[home[r]] \in EndPcs
    /\ "foreign" \in Env => \A s \in RTSP : pc[s] \in EndPcs

(***************************************************************************)
(* Task threads run every task that has work.  A session that is abandoned *)
(* gets no request, but that is not all that refreshes its timeout: every  *)
(* RTCP packet the client sends by UDP does, every packet of a broadcast   *)
(* that is pushed, and every packet that still gets through a socket that  *)
(* is parked.  Where that goes on for ever (Refreshed) the timeout may     *)
(* fire, in a pause, but nothing makes it; of the other sessions it fires. *)
(* Nothing makes a client send a request, hang up or fall silent.          *)
(***************************************************************************)
Fairness ==
    /\ \A s \in RTSP : WF_vars(RunConnection(s))
    /\ \A r \in RTP : WF_vars(RunSession(r)) /\ WF_vars(TeardownLeave(r))
    /\ \A r \in RTP \ Refreshed : WF_vars(Expire(r) /\ Abandoned(r))
    /\ \A x \in RTSP \cup RTP : WF_vars(Wake(x))

FairSpec == Spec /\ Fairness

-----------------------------------------------------------------------------
\* The states of Run in which the code goes through fRTPSession without a test.
NeedsSession == {"activate", "list", "resolve", "serve", "tearing", "bind", "count",
                 "endTeardown", "endTearing", "endTest", "endRelease"}

\* Every variable has its type, and no thread goes through a null session.
TypeOK ==
    /\ \A s \in RTSP : pc[s] \in NeedsSession => cur[s] # None
    /\ pc \in [RTSP -> Pcs]
    /\ live \in [RTSP -> BOOLEAN]
    /\ ev \in [RTSP -> BOOLEAN]
    /\ holders \in [RTSP -> Int]
    /\ cur \in [RTSP -> RTP \cup {None}]
    /\ last \in [RTSP -> RTP \cup {None}]
    /\ lastOn \in [RTSP -> BOOLEAN]
    /\ stage \in [RTP -> Stages]
    /\ refs \in [RTP -> Int]
    /\ rtsp \in [RTP -> RTSP \cup {None}]
    /\ killed \in [RTP -> BOOLEAN]
    /\ home \in [RTP -> RTSP \cup {None}]
    /\ known \subseteq RTP
    /\ firstPlay \in [RTP -> BOOLEAN]
    /\ tearing \in [RTP -> BOOLEAN]
    /\ tearBy \in [RTP -> RTSP \cup {None}]
    /\ owe \in [RTSP \cup RTP -> RTSP \cup {None}]
    /\ clients \subseteq RTP
    /\ nRTP \in Int
    /\ nPlaying \in Int

\* While a request is at work on a session, the session is in the map: its
\* task cannot be closing or deleting it under the request.
RequestHoldsSession ==
    \A s \in RTSP :
        pc[s] \in RequestPcs /\ cur[s] # None =>
            \/ stage[cur[s]] = "registered"
            \/ pc[s] = "activate" /\ stage[cur[s]] = "created"

\* Every reference counted for a session is one that some request or some
\* ending connection will give back: none is leaked, none is given back twice.
RefsMatch ==
    \A r \in RTP :
        (\A s \in RTSP : cur[s] = r => pc[s] \in RequestPcs \ {"activate", "list", "resolve"})
          => refs[r] = Cardinality({s \in RTSP : cur[s] = r})

\* The sessions whose fRTSPSession is s and that s has been counted for: not
\* those between the store and the increment, or past the decrement.
Bound(s) == {r \in RTP : /\ rtsp[r] = s
                         /\ ~tearing[r]
                         /\ stage[r] \notin {"dropped", "freed"}
                         /\ ~(pc[s] = "count" /\ cur[s] = r)}

\* fObjectHolders of a connection is the number of sessions that point at it.
HoldersMatch == \A s \in RTSP : holders[s] = Cardinality(Bound(s))

\* No session points at a deleted connection.
NoDanglingConnection ==
    \A r \in RTP : rtsp[r] # None /\ stage[r] \notin {"dropped", "freed"} => pc[rtsp[r]] # "freed"

\* The server's list of client sessions never has a session that is deleted,
\* and its count is the length of the list.
ClientListMatches ==
    /\ nRTP = Cardinality(clients)
    /\ \A r \in clients : stage[r] \in {"registered", "closing", "closed"}

\* No refreshing of its timeout can save r: it will fall silent, it has had its
\* event or has left the map, or the end of Run is about to find it, bound to
\* the connection and remembered by it.  That leaves the sessions, refreshed for
\* ever, that were not bound, as their requests were not keep-alive, or not
\* remembered, as the last request was a SETUP.
Doomed(r) ==
    \/ r \notin Refreshed
    \/ killed[r] \/ stage[r] # "registered"
    \/ \E s \in RTSP : pc[s] = "end" /\ rtsp[r] = s /\ last[s] = r /\ lastOn[s]

\* A connection that has died is deleted in the end, unless a session holds it
\* that is refreshed for ever: the sessions go away, and the last wakes it.
DeadConnectionFreed ==
    \A s \in RTSP :
        pc[s] \in EndPcs /\ (\A r \in RTP : rtsp[r] = s => Doomed(r)) ~> pc[s] = "freed"

\* A session whose connection has died leaves the map and is deleted: by its
\* timeout, or by the end of Run whatever its client goes on to send.
OrphanSessionFreed == \A r \in RTP : Abandoned(r) /\ Doomed(r) ~> stage[r] = "freed"

-----------------------------------------------------------------------------
(* The promise this module implements, when every client keeps to its own   *)
(* connection.                                                              *)

\* The states of Run in which fRTPSession is a counted reference.
Leasing(s, r) ==
    /\ cur[s] = r
    /\ pc[s] \notin {"activate", "list", "resolve"}
    /\ pc[s] \in {"endTest", "endRelease"} => refs[r] > 0

ObjectState(r) ==
    CASE stage[r] \in {"unborn", "created"} -> "absent"
      [] stage[r] = "registered" -> "present"
      [] stage[r] = "freed" -> "gone"
      [] OTHER -> "retired"

Objects  == [r \in RTP |-> ObjectState(r)]
Leases   == [r \in RTP |-> {s \in RTSP : Leasing(s, r)}]
Pointers == [r \in RTP |-> IF stage[r] \in {"dropped", "freed"} THEN None ELSE rtsp[r]]
DeletedConnections == {s \in RTSP : pc[s] = "freed"}

Lease == INSTANCE SessionLease WITH
    object <- Objects, lease <- Leases, points <- Pointers, deleted <- DeletedConnections

LeaseKept == Lease!LeaseSpec

-----------------------------------------------------------------------------
(* What comments of the source say and the code does not keep.             *)

\* "the counter ignores additional pause-play changes while session is active"
PlayingMatches == nPlaying = Cardinality({r \in clients : ~firstPlay[r]})

\* "at this point, we know no one is using this session [...] there's no way
\* another thread could get involved anyway"
NoRequestWhenClosing ==
    \A r \in RTP : stage[r] = "closing" =>
        \A s \in RTSP : pc[s] \in RequestPcs => cur[s] # r
=============================================================================
