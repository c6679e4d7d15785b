-------------------------- MODULE ReflectorRegistry --------------------------
(***************************************************************************)
(* The map of broadcasts of QTSSReflectorModule: which client sessions     *)
(* broadcast or watch which ReflectorSession, and when one is deleted.     *)
(*                                                                         *)
(* ProcessRTSPRequest, DestroySession and KillCommandPathInList run from   *)
(* begin to end under the mutex of the map, so each handler is one step.   *)
(* Two things happen outside of it: a session that got its kill event is   *)
(* deleted by its own task (Run), and the wait of UnRegister for the last  *)
(* reference, a condition variable, gives the mutex up.                    *)
(*                                                                         *)
(* A client here is a client session (RTPSession) with the attributes the  *)
(* module keeps in it.  A pointer to a deleted object or a null pointer    *)
(* that is followed takes the server down.                                 *)
(***************************************************************************)
EXTENDS Integers, FiniteSets

CONSTANTS
    Clients,    \* client sessions
    Sessions,   \* ReflectorSession objects
    Paths,      \* stream names
    Tracks,     \* track IDs of the SDP
    BadTrack,   \* a track ID that is not in the SDP
    None,       \* no session; an attribute that was never set
    Null,       \* an attribute that was set to a null pointer
    KillOnStop, \* sTearDownClientsOnDisconnect
    Env         \* what clients do beyond a single clean broadcast: see Behaviours

\* rival: a second client broadcasts under a path that is being broadcast
\* refused: a broadcaster sets up a track that does not exist, or one twice
\* redescribe: a client that watches sends DESCRIBE again
\* both: one client session watches and broadcasts
Behaviours == {"rival", "refused", "redescribe", "both"}

ASSUME RegistryAssumption ==
    /\ IsFiniteSet(Clients)
    /\ None \notin Sessions /\ Null \notin Sessions /\ None # Null
    /\ None \notin Clients
    /\ BadTrack \notin Tracks
    /\ KillOnStop \in BOOLEAN
    /\ Env \subseteq Behaviours

VARIABLES
    sdp,       \* FileCache has an SDP for the path
    map,       \* sSessionMap
    obj,       \* "unborn", "live", "killed" (kill event signalled), "freed"
    path,      \* fSourceID of each session
    refs,      \* reference count of its Ref
    outs,      \* the clients whose RTPSessionOutput it has
    setup,     \* tracks with fSetupToReceive
    caster,    \* fBroadcasterSession
    sock,      \* fBroadcasterClientSession of its sockets
    life,      \* client session: "live", "torn" (Teardown was called), "closed"
    pushing,   \* sClientBroadcastSessionAttr
    viewing,   \* sOutputAttr, by the session of the output
    streams,   \* tracks the client has set up to broadcast
    data,      \* sRTSPBroadcastSessionAttr of its RTSP session
    waiting,   \* the session whose last reference its request waits for
    down       \* the server followed an invalid pointer

index    == <<sdp, map, obj, path>>
sessions == <<refs, outs, setup, caster, sock>>
clients  == <<life, pushing, viewing, streams, data, waiting>>
vars     == <<index, sessions, clients, down>>

Init ==
    /\ sdp = [p \in Paths |-> FALSE]
    /\ map = [p \in Paths |-> None]
    /\ obj = [r \in Sessions |-> "unborn"]
    /\ path = [r \in Sessions |-> None]
    /\ refs = [r \in Sessions |-> 0]
    /\ outs = [r \in Sessions |-> {}]
    /\ setup = [r \in Sessions |-> {}]
    /\ caster = [r \in Sessions |-> None]
    /\ sock = [r \in Sessions |-> None]
    /\ life = [c \in Clients |-> "live"]
    /\ pushing = [c \in Clients |-> None]
    /\ viewing = [c \in Clients |-> None]
    /\ streams = [c \in Clients |-> {}]
    /\ data = [c \in Clients |-> None]
    /\ waiting = [c \in Clients |-> None]
    /\ down = FALSE

-----------------------------------------------------------------------------
(* Parts of the handlers.                                                  *)

Pushers(r) == {c \in Clients : pushing[c] = r}
Users(r)   == outs[r] \cup Pushers(r)

Closed(c) == c \in Clients /\ life[c] = "closed"

\* A request of the client reaches the module.
Request(c) == ~down /\ life[c] # "closed" /\ waiting[c] = None

\* FindOrCreateSession finds the session under the path and its SDP.
Found(p) == map[p] # None /\ sdp[p]

Crash == down' = TRUE /\ UNCHANGED <<index, sessions, clients>>

\* UnRegister with no reference left, the SDP forgotten, the kill event sent.
End(r) ==
    /\ map' = [map EXCEPT ![path[r]] = IF @ = r THEN None ELSE @]
    /\ sdp' = [sdp EXCEPT ![path[r]] = FALSE]
    /\ obj' = [obj EXCEPT ![r] = "killed"]

\* Variant: a reference less, and nobody looks whether it was the last.
GiveUpOnly(r) ==
    /\ refs' = [refs EXCEPT ![r] = IF @ > 0 THEN @ - 1 ELSE 0]
    /\ UNCHANGED <<map, sdp, obj>>

\* Variant: the session ends with one reference left.
GiveUpEarly(r) ==
    /\ refs' = [refs EXCEPT ![r] = IF @ > 0 THEN @ - 1 ELSE 0]
    /\ IF refs[r] <= 2 THEN End(r) ELSE UNCHANGED <<map, sdp, obj>>

\* The end of RemoveOutput: a reference less, and the last one ends the session.
GiveUp(r) ==
    /\ refs' = [refs EXCEPT ![r] = IF @ > 0 THEN @ - 1 ELSE 0]
    /\ IF refs[r] <= 1 THEN End(r) ELSE UNCHANGED <<map, sdp, obj>>

\* TearDownAllOutputs, and QTSS_Teardown of the broadcaster.
TornDown(S) == [c \in Clients |-> IF c \in S /\ life[c] = "live" THEN "torn" ELSE life[c]]

-----------------------------------------------------------------------------
(* ANNOUNCE, DESCRIBE, and SETUP and TEARDOWN of a client that watches.     *)

\* DoAnnounce is stateless but for the SDP.
Announce(c, p) ==
    /\ Request(c)
    /\ sdp' = [sdp EXCEPT ![p] = TRUE]
    /\ UNCHANGED <<map, obj, path, sessions, clients, down>>

\* DoDescribe takes away the output the client may have.  Its own reference
\* on the session it describes is taken before and given back after that.
Describe(c, p) ==
    /\ Request(c) /\ Found(p) /\ viewing[c] # None /\ "redescribe" \in Env
    /\ IF viewing[c] = Null
       THEN Crash
       ELSE LET r == viewing[c]
            IN /\ outs' = [outs EXCEPT ![r] = @ \ {c}]
               /\ viewing' = [viewing EXCEPT ![c] = Null]
               /\ IF r = map[p]
                  THEN refs' = [refs EXCEPT ![r] = @ - 1] /\ UNCHANGED <<map, sdp, obj>>
                  ELSE GiveUp(r)
               /\ UNCHANGED <<path, setup, caster, sock, life, pushing, streams, data, waiting, down>>

\* Variant: the output is added without a reference.
SetupPlayUncounted(c, p) ==
    /\ Request(c) /\ (pushing[c] = None \/ "both" \in Env)
    /\ viewing[c] = None /\ Found(p)
    /\ viewing' = [viewing EXCEPT ![c] = map[p]]
    /\ outs' = [outs EXCEPT ![map[p]] = @ \cup {c}]
    /\ UNCHANGED <<index, refs, setup, caster, sock, life, pushing, streams, data, waiting, down>>

\* The first SETUP makes the output, the next ones use it again.
SetupPlay(c, p) ==
    /\ Request(c) /\ (pushing[c] = None \/ "both" \in Env)
    /\ \/ /\ viewing[c] = None /\ Found(p)
          /\ refs' = [refs EXCEPT ![map[p]] = @ + 1]
          /\ outs' = [outs EXCEPT ![map[p]] = @ \cup {c}]
          /\ viewing' = [viewing EXCEPT ![c] = map[p]]
          /\ UNCHANGED <<index, setup, caster, sock, life, pushing, streams, data, waiting, down>>
       \/ viewing[c] = Null /\ Crash

Teardown(c) ==
    /\ Request(c) /\ viewing[c] # None
    /\ life' = [life EXCEPT ![c] = "torn"]
    /\ UNCHANGED <<index, sessions, pushing, viewing, streams, data, waiting, down>>

-----------------------------------------------------------------------------
(* SETUP and PLAY of a client that broadcasts.                             *)

MayRecord(c) == Request(c) /\ (viewing[c] = None \/ "both" \in Env)

\* Another SETUP for the same track is a duplicate, whoever sends it.
Refused(r, t) == t = BadTrack \/ t \in setup[r]

\* The path has no session: a new one, with a reference for its broadcaster.
\* If the track is bad, it is deleted at once.
RecordNew(c, p, t) ==
    /\ MayRecord(c) /\ pushing[c] = None /\ map[p] = None /\ sdp[p]
    /\ t = BadTrack => "refused" \in Env
    /\ \E r \in Sessions :
         /\ obj[r] = "unborn"
         /\ path' = [path EXCEPT ![r] = p]
         /\ caster' = [caster EXCEPT ![r] = c]
         /\ sock' = [sock EXCEPT ![r] = c]
         /\ IF t = BadTrack
            THEN /\ obj' = [obj EXCEPT ![r] = "killed"]
                 /\ sdp' = [sdp EXCEPT ![p] = FALSE]
                 /\ pushing' = [pushing EXCEPT ![c] = Null]
                 /\ UNCHANGED <<map, refs, setup, streams>>
            ELSE /\ obj' = [obj EXCEPT ![r] = "live"]
                 /\ map' = [map EXCEPT ![p] = r]
                 /\ refs' = [refs EXCEPT ![r] = 1]
                 /\ setup' = [setup EXCEPT ![r] = {t}]
                 /\ pushing' = [pushing EXCEPT ![c] = r]
                 /\ streams' = [streams EXCEPT ![c] = {t}]
                 /\ UNCHANGED sdp
    /\ UNCHANGED <<outs, life, viewing, data, waiting, down>>

\* The sockets of a new session cannot be bound: it never gets into the map.
BindFails(c, p) ==
    /\ MayRecord(c) /\ pushing[c] = None /\ map[p] = None /\ sdp[p]
    /\ \E r \in Sessions :
         /\ obj[r] = "unborn"
         /\ obj' = [obj EXCEPT ![r] = "killed"]
         /\ path' = [path EXCEPT ![r] = p]
    /\ sdp' = [sdp EXCEPT ![p] = FALSE]
    /\ UNCHANGED <<map, sessions, clients, down>>

\* Variant: the new broadcaster is not told to the sockets.
RecordFoundSilent(c, p, t) ==
    /\ MayRecord(c) /\ pushing[c] = None /\ Found(p)
    /\ LET r == map[p]
       IN /\ ~Refused(r, t)
          /\ Pushers(r) # {} => "rival" \in Env
          /\ refs' = [refs EXCEPT ![r] = @ + 1]
          /\ setup' = [setup EXCEPT ![r] = @ \cup {t}]
          /\ pushing' = [pushing EXCEPT ![c] = r]
          /\ streams' = [streams EXCEPT ![c] = {t}]
    /\ UNCHANGED <<index, outs, caster, sock, life, viewing, data, waiting, down>>

\* The path has a session: the client becomes its broadcaster before its
\* track is looked at.  A refusal gives the reference back, and no more.
RecordFound(c, p, t) ==
    /\ MayRecord(c) /\ pushing[c] = None /\ Found(p)
    /\ LET r == map[p]
       IN /\ Pushers(r) # {} => "rival" \in Env
          /\ t = BadTrack => "refused" \in Env
          /\ caster' = [caster EXCEPT ![r] = c]
          /\ sock' = [sock EXCEPT ![r] = c]
          /\ IF Refused(r, t)
             THEN /\ pushing' = [pushing EXCEPT ![c] = Null]
                  /\ UNCHANGED <<refs, setup, streams>>
             ELSE /\ refs' = [refs EXCEPT ![r] = @ + 1]
                  /\ setup' = [setup EXCEPT ![r] = @ \cup {t}]
                  /\ pushing' = [pushing EXCEPT ![c] = r]
                  /\ streams' = [streams EXCEPT ![c] = {t}]
    /\ UNCHANGED <<index, outs, life, viewing, data, waiting, down>>

\* A SETUP of one more track.  foundSession is false here although the session
\* was there before: a refusal tears the clients down, and waits until
\* nobody uses the session any more if somebody does.
RecordNext(c, t) ==
    /\ MayRecord(c) /\ pushing[c] \in Sessions
    /\ LET r == pushing[c]
       IN IF Refused(r, t)
          THEN /\ "refused" \in Env \/ ("rival" \in Env /\ t \notin streams[c] \cup {BadTrack})
               /\ IF \E d \in outs[r] : Closed(d)
                  THEN Crash
                  ELSE /\ refs' = [refs EXCEPT ![r] = @ - 1]
                       /\ pushing' = [pushing EXCEPT ![c] = Null]
                       /\ life' = TornDown(outs[r])
                       /\ IF refs[r] = 1
                          THEN End(r) /\ UNCHANGED waiting
                          ELSE waiting' = [waiting EXCEPT ![c] = r] /\ UNCHANGED <<map, sdp, obj>>
                       /\ UNCHANGED <<path, outs, setup, caster, sock, viewing, streams, data, down>>
          ELSE /\ setup' = [setup EXCEPT ![r] = @ \cup {t}]
               /\ streams' = [streams EXCEPT ![c] = @ \cup {t}]
               /\ UNCHANGED <<index, refs, outs, caster, sock, life, pushing, viewing, data, waiting, down>>

\* The wait of UnRegister is over.  What follows uses the session.
Wake(c) ==
    /\ ~down /\ waiting[c] # None /\ refs[waiting[c]] = 0
    /\ IF obj[waiting[c]] = "freed"
       THEN Crash
       ELSE /\ End(waiting[c])
            /\ waiting' = [waiting EXCEPT ![c] = None]
            /\ UNCHANGED <<path, sessions, life, pushing, viewing, streams, data, down>>

\* A SETUP after a refused one: the attribute is there, and null.
RecordNull(c) == MayRecord(c) /\ pushing[c] = Null /\ Crash

\* DoPlay of a broadcaster: its RTSP session will pass the data on.
Record(c) ==
    /\ Request(c) /\ viewing[c] = None /\ pushing[c] # None
    /\ data' = [data EXCEPT ![c] = pushing[c]]
    /\ UNCHANGED <<index, sessions, life, pushing, viewing, streams, waiting, down>>

-----------------------------------------------------------------------------
(* The end of client sessions and of broadcasts.                            *)

\* Variant: the sockets keep the broadcaster that has gone.
LeaveSocketsAlone(c, r) == caster' = [caster EXCEPT ![r] = None] /\ UNCHANGED sock

RemoveSessionFromOutput(c, r) ==
    /\ caster' = [caster EXCEPT ![r] = None]
    /\ sock' = [sock EXCEPT ![r] = IF @ = c THEN None ELSE @]

\* DestroySession of a broadcaster.  The clients that watch stay, unless the
\* preference says otherwise.
CloseBroadcaster(c) ==
    /\ pushing[c] \in Sessions
    /\ LET r == pushing[c]
       IN IF KillOnStop /\ \E d \in outs[r] : Closed(d)
          THEN Crash
          ELSE /\ pushing' = [pushing EXCEPT ![c] = Null]
               /\ setup' = [setup EXCEPT ![r] = {}]
               /\ RemoveSessionFromOutput(c, r)
               /\ life' = [TornDown(IF KillOnStop THEN outs[r] ELSE {}) EXCEPT ![c] = "closed"]
               /\ GiveUp(r)
               /\ UNCHANGED <<path, outs, viewing, streams, data, waiting, down>>

\* DestroySession of any other client, with an output or without.
CloseViewer(c) ==
    /\ pushing[c] \notin Sessions
    /\ life' = [life EXCEPT ![c] = "closed"]
    /\ IF viewing[c] \in Sessions
       THEN /\ outs' = [outs EXCEPT ![viewing[c]] = @ \ {c}]
            /\ viewing' = [viewing EXCEPT ![c] = Null]
            /\ GiveUp(viewing[c])
            /\ UNCHANGED <<path, setup, caster, sock, pushing, streams, data, waiting, down>>
       ELSE UNCHANGED <<index, sessions, pushing, viewing, streams, data, waiting, down>>

\* The client session ends: it was torn down, its client went, or it timed out.
Close(c) == Request(c) /\ (CloseBroadcaster(c) \/ CloseViewer(c))

\* KillSession, for a kill command in the file system.
Kill(p) ==
    /\ ~down /\ map[p] # None
    /\ LET r == map[p]
       IN IF Closed(caster[r]) \/ \E d \in outs[r] : Closed(d)
          THEN Crash
          ELSE /\ life' = TornDown(outs[r] \cup {caster[r]})
               /\ IF refs[r] = 0 THEN End(r) ELSE UNCHANGED <<map, sdp, obj>>
               /\ UNCHANGED <<path, sessions, pushing, viewing, streams, data, waiting, down>>

\* ReflectorSession::Run after its kill event.
Run(r) ==
    /\ ~down /\ obj[r] = "killed"
    /\ obj' = [obj EXCEPT ![r] = "freed"]
    /\ UNCHANGED <<sdp, map, path, sessions, clients, down>>

\* The sockets of a session refresh the timeout of its broadcaster, and a
\* packet on the RTSP connection is passed on to a session.
UseFreed ==
    /\ ~down
    /\ \/ \E r \in Sessions : obj[r] \in {"live", "killed"} /\ Closed(sock[r])
       \/ \E c \in Clients : life[c] # "closed" /\ data[c] \in Sessions /\ obj[data[c]] = "freed"
    /\ Crash

Next ==
    \/ \E c \in Clients :
         \/ Teardown(c) \/ Close(c) \/ Record(c) \/ RecordNull(c) \/ Wake(c)
         \/ \E p \in Paths : Announce(c, p) \/ Describe(c, p) \/ SetupPlay(c, p) \/ BindFails(c, p)
         \/ \E t \in Tracks \cup {BadTrack} :
              \/ RecordNext(c, t)
              \/ \E p \in Paths : RecordNew(c, p, t) \/ RecordFound(c, p, t)
    \/ \E p \in Paths : Kill(p)
    \/ \E r \in Sessions : Run(r)
    \/ UseFreed

Spec == Init /\ [][Next]_vars

(***************************************************************************)
(* The task of a session runs after its kill event; a client session that  *)
(* was torn down is closed by its task.  Nothing makes a client leave.     *)
(***************************************************************************)
Fairness ==
    /\ \A r \in Sessions : WF_vars(Run(r))
    /\ \A c \in Clients : WF_vars(life[c] = "torn" /\ Close(c))

FairSpec == Spec /\ Fairness

-----------------------------------------------------------------------------
\* Every variable has its type.
TypeOK ==
    /\ sdp \in [Paths -> BOOLEAN]
    /\ map \in [Paths -> Sessions \cup {None}]
    /\ obj \in [Sessions -> {"unborn", "live", "killed", "freed"}]
    /\ path \in [Sessions -> Paths \cup {None}]
    /\ refs \in [Sessions -> Nat]
    /\ outs \in [Sessions -> SUBSET Clients]
    /\ setup \in [Sessions -> SUBSET Tracks]
    /\ caster \in [Sessions -> Clients \cup {None}]
    /\ sock \in [Sessions -> Clients \cup {None}]
    /\ life \in [Clients -> {"live", "torn", "closed"}]
    /\ pushing \in [Clients -> Sessions \cup {None, Null}]
    /\ viewing \in [Clients -> Sessions \cup {None, Null}]
    /\ streams \in [Clients -> SUBSET Tracks]
    /\ data \in [Clients -> Sessions \cup {None, Null}]
    /\ waiting \in [Clients -> Sessions \cup {None}]
    /\ down \in BOOLEAN

\* The reference count of a session is the number of its outputs and of the
\* clients that broadcast it.
RefsExact ==
    \A r \in Sessions : refs[r] = Cardinality(outs[r]) + Cardinality(Pushers(r))

\* ~ReflectorStream: Assert(fNumElements == 0).  A session that is being
\* deleted has no output left, no client broadcasts it, nobody can find it.
DeletedUnused ==
    \A r \in Sessions : obj[r] \in {"killed", "freed"} =>
        Users(r) = {} /\ \A p \in Paths : map[p] # r

\* A broadcast that nobody uses is not in the map.
NoAbandonedBroadcast == \A p \in Paths : map[p] # None => Users(map[p]) # {}

\* The client whose timeout the packets refresh, and whom a kill command
\* tears down, is the one that broadcasts.
BroadcasterKnown ==
    \A r \in Sessions, c \in Clients : obj[r] = "live" =>
        /\ pushing[c] = r <=> sock[r] = c
        /\ pushing[c] = r <=> caster[r] = c

\* No null or dangling pointer is followed: no broadcaster that has gone, no
\* session that was deleted.
ServerUp == ~down

\* A broadcast all of whose users were torn down is deleted, unless another
\* client joins it.
AllTorn(r) == obj[r] = "live" /\ \A c \in Users(r) : life[c] # "live"

StoppedBroadcastEnds ==
    \A r \in Sessions : AllTorn(r) ~> (obj[r] = "freed" \/ \E c \in Users(r) : life[c] = "live")

-----------------------------------------------------------------------------
(* The promise to the clients.                                             *)

Served == [r \in Sessions |-> Users(r)]

Directory == INSTANCE BroadcastDirectory WITH stage <- obj, users <- Served, air <- map

\* Users only join what is on the air, and only what nobody uses is deleted.
DirectoryKept == Directory!DirectorySpec

-----------------------------------------------------------------------------
(* What a comment of the source says and the code does not keep.            *)

\* "check duplicate broadcasts": with allow_duplicate_broadcasts off, a track
\* of a broadcast has one broadcaster.
OneBroadcasterPerTrack ==
    \A c, d \in Clients :
        c # d /\ pushing[c] \in Sessions /\ pushing[c] = pushing[d] => streams[c] \cap streams[d] = {}

\* DoPlay: Assert(inSession != nullptr).  A client that plays what it set up
\* to broadcast has a session.
BroadcastPlayed == \A c \in Clients : data[c] # Null
=============================================================================
