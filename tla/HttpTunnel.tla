------------------------------ MODULE HttpTunnel ------------------------------
(***************************************************************************)
(* Two RTSP sessions that are the halves of an HTTP tunnel, a GET and a    *)
(* POST with the same cookie, find each other in sHTTPProxyTunnelMap and   *)
(* become one: the GET session takes the POST's socket and input, and the  *)
(* POST session dies.  The client may replace a POST that went away.       *)
(*                                                                         *)
(* The sessions run on different threads.  pc is where the Run of a        *)
(* session stands; "waiting" and "reading" are those where it has          *)
(* returned.  The map is a CF RefTable with one cookie: UnRegister waits   *)
(* for the references to be given back.                                    *)
(***************************************************************************)
EXTENDS Naturals

CONSTANTS Halves,   \* sessions of the client
          Nobody

ASSUME TunnelAssumption == Nobody \notin Halves

VARIABLES
    pc,        \* first, register, bind, waiting, reading, have, serving, bound, dying, gone
    method,    \* fHTTPMethod, and with it fSessionType
    entry,     \* the session registered for the cookie
    refs,      \* reference count of each session's fProxyRef
    other,     \* the session whose reference this one has
    input,     \* the session whose connection fInputSocketP reads
    reader,    \* the session that has fReadMutex
    whole      \* fInputStream.GetRequestBuffer() is there

tunnelVars == <<pc, method, entry, refs, other, input, reader, whole>>

TunnelTypeOK ==
    /\ pc \in [Halves -> {"first", "register", "bind", "waiting", "reading", "have",
                          "serving", "bound", "dying", "gone"}]
    /\ method \in [Halves -> {"none", "get", "post"}]
    /\ entry \in Halves \cup {Nobody} /\ refs \in [Halves -> Nat]
    /\ {other, input, reader} \subseteq [Halves -> Halves \cup {Nobody}]
    /\ whole \in [Halves -> BOOLEAN]

TunnelInit ==
    /\ pc = [s \in Halves |-> "first"] /\ method = [s \in Halves |-> "none"]
    /\ entry = Nobody /\ refs = [s \in Halves |-> 0] /\ other = [s \in Halves |-> Nobody]
    /\ input = [s \in Halves |-> s] /\ reader = [s \in Halves |-> Nobody]
    /\ whole = [s \in Halves |-> FALSE]

Goto(s, p) == pc' = [pc EXCEPT ![s] = p]

\* ParseProxyTunnelHTTP, and the start of PreFilterForHTTPProxyTunnel.
PreFilter(s, m) ==
    /\ pc[s] = "first"
    /\ method' = [method EXCEPT ![s] = m] /\ whole' = [whole EXCEPT ![s] = TRUE]
    /\ Goto(s, "register")
    /\ UNCHANGED <<entry, refs, other, input, reader>>

\* No other session has the reference, and it is the other half.
CanJoin(s) == refs[entry] = 0 /\ method[entry] # method[s]

\* The reference is taken and not counted.
ResolvedUncounted(s) == refs

Resolved(s) == [refs EXCEPT ![entry] = @ + 1]

\* RegisterRTSPSessionIntoHTTPProxyTunnelMap, under the mutex of the map; a refusal makes
\* Run return -1.
RegisterRTSPSession(s) ==
    /\ pc[s] = "register"
    /\ \/ /\ entry = Nobody
          /\ entry' = s /\ Goto(s, "waiting") /\ UNCHANGED <<refs, other>>
       \/ /\ entry # Nobody /\ ~CanJoin(s)
          /\ Goto(s, "dying") /\ UNCHANGED <<entry, refs, other>>
       \/ /\ entry # Nobody /\ CanJoin(s)
          /\ other' = [other EXCEPT ![s] = entry]
          /\ refs' = Resolved(s)
          /\ Goto(s, "bind") /\ UNCHANGED entry
    /\ UNCHANGED <<method, input, reader, whole>>

\* The place in the map stays with the donor.
SwapForgotten(s) == entry

\* Swap: the GET session takes the place of the cookie in the map.
Swapped(s) == IF method[s] = "get" THEN s ELSE entry

\* The end of PreFilterForHTTPProxyTunnel: if the other session's fReadMutex is free, the
\* socket and the input behind the POST's header go to the GET session.
Bind(s) ==
    LET o     == other[s]
        get   == IF method[s] = "get" THEN s ELSE o
        donor == IF method[s] = "get" THEN o ELSE s
    IN
    /\ pc[s] = "bind"
    /\ IF reader[o] # Nobody
       THEN Goto(s, "dying") /\ UNCHANGED <<entry, input, whole>>
       ELSE /\ input' = [input EXCEPT ![get] = input[donor], ![donor] = Nobody]
            /\ whole' = [whole EXCEPT ![get] = FALSE]
            /\ entry' = Swapped(s)
            /\ pc' = [pc EXCEPT ![get] = IF get = s \/ @ = "waiting" THEN "reading" ELSE @,
                                ![donor] = IF donor = s \/ @ = "waiting" THEN "bound" ELSE @]
    /\ refs' = [refs EXCEPT ![o] = @ - 1] /\ other' = [other EXCEPT ![s] = Nobody]
    /\ UNCHANGED <<method, reader>>

\* A request is read under fReadMutex, which is given back before the next state takes it again.
ReadARequest(s) ==
    /\ pc[s] = "reading" /\ reader[s] = Nobody /\ input[s] # Nobody
    /\ whole' = [whole EXCEPT ![s] = TRUE]
    /\ Goto(s, "have")
    /\ UNCHANGED <<method, entry, refs, other, input, reader>>
LockDown(s) ==
    /\ pc[s] = "have" /\ reader[s] = Nobody
    /\ reader' = [reader EXCEPT ![s] = s]
    /\ Goto(s, "serving")
    /\ UNCHANGED <<method, entry, refs, other, input, whole>>
CleanupRequest(s) ==
    /\ pc[s] = "serving"
    /\ reader' = [reader EXCEPT ![s] = Nobody]
    /\ Goto(s, "reading")
    /\ UNCHANGED <<method, entry, refs, other, input, whole>>
\* The POST connection is closed by the client (kReadingRequest).
InputLost(s) ==
    /\ pc[s] = "reading" /\ input[s] \notin {s, Nobody}
    /\ input' = [input EXCEPT ![s] = Nobody]
    /\ UNCHANGED <<pc, method, entry, refs, other, reader, whole>>

\* Run ends: the session was bound into a tunnel, or it was killed or its output closed.
EndRun(s) ==
    /\ pc[s] \in {"bound", "waiting", "reading", "serving"}
    /\ reader' = [reader EXCEPT ![s] = Nobody]
    /\ Goto(s, "dying")
    /\ UNCHANGED <<method, entry, refs, other, input, whole>>

\* UnRegister does not wait.
FreedAtOnce(s) == TRUE

Unused(s) == refs[s] = 0

\* ~RTSPSession.
Destroy(s) ==
    /\ pc[s] = "dying" /\ Unused(s)
    /\ entry' = IF entry = s THEN Nobody ELSE entry
    /\ input' = [input EXCEPT ![s] = Nobody]
    /\ Goto(s, "gone")
    /\ UNCHANGED <<method, refs, other, reader, whole>>

TunnelNext ==
    \E s \in Halves :
        \/ PreFilter(s, "get") \/ PreFilter(s, "post")
        \/ RegisterRTSPSession(s) \/ Bind(s)
        \/ ReadARequest(s) \/ LockDown(s) \/ CleanupRequest(s) \/ InputLost(s)
        \/ EndRun(s) \/ Destroy(s)

TunnelSpec == TunnelInit /\ [][TunnelNext]_tunnelVars

-----------------------------------------------------------------------------

\* "we assume the donor's place in the map" (PreFilterForHTTPProxyTunnel): a tunnel that
\* serves requests is registered, so that the client's next POST finds it, whichever half
\* came first and whenever the donor is destroyed.
TunnelFindable == \A s \in Halves : pc[s] \in {"reading", "have", "serving"} => entry = s

\* A session whose reference another one has, and is about to rob of its socket, is not
\* destroyed.
DonorKept == \A s \in Halves : pc[s] = "bind" => pc[other[s]] # "gone"

\* A connection is the input of at most one session.
OneReader ==
    \A s, t \in Halves : s # t /\ input[s] = input[t] => input[s] = Nobody

\* "We also make sure that a POST session can't snarf in while we're processing the
\* request" (kHaveNonTunnelMessage): a request being served is in its buffer.
ServesItsRequest == \A s \in Halves : pc[s] = "serving" => whole[s]
=============================================================================
