-------------------------- MODULE BroadcastDirectory --------------------------
(***************************************************************************)
(* What the registry of broadcasts promises.  At most one broadcast is on  *)
(* the air under a path.  Clients join the one that is, a broadcast goes   *)
(* off the air only when nobody uses it, nobody joins it afterwards, and   *)
(* its object is deleted after that.  ReflectorRegistry is the code that   *)
(* keeps this promise; it knows of reference counts and attributes.        *)
(***************************************************************************)
CONSTANTS Clients, Sessions, Paths, None

VARIABLES
    stage,   \* "unborn", "live" (on the air), "killed" (off it for ever), "freed"
    users,   \* the clients that broadcast or watch it
    air      \* the broadcast on the air under each path

directoryVars == <<stage, users, air>>

DirectoryInit ==
    /\ stage = [r \in Sessions |-> "unborn"]
    /\ users = [r \in Sessions |-> {}]
    /\ air = [p \in Paths |-> None]

Start(r, p, c) ==
    /\ stage[r] = "unborn" /\ air[p] = None
    /\ stage' = [stage EXCEPT ![r] = "live"]
    /\ users' = [users EXCEPT ![r] = {c}]
    /\ air' = [air EXCEPT ![p] = r]

\* The request that starts a broadcast may be refused in the end.
Abandon(r) ==
    /\ stage[r] = "unborn"
    /\ stage' = [stage EXCEPT ![r] = "killed"]
    /\ UNCHANGED <<users, air>>

Join(c, r) ==
    /\ \E p \in Paths : air[p] = r
    /\ users' = [users EXCEPT ![r] = @ \cup {c}]
    /\ UNCHANGED <<stage, air>>

TakeOff(r) ==
    /\ stage[r] = "live"
    /\ stage' = [stage EXCEPT ![r] = "killed"]
    /\ air' = [p \in Paths |-> IF air[p] = r THEN None ELSE air[p]]

\* The last one to leave takes it off the air.
Leave(c, r) ==
    /\ c \in users[r]
    /\ users' = [users EXCEPT ![r] = @ \ {c}]
    /\ \/ users[r] = {c} /\ TakeOff(r)
       \/ UNCHANGED <<stage, air>>

Finish(r) ==
    /\ users[r] = {}
    /\ TakeOff(r)
    /\ UNCHANGED users

Delete(r) ==
    /\ stage[r] = "killed"
    /\ stage' = [stage EXCEPT ![r] = "freed"]
    /\ UNCHANGED <<users, air>>

DirectoryNext == \E r \in Sessions :
    \/ \E p \in Paths, c \in Clients : Start(r, p, c)
    \/ Abandon(r) \/ Finish(r) \/ Delete(r)
    \/ \E c \in Clients : Join(c, r) \/ Leave(c, r)

DirectorySpec == DirectoryInit /\ [][DirectoryNext]_directoryVars
=============================================================================
