---------------------- MODULE ReflectorRegistry_proofs ----------------------
(***************************************************************************)
(* Theorems about ReflectorRegistry, for any finite set of clients, any    *)
(* sessions, paths and tracks, and whatever the clients do (Env); the last *)
(* three assume that the clients leave out what breaks the property.       *)
(***************************************************************************)
EXTENDS ReflectorRegistry, FiniteSetTheorems, TLAPS

\* What is in the map is alive, and under its own path.
MapInv == \A p \in Paths : map[p] # None => obj[map[p]] = "live" /\ path[map[p]] = p

\* A session has the outputs of the clients whose attribute says so.
OutsInv == \A r \in Sessions, c \in Clients : c \in outs[r] <=> viewing[c] = r

\* Nobody uses a session that is not yet made.
UnbornInv == \A r \in Sessions : obj[r] = "unborn" => Users(r) = {}

RegistryInv == TypeOK /\ MapInv /\ OutsInv /\ UnbornInv /\ RefsExact /\ DeletedUnused

USE RegistryAssumption DEF Behaviours

-----------------------------------------------------------------------------
(* Counting the users of a session.                                        *)

LEMMA UsersFinite ==
    ASSUME TypeOK, NEW r \in Sessions
    PROVE  /\ IsFiniteSet(outs[r]) /\ Cardinality(outs[r]) \in Nat
           /\ IsFiniteSet(Pushers(r)) /\ Cardinality(Pushers(r)) \in Nat
<1>1. outs[r] \in SUBSET Clients /\ Pushers(r) \in SUBSET Clients
  BY DEF TypeOK, Pushers
<1>2. IsFiniteSet(outs[r]) /\ IsFiniteSet(Pushers(r))
  BY <1>1, FS_Subset
<1> QED
  BY <1>2, FS_CardinalityType

\* A count of zero says that there is no user.
LEMMA NoUser ==
    ASSUME TypeOK, RefsExact, NEW r \in Sessions, refs[r] = 0
    PROVE  outs[r] = {} /\ Pushers(r) = {}
<1>1. Cardinality(outs[r]) = 0 /\ Cardinality(Pushers(r)) = 0
  BY UsersFinite DEF RefsExact
<1> QED
  BY <1>1, UsersFinite, FS_EmptySet

\* An output less, or a broadcaster less, is one less.
LEMMA OutputLess ==
    ASSUME TypeOK, RefsExact, NEW r \in Sessions, NEW c \in outs[r]
    PROVE  /\ refs[r] >= 1
           /\ refs[r] - 1 = Cardinality(outs[r] \ {c}) + Cardinality(Pushers(r))
           /\ refs[r] <= 1 => outs[r] = {c} /\ Pushers(r) = {}
<1>1. /\ IsFiniteSet(outs[r] \ {c})
      /\ Cardinality(outs[r] \ {c}) = Cardinality(outs[r]) - 1
  BY UsersFinite, FS_RemoveElement
<1>2. Cardinality(outs[r] \ {c}) \in Nat
  BY <1>1, FS_CardinalityType
<1>3. refs[r] >= 1 /\ refs[r] - 1 = Cardinality(outs[r] \ {c}) + Cardinality(Pushers(r))
  BY <1>1, <1>2, UsersFinite DEF RefsExact
<1>4. ASSUME refs[r] <= 1 PROVE outs[r] = {c} /\ Pushers(r) = {}
  <2>1. Cardinality(outs[r] \ {c}) = 0 /\ Cardinality(Pushers(r)) = 0
    BY <1>2, <1>3, <1>4, UsersFinite DEF TypeOK
  <2>2. outs[r] \ {c} = {} /\ Pushers(r) = {}
    BY <2>1, <1>1, UsersFinite, FS_EmptySet
  <2> QED
    BY <2>2
<1> QED
  BY <1>3, <1>4

LEMMA PusherLess ==
    ASSUME TypeOK, RefsExact, NEW r \in Sessions, NEW c \in Pushers(r)
    PROVE  /\ refs[r] >= 1
           /\ refs[r] - 1 = Cardinality(outs[r]) + Cardinality(Pushers(r) \ {c})
           /\ refs[r] <= 1 => outs[r] = {} /\ Pushers(r) = {c}
<1>1. /\ IsFiniteSet(Pushers(r) \ {c})
      /\ Cardinality(Pushers(r) \ {c}) = Cardinality(Pushers(r)) - 1
  BY UsersFinite, FS_RemoveElement
<1>2. Cardinality(Pushers(r) \ {c}) \in Nat
  BY <1>1, FS_CardinalityType
<1>3. refs[r] >= 1 /\ refs[r] - 1 = Cardinality(outs[r]) + Cardinality(Pushers(r) \ {c})
  BY <1>1, <1>2, UsersFinite DEF RefsExact
<1>4. ASSUME refs[r] <= 1 PROVE outs[r] = {} /\ Pushers(r) = {c}
  <2>1. Cardinality(outs[r]) = 0 /\ Cardinality(Pushers(r) \ {c}) = 0
    BY <1>2, <1>3, <1>4, UsersFinite DEF TypeOK
  <2>2. outs[r] = {} /\ Pushers(r) \ {c} = {}
    BY <2>1, <1>1, UsersFinite, FS_EmptySet
  <2> QED
    BY <2>2
<1> QED
  BY <1>3, <1>4

\* One more is one more.
LEMMA UserMore ==
    ASSUME TypeOK, RefsExact, NEW r \in Sessions, NEW c
    PROVE  /\ c \notin outs[r] =>
                refs[r] + 1 = Cardinality(outs[r] \cup {c}) + Cardinality(Pushers(r))
           /\ c \notin Pushers(r) =>
                refs[r] + 1 = Cardinality(outs[r]) + Cardinality(Pushers(r) \cup {c})
<1>1. refs[r] \in Nat /\ refs[r] = Cardinality(outs[r]) + Cardinality(Pushers(r))
  BY DEF TypeOK, RefsExact
<1>2. c \notin outs[r] => Cardinality(outs[r] \cup {c}) = Cardinality(outs[r]) + 1
  BY UsersFinite, FS_AddElement
<1>3. c \notin Pushers(r) => Cardinality(Pushers(r) \cup {c}) = Cardinality(Pushers(r)) + 1
  BY UsersFinite, FS_AddElement
<1> QED
  BY <1>1, <1>2, <1>3, UsersFinite

\* Setting the attribute of one client takes it out of one session's
\* broadcasters and puts it into another's.
LEMMA PushersSet ==
    ASSUME TypeOK, NEW c \in Clients, NEW x, pushing' = [pushing EXCEPT ![c] = x], NEW r \in Sessions
    PROVE  Pushers(r)' = IF x = r THEN Pushers(r) \cup {c} ELSE Pushers(r) \ {c}
BY DEF TypeOK, Pushers

LEMMA PushersKept ==
    ASSUME pushing' = pushing, NEW r
    PROVE  Pushers(r)' = Pushers(r)
BY DEF Pushers

-----------------------------------------------------------------------------
(* The end of a session, and what gives up a reference.                    *)

\* A session that has users is alive.
LEMMA UsedIsLive ==
    ASSUME RegistryInv, NEW r \in Sessions, NEW c \in Users(r)
    PROVE  obj[r] = "live"
BY DEF RegistryInv, TypeOK, UnbornInv, DeletedUnused

\* A session that ends is in the map no more; the others stay where they are.
LEMMA EndEffect ==
    ASSUME TypeOK, MapInv, NEW r \in Sessions, End(r), path' = path
    PROVE  /\ map' \in [Paths -> Sessions \cup {None}]
           /\ sdp' \in [Paths -> BOOLEAN]
           /\ obj' \in [Sessions -> {"unborn", "live", "killed", "freed"}]
           /\ \A p \in Paths : map'[p] = IF map[p] = r THEN None ELSE map[p]
           /\ obj'[r] = "killed" /\ \A q \in Sessions \ {r} : obj'[q] = obj[q]
           /\ MapInv'
<1> USE DEF TypeOK, End
<1>1. /\ map' \in [Paths -> Sessions \cup {None}]
      /\ obj' \in [Sessions -> {"unborn", "live", "killed", "freed"}]
      /\ obj'[r] = "killed" /\ \A q \in Sessions \ {r} : obj'[q] = obj[q]
  OBVIOUS
<1>2. sdp' \in [Paths -> BOOLEAN]
  OBVIOUS
<1>3. ASSUME NEW p \in Paths PROVE map'[p] = IF map[p] = r THEN None ELSE map[p]
  BY DEF MapInv
<1>4. MapInv'
  BY <1>1, <1>3 DEF MapInv
<1> QED
  BY <1>1, <1>2, <1>3, <1>4

\* The last reference ends the session, another one changes the count only.
LEMMA GiveUpEffect ==
    ASSUME TypeOK, MapInv, NEW r \in Sessions, refs[r] >= 1, GiveUp(r), path' = path
    PROVE  /\ map' \in [Paths -> Sessions \cup {None}]
           /\ sdp' \in [Paths -> BOOLEAN]
           /\ obj' \in [Sessions -> {"unborn", "live", "killed", "freed"}]
           /\ refs' = [refs EXCEPT ![r] = @ - 1] /\ refs' \in [Sessions -> Nat]
           /\ MapInv'
           /\ IF refs[r] = 1 THEN End(r) ELSE UNCHANGED <<map, sdp, obj>>
<1>1. refs[r] \in Nat
  BY DEF TypeOK
<1>2. refs' = [refs EXCEPT ![r] = @ - 1] /\ refs' \in [Sessions -> Nat]
  <2>1. refs' = [refs EXCEPT ![r] = IF @ > 0 THEN @ - 1 ELSE 0]
    BY Zenon DEF GiveUp
  <2>2. (IF refs[r] > 0 THEN refs[r] - 1 ELSE 0) = refs[r] - 1 /\ refs[r] - 1 \in Nat
    BY <1>1
  <2>3. refs' = [refs EXCEPT ![r] = @ - 1]
    BY <2>1, <2>2, Zenon
  <2> QED
    BY <2>2, <2>3, Zenon DEF TypeOK
<1>3. IF refs[r] = 1 THEN End(r) ELSE UNCHANGED <<map, sdp, obj>>
  BY <1>1 DEF GiveUp
<1>4. CASE refs[r] = 1
  BY <1>2, <1>3, <1>4, EndEffect
<1>5. CASE refs[r] # 1
  BY <1>2, <1>3, <1>5 DEF TypeOK, MapInv
<1> QED
  BY <1>4, <1>5

-----------------------------------------------------------------------------
(* The invariant.                                                          *)

LEMMA InitInv == Init => RegistryInv
<1> SUFFICES ASSUME Init PROVE RegistryInv
  OBVIOUS
<1>1. TypeOK /\ MapInv /\ OutsInv
  BY DEF Init, TypeOK, MapInv, OutsInv
<1>2. \A r \in Sessions : outs[r] = {} /\ Pushers(r) = {} /\ refs[r] = 0 /\ obj[r] = "unborn"
  BY DEF Init, Pushers
<1>3. RefsExact
  <2> SUFFICES ASSUME NEW r \in Sessions PROVE refs[r] = Cardinality(outs[r]) + Cardinality(Pushers(r))
    BY DEF RefsExact
  <2>1. outs[r] = {} /\ Pushers(r) = {} /\ refs[r] = 0
    BY <1>2
  <2>2. Cardinality(outs[r]) = 0 /\ Cardinality(Pushers(r)) = 0
    BY <2>1, FS_EmptySet, Zenon
  <2> QED
    BY <2>1, <2>2
<1> QED
  BY <1>1, <1>2, <1>3 DEF RegistryInv, UnbornInv, DeletedUnused, Users

\* Nothing of the invariant speaks of these variables but their types.
LEMMA QuietStep ==
    ASSUME RegistryInv, UNCHANGED <<map, obj, path, refs, outs, pushing, viewing>>, TypeOK'
    PROVE  RegistryInv'
BY DEF RegistryInv, MapInv, OutsInv, UnbornInv, RefsExact, DeletedUnused, Users, Pushers

LEMMA CrashStep == RegistryInv /\ Crash => RegistryInv'
<1> SUFFICES ASSUME RegistryInv, Crash PROVE RegistryInv'
  OBVIOUS
<1>1. TypeOK' /\ UNCHANGED <<map, obj, path, refs, outs, pushing, viewing>>
  BY DEF RegistryInv, TypeOK, Crash, index, sessions, clients
<1> QED
  BY <1>1, QuietStep

LEMMA AnnounceStep == ASSUME NEW c \in Clients, NEW p \in Paths, RegistryInv, Announce(c, p) PROVE RegistryInv'
<1>1. TypeOK' /\ UNCHANGED <<map, obj, path, refs, outs, pushing, viewing>>
  BY DEF RegistryInv, TypeOK, Announce, sessions, clients
<1> QED
  BY <1>1, QuietStep

LEMMA TeardownStep == ASSUME NEW c \in Clients, RegistryInv, Teardown(c) PROVE RegistryInv'
<1>1. TypeOK' /\ UNCHANGED <<map, obj, path, refs, outs, pushing, viewing>>
  BY DEF RegistryInv, TypeOK, Teardown, index, sessions
<1> QED
  BY <1>1, QuietStep

LEMMA RecordStep == ASSUME NEW c \in Clients, RegistryInv, Record(c) PROVE RegistryInv'
<1>1. TypeOK' /\ UNCHANGED <<map, obj, path, refs, outs, pushing, viewing>>
  BY DEF RegistryInv, TypeOK, Record, index, sessions
<1> QED
  BY <1>1, QuietStep

LEMMA RunStep == ASSUME NEW r \in Sessions, RegistryInv, Run(r) PROVE RegistryInv'
<1> USE DEF RegistryInv
<1>1. TypeOK'
  BY DEF TypeOK, Run, sessions, clients
<1>2. /\ UNCHANGED <<map, path, refs, outs, pushing, viewing>>
      /\ obj[r] = "killed" /\ obj'[r] = "freed" /\ \A q \in Sessions \ {r} : obj'[q] = obj[q]
  BY DEF TypeOK, Run, sessions, clients
<1>3. \A q : Pushers(q)' = Pushers(q)
  BY <1>2, PushersKept
<1>4. MapInv' /\ OutsInv' /\ RefsExact'
  BY <1>2, <1>3 DEF MapInv, OutsInv, RefsExact, TypeOK
<1>5. UnbornInv' /\ DeletedUnused'
  BY <1>2, <1>3 DEF UnbornInv, DeletedUnused, Users
<1> QED
  BY <1>1, <1>4, <1>5

LEMMA WakeStep == ASSUME NEW c \in Clients, RegistryInv, Wake(c) PROVE RegistryInv'
<1> DEFINE r == waiting[c]
<1>1. CASE Crash
  BY <1>1, CrashStep
<1>2. CASE ~Crash
  <2> USE DEF RegistryInv
  <2>1. /\ r \in Sessions /\ refs[r] = 0 /\ End(r)
        /\ waiting' = [waiting EXCEPT ![c] = None]
        /\ UNCHANGED <<path, refs, outs, setup, caster, sock, life, pushing, viewing, streams, data, down>>
    BY <1>2 DEF Wake, TypeOK, sessions
  <2>2. /\ map' \in [Paths -> Sessions \cup {None}]
        /\ sdp' \in [Paths -> BOOLEAN]
        /\ obj' \in [Sessions -> {"unborn", "live", "killed", "freed"}]
        /\ \A p \in Paths : map'[p] = IF map[p] = r THEN None ELSE map[p]
        /\ obj'[r] = "killed" /\ \A q \in Sessions \ {r} : obj'[q] = obj[q]
        /\ MapInv'
    BY <2>1, EndEffect
  <2>3. TypeOK'
    BY <2>1, <2>2 DEF TypeOK
  <2>4. outs[r] = {} /\ Pushers(r) = {}
    BY <2>1, NoUser
  <2>5. \A q : Pushers(q)' = Pushers(q)
    BY <2>1, PushersKept
  <2>6. OutsInv' /\ RefsExact'
    BY <2>1, <2>5 DEF OutsInv, RefsExact
  <2>7. UnbornInv' /\ DeletedUnused'
    BY <2>1, <2>2, <2>4, <2>5 DEF UnbornInv, DeletedUnused, Users
  <2> QED
    BY <2>2, <2>3, <2>6, <2>7
<1> QED
  BY <1>1, <1>2

\* A client takes its output away and gives up its reference, or stops to
\* broadcast and gives up its reference.
LeaveOutput(c, r) ==
    /\ viewing[c] = r /\ viewing' = [viewing EXCEPT ![c] = Null]
    /\ outs' = [outs EXCEPT ![r] = @ \ {c}]
    /\ pushing' = pushing

LeaveBroadcast(c, r) ==
    /\ pushing[c] = r /\ pushing' = [pushing EXCEPT ![c] = Null]
    /\ UNCHANGED <<outs, viewing>>

LEMMA LeaveUsers ==
    ASSUME RegistryInv, NEW r \in Sessions, NEW c \in Clients,
           refs' = [refs EXCEPT ![r] = @ - 1],
           LeaveOutput(c, r) \/ LeaveBroadcast(c, r)
    PROVE  /\ c \in Users(r) /\ refs[r] >= 1
           /\ refs' \in [Sessions -> Nat]
           /\ outs' \in [Sessions -> SUBSET Clients]
           /\ OutsInv' /\ RefsExact'
           /\ \A q \in Sessions : Users(q)' \subseteq Users(q)
           /\ \A q \in Sessions \ {r} : Users(q)' = Users(q)
           /\ Users(r) \ {c} \subseteq Users(r)'
           /\ refs[r] = 1 => Users(r) = {c} /\ Users(r)' = {}
<1> USE DEF RegistryInv
<1>1. refs \in [Sessions -> Nat] /\ refs[r] \in Nat /\ refs'[r] = refs[r] - 1
      /\ \A q \in Sessions \ {r} : refs'[q] = refs[q]
  BY DEF TypeOK
<1>2. CASE LeaveOutput(c, r)
  <2>1. c \in outs[r] /\ outs' \in [Sessions -> SUBSET Clients]
    BY <1>2 DEF LeaveOutput, OutsInv, TypeOK
  <2>2. \A q \in Sessions : Pushers(q)' = Pushers(q)
    BY <1>2, PushersKept DEF LeaveOutput
  <2>3. outs'[r] = outs[r] \ {c} /\ \A q \in Sessions \ {r} : outs'[q] = outs[q]
    BY <1>2 DEF LeaveOutput, TypeOK
  <2>4. /\ refs[r] >= 1
        /\ refs[r] - 1 = Cardinality(outs[r] \ {c}) + Cardinality(Pushers(r))
        /\ refs[r] <= 1 => outs[r] = {c} /\ Pushers(r) = {}
    BY <2>1, OutputLess
  <2>5. RefsExact'
    BY <1>1, <2>2, <2>3, <2>4 DEF RefsExact
  <2>6. OutsInv'
    BY <1>2, <2>3 DEF LeaveOutput, OutsInv, TypeOK
  <2>7. refs[r] = 1 => outs[r] = {c} /\ Pushers(r) = {}
    BY <2>4
  <2>8. refs' \in [Sessions -> Nat]
    BY <1>1, <2>4
  <2> QED
    BY <2>1, <2>2, <2>3, <2>4, <2>5, <2>6, <2>7, <2>8 DEF Users
<1>3. CASE LeaveBroadcast(c, r)
  <2>1. c \in Pushers(r) /\ outs' = outs
    BY <1>3 DEF LeaveBroadcast, Pushers
  <2>2. Pushers(r)' = Pushers(r) \ {c} /\ \A q \in Sessions \ {r} : Pushers(q)' = Pushers(q)
    <3>1. \A q \in Sessions : Pushers(q)' = Pushers(q) \ {c}
      <4> SUFFICES ASSUME NEW q \in Sessions PROVE Pushers(q)' = Pushers(q) \ {c}
        OBVIOUS
      <4>1. pushing' = [pushing EXCEPT ![c] = Null] /\ Null # q /\ TypeOK
        BY <1>3 DEF LeaveBroadcast
      <4>2. Pushers(q)' = IF Null = q THEN Pushers(q) \cup {c} ELSE Pushers(q) \ {c}
        BY <4>1, PushersSet
      <4> QED
        BY <4>1, <4>2
    <3>2. \A q \in Sessions \ {r} : c \notin Pushers(q)
      BY <1>3 DEF LeaveBroadcast, Pushers
    <3>3. ASSUME NEW q \in Sessions \ {r} PROVE Pushers(q)' = Pushers(q)
      BY <3>1, <3>2
    <3> QED
      BY <3>1, <3>3
  <2>4. /\ refs[r] >= 1
        /\ refs[r] - 1 = Cardinality(outs[r]) + Cardinality(Pushers(r) \ {c})
        /\ refs[r] <= 1 => outs[r] = {} /\ Pushers(r) = {c}
    BY <2>1, PusherLess
  <2>5. RefsExact'
    BY <1>1, <2>1, <2>2, <2>4 DEF RefsExact
  <2>6. OutsInv'
    BY <1>3 DEF LeaveBroadcast, OutsInv
  <2>7. refs[r] = 1 => outs[r] = {} /\ Pushers(r) = {c}
    BY <2>4
  <2>8. refs' \in [Sessions -> Nat]
    BY <1>1, <2>4
  <2>9. outs' \in [Sessions -> SUBSET Clients]
    BY <2>1 DEF TypeOK
  <2> QED
    BY <2>1, <2>2, <2>4, <2>5, <2>6, <2>7, <2>8, <2>9 DEF Users
<1> QED
  BY <1>2, <1>3

\* If it was the last one, the session may end.
LEMMA LeaveStep ==
    ASSUME RegistryInv, TypeOK', NEW r \in Sessions, NEW c \in Clients,
           refs' = [refs EXCEPT ![r] = @ - 1],
           LeaveOutput(c, r) \/ LeaveBroadcast(c, r),
           (refs[r] = 1 /\ End(r)) \/ UNCHANGED <<map, obj>>,
           path' = path
    PROVE  RegistryInv'
<1>1. /\ c \in Users(r) /\ OutsInv' /\ RefsExact'
      /\ \A q \in Sessions : Users(q)' \subseteq Users(q)
      /\ refs[r] = 1 => Users(r)' = {}
  BY LeaveUsers
<1>2. obj[r] = "live"
  BY <1>1, UsedIsLive
<1>3. CASE refs[r] = 1 /\ End(r)
  <2>1. /\ \A p \in Paths : map'[p] = IF map[p] = r THEN None ELSE map[p]
        /\ obj'[r] = "killed" /\ \A q \in Sessions \ {r} : obj'[q] = obj[q]
        /\ MapInv'
    BY <1>3, EndEffect DEF RegistryInv
  <2>2. UnbornInv' /\ DeletedUnused'
    BY <1>1, <1>3, <2>1 DEF RegistryInv, UnbornInv, DeletedUnused
  <2> QED
    BY <1>1, <2>1, <2>2 DEF RegistryInv
<1>4. CASE UNCHANGED <<map, obj>>
  <2>1. MapInv'
    BY <1>4 DEF RegistryInv, MapInv
  <2>2. UnbornInv' /\ DeletedUnused'
    BY <1>1, <1>4 DEF RegistryInv, UnbornInv, DeletedUnused
  <2> QED
    BY <1>1, <2>1, <2>2 DEF RegistryInv
<1> QED
  BY <1>3, <1>4

-----------------------------------------------------------------------------
(* The steps in which a client leaves.                                     *)

\* The types after a client has given up its reference.
LEMMA GiveUpTypes ==
    ASSUME RegistryInv, NEW r \in Sessions, NEW c \in Users(r), GiveUp(r), path' = path
    PROVE  /\ map' \in [Paths -> Sessions \cup {None}]
           /\ sdp' \in [Paths -> BOOLEAN]
           /\ obj' \in [Sessions -> {"unborn", "live", "killed", "freed"}]
           /\ refs' = [refs EXCEPT ![r] = @ - 1] /\ refs' \in [Sessions -> Nat]
           /\ (refs[r] = 1 /\ End(r)) \/ UNCHANGED <<map, sdp, obj>>
<1>1. refs[r] >= 1
  <2>1. c \in outs[r] \/ c \in Pushers(r)
    BY DEF Users
  <2> QED
    BY <2>1, OutputLess, PusherLess DEF RegistryInv
<1> QED
  BY <1>1, GiveUpEffect DEF RegistryInv

LEMMA CloseViewerStep == ASSUME NEW c \in Clients, RegistryInv, CloseViewer(c) PROVE RegistryInv'
<1>1. CASE viewing[c] \in Sessions
  <2> DEFINE r == viewing[c]
  <2>1. /\ GiveUp(r) /\ LeaveOutput(c, r)
        /\ life' = [life EXCEPT ![c] = "closed"]
        /\ UNCHANGED <<path, setup, caster, sock, pushing, streams, data, waiting, down>>
    BY <1>1 DEF CloseViewer, LeaveOutput
  <2>2. c \in Users(r)
    BY <1>1 DEF RegistryInv, OutsInv, Users
  <2>3. /\ map' \in [Paths -> Sessions \cup {None}]
        /\ sdp' \in [Paths -> BOOLEAN]
        /\ obj' \in [Sessions -> {"unborn", "live", "killed", "freed"}]
        /\ refs' = [refs EXCEPT ![r] = @ - 1] /\ refs' \in [Sessions -> Nat]
        /\ (refs[r] = 1 /\ End(r)) \/ UNCHANGED <<map, sdp, obj>>
    BY <1>1, <2>1, <2>2, GiveUpTypes
  <2>4. TypeOK'
    BY <2>1, <2>3 DEF RegistryInv, TypeOK, LeaveOutput
  <2> QED
    BY <1>1, <2>1, <2>3, <2>4, LeaveStep
<1>2. CASE viewing[c] \notin Sessions
  <2>1. TypeOK' /\ UNCHANGED <<map, obj, path, refs, outs, pushing, viewing>>
    BY <1>2 DEF CloseViewer, RegistryInv, TypeOK, index, sessions
  <2> QED
    BY <2>1, QuietStep
<1> QED
  BY <1>1, <1>2

LEMMA CloseBroadcasterStep == ASSUME NEW c \in Clients, RegistryInv, CloseBroadcaster(c) PROVE RegistryInv'
<1> DEFINE r == pushing[c]
<1>1. CASE Crash
  BY <1>1, CrashStep
<1>2. CASE ~Crash
  <2>1. /\ r \in Sessions /\ GiveUp(r) /\ LeaveBroadcast(c, r)
        /\ setup' = [setup EXCEPT ![r] = {}]
        /\ RemoveSessionFromOutput(c, r)
        /\ life' = [TornDown(IF KillOnStop THEN outs[r] ELSE {}) EXCEPT ![c] = "closed"]
        /\ UNCHANGED <<path, outs, viewing, streams, data, waiting, down>>
    BY <1>2 DEF CloseBroadcaster, LeaveBroadcast
  <2>2. c \in Users(r)
    BY DEF Users, Pushers
  <2>3. /\ map' \in [Paths -> Sessions \cup {None}]
        /\ sdp' \in [Paths -> BOOLEAN]
        /\ obj' \in [Sessions -> {"unborn", "live", "killed", "freed"}]
        /\ refs' = [refs EXCEPT ![r] = @ - 1] /\ refs' \in [Sessions -> Nat]
        /\ (refs[r] = 1 /\ End(r)) \/ UNCHANGED <<map, sdp, obj>>
    BY <2>1, <2>2, GiveUpTypes
  <2>4. TypeOK'
    BY <2>1, <2>3 DEF RegistryInv, TypeOK, LeaveBroadcast, RemoveSessionFromOutput, TornDown
  <2> QED
    BY <2>1, <2>3, <2>4, LeaveStep
<1> QED
  BY <1>1, <1>2

LEMMA DescribeStep == ASSUME NEW c \in Clients, NEW p \in Paths, RegistryInv, Describe(c, p) PROVE RegistryInv'
<1> DEFINE r == viewing[c]
<1>1. CASE viewing[c] = Null
  BY <1>1, CrashStep DEF Describe
<1>2. CASE viewing[c] # Null
  <2>1. /\ r \in Sessions /\ LeaveOutput(c, r)
        /\ IF r = map[p]
           THEN refs' = [refs EXCEPT ![r] = @ - 1] /\ UNCHANGED <<map, sdp, obj>>
           ELSE GiveUp(r)
        /\ UNCHANGED <<path, setup, caster, sock, life, pushing, streams, data, waiting, down>>
    BY <1>2 DEF Describe, LeaveOutput, RegistryInv, TypeOK
  <2>2. c \in Users(r)
    BY <2>1 DEF RegistryInv, OutsInv, LeaveOutput, Users
  <2>3. CASE r = map[p]
    <3>1. refs' \in [Sessions -> Nat]
      BY <2>1, <2>3, LeaveUsers
    <3>2. TypeOK'
      BY <2>1, <2>3, <3>1 DEF RegistryInv, TypeOK, LeaveOutput
    <3> QED
      BY <2>1, <2>3, <3>2, LeaveStep
  <2>4. CASE r # map[p]
    <3>1. /\ map' \in [Paths -> Sessions \cup {None}]
          /\ sdp' \in [Paths -> BOOLEAN]
          /\ obj' \in [Sessions -> {"unborn", "live", "killed", "freed"}]
          /\ refs' = [refs EXCEPT ![r] = @ - 1] /\ refs' \in [Sessions -> Nat]
          /\ (refs[r] = 1 /\ End(r)) \/ UNCHANGED <<map, sdp, obj>>
      BY <2>1, <2>2, <2>4, GiveUpTypes
    <3>2. TypeOK'
      BY <2>1, <3>1 DEF RegistryInv, TypeOK, LeaveOutput
    <3> QED
      BY <2>1, <3>1, <3>2, LeaveStep
  <2> QED
    BY <2>3, <2>4
<1> QED
  BY <1>1, <1>2

LEMMA RecordNextStep ==
    ASSUME NEW c \in Clients, NEW t \in Tracks \cup {BadTrack}, RegistryInv, RecordNext(c, t) PROVE RegistryInv'
<1> DEFINE r == pushing[c]
<1>1. CASE Crash
  BY <1>1, CrashStep
<1>2. CASE ~Crash /\ Refused(r, t)
  <2>1. /\ r \in Sessions /\ LeaveBroadcast(c, r)
        /\ refs' = [refs EXCEPT ![r] = @ - 1]
        /\ life' = TornDown(outs[r])
        /\ IF refs[r] = 1
           THEN End(r) /\ UNCHANGED waiting
           ELSE waiting' = [waiting EXCEPT ![c] = r] /\ UNCHANGED <<map, sdp, obj>>
        /\ UNCHANGED <<path, outs, setup, caster, sock, viewing, streams, data, down>>
    BY <1>2 DEF RecordNext, LeaveBroadcast
  <2>2. refs' \in [Sessions -> Nat]
    BY <2>1, LeaveUsers
  <2>3. (refs[r] = 1 /\ End(r)) \/ UNCHANGED <<map, sdp, obj>>
    BY <2>1
  <2>4. /\ map' \in [Paths -> Sessions \cup {None}]
        /\ sdp' \in [Paths -> BOOLEAN]
        /\ obj' \in [Sessions -> {"unborn", "live", "killed", "freed"}]
    BY <2>1, <2>3, EndEffect DEF RegistryInv, TypeOK
  <2>5. life' \in [Clients -> {"live", "torn", "closed"}] /\ waiting' \in [Clients -> Sessions \cup {None}]
    BY <2>1 DEF RegistryInv, TypeOK, TornDown
  <2>6. pushing' \in [Clients -> Sessions \cup {None, Null}]
    BY <2>1 DEF RegistryInv, TypeOK, LeaveBroadcast
  <2>7. TypeOK'
    BY <2>1, <2>2, <2>4, <2>5, <2>6 DEF RegistryInv, TypeOK
  <2> QED
    BY <2>1, <2>3, <2>7, LeaveStep
<1>3. CASE ~Refused(r, t)
  <2>1. /\ t \in Tracks /\ r \in Sessions
        /\ setup' = [setup EXCEPT ![r] = @ \cup {t}] /\ streams' = [streams EXCEPT ![c] = @ \cup {t}]
        /\ UNCHANGED <<sdp, map, obj, path, refs, outs, caster, sock, life, pushing, viewing,
                       data, waiting, down>>
    BY <1>3 DEF RecordNext, Refused, index
  <2>2. setup' \in [Sessions -> SUBSET Tracks] /\ streams' \in [Clients -> SUBSET Tracks]
    BY <2>1 DEF RegistryInv, TypeOK
  <2>3. TypeOK'
    BY <2>1, <2>2 DEF RegistryInv, TypeOK
  <2> QED
    BY <2>1, <2>3, QuietStep
<1> QED
  BY <1>1, <1>2, <1>3

LEMMA KillStep == ASSUME NEW p \in Paths, RegistryInv, Kill(p) PROVE RegistryInv'
<1> DEFINE r == map[p]
<1>1. CASE Crash
  BY <1>1, CrashStep
<1>2. CASE ~Crash
  <2> USE DEF RegistryInv
  <2>1. /\ r \in Sessions
        /\ life' = TornDown(outs[r] \cup {caster[r]})
        /\ IF refs[r] = 0 THEN End(r) ELSE UNCHANGED <<map, sdp, obj>>
        /\ UNCHANGED <<path, refs, outs, setup, caster, sock, pushing, viewing, streams, data, waiting, down>>
    BY <1>2 DEF Kill, TypeOK, sessions
  <2>2. life' \in [Clients -> {"live", "torn", "closed"}]
    BY <2>1 DEF TypeOK, TornDown
  <2>3. CASE refs[r] = 0
    <3>1. /\ map' \in [Paths -> Sessions \cup {None}]
          /\ sdp' \in [Paths -> BOOLEAN]
          /\ obj' \in [Sessions -> {"unborn", "live", "killed", "freed"}]
          /\ \A o \in Paths : map'[o] = IF map[o] = r THEN None ELSE map[o]
          /\ obj'[r] = "killed" /\ \A q \in Sessions \ {r} : obj'[q] = obj[q]
          /\ MapInv'
      BY <2>1, <2>3, EndEffect
    <3>2. TypeOK'
      BY <2>1, <2>2, <3>1 DEF TypeOK
    <3>3. outs[r] = {} /\ Pushers(r) = {}
      BY <2>1, <2>3, NoUser
    <3>4. \A q : Pushers(q)' = Pushers(q)
      BY <2>1, PushersKept
    <3>5. OutsInv' /\ RefsExact'
      BY <2>1, <3>4 DEF OutsInv, RefsExact
    <3>6. UnbornInv' /\ DeletedUnused'
      BY <2>1, <3>1, <3>3, <3>4 DEF UnbornInv, DeletedUnused, Users
    <3> QED
      BY <3>1, <3>2, <3>5, <3>6
  <2>4. CASE refs[r] # 0
    <3>1. TypeOK'
      <4>1. UNCHANGED <<map, sdp, obj>>
        BY <2>1, <2>4
      <4> QED
        BY <2>1, <2>2, <4>1 DEF TypeOK
    <3> QED
      BY <2>1, <2>4, <3>1, QuietStep
  <2> QED
    BY <2>3, <2>4
<1> QED
  BY <1>1, <1>2

-----------------------------------------------------------------------------
(* The steps in which a client joins, or a session is made.                *)

\* A client that gets an output, or becomes a broadcaster, takes a reference.
JoinOutput(c, r) ==
    /\ viewing[c] \notin Sessions /\ viewing' = [viewing EXCEPT ![c] = r]
    /\ outs' = [outs EXCEPT ![r] = @ \cup {c}]
    /\ pushing' = pushing

JoinBroadcast(c, r) ==
    /\ pushing[c] \notin Sessions /\ pushing' = [pushing EXCEPT ![c] = r]
    /\ UNCHANGED <<outs, viewing>>

LEMMA JoinUsers ==
    ASSUME RegistryInv, NEW r \in Sessions, NEW c \in Clients,
           refs' = [refs EXCEPT ![r] = @ + 1],
           JoinOutput(c, r) \/ JoinBroadcast(c, r)
    PROVE  /\ refs' \in [Sessions -> Nat]
           /\ OutsInv' /\ RefsExact'
           /\ Users(r)' = Users(r) \cup {c}
           /\ \A q \in Sessions \ {r} : Users(q)' = Users(q)
<1> USE DEF RegistryInv
<1>1. refs' \in [Sessions -> Nat] /\ refs'[r] = refs[r] + 1
      /\ \A q \in Sessions \ {r} : refs'[q] = refs[q]
  BY DEF TypeOK
<1>2. CASE JoinOutput(c, r)
  <2>1. c \notin outs[r]
    BY <1>2 DEF JoinOutput, OutsInv
  <2>2. \A q \in Sessions : Pushers(q)' = Pushers(q)
    BY <1>2, PushersKept DEF JoinOutput
  <2>3. outs'[r] = outs[r] \cup {c} /\ \A q \in Sessions \ {r} : outs'[q] = outs[q]
    BY <1>2 DEF JoinOutput, TypeOK
  <2>4. refs[r] + 1 = Cardinality(outs[r] \cup {c}) + Cardinality(Pushers(r))
    BY <2>1, UserMore
  <2>5. RefsExact'
    BY <1>1, <2>2, <2>3, <2>4 DEF RefsExact
  <2>6. OutsInv'
    BY <1>2, <2>3 DEF JoinOutput, OutsInv, TypeOK
  <2> QED
    BY <1>1, <2>2, <2>3, <2>5, <2>6 DEF Users
<1>3. CASE JoinBroadcast(c, r)
  <2>1. c \notin Pushers(r) /\ outs' = outs
    BY <1>3 DEF JoinBroadcast, Pushers
  <2>2. Pushers(r)' = Pushers(r) \cup {c}
    BY <1>3, PushersSet DEF JoinBroadcast
  <2>3. \A q \in Sessions \ {r} : Pushers(q)' = Pushers(q)
    <3> SUFFICES ASSUME NEW q \in Sessions, q # r PROVE Pushers(q)' = Pushers(q)
      OBVIOUS
    <3>1. Pushers(q)' = IF r = q THEN Pushers(q) \cup {c} ELSE Pushers(q) \ {c}
      BY <1>3, PushersSet DEF JoinBroadcast
    <3>2. c \notin Pushers(q)
      BY <1>3 DEF JoinBroadcast, Pushers
    <3> QED
      BY <3>1, <3>2
  <2>4. refs[r] + 1 = Cardinality(outs[r]) + Cardinality(Pushers(r) \cup {c})
    BY <2>1, UserMore
  <2>5. RefsExact'
    BY <1>1, <2>1, <2>2, <2>3, <2>4 DEF RefsExact
  <2>6. OutsInv'
    BY <1>3 DEF JoinBroadcast, OutsInv
  <2> QED
    BY <1>1, <2>1, <2>2, <2>3, <2>5, <2>6 DEF Users
<1> QED
  BY <1>2, <1>3

\* What is joined is in the map.
LEMMA JoinStep ==
    ASSUME RegistryInv, TypeOK', NEW p \in Paths, NEW r \in Sessions, NEW c \in Clients,
           map[p] = r, refs' = [refs EXCEPT ![r] = @ + 1],
           JoinOutput(c, r) \/ JoinBroadcast(c, r),
           UNCHANGED <<map, obj, path>>
    PROVE  RegistryInv'
<1> USE DEF RegistryInv
<1>1. /\ OutsInv' /\ RefsExact'
      /\ \A q \in Sessions \ {r} : Users(q)' = Users(q)
  BY JoinUsers
<1>2. obj[r] = "live"
  BY DEF MapInv
<1>3. MapInv'
  BY DEF MapInv
<1>4. UnbornInv' /\ DeletedUnused'
  BY <1>1, <1>2 DEF UnbornInv, DeletedUnused
<1> QED
  BY <1>1, <1>3, <1>4

\* An attribute that goes from one value that is no session to another one
\* changes no session's broadcasters.
LEMMA PushersForgotten ==
    ASSUME TypeOK, NEW c \in Clients, NEW x, pushing[c] \notin Sessions, x \notin Sessions,
           pushing' = [pushing EXCEPT ![c] = x], NEW r \in Sessions
    PROVE  Pushers(r)' = Pushers(r)
<1>1. Pushers(r)' = Pushers(r) \ {c}
  <2>1. x # r
    OBVIOUS
  <2>2. Pushers(r)' = IF x = r THEN Pushers(r) \cup {c} ELSE Pushers(r) \ {c}
    BY PushersSet
  <2> QED
    BY <2>1, <2>2
<1>2. c \notin Pushers(r)
  BY DEF Pushers
<1> QED
  BY <1>1, <1>2

LEMMA SetupPlayStep == ASSUME NEW c \in Clients, NEW p \in Paths, RegistryInv, SetupPlay(c, p) PROVE RegistryInv'
<1> DEFINE r == map[p]
<1>1. CASE Crash
  BY <1>1, CrashStep
<1>2. CASE ~Crash
  <2>1. /\ r \in Sessions /\ JoinOutput(c, r)
        /\ refs' = [refs EXCEPT ![r] = @ + 1]
        /\ UNCHANGED <<index, setup, caster, sock, life, pushing, streams, data, waiting, down>>
    BY <1>2 DEF SetupPlay, JoinOutput, Found, RegistryInv, TypeOK
  <2>2. refs' \in [Sessions -> Nat]
    BY <2>1, JoinUsers
  <2>3. TypeOK'
    BY <2>1, <2>2 DEF JoinOutput, RegistryInv, TypeOK, index
  <2>4. UNCHANGED <<map, obj, path>>
    BY <2>1 DEF index
  <2> QED
    BY <2>1, <2>3, <2>4, JoinStep
<1> QED
  BY <1>1, <1>2

LEMMA RecordFoundStep ==
    ASSUME NEW c \in Clients, NEW p \in Paths, NEW t \in Tracks \cup {BadTrack},
           RegistryInv, RecordFound(c, p, t)
    PROVE  RegistryInv'
<1> DEFINE r == map[p]
<1>1. /\ r \in Sessions /\ pushing[c] = None
      /\ caster' = [caster EXCEPT ![r] = c]
      /\ sock' = [sock EXCEPT ![r] = c]
      /\ UNCHANGED <<index, outs, life, viewing, data, waiting, down>>
  BY DEF RecordFound, Found, RegistryInv, TypeOK
<1>2. CASE Refused(r, t)
  <2>1. pushing' = [pushing EXCEPT ![c] = Null] /\ UNCHANGED <<refs, setup, streams>>
    BY <1>2 DEF RecordFound
  <2>2. TypeOK'
    BY <1>1, <2>1 DEF RegistryInv, TypeOK, index
  <2>3. \A q \in Sessions : Pushers(q)' = Pushers(q)
    BY <1>1, <2>1, PushersForgotten DEF RegistryInv
  <2>4. MapInv' /\ OutsInv' /\ RefsExact'
    BY <1>1, <2>1, <2>3 DEF RegistryInv, MapInv, OutsInv, RefsExact, index
  <2>5. UnbornInv' /\ DeletedUnused'
    BY <1>1, <2>3 DEF RegistryInv, UnbornInv, DeletedUnused, Users, index
  <2> QED
    BY <2>2, <2>4, <2>5 DEF RegistryInv
<1>3. CASE ~Refused(r, t)
  <2>1. /\ JoinBroadcast(c, r)
        /\ refs' = [refs EXCEPT ![r] = @ + 1]
        /\ setup' = [setup EXCEPT ![r] = @ \cup {t}]
        /\ streams' = [streams EXCEPT ![c] = {t}]
        /\ t \in Tracks
    BY <1>1, <1>3 DEF RecordFound, JoinBroadcast, Refused
  <2>2. refs' \in [Sessions -> Nat]
    BY <1>1, <2>1, JoinUsers
  <2>3. TypeOK'
    BY <1>1, <2>1, <2>2 DEF JoinBroadcast, RegistryInv, TypeOK, index
  <2>4. UNCHANGED <<map, obj, path>>
    BY <1>1 DEF index
  <2> QED
    BY <1>1, <2>1, <2>3, <2>4, JoinStep
<1> QED
  BY <1>2, <1>3

LEMMA BindFailsStep == ASSUME NEW c \in Clients, NEW p \in Paths, RegistryInv, BindFails(c, p) PROVE RegistryInv'
<1> USE DEF RegistryInv
<1>1. PICK r \in Sessions :
         /\ obj[r] = "unborn"
         /\ obj' = [obj EXCEPT ![r] = "killed"]
         /\ path' = [path EXCEPT ![r] = p]
  BY DEF BindFails
<1>2. sdp' = [sdp EXCEPT ![p] = FALSE] /\ UNCHANGED <<map, sessions, clients, down>>
  BY DEF BindFails
<1>3. TypeOK'
  BY <1>1, <1>2 DEF TypeOK, sessions, clients
<1>4. \A q : Pushers(q)' = Pushers(q)
  BY <1>2, PushersKept DEF clients
<1>5. \A o \in Paths : map[o] # r
  BY <1>1 DEF MapInv
<1>6. MapInv'
  BY <1>1, <1>2, <1>5 DEF MapInv, TypeOK
<1>7. OutsInv' /\ RefsExact'
  BY <1>2, <1>4 DEF OutsInv, RefsExact, sessions, clients
<1>8. outs' = outs /\ Users(r) = {}
  BY <1>1, <1>2 DEF UnbornInv, sessions
<1>9. UnbornInv' /\ DeletedUnused'
  BY <1>1, <1>2, <1>4, <1>5, <1>8 DEF UnbornInv, DeletedUnused, Users, TypeOK
<1> QED
  BY <1>3, <1>6, <1>7, <1>9

LEMMA RecordNewStep ==
    ASSUME NEW c \in Clients, NEW p \in Paths, NEW t \in Tracks \cup {BadTrack},
           RegistryInv, RecordNew(c, p, t)
    PROVE  RegistryInv'
<1> USE DEF RegistryInv
<1>1. PICK r \in Sessions :
         /\ obj[r] = "unborn"
         /\ path' = [path EXCEPT ![r] = p]
         /\ caster' = [caster EXCEPT ![r] = c]
         /\ sock' = [sock EXCEPT ![r] = c]
         /\ IF t = BadTrack
            THEN /\ obj' = [obj EXCEPT ![r] = "killed"]
                 /\ sdp' = [sdp EXCEPT ![p] = FALSE]
                 /\ pushing' = [pushing EXCEPT ![c] = Null]
                 /\ UNCHANGED <<map, refs, setup, streams>>
            ELSE /\ obj' = [obj EXCEPT ![r] = "live"]
                 /\ map' = [map EXCEPT ![p] = r]
                 /\ refs' = [refs EXCEPT ![r] = 1]
                 /\ setup' = [setup EXCEPT ![r] = {t}]
                 /\ pushing' = [pushing EXCEPT ![c] = r]
                 /\ streams' = [streams EXCEPT ![c] = {t}]
                 /\ UNCHANGED sdp
  BY DEF RecordNew
<1>2. /\ pushing[c] = None /\ map[p] = None
      /\ UNCHANGED <<outs, life, viewing, data, waiting, down>>
  BY DEF RecordNew
<1>3. TypeOK'
  <2>0. /\ obj \in [Sessions -> {"unborn", "live", "killed", "freed"}]
        /\ map \in [Paths -> Sessions \cup {None}] /\ sdp \in [Paths -> BOOLEAN]
        /\ pushing \in [Clients -> Sessions \cup {None, Null}] /\ refs \in [Sessions -> Nat]
        /\ setup \in [Sessions -> SUBSET Tracks] /\ streams \in [Clients -> SUBSET Tracks]
    BY DEF TypeOK
  <2>a. /\ path' \in [Sessions -> Paths \cup {None}]
        /\ caster' \in [Sessions -> Clients \cup {None}] /\ sock' \in [Sessions -> Clients \cup {None}]
    BY <1>1 DEF TypeOK
  <2>1. CASE t = BadTrack
    <3>1. /\ obj' \in [Sessions -> {"unborn", "live", "killed", "freed"}]
          /\ sdp' \in [Paths -> BOOLEAN]
          /\ pushing' \in [Clients -> Sessions \cup {None, Null}]
          /\ UNCHANGED <<map, refs, setup, streams>>
      BY <1>1, <2>0, <2>1
    <3> QED
      BY <1>2, <2>a, <3>1 DEF TypeOK
  <2>2. CASE t # BadTrack
    <3>1. /\ obj' = [obj EXCEPT ![r] = "live"] /\ map' = [map EXCEPT ![p] = r]
          /\ pushing' = [pushing EXCEPT ![c] = r] /\ refs' = [refs EXCEPT ![r] = 1]
          /\ setup' = [setup EXCEPT ![r] = {t}] /\ streams' = [streams EXCEPT ![c] = {t}]
          /\ sdp' = sdp /\ t \in Tracks
      BY <1>1, <2>2
    <3>2. /\ obj' \in [Sessions -> {"unborn", "live", "killed", "freed"}]
          /\ map' \in [Paths -> Sessions \cup {None}]
          /\ pushing' \in [Clients -> Sessions \cup {None, Null}]
      BY <2>0, <3>1
    <3>3. refs' \in [Sessions -> Nat]
      BY <2>0, <3>1
    <3>4. setup' \in [Sessions -> SUBSET Tracks] /\ streams' \in [Clients -> SUBSET Tracks]
      BY <2>0, <3>1
    <3> QED
      BY <1>2, <2>a, <3>1, <3>2, <3>3, <3>4 DEF TypeOK
  <2> QED
    BY <2>1, <2>2
<1>4. OutsInv'
  BY <1>2 DEF OutsInv
<1>5. \A o \in Paths : map[o] # r
  BY <1>1 DEF MapInv
<1>6. outs[r] = {} /\ Pushers(r) = {}
  BY <1>1 DEF UnbornInv, Users
<1>7. CASE t = BadTrack
  <2>1. \A q \in Sessions : Pushers(q)' = Pushers(q)
    BY <1>1, <1>2, <1>7, PushersForgotten
  <2>2. MapInv'
    BY <1>1, <1>5, <1>7 DEF MapInv, TypeOK
  <2>3. RefsExact'
    BY <1>1, <1>2, <1>7, <2>1 DEF RefsExact
  <2>4. UnbornInv' /\ DeletedUnused'
    BY <1>1, <1>2, <1>5, <1>6, <1>7, <2>1, SMTT(30) DEF UnbornInv, DeletedUnused, Users, TypeOK
  <2> QED
    BY <1>3, <1>4, <2>2, <2>3, <2>4
<1>8. CASE t # BadTrack
  <2>1. refs[r] = 0
    <3>1. Cardinality(outs[r]) = 0 /\ Cardinality(Pushers(r)) = 0
      BY <1>6, FS_EmptySet, Zenon
    <3> QED
      BY <3>1 DEF RefsExact
  <2>2. refs' = [refs EXCEPT ![r] = @ + 1] /\ JoinBroadcast(c, r)
    BY <1>1, <1>2, <1>8, <2>1 DEF JoinBroadcast
  <2>3. /\ RefsExact'
        /\ \A q \in Sessions \ {r} : Users(q)' = Users(q)
    BY <2>2, JoinUsers
  <2>4. obj'[r] = "live" /\ \A q \in Sessions \ {r} : obj'[q] = obj[q]
    BY <1>1, <1>8 DEF TypeOK
  <2>5. map'[p] = r /\ \A o \in Paths \ {p} : map'[o] = map[o]
    BY <1>1, <1>8 DEF TypeOK
  <2>6. MapInv'
    BY <1>1, <1>5, <2>4, <2>5 DEF MapInv, TypeOK
  <2>7. UnbornInv' /\ DeletedUnused'
    BY <2>3, <2>4, <2>5 DEF UnbornInv, DeletedUnused
  <2> QED
    BY <1>3, <1>4, <2>3, <2>6, <2>7
<1> QED
  BY <1>7, <1>8

LEMMA StepInv == RegistryInv /\ [Next]_vars => RegistryInv'
<1> SUFFICES ASSUME RegistryInv, [Next]_vars PROVE RegistryInv'
  OBVIOUS
<1>1. ASSUME NEW c \in Clients, Close(c) PROVE RegistryInv'
  <2>1. CASE CloseBroadcaster(c)
    BY <2>1, CloseBroadcasterStep
  <2>2. CASE CloseViewer(c)
    <3>1. UNCHANGED down
      BY <2>2 DEF CloseViewer
    <3> QED
      BY <2>2, <3>1, CloseViewerStep
  <2> QED
    BY <1>1, <2>1, <2>2 DEF Close
<1>2. ASSUME NEW c \in Clients, RecordNull(c) PROVE RegistryInv'
  BY <1>2, CrashStep DEF RecordNull
<1>3. CASE UseFreed
  BY <1>3, CrashStep DEF UseFreed
<1>4. CASE UNCHANGED vars
  <2>1. TypeOK' /\ UNCHANGED <<map, obj, path, refs, outs, pushing, viewing>>
    BY <1>4 DEF RegistryInv, TypeOK, vars, index, sessions, clients
  <2> QED
    BY <2>1, QuietStep
<1> QED
  BY <1>1, <1>2, <1>3, <1>4, TeardownStep, RecordStep, WakeStep, AnnounceStep, DescribeStep,
     SetupPlayStep, BindFailsStep, RecordNextStep, RecordNewStep, RecordFoundStep, KillStep, RunStep
  DEF Next

-----------------------------------------------------------------------------
(* The steps of the registry as steps of the directory.                    *)

\* The directory sees no difference.
LEMMA UnseenStep ==
    ASSUME UNCHANGED <<map, obj, outs, pushing>>
    PROVE  UNCHANGED Directory!directoryVars
<1>1. \A r : Users(r)' = Users(r)
  BY PushersKept DEF Users
<1>2. Served' = Served
  BY <1>1 DEF Served
<1> QED
  BY <1>2 DEF Directory!directoryVars

LEMMA LeaveSeen ==
    ASSUME RegistryInv, NEW r \in Sessions, NEW c \in Clients,
           refs' = [refs EXCEPT ![r] = @ - 1],
           LeaveOutput(c, r) \/ LeaveBroadcast(c, r),
           (refs[r] = 1 /\ End(r)) \/ UNCHANGED <<map, obj>>,
           path' = path
    PROVE  Directory!Leave(c, r) \/ UNCHANGED Directory!directoryVars
<1>1. /\ c \in Users(r)
      /\ Users(r)' \subseteq Users(r) /\ Users(r) \ {c} \subseteq Users(r)'
      /\ \A q \in Sessions \ {r} : Users(q)' = Users(q)
      /\ refs[r] = 1 => Users(r) = {c} /\ Users(r)' = {}
  BY LeaveUsers
<1>2. c \in Served[r] /\ Served[r] = Users(r)
  BY <1>1 DEF Served
<1>3. CASE refs[r] = 1 /\ End(r)
  <2>1. /\ \A p \in Paths : map'[p] = IF map[p] = r THEN None ELSE map[p]
        /\ map' \in [Paths -> Sessions \cup {None}]
        /\ obj'[r] = "killed" /\ \A q \in Sessions \ {r} : obj'[q] = obj[q]
    BY <1>3, EndEffect DEF RegistryInv
  <2>2. obj[r] = "live"
    BY <1>1, UsedIsLive
  <2>3. obj' = [obj EXCEPT ![r] = "killed"]
    BY <1>3 DEF End
  <2>4. Served' = [Served EXCEPT ![r] = @ \ {c}] /\ Served[r] = {c}
    BY <1>1, <1>3 DEF Served
  <2>5. map' = [p \in Paths |-> IF map[p] = r THEN None ELSE map[p]]
    BY <2>1
  <2> QED
    BY <1>2, <2>2, <2>3, <2>4, <2>5 DEF Directory!Leave, Directory!TakeOff
<1>4. CASE UNCHANGED <<map, obj>>
  <2>2. CASE Users(r)' = Users(r)
    <3>1. Served' = Served
      BY <1>1, <2>2 DEF Served
    <3> QED
      BY <1>4, <3>1 DEF Directory!directoryVars
  <2>3. CASE Users(r)' # Users(r)
    <3>1. Users(r)' = Users(r) \ {c}
      BY <1>1, <2>3
    <3>2. Served' = [Served EXCEPT ![r] = @ \ {c}]
      BY <1>1, <3>1 DEF Served
    <3> QED
      BY <1>2, <1>4, <3>2 DEF Directory!Leave
  <2> QED
    BY <2>2, <2>3
<1> QED
  BY <1>3, <1>4

LEMMA JoinSeen ==
    ASSUME RegistryInv, NEW p \in Paths, NEW r \in Sessions, NEW c \in Clients,
           map[p] = r, refs' = [refs EXCEPT ![r] = @ + 1],
           JoinOutput(c, r) \/ JoinBroadcast(c, r),
           UNCHANGED <<map, obj>>
    PROVE  Directory!Join(c, r)
<1>1. /\ Users(r)' = Users(r) \cup {c}
      /\ \A q \in Sessions \ {r} : Users(q)' = Users(q)
  BY JoinUsers
<1>2. Served' = [Served EXCEPT ![r] = @ \cup {c}]
  BY <1>1 DEF Served
<1> QED
  BY <1>2 DEF Directory!Join

LEMMA EndSeen ==
    ASSUME RegistryInv, NEW r \in Sessions, refs[r] = 0, obj[r] # "freed", End(r),
           UNCHANGED <<path, outs, pushing>>
    PROVE  Directory!Finish(r) \/ Directory!Abandon(r) \/ UNCHANGED Directory!directoryVars
<1>1. /\ \A p \in Paths : map'[p] = IF map[p] = r THEN None ELSE map[p]
      /\ map' \in [Paths -> Sessions \cup {None}]
      /\ obj'[r] = "killed" /\ \A q \in Sessions \ {r} : obj'[q] = obj[q]
  BY EndEffect DEF RegistryInv
<1>2. obj' = [obj EXCEPT ![r] = "killed"]
  BY DEF End
<1>3. Served' = Served
  BY PushersKept DEF Served, Users
<1>4. Served[r] = {}
  BY NoUser DEF RegistryInv, Served, Users
<1>5. map' = [p \in Paths |-> IF map[p] = r THEN None ELSE map[p]]
  BY <1>1
<1>6. CASE obj[r] = "live"
  BY <1>2, <1>3, <1>4, <1>5, <1>6 DEF Directory!Finish, Directory!TakeOff
<1>7. CASE obj[r] # "live"
  <2>1. \A p \in Paths : map[p] # r
    BY <1>7 DEF RegistryInv, MapInv
  <2>2. map' = map
    BY <1>1, <2>1 DEF RegistryInv, TypeOK
  <2>3. CASE obj[r] = "unborn"
    BY <1>2, <1>3, <2>2, <2>3 DEF Directory!Abandon
  <2>4. CASE obj[r] = "killed"
    <3>1. obj' = obj
      BY <1>2, <2>4 DEF RegistryInv, TypeOK
    <3> QED
      BY <1>3, <2>2, <3>1 DEF Directory!directoryVars
  <2> QED
    BY <1>7, <2>3, <2>4 DEF RegistryInv, TypeOK
<1> QED
  BY <1>6, <1>7

Seen == Directory!DirectoryNext \/ UNCHANGED Directory!directoryVars

LEMMA CrashSeen == Crash => Seen
BY UnseenStep DEF Crash, Seen, index, sessions, clients

LEMMA RecordNewSeen ==
    ASSUME NEW c \in Clients, NEW p \in Paths, NEW t \in Tracks \cup {BadTrack},
           RegistryInv, RecordNew(c, p, t)
    PROVE  Seen
<1>1. PICK r \in Sessions :
         /\ obj[r] = "unborn"
         /\ IF t = BadTrack
            THEN /\ obj' = [obj EXCEPT ![r] = "killed"]
                 /\ pushing' = [pushing EXCEPT ![c] = Null]
                 /\ map' = map
            ELSE /\ obj' = [obj EXCEPT ![r] = "live"]
                 /\ map' = [map EXCEPT ![p] = r]
                 /\ pushing' = [pushing EXCEPT ![c] = r]
  BY DEF RecordNew
<1>2. pushing[c] = None /\ map[p] = None /\ UNCHANGED <<outs, viewing>>
  BY DEF RecordNew
<1>3. CASE t = BadTrack
  <2>1. \A q \in Sessions : Pushers(q)' = Pushers(q)
    BY <1>1, <1>2, <1>3, PushersForgotten DEF RegistryInv
  <2>2. Served' = Served
    BY <1>2, <2>1 DEF Served, Users
  <2>3. Directory!Abandon(r)
    BY <1>1, <1>3, <2>2 DEF Directory!Abandon
  <2> QED
    BY <2>3 DEF Seen, Directory!DirectoryNext
<1>4. CASE t # BadTrack
  <2>1. Users(r) = {}
    BY <1>1 DEF RegistryInv, UnbornInv
  <2>2. \A q \in Sessions : Users(q)' = IF q = r THEN {c} ELSE Users(q)
    <3> SUFFICES ASSUME NEW q \in Sessions PROVE Users(q)' = IF q = r THEN {c} ELSE Users(q)
      OBVIOUS
    <3>1. Pushers(q)' = IF r = q THEN Pushers(q) \cup {c} ELSE Pushers(q) \ {c}
      BY <1>1, <1>4, PushersSet DEF RegistryInv
    <3>2. c \notin Pushers(q)
      BY <1>2 DEF Pushers
    <3> QED
      BY <1>2, <2>1, <3>1, <3>2 DEF Users
  <2>3. Served' = [Served EXCEPT ![r] = {c}]
    BY <2>2 DEF Served
  <2>4. Directory!Start(r, p, c)
    BY <1>1, <1>2, <1>4, <2>3 DEF Directory!Start
  <2> QED
    BY <2>4 DEF Seen, Directory!DirectoryNext
<1> QED
  BY <1>3, <1>4

LEMMA RecordFoundSeen ==
    ASSUME NEW c \in Clients, NEW p \in Paths, NEW t \in Tracks \cup {BadTrack},
           RegistryInv, RecordFound(c, p, t)
    PROVE  Seen
<1> DEFINE r == map[p]
<1>1. r \in Sessions /\ pushing[c] = None /\ UNCHANGED <<map, obj, outs, viewing>>
  BY DEF RecordFound, Found, RegistryInv, TypeOK, index
<1>2. CASE Refused(r, t)
  <2>1. pushing' = [pushing EXCEPT ![c] = Null]
    BY <1>2 DEF RecordFound
  <2>2. \A q \in Sessions : Pushers(q)' = Pushers(q)
    BY <1>1, <2>1, PushersForgotten DEF RegistryInv
  <2>3. Served' = Served
    BY <1>1, <2>2 DEF Served, Users
  <2> QED
    BY <1>1, <2>3 DEF Seen, Directory!directoryVars
<1>3. CASE ~Refused(r, t)
  <2>1. JoinBroadcast(c, r) /\ refs' = [refs EXCEPT ![r] = @ + 1]
    BY <1>1, <1>3 DEF RecordFound, JoinBroadcast
  <2>2. Directory!Join(c, r)
    BY <1>1, <2>1, JoinSeen
  <2> QED
    BY <1>1, <2>2 DEF Seen, Directory!DirectoryNext
<1> QED
  BY <1>2, <1>3

LEMMA SetupPlaySeen == ASSUME NEW c \in Clients, NEW p \in Paths, RegistryInv, SetupPlay(c, p) PROVE Seen
<1> DEFINE r == map[p]
<1>1. CASE Crash
  BY <1>1, CrashSeen
<1>2. CASE ~Crash
  <2>1. /\ r \in Sessions /\ JoinOutput(c, r)
        /\ refs' = [refs EXCEPT ![r] = @ + 1]
        /\ UNCHANGED <<map, obj>>
    BY <1>2 DEF SetupPlay, JoinOutput, Found, RegistryInv, TypeOK, index
  <2>2. Directory!Join(c, r)
    BY <2>1, JoinSeen
  <2> QED
    BY <2>1, <2>2 DEF Seen, Directory!DirectoryNext
<1> QED
  BY <1>1, <1>2

LEMMA BindFailsSeen == ASSUME NEW c \in Clients, NEW p \in Paths, RegistryInv, BindFails(c, p) PROVE Seen
<1>1. PICK r \in Sessions : obj[r] = "unborn" /\ obj' = [obj EXCEPT ![r] = "killed"]
  BY DEF BindFails
<1>2. UNCHANGED <<map, outs, pushing>>
  BY DEF BindFails, sessions, clients
<1>3. Served' = Served
  BY <1>2, PushersKept DEF Served, Users
<1>4. Directory!Abandon(r)
  BY <1>1, <1>2, <1>3 DEF Directory!Abandon
<1> QED
  BY <1>4 DEF Seen, Directory!DirectoryNext

LEMMA RunSeen == ASSUME NEW r \in Sessions, RegistryInv, Run(r) PROVE Seen
<1>1. Served' = Served
  BY PushersKept DEF Run, sessions, clients, Served, Users
<1>2. Directory!Delete(r)
  BY <1>1 DEF Run, Directory!Delete
<1> QED
  BY <1>2 DEF Seen, Directory!DirectoryNext

LEMMA WakeSeen == ASSUME NEW c \in Clients, RegistryInv, Wake(c) PROVE Seen
<1> DEFINE r == waiting[c]
<1>1. CASE obj[r] = "freed"
  BY <1>1, CrashSeen DEF Wake
<1>2. CASE obj[r] # "freed"
  <2>1. r \in Sessions /\ refs[r] = 0 /\ End(r) /\ UNCHANGED <<path, outs, pushing>>
    BY <1>2 DEF Wake, RegistryInv, TypeOK, sessions
  <2>2. Directory!Finish(r) \/ Directory!Abandon(r) \/ UNCHANGED Directory!directoryVars
    BY <1>2, <2>1, EndSeen
  <2> QED
    BY <2>1, <2>2 DEF Seen, Directory!DirectoryNext
<1> QED
  BY <1>1, <1>2

LEMMA KillSeen == ASSUME NEW p \in Paths, RegistryInv, Kill(p) PROVE Seen
<1> DEFINE r == map[p]
<1>1. CASE Crash
  BY <1>1, CrashSeen
<1>2. CASE ~Crash
  <2>1. /\ r \in Sessions /\ obj[r] = "live"
        /\ IF refs[r] = 0 THEN End(r) ELSE UNCHANGED <<map, sdp, obj>>
        /\ UNCHANGED <<path, outs, pushing>>
    BY <1>2 DEF Kill, RegistryInv, MapInv, TypeOK, sessions
  <2>2. CASE refs[r] = 0
    BY <2>1, <2>2, EndSeen DEF Seen, Directory!DirectoryNext
  <2>3. CASE refs[r] # 0
    BY <2>1, <2>3, UnseenStep DEF Seen
  <2> QED
    BY <2>2, <2>3
<1> QED
  BY <1>1, <1>2

\* The steps in which a client leaves.
LEMMA LeaveNext ==
    ASSUME NEW c \in Clients, NEW r \in Sessions,
           Directory!Leave(c, r) \/ UNCHANGED Directory!directoryVars
    PROVE  Seen
BY DEF Seen, Directory!DirectoryNext

LEMMA CloseViewerSeen == ASSUME NEW c \in Clients, RegistryInv, CloseViewer(c) PROVE Seen
<1>1. CASE viewing[c] \in Sessions
  <2> DEFINE r == viewing[c]
  <2>1. GiveUp(r) /\ LeaveOutput(c, r) /\ path' = path
    BY <1>1 DEF CloseViewer, LeaveOutput
  <2>2. c \in Users(r)
    BY <1>1 DEF RegistryInv, OutsInv, Users
  <2>3. refs' = [refs EXCEPT ![r] = @ - 1] /\ ((refs[r] = 1 /\ End(r)) \/ UNCHANGED <<map, obj>>)
    BY <1>1, <2>1, <2>2, GiveUpTypes
  <2> QED
    BY <1>1, <2>1, <2>3, LeaveSeen, LeaveNext
<1>2. CASE viewing[c] \notin Sessions
  BY <1>2, UnseenStep DEF CloseViewer, Seen, index, sessions
<1> QED
  BY <1>1, <1>2

LEMMA CloseBroadcasterSeen == ASSUME NEW c \in Clients, RegistryInv, CloseBroadcaster(c) PROVE Seen
<1> DEFINE r == pushing[c]
<1>1. CASE Crash
  BY <1>1, CrashSeen
<1>2. CASE ~Crash
  <2>1. r \in Sessions /\ GiveUp(r) /\ LeaveBroadcast(c, r) /\ path' = path
    BY <1>2 DEF CloseBroadcaster, LeaveBroadcast
  <2>2. c \in Users(r)
    BY DEF Users, Pushers
  <2>3. refs' = [refs EXCEPT ![r] = @ - 1] /\ ((refs[r] = 1 /\ End(r)) \/ UNCHANGED <<map, obj>>)
    BY <2>1, <2>2, GiveUpTypes
  <2> QED
    BY <2>1, <2>3, LeaveSeen, LeaveNext
<1> QED
  BY <1>1, <1>2

LEMMA DescribeSeen == ASSUME NEW c \in Clients, NEW p \in Paths, RegistryInv, Describe(c, p) PROVE Seen
<1> DEFINE r == viewing[c]
<1>1. CASE viewing[c] = Null
  BY <1>1, CrashSeen DEF Describe
<1>2. CASE viewing[c] # Null
  <2>1. /\ r \in Sessions /\ LeaveOutput(c, r) /\ path' = path
        /\ IF r = map[p]
           THEN refs' = [refs EXCEPT ![r] = @ - 1] /\ UNCHANGED <<map, sdp, obj>>
           ELSE GiveUp(r)
    BY <1>2 DEF Describe, LeaveOutput, RegistryInv, TypeOK
  <2>2. c \in Users(r)
    BY <2>1 DEF RegistryInv, OutsInv, LeaveOutput, Users
  <2>3. refs' = [refs EXCEPT ![r] = @ - 1] /\ ((refs[r] = 1 /\ End(r)) \/ UNCHANGED <<map, obj>>)
    BY <2>1, <2>2, GiveUpTypes
  <2> QED
    BY <2>1, <2>3, LeaveSeen, LeaveNext
<1> QED
  BY <1>1, <1>2

LEMMA RecordNextSeen ==
    ASSUME NEW c \in Clients, NEW t \in Tracks \cup {BadTrack}, RegistryInv, RecordNext(c, t) PROVE Seen
<1> DEFINE r == pushing[c]
<1>1. CASE Crash
  BY <1>1, CrashSeen
<1>2. CASE ~Crash /\ Refused(r, t)
  <2>1. /\ r \in Sessions /\ LeaveBroadcast(c, r) /\ path' = path
        /\ refs' = [refs EXCEPT ![r] = @ - 1]
        /\ (refs[r] = 1 /\ End(r)) \/ UNCHANGED <<map, obj>>
    BY <1>2 DEF RecordNext, LeaveBroadcast
  <2> QED
    BY <2>1, LeaveSeen, LeaveNext
<1>3. CASE ~Refused(r, t)
  BY <1>3, UnseenStep DEF RecordNext, Seen, index
<1> QED
  BY <1>1, <1>2, <1>3

LEMMA StepSeen == RegistryInv /\ [Next]_vars => [Directory!DirectoryNext]_(Directory!directoryVars)
<1> SUFFICES ASSUME RegistryInv, [Next]_vars PROVE Seen
  BY DEF Seen
<1>1. ASSUME NEW c \in Clients, NEW p \in Paths, Announce(c, p) PROVE Seen
  BY <1>1, UnseenStep DEF Announce, Seen, sessions, clients
<1>2. ASSUME NEW c \in Clients, Teardown(c) \/ Record(c) PROVE Seen
  BY <1>2, UnseenStep DEF Teardown, Record, Seen, index, sessions
<1>3. ASSUME NEW c \in Clients, RecordNull(c) PROVE Seen
  BY <1>3, CrashSeen DEF RecordNull
<1>4. CASE UseFreed
  BY <1>4, CrashSeen DEF UseFreed
<1>5. ASSUME NEW c \in Clients, Close(c) PROVE Seen
  BY <1>5, CloseBroadcasterSeen, CloseViewerSeen DEF Close
<1>6. CASE UNCHANGED vars
  BY <1>6, UnseenStep DEF Seen, vars, index, sessions, clients
<1> QED
  BY <1>1, <1>2, <1>3, <1>4, <1>5, <1>6, WakeSeen, DescribeSeen, SetupPlaySeen, BindFailsSeen,
     RecordNextSeen, RecordNewSeen, RecordFoundSeen, KillSeen, RunSeen
  DEF Next

LEMMA InitSeen == Init => Directory!DirectoryInit
<1> SUFFICES ASSUME Init PROVE Directory!DirectoryInit
  OBVIOUS
<1>1. \A r \in Sessions : Users(r) = {}
  BY DEF Init, Users, Pushers
<1>2. Served = [r \in Sessions |-> {}]
  BY <1>1 DEF Served
<1> QED
  BY <1>2 DEF Init, Directory!DirectoryInit

-----------------------------------------------------------------------------
(* The theorems.                                                           *)

\* Every variable of the registry keeps its type; the counts never get below
\* zero.
THEOREM RegistryTypes == Spec => []TypeOK
<1>1. RegistryInv => TypeOK
  BY DEF RegistryInv
<1> QED
  BY <1>1, InitInv, StepInv, PTL DEF Spec

\* The reference count of a session (CF::Ref, as Resolve and Release move it)
\* is the number of its outputs and of its broadcasters.
THEOREM ReferencesExact == Spec => []RefsExact
<1>1. RegistryInv => RefsExact
  BY DEF RegistryInv
<1> QED
  BY <1>1, InitInv, StepInv, PTL DEF Spec

\* A session that got its kill event in RemoveOutput or
\* DeleteReflectorPushSession is used by nobody and found by nobody.
THEOREM DeletedSessionsUnused == Spec => []DeletedUnused
<1>1. RegistryInv => DeletedUnused
  BY DEF RegistryInv
<1> QED
  BY <1>1, InitInv, StepInv, PTL DEF Spec

\* The handlers of QTSSReflectorModule implement BroadcastDirectory.
THEOREM DirectoryImplemented == Spec => DirectoryKept
<1>1. Spec => []RegistryInv
  BY InitInv, StepInv, PTL DEF Spec
<1> QED
  BY <1>1, InitSeen, StepSeen, PTL DEF Spec, DirectoryKept, Directory!DirectorySpec

-----------------------------------------------------------------------------
(* Broadcasts of one client at a time.                                     *)

\* No client broadcasts what another one does, and none asks for a track twice.
NoRivals == Env \cap {"rival", "refused"} = {}

\* Both pointers of a session are its one broadcaster; without one it expects no track.
CasterInv ==
    /\ \A r \in Sessions, c \in Clients : pushing[c] = r <=> sock[r] = c
    /\ \A r \in Sessions, c \in Clients : pushing[c] = r <=> caster[r] = c
    /\ \A r \in Sessions : Pushers(r) = {} => setup[r] = {}

LEMMA CasterKept ==
    CasterInv /\ UNCHANGED <<pushing, sock, caster, setup>> => CasterInv'
BY DEF CasterInv, Pushers

LEMMA StepCaster ==
    ASSUME NoRivals
    PROVE  RegistryInv /\ CasterInv /\ [Next]_vars => CasterInv'
<1> SUFFICES ASSUME RegistryInv, CasterInv, [Next]_vars PROVE CasterInv'
  OBVIOUS
<1>0. TypeOK
  BY DEF RegistryInv
<1>1. ASSUME NEW c \in Clients, Teardown(c) \/ Record(c) PROVE CasterInv'
  BY <1>1, CasterKept DEF Teardown, Record, sessions
<1>2. CASE Crash
  BY <1>2, CasterKept DEF Crash, sessions, clients
<1>3. ASSUME NEW c \in Clients, RecordNull(c) PROVE CasterInv'
  BY <1>2, <1>3 DEF RecordNull
<1>4. ASSUME NEW c \in Clients, Wake(c) PROVE CasterInv'
  BY <1>2, <1>4, CasterKept DEF Wake, sessions
<1>5. ASSUME NEW c \in Clients, CloseViewer(c) PROVE CasterInv'
  BY <1>5, CasterKept DEF CloseViewer, sessions
<1>6. ASSUME NEW c \in Clients, CloseBroadcaster(c) PROVE CasterInv'
  <2>1. CASE KillOnStop /\ \E d \in outs[pushing[c]] : Closed(d)
    BY <1>2, <1>6, <2>1 DEF CloseBroadcaster
  <2>2. CASE ~(KillOnStop /\ \E d \in outs[pushing[c]] : Closed(d))
    <3>1. PICK r \in Sessions : r = pushing[c]
      BY <1>6 DEF CloseBroadcaster
    <3>2. /\ pushing' = [pushing EXCEPT ![c] = Null]
          /\ setup' = [setup EXCEPT ![r] = {}]
          /\ caster' = [caster EXCEPT ![r] = None]
          /\ sock' = [sock EXCEPT ![r] = None]
      BY <1>0, <1>6, <2>2, <3>1 DEF CloseBroadcaster, RemoveSessionFromOutput, CasterInv, TypeOK
    <3>3. \A q \in Sessions \ {r} : Pushers(q)' = Pushers(q)
      BY <1>0, <3>1, <3>2 DEF Pushers, TypeOK
    <3> QED
      BY <1>0, <3>1, <3>2, <3>3, SMTT(30) DEF CasterInv, TypeOK
  <2> QED
    BY <2>1, <2>2
<1>7. ASSUME NEW c \in Clients, NEW p \in Paths, Announce(c, p) \/ Describe(c, p) PROVE CasterInv'
  BY <1>2, <1>7, CasterKept DEF Announce, Describe, sessions, clients
<1>8. ASSUME NEW c \in Clients, NEW p \in Paths, SetupPlay(c, p) \/ BindFails(c, p) PROVE CasterInv'
  BY <1>2, <1>8, CasterKept DEF SetupPlay, BindFails, sessions, clients
<1>9. ASSUME NEW c \in Clients, NEW t \in Tracks \cup {BadTrack}, RecordNext(c, t) PROVE CasterInv'
  <2>1. PICK r \in Sessions : r = pushing[c]
    BY <1>9 DEF RecordNext
  <2>2. setup' = [setup EXCEPT ![r] = @ \cup {t}] /\ UNCHANGED <<pushing, sock, caster>>
    BY <1>9, <2>1 DEF RecordNext, NoRivals, sessions
  <2>3. c \in Pushers(r) /\ \A q \in Sessions : Pushers(q)' = Pushers(q)
    BY <2>1, <2>2 DEF Pushers
  <2> QED
    BY <1>0, <2>2, <2>3, SMTT(30) DEF CasterInv, TypeOK
<1>10. ASSUME NEW c \in Clients, NEW t \in Tracks \cup {BadTrack}, NEW p \in Paths, RecordNew(c, p, t)
       PROVE  CasterInv'
  <2>1. PICK r \in Sessions :
          /\ obj[r] = "unborn"
          /\ caster' = [caster EXCEPT ![r] = c]
          /\ sock' = [sock EXCEPT ![r] = c]
          /\ setup' = [setup EXCEPT ![r] = {t}]
          /\ pushing' = [pushing EXCEPT ![c] = r]
    BY <1>10 DEF RecordNew, NoRivals
  <2>2. pushing[c] = None /\ Pushers(r) = {}
    BY <1>10, <2>1 DEF RecordNew, RegistryInv, UnbornInv, Users
  <2>3. c \in Pushers(r)' /\ \A q \in Sessions \ {r} : Pushers(q)' = Pushers(q)
    BY <1>0, <2>1, <2>2 DEF Pushers, TypeOK
  <2>4. \A d \in Clients : pushing[d] # r
    BY <2>2 DEF Pushers
  <2> QED
    BY <1>0, <2>1, <2>2, <2>3, <2>4 DEF CasterInv, TypeOK
<1>11. ASSUME NEW c \in Clients, NEW t \in Tracks \cup {BadTrack}, NEW p \in Paths, RecordFound(c, p, t)
       PROVE  CasterInv'
  <2>1. PICK r \in Sessions : r = map[p]
    BY <1>0, <1>11 DEF RecordFound, Found, TypeOK
  <2>2. Pushers(r) = {} /\ t # BadTrack /\ pushing[c] = None
    BY <1>11, <2>1 DEF RecordFound, NoRivals
  <2>3. ~Refused(r, t)
    BY <2>2 DEF Refused, CasterInv
  <2>4. /\ caster' = [caster EXCEPT ![r] = c]
        /\ sock' = [sock EXCEPT ![r] = c]
        /\ setup' = [setup EXCEPT ![r] = @ \cup {t}]
        /\ pushing' = [pushing EXCEPT ![c] = r]
    BY <1>11, <2>1, <2>3 DEF RecordFound
  <2>5. c \in Pushers(r)' /\ \A q \in Sessions \ {r} : Pushers(q)' = Pushers(q)
    BY <1>0, <2>2, <2>4 DEF Pushers, TypeOK
  <2>6. \A d \in Clients : pushing[d] # r
    BY <2>2 DEF Pushers
  <2> QED
    BY <1>0, <2>2, <2>4, <2>5, <2>6 DEF CasterInv, TypeOK
<1>12. ASSUME NEW p \in Paths, Kill(p) PROVE CasterInv'
  BY <1>2, <1>12, CasterKept DEF Kill, sessions
<1>13. ASSUME NEW r \in Sessions, Run(r) PROVE CasterInv'
  BY <1>13, CasterKept DEF Run, sessions, clients
<1>14. CASE UNCHANGED vars
  BY <1>14, CasterKept DEF vars, sessions, clients
<1> QED
  BY <1>1, <1>2, <1>3, <1>4, <1>5, <1>6, <1>7, <1>8, <1>9, <1>10, <1>11, <1>12, <1>13, <1>14
  DEF Next, Close, UseFreed

\* The pointer that packets refresh (fBroadcasterClientSession) and the one that a kill
\* command tears down (fBroadcasterSession) are those of the client that broadcasts.
THEOREM BroadcasterAlwaysKnown ==
    ASSUME NoRivals
    PROVE  Spec => []BroadcasterKnown
<1>1. Init => CasterInv
  BY DEF Init, CasterInv, Pushers
<1>2. CasterInv => BroadcasterKnown
  BY DEF CasterInv, BroadcasterKnown
<1> QED
  BY <1>1, <1>2, InitInv, StepInv, StepCaster, PTL DEF Spec

-----------------------------------------------------------------------------
(* A server that follows no bad pointer.                                   *)

\* Clients do nothing beyond a single clean broadcast.
CleanClients == Env = {}

\* A client session that is closed uses nothing, one that is not has no null attribute,
\* and what its connection passes on goes to the session it broadcasts.
CalmInv ==
    /\ ~down
    /\ \A c \in Clients : waiting[c] = None
    /\ \A c \in Clients : life[c] # "closed" => pushing[c] # Null /\ viewing[c] # Null
    /\ \A c \in Clients : life[c] = "closed" => pushing[c] \notin Sessions /\ viewing[c] \notin Sessions
    /\ \A c \in Clients : pushing[c] \in Sessions => viewing[c] = None
    /\ \A c \in Clients : data[c] \in Sessions /\ life[c] # "closed" => pushing[c] = data[c]

\* Without rivals no step follows a pointer that is bad.
LEMMA NoCrash ==
    ASSUME CleanClients, RegistryInv, CasterInv, CalmInv, Next
    PROVE  ~Crash
<1>1. TypeOK /\ OutsInv /\ down = FALSE
  BY DEF RegistryInv, CalmInv, TypeOK
<1>2. \A r \in Sessions : ~\E d \in outs[r] : Closed(d)
  BY <1>1 DEF OutsInv, CalmInv, Closed, TypeOK
<1>3. \A r \in Sessions : ~Closed(caster[r]) /\ ~Closed(sock[r])
  BY DEF CasterInv, CalmInv, Closed
<1>4. SUFFICES down' = down
  BY <1>1 DEF Crash
<1>5. ASSUME NEW c \in Clients, Teardown(c) \/ Record(c) \/ RecordNull(c) \/ Wake(c) PROVE down' = down
  BY <1>5 DEF Teardown, Record, RecordNull, Wake, MayRecord, Request, CalmInv
<1>6. ASSUME NEW c \in Clients, Close(c) PROVE down' = down
  BY <1>2, <1>6 DEF Close, CloseBroadcaster, CloseViewer
<1>7. ASSUME NEW c \in Clients, NEW p \in Paths,
             Announce(c, p) \/ Describe(c, p) \/ SetupPlay(c, p) \/ BindFails(c, p)
      PROVE  down' = down
  BY <1>7 DEF Announce, Describe, SetupPlay, BindFails, Request, CalmInv, CleanClients, clients
<1>8. ASSUME NEW c \in Clients, NEW t \in Tracks \cup {BadTrack}, RecordNext(c, t) PROVE down' = down
  BY <1>8 DEF RecordNext, CleanClients
<1>9. ASSUME NEW c \in Clients, NEW t \in Tracks \cup {BadTrack}, NEW p \in Paths,
             RecordNew(c, p, t) \/ RecordFound(c, p, t)
      PROVE  down' = down
  BY <1>9 DEF RecordNew, RecordFound
<1>10. ASSUME NEW p \in Paths, Kill(p) PROVE down' = down
  BY <1>1, <1>2, <1>3, <1>10 DEF Kill, TypeOK
<1>11. ASSUME NEW r \in Sessions, Run(r) PROVE down' = down
  BY <1>11 DEF Run
<1>12. ~UseFreed
  <2>1. \A c \in Clients : life[c] # "closed" /\ data[c] \in Sessions => obj[data[c]] # "freed"
    BY DEF CalmInv, RegistryInv, DeletedUnused, Users, Pushers
  <2> QED
    BY <1>3, <2>1 DEF UseFreed
<1> QED
  BY <1>5, <1>6, <1>7, <1>8, <1>9, <1>10, <1>11, <1>12 DEF Next

LEMMA StepCalm ==
    ASSUME CleanClients
    PROVE  RegistryInv /\ CasterInv /\ CalmInv /\ [Next]_vars => CalmInv'
<1> SUFFICES ASSUME RegistryInv, CasterInv, CalmInv, [Next]_vars PROVE CalmInv'
  OBVIOUS
<1>0. TypeOK
  BY DEF RegistryInv
<1>1. CASE UNCHANGED vars
  BY <1>1 DEF CalmInv, vars, clients
<1>2. CASE Next
  <2>0. ~Crash
    BY <1>2, NoCrash
  <2>1. ASSUME NEW c \in Clients, Teardown(c) PROVE CalmInv'
    BY <1>0, <2>1 DEF Teardown, Request, CalmInv, TypeOK
  <2>2. ASSUME NEW c \in Clients, Record(c) PROVE CalmInv'
    BY <1>0, <2>2 DEF Record, Request, CalmInv, TypeOK
  <2>3. ASSUME NEW c \in Clients, RecordNull(c) \/ Wake(c) PROVE CalmInv'
    BY <2>0, <2>3 DEF RecordNull, Wake, CalmInv
  <2>4. ASSUME NEW c \in Clients, Request(c), CloseViewer(c) PROVE CalmInv'
    <3>1. /\ life' = [life EXCEPT ![c] = "closed"] /\ UNCHANGED <<down, waiting, pushing, data>>
          /\ viewing' = [viewing EXCEPT ![c] = IF viewing[c] \in Sessions THEN Null ELSE viewing[c]]
      BY <1>0, <2>4 DEF CloseViewer, TypeOK
    <3> QED
      BY <1>0, <2>4, <3>1 DEF CloseViewer, CalmInv, TypeOK
  <2>5. ASSUME NEW c \in Clients, Request(c), CloseBroadcaster(c) PROVE CalmInv'
    <3>1. /\ pushing[c] \in Sessions
          /\ pushing' = [pushing EXCEPT ![c] = Null]
          /\ UNCHANGED <<down, waiting, viewing, data>>
          /\ \E S : life' = [TornDown(S) EXCEPT ![c] = "closed"]
      BY <2>0, <2>5 DEF CloseBroadcaster
    <3>2. /\ life'[c] = "closed"
          /\ \A d \in Clients \ {c} : life'[d] = "closed" <=> life[d] = "closed"
      BY <1>0, <3>1 DEF TornDown, TypeOK
    <3> QED
      BY <1>0, <3>1, <3>2 DEF CalmInv, TypeOK
  <2>6. ASSUME NEW c \in Clients, NEW p \in Paths, Announce(c, p) PROVE CalmInv'
    BY <2>6 DEF Announce, CalmInv, clients
  <2>7. ASSUME NEW c \in Clients, NEW p \in Paths, Describe(c, p) PROVE CalmInv'
    BY <2>7 DEF Describe, CleanClients
  <2>8. ASSUME NEW c \in Clients, NEW p \in Paths, SetupPlay(c, p) PROVE CalmInv'
    <3>1. /\ Request(c) /\ pushing[c] = None /\ map[p] \in Sessions
          /\ viewing' = [viewing EXCEPT ![c] = map[p]]
          /\ UNCHANGED <<life, pushing, data, waiting, down>>
      BY <1>0, <2>0, <2>8 DEF SetupPlay, CleanClients, Found, TypeOK
    <3> QED
      BY <1>0, <3>1 DEF CalmInv, Request, TypeOK
  <2>9. ASSUME NEW c \in Clients, NEW p \in Paths, BindFails(c, p) PROVE CalmInv'
    BY <2>9 DEF BindFails, CalmInv, clients
  <2>10. ASSUME NEW c \in Clients, NEW t \in Tracks \cup {BadTrack}, RecordNext(c, t) PROVE CalmInv'
    <3>1. UNCHANGED <<life, pushing, viewing, data, waiting, down>>
      BY <2>10 DEF RecordNext, CleanClients
    <3> QED
      BY <3>1 DEF CalmInv
  <2>11. ASSUME NEW c \in Clients, NEW t \in Tracks \cup {BadTrack}, NEW p \in Paths,
                RecordNew(c, p, t) \/ RecordFound(c, p, t)
         PROVE  CalmInv'
    <3>1. /\ Request(c) /\ viewing[c] = None /\ pushing[c] = None
          /\ UNCHANGED <<life, viewing, data, waiting, down>>
      BY <2>11 DEF RecordNew, RecordFound, MayRecord, CleanClients
    <3>2. PICK r \in Sessions : pushing' = [pushing EXCEPT ![c] = r]
      <4>1. CASE RecordNew(c, p, t)
        BY <4>1 DEF RecordNew, CleanClients
      <4>2. CASE RecordFound(c, p, t)
        <5>1. map[p] \in Sessions /\ Pushers(map[p]) = {} /\ t # BadTrack
          BY <1>0, <4>2 DEF RecordFound, Found, CleanClients, TypeOK
        <5>2. ~Refused(map[p], t)
          BY <5>1 DEF Refused, CasterInv
        <5> QED
          BY <4>2, <5>1, <5>2 DEF RecordFound
      <4> QED
        BY <2>11, <4>1, <4>2
    <3>3. data[c] \notin Sessions
      BY <3>1 DEF CalmInv, Request
    <3> QED
      BY <1>0, <3>1, <3>2, <3>3 DEF CalmInv, Request, TypeOK
  <2>12. ASSUME NEW p \in Paths, Kill(p) PROVE CalmInv'
    <3>1. PICK S : life' = TornDown(S) /\ UNCHANGED <<pushing, viewing, data, waiting, down>>
      BY <2>0, <2>12 DEF Kill
    <3>2. \A d \in Clients : life'[d] = "closed" <=> life[d] = "closed"
      BY <1>0, <3>1 DEF TornDown, TypeOK
    <3> QED
      BY <3>1, <3>2 DEF CalmInv
  <2>13. ASSUME NEW r \in Sessions, Run(r) PROVE CalmInv'
    BY <2>13 DEF Run, CalmInv, clients
  <2> QED
    BY <1>2, <2>0, <2>1, <2>2, <2>3, <2>4, <2>5, <2>6, <2>7, <2>8, <2>9, <2>10, <2>11, <2>12, <2>13
    DEF Next, Close, UseFreed
<1> QED
  BY <1>1, <1>2

\* No handler of the module follows a null pointer or one to a deleted session or client.
THEOREM ServerStaysUp ==
    ASSUME CleanClients
    PROVE  Spec => []ServerUp
<1>1. Init => CasterInv /\ CalmInv
  BY DEF Init, CasterInv, CalmInv, Pushers
<1>2. CalmInv => ServerUp
  BY DEF CalmInv, ServerUp
<1>3. NoRivals
  BY DEF NoRivals, CleanClients
<1> QED
  BY <1>1, <1>2, <1>3, InitInv, StepInv, StepCaster, StepCalm, PTL DEF Spec

-----------------------------------------------------------------------------
(* Broadcasts that nobody uses.                                            *)

\* No client that watches sends DESCRIBE again.
NoRedescribe == "redescribe" \notin Env

\* What is in the map has a reference.
CountedInv == \A p \in Paths : map[p] # None => refs[map[p]] > 0

LEMMA CountedKept ==
    ASSUME RegistryInv, CountedInv, \A p \in Paths : map'[p] \in {None, map[p]},
           \A r \in Sessions : refs[r] > 0 => refs'[r] > 0
    PROVE  CountedInv'
<1>1. \A p \in Paths : map'[p] # None => refs'[map'[p]] > 0
  <2> SUFFICES ASSUME NEW p \in Paths, map'[p] # None PROVE refs'[map'[p]] > 0
    OBVIOUS
  <2>1. PICK r \in Sessions : r = map[p] /\ map'[p] = r
    BY DEF RegistryInv, TypeOK
  <2> QED
    BY <2>1 DEF CountedInv
<1> QED
  BY <1>1 DEF CountedInv

\* A session that loses a reference ends with the last one.
LEMMA CountedLess ==
    ASSUME RegistryInv, CountedInv, NEW r \in Sessions,
           \A q \in Sessions \ {r} : refs'[q] = refs[q],
           refs[r] > 1 => refs'[r] > 0,
           (refs[r] <= 1 /\ End(r)) \/ (refs[r] > 1 /\ UNCHANGED map)
    PROVE  CountedInv'
<1>0. TypeOK /\ MapInv
  BY DEF RegistryInv
<1>1. CASE refs[r] <= 1 /\ End(r)
  <2>1. \A p \in Paths : map'[p] \in {None, map[p]} /\ map'[p] # r
    BY <1>0, <1>1 DEF End, TypeOK, MapInv
  <2> QED
    BY <1>0, <2>1 DEF CountedInv, TypeOK
<1>2. CASE refs[r] > 1 /\ UNCHANGED map
  BY <1>0, <1>2 DEF CountedInv, TypeOK
<1> QED
  BY <1>1, <1>2

LEMMA EndShrinks ==
    ASSUME TypeOK, NEW r, End(r), NEW p \in Paths
    PROVE  map'[p] \in {None, map[p]}
BY DEF End, TypeOK

LEMMA StepCounted ==
    ASSUME NoRedescribe
    PROVE  RegistryInv /\ CountedInv /\ [Next]_vars => CountedInv'
<1> SUFFICES ASSUME RegistryInv, CountedInv, [Next]_vars PROVE CountedInv'
  OBVIOUS
<1>0. TypeOK /\ RefsExact
  BY DEF RegistryInv
<1>1. CASE UNCHANGED <<map, refs>>
  BY <1>1 DEF CountedInv
<1>2. ASSUME NEW c \in Clients, Teardown(c) \/ Record(c) \/ RecordNull(c) PROVE UNCHANGED <<map, refs>>
  BY <1>2 DEF Teardown, Record, RecordNull, Crash, index, sessions
<1>3. ASSUME NEW c \in Clients, Wake(c) PROVE CountedInv'
  <2>1. CASE Crash
    BY <1>1, <2>1 DEF Crash, index, sessions
  <2>2. CASE ~Crash
    BY <1>0, <1>3, <2>2, EndShrinks, CountedKept DEF Wake, sessions, TypeOK
  <2> QED
    BY <2>1, <2>2
<1>4. ASSUME NEW c \in Clients, CloseViewer(c) PROVE CountedInv'
  <2>1. CASE viewing[c] \in Sessions
    <3>1. PICK r \in Sessions : r = viewing[c] /\ GiveUp(r)
      BY <1>4, <2>1 DEF CloseViewer
    <3>2. /\ \A q \in Sessions \ {r} : refs'[q] = refs[q]
          /\ refs[r] > 1 => refs'[r] > 0
          /\ (refs[r] <= 1 /\ End(r)) \/ (refs[r] > 1 /\ UNCHANGED map)
      BY <1>0, <3>1 DEF GiveUp, TypeOK
    <3> QED
      BY <3>2, CountedLess
  <2>2. CASE viewing[c] \notin Sessions
    BY <1>1, <1>4, <2>2 DEF CloseViewer, index, sessions
  <2> QED
    BY <2>1, <2>2
<1>5. ASSUME NEW c \in Clients, CloseBroadcaster(c) PROVE CountedInv'
  <2>1. CASE Crash
    BY <1>1, <2>1 DEF Crash, index, sessions
  <2>2. CASE ~Crash
    <3>1. PICK r \in Sessions : r = pushing[c] /\ GiveUp(r)
      BY <1>5, <2>2 DEF CloseBroadcaster
    <3>2. /\ \A q \in Sessions \ {r} : refs'[q] = refs[q]
          /\ refs[r] > 1 => refs'[r] > 0
          /\ (refs[r] <= 1 /\ End(r)) \/ (refs[r] > 1 /\ UNCHANGED map)
      BY <1>0, <3>1 DEF GiveUp, TypeOK
    <3> QED
      BY <3>2, CountedLess
  <2> QED
    BY <2>1, <2>2
<1>6. ASSUME NEW c \in Clients, NEW p \in Paths, Announce(c, p) \/ Describe(c, p) \/ BindFails(c, p)
      PROVE  UNCHANGED <<map, refs>>
  BY <1>6 DEF Announce, Describe, BindFails, NoRedescribe, sessions
<1>7. ASSUME NEW c \in Clients, NEW p \in Paths, SetupPlay(c, p) PROVE CountedInv'
  <2>1. CASE Crash
    BY <1>1, <2>1 DEF Crash, index, sessions
  <2>2. CASE ~Crash
    <3>1. map[p] \in Sessions /\ refs' = [refs EXCEPT ![map[p]] = @ + 1] /\ UNCHANGED map
      BY <1>0, <1>7, <2>2 DEF SetupPlay, Found, index, TypeOK
    <3> QED
      BY <1>0, <3>1, CountedKept DEF TypeOK
  <2> QED
    BY <2>1, <2>2
<1>8. ASSUME NEW c \in Clients, NEW t \in Tracks \cup {BadTrack}, RecordNext(c, t) PROVE CountedInv'
  <2>1. CASE Crash
    BY <1>1, <2>1 DEF Crash, index, sessions
  <2>2. CASE ~Crash /\ Refused(pushing[c], t)
    <3>1. PICK r \in Sessions : r = pushing[c]
      BY <1>8 DEF RecordNext
    <3>2. /\ refs' = [refs EXCEPT ![r] = @ - 1]
          /\ (refs[r] = 1 /\ End(r)) \/ (refs[r] # 1 /\ UNCHANGED map)
      BY <1>8, <2>2, <3>1 DEF RecordNext
    <3>3. c \in Pushers(r)
      BY <3>1 DEF Pushers
    <3>4. refs[r] \in Nat /\ refs[r] >= 1
      BY <1>0, <3>3, PusherLess DEF TypeOK
    <3>5. /\ \A q \in Sessions \ {r} : refs'[q] = refs[q]
          /\ refs[r] > 1 => refs'[r] > 0
          /\ (refs[r] <= 1 /\ End(r)) \/ (refs[r] > 1 /\ UNCHANGED map)
      BY <1>0, <3>2, <3>4 DEF TypeOK
    <3> QED
      BY <3>5, CountedLess
  <2>3. CASE ~Refused(pushing[c], t)
    BY <1>1, <1>8, <2>3 DEF RecordNext, index
  <2> QED
    BY <2>1, <2>2, <2>3
<1>9. ASSUME NEW c \in Clients, NEW t \in Tracks \cup {BadTrack}, NEW p \in Paths, RecordNew(c, p, t)
      PROVE  CountedInv'
  <2>1. CASE t = BadTrack
    BY <1>1, <1>9, <2>1 DEF RecordNew
  <2>2. CASE t # BadTrack
    <3>1. PICK r \in Sessions :
            map' = [map EXCEPT ![p] = r] /\ refs' = [refs EXCEPT ![r] = 1]
      BY <1>9, <2>2 DEF RecordNew
    <3> QED
      BY <1>0, <3>1 DEF CountedInv, TypeOK
  <2> QED
    BY <2>1, <2>2
<1>10. ASSUME NEW c \in Clients, NEW t \in Tracks \cup {BadTrack}, NEW p \in Paths, RecordFound(c, p, t)
       PROVE  CountedInv'
  <2>1. UNCHANGED map
    BY <1>10 DEF RecordFound, index
  <2>2. \A r \in Sessions : refs[r] > 0 => refs'[r] > 0
    <3>1. CASE Refused(map[p], t)
      BY <1>0, <1>10, <3>1 DEF RecordFound, TypeOK
    <3>2. CASE ~Refused(map[p], t)
      BY <1>0, <1>10, <3>2 DEF RecordFound, TypeOK
    <3> QED
      BY <3>1, <3>2
  <2> QED
    BY <2>1, <2>2, CountedKept
<1>11. ASSUME NEW p \in Paths, Kill(p) PROVE CountedInv'
  <2>1. CASE Crash
    BY <1>1, <2>1 DEF Crash, index, sessions
  <2>2. CASE ~Crash
    <3>1. UNCHANGED refs /\ (End(map[p]) \/ UNCHANGED map)
      BY <1>11, <2>2 DEF Kill, sessions
    <3> QED
      BY <1>0, <3>1, EndShrinks, CountedKept DEF TypeOK
  <2> QED
    BY <2>1, <2>2
<1>12. ASSUME NEW r \in Sessions, Run(r) PROVE UNCHANGED <<map, refs>>
  BY <1>12 DEF Run, sessions
<1>13. UseFreed => UNCHANGED <<map, refs>>
  BY DEF UseFreed, Crash, index, sessions
<1>14. CASE UNCHANGED vars
  BY <1>1, <1>14 DEF vars, index, sessions
<1> QED
  BY <1>1, <1>2, <1>3, <1>4, <1>5, <1>6, <1>7, <1>8, <1>9, <1>10, <1>11, <1>12, <1>13, <1>14
  DEF Next, Close

\* A broadcast that nobody uses is not in the map: the handler that gives up the last
\* reference takes it out.  Only the second DESCRIBE of a viewer does not look.
THEOREM BroadcastsAreUsed ==
    ASSUME NoRedescribe
    PROVE  Spec => []NoAbandonedBroadcast
<1>1. Init => CountedInv
  BY DEF Init, CountedInv
<1>2. RegistryInv /\ CountedInv => NoAbandonedBroadcast
  <2> SUFFICES ASSUME RegistryInv, CountedInv, NEW p \in Paths, map[p] # None PROVE Users(map[p]) # {}
    BY DEF NoAbandonedBroadcast
  <2>1. map[p] \in Sessions /\ refs[map[p]] > 0
    BY DEF RegistryInv, TypeOK, CountedInv
  <2>2. ASSUME outs[map[p]] = {}, Pushers(map[p]) = {} PROVE FALSE
    <3>1. refs[map[p]] = Cardinality(outs[map[p]]) + Cardinality(Pushers(map[p]))
      BY <2>1 DEF RegistryInv, RefsExact
    <3>2. Cardinality({}) = 0
      BY FS_EmptySet
    <3> QED
      BY <2>1, <2>2, <3>1, <3>2
  <2> QED
    BY <2>2 DEF Users
<1> QED
  BY <1>1, <1>2, InitInv, StepInv, StepCounted, PTL DEF Spec
=============================================================================
