--------------------------- MODULE Sessions_proofs ---------------------------
(***************************************************************************)
(* Theorems about the sessions of RTSP and RTP, for any number of          *)
(* connections and any finite number of sessions; and about the resender:  *)
(* the types, that a stream keeps a sequence number once, and that the     *)
(* window all streams share is within its bounds and counts what they      *)
(* keep.                                                                   *)
(***************************************************************************)
EXTENDS SessionLifecycle, ResenderWindow, DataLemmas, FiniteSetTheorems, TLAPS

\* A teardown in progress belongs to the thread that is waiting in it.
TearInv ==
    /\ \A r \in RTP : tearing[r] /\ tearBy[r] # None =>
          pc[tearBy[r]] \in {"tearing", "endTearing"} /\ cur[tearBy[r]] = r
    /\ \A r \in RTP : ~tearing[r] => tearBy[r] = None

\* No client names another's session, no reflector thread tears one down, no
\* creation is overtaken by a timeout.
OwnSessions == Env \cap {"foreign", "crossTeardown", "stall"} = {}

\* Then whatever a connection refers to is a session it has created.
HomeInv ==
    /\ \A s \in RTSP : cur[s] # None => home[cur[s]] = s
    /\ \A s \in RTSP : last[s] # None => home[last[s]] = s
    /\ \A r \in RTP : rtsp[r] # None => rtsp[r] = home[r]
    /\ \A r \in RTP : stage[r] = "unborn" => home[r] = None
    /\ \A r \in RTP : tearing[r] => tearBy[r] # None

CreatePcs == {"activate", "list", "resolve"}
HoldPcs   == (RequestPcs \ CreatePcs) \cup {"endTeardown", "endTearing"}

\* A session in use has a positive count, so it stays in the map.
HoldInv ==
    /\ \A r \in RTP : refs[r] >= 0
    /\ \A r \in RTP : stage[r] \in {"unborn", "created"} => ~killed[r]
    /\ \A s \in RTSP : pc[s] \in HoldPcs /\ cur[s] # None =>
          refs[cur[s]] > 0 /\ stage[cur[s]] = "registered"
    /\ \A s \in RTSP : pc[s] \in {"end", "clean", "endRelease"} /\ cur[s] # None => refs[cur[s]] > 0
    /\ \A s \in RTSP : pc[s] \in CreatePcs =>
          /\ ~killed[cur[s]]
          /\ stage[cur[s]] = IF pc[s] = "activate" THEN "created" ELSE "registered"
    /\ \A s \in RTSP : pc[s] \in {"none", "idle", "check", "parked", "dtor", "freed"} => cur[s] = None
    /\ \A s \in RTSP : pc[s] = "bind" => rtsp[cur[s]] = None
    /\ \A s \in RTSP : pc[s] = "count" => rtsp[cur[s]] = s

\* A connection on its way out is held by nobody.
GoneInv == \A s \in RTSP : pc[s] \in {"dtor", "freed"} => holders[s] = 0

LifecycleInv == TypeOK /\ TearInv /\ HomeInv /\ HoldInv /\ HoldersMatch /\ GoneInv

USE ConstantsAssumption DEF Behaviours

LEMMA InitTypes == Init => TypeOK /\ TearInv
BY SMTT(30) DEF Init, TypeOK, TearInv, Pcs, RequestPcs, EndPcs, Stages, NeedsSession

LEMMA DecrementTypes ==
    ASSUME TypeOK, NEW t \in RTSP, NEW x \in RTSP \cup RTP, Decrement(t, x)
    PROVE  holders' \in [RTSP -> Int] /\ owe' \in [RTSP \cup RTP -> RTSP \cup {None}]
BY DEF TypeOK, Decrement

LEMMA TeardownEnterTypes ==
    ASSUME TypeOK, NEW r \in RTP, NEW x \in RTSP \cup {None}, TeardownEnter(r, x)
    PROVE  /\ holders' \in [RTSP -> Int] /\ owe' \in [RTSP \cup RTP -> RTSP \cup {None}]
           /\ tearing' = [tearing EXCEPT ![r] = TRUE]
           /\ tearBy' = [tearBy EXCEPT ![r] = x]
<1>1. rtsp[r] \in RTSP \cup {None}
  BY DEF TypeOK
<1>2. CASE rtsp[r] # None
  BY <1>1, <1>2, DecrementTypes DEF TeardownEnter
<1>3. CASE rtsp[r] = None
  BY <1>3 DEF TeardownEnter, TypeOK
<1> QED
  BY <1>2, <1>3 DEF TeardownEnter

LEMMA PostTypes ==
    ASSUME TypeOK, NEW s \in RTSP, Post(s)
    PROVE  holders' \in [RTSP -> Int] /\ owe' \in [RTSP \cup RTP -> RTSP \cup {None}]
<1>1. \/ cur[s] # None /\ rtsp[cur[s]] # None /\ Decrement(rtsp[cur[s]], s)
      \/ UNCHANGED <<holders, owe>>
  BY DEF Post
<1>2. CASE cur[s] # None /\ rtsp[cur[s]] # None /\ Decrement(rtsp[cur[s]], s)
  <2>1. rtsp[cur[s]] \in RTSP
    BY <1>2 DEF TypeOK
  <2> QED
    BY <1>2, <2>1, DecrementTypes
<1>3. CASE UNCHANGED <<holders, owe>>
  BY <1>3 DEF TypeOK
<1> QED
  BY <1>1, <1>2, <1>3

\* Every step keeps the types, and keeps each teardown with its thread.
LEMMA StepTypes == TypeOK /\ TearInv /\ [Next]_vars => TypeOK' /\ TearInv'
<1> SUFFICES ASSUME TypeOK, TearInv, [Next]_vars PROVE TypeOK' /\ TearInv'
  OBVIOUS
<1> USE DEF TypeOK, TearInv, NeedsSession, Pcs, RequestPcs, EndPcs, Stages,
        connVars, rtpVars, bindVars, tearVars, srvVars
<1>1. ASSUME NEW s \in RTSP, Accept(s) PROVE TypeOK' /\ TearInv'
  BY <1>1 DEF Accept
<1>2. ASSUME NEW s \in RTSP, Disconnect(s) PROVE TypeOK' /\ TearInv'
  BY <1>2 DEF Disconnect
<1>3. ASSUME NEW s \in RTSP, Timeout(s) PROVE TypeOK' /\ TearInv'
  BY <1>3 DEF Timeout
<1>4. ASSUME NEW s \in RTSP, FindSession(s) PROVE TypeOK' /\ TearInv'
  BY <1>4, SMTT(30) DEF FindSession, Resolve, Registered, Names
<1>5. ASSUME NEW s \in RTSP, DataPacket(s) PROVE TypeOK' /\ TearInv'
  BY <1>5 DEF DataPacket, Resolve, Registered, Names
<1>6. ASSUME NEW s \in RTSP, NoticeEvent(s) PROVE TypeOK' /\ TearInv'
  BY <1>6 DEF NoticeEvent
<1>7. ASSUME NEW s \in RTSP, LeaveLoop(s) PROVE TypeOK' /\ TearInv'
  BY <1>7 DEF LeaveLoop
<1>8. ASSUME NEW s \in RTSP, EarlyResponse(s) PROVE TypeOK' /\ TearInv'
  BY <1>8 DEF EarlyResponse
<1>8a. ASSUME NEW s \in RTSP, BadRequest(s) PROVE TypeOK' /\ TearInv'
  BY <1>8a DEF BadRequest
<1>9. ASSUME NEW s \in RTSP, UseSession(s) PROVE TypeOK' /\ TearInv'
  BY <1>9 DEF UseSession
<1>10. ASSUME NEW s \in RTSP, CreateSession(s) PROVE TypeOK' /\ TearInv'
  BY <1>10 DEF CreateSession
<1>11. ASSUME NEW s \in RTSP, RegisterSession(s) PROVE TypeOK' /\ TearInv'
  BY <1>11 DEF RegisterSession
<1>12. ASSUME NEW s \in RTSP, ListSession(s) PROVE TypeOK' /\ TearInv'
  BY <1>12 DEF ListSession
<1>13. ASSUME NEW s \in RTSP, ResolveSession(s) PROVE TypeOK' /\ TearInv'
  BY <1>13 DEF ResolveSession, Resolve, Registered
<1>14. ASSUME NEW s \in RTSP, Serve(s) PROVE TypeOK' /\ TearInv'
  BY <1>14 DEF Serve
<1>15. ASSUME NEW s \in RTSP, PlayRequest(s) PROVE TypeOK' /\ TearInv'
  BY <1>15 DEF PlayRequest
<1>16. ASSUME NEW s \in RTSP, TeardownRequest(s) PROVE TypeOK' /\ TearInv'
  <2>1. TypeOK /\ cur[s] \in RTP
    BY <1>16 DEF TeardownRequest
  <2>2. TeardownEnter(cur[s], s)
    BY <1>16 DEF TeardownRequest
  <2>3. /\ holders' \in [RTSP -> Int] /\ owe' \in [RTSP \cup RTP -> RTSP \cup {None}]
        /\ tearing' = [tearing EXCEPT ![cur[s]] = TRUE]
        /\ tearBy' = [tearBy EXCEPT ![cur[s]] = s]
    BY <2>1, <2>2, TeardownEnterTypes
  <2> QED
    BY <1>16, <2>1, <2>3 DEF TeardownRequest
<1>17. ASSUME NEW s \in RTSP, Post(s) PROVE TypeOK' /\ TearInv'
  <2>1. /\ pc[s] = "post" /\ live' \in [RTSP -> BOOLEAN]
        /\ \/ pc' = [pc EXCEPT ![s] = "bind"] /\ cur[s] # None
           \/ pc' = [pc EXCEPT ![s] = "send"]
        /\ UNCHANGED <<ev, cur, last, lastOn, rtpVars, rtsp, tearVars, srvVars>>
    BY <1>17 DEF Post
  <2>2. holders' \in [RTSP -> Int] /\ owe' \in [RTSP \cup RTP -> RTSP \cup {None}]
    BY <1>17, PostTypes
  <2>3. pc' \in [RTSP -> Pcs] /\ \A t \in RTSP : pc'[t] \in NeedsSession => cur'[t] # None
    BY <2>1
  <2>4. TypeOK'
    BY <2>1, <2>2, <2>3
  <2>5. TearInv'
    BY <2>1
  <2> QED
    BY <2>4, <2>5
<1>18. ASSUME NEW s \in RTSP, BindSession(s) PROVE TypeOK' /\ TearInv'
  BY <1>18 DEF BindSession
<1>19. ASSUME NEW s \in RTSP, CountHolder(s) PROVE TypeOK' /\ TearInv'
  BY <1>19 DEF CountHolder
<1>20. ASSUME NEW s \in RTSP, FinishRequest(s) PROVE TypeOK' /\ TearInv'
  BY <1>20 DEF FinishRequest, ReleaseCurrent, Release
<1>21. ASSUME NEW s \in RTSP, EndResolve(s) PROVE TypeOK' /\ TearInv'
  BY <1>21, SMTT(30) DEF EndResolve, Resolve, Registered
<1>22. ASSUME NEW s \in RTSP, EndTeardown(s) PROVE TypeOK' /\ TearInv'
  <2>1. TypeOK /\ cur[s] \in RTP
    BY <1>22 DEF EndTeardown
  <2>2. TeardownEnter(cur[s], s)
    BY <1>22 DEF EndTeardown
  <2>3. /\ holders' \in [RTSP -> Int] /\ owe' \in [RTSP \cup RTP -> RTSP \cup {None}]
        /\ tearing' = [tearing EXCEPT ![cur[s]] = TRUE]
        /\ tearBy' = [tearBy EXCEPT ![cur[s]] = s]
    BY <2>1, <2>2, TeardownEnterTypes
  <2> QED
    BY <1>22, <2>1, <2>3 DEF EndTeardown
<1>23. ASSUME NEW s \in RTSP, EndTest(s) PROVE TypeOK' /\ TearInv'
  BY <1>23, SMTT(30) DEF EndTest
<1>24. ASSUME NEW s \in RTSP, EndRelease(s) PROVE TypeOK' /\ TearInv'
  BY <1>24 DEF EndRelease, Release
<1>25. ASSUME NEW s \in RTSP, Clean(s) PROVE TypeOK' /\ TearInv'
  BY <1>25 DEF Clean, ReleaseCurrent, Release
<1>26. ASSUME NEW s \in RTSP, CheckHolders(s) PROVE TypeOK' /\ TearInv'
  BY <1>26 DEF CheckHolders
<1>27. ASSUME NEW s \in RTSP, DeleteConnection(s) PROVE TypeOK' /\ TearInv'
  BY <1>27 DEF DeleteConnection
<1>28. ASSUME NEW r \in RTP, Expire(r) PROVE TypeOK' /\ TearInv'
  BY <1>28 DEF Expire
<1>29. ASSUME NEW r \in RTP, CrossTeardown(r) PROVE TypeOK' /\ TearInv'
  BY <1>29, SMTT(30) DEF CrossTeardown, TeardownEnter, Decrement
<1>30. ASSUME NEW r \in RTP, TeardownLeave(r) PROVE TypeOK' /\ TearInv'
  BY <1>30 DEF TeardownLeave
<1>31. ASSUME NEW r \in RTP, Unregister(r) PROVE TypeOK' /\ TearInv'
  BY <1>31 DEF Unregister
<1>32. ASSUME NEW r \in RTP, FinishClosing(r) PROVE TypeOK' /\ TearInv'
  BY <1>32 DEF FinishClosing
<1>33. ASSUME NEW r \in RTP, Unlist(r) PROVE TypeOK' /\ TearInv'
  BY <1>33 DEF Unlist
<1>34. ASSUME NEW r \in RTP, DropHolder(r) PROVE TypeOK' /\ TearInv'
  <2>1. holders' \in [RTSP -> Int] /\ owe' \in [RTSP \cup RTP -> RTSP \cup {None}]
    <3>1. CASE rtsp[r] # None /\ Decrement(rtsp[r], r)
      <4>1. rtsp[r] \in RTSP
        BY <3>1
      <4> QED
        BY <3>1, <4>1, DecrementTypes
    <3>2. CASE UNCHANGED <<holders, owe>>
      BY <3>2
    <3> QED
      BY <1>34, <3>1, <3>2 DEF DropHolder
  <2> QED
    BY <1>34, <2>1 DEF DropHolder
<1>35. ASSUME NEW r \in RTP, FreeSession(r) PROVE TypeOK' /\ TearInv'
  BY <1>35 DEF FreeSession
<1>36. ASSUME NEW x \in RTSP \cup RTP, Wake(x) PROVE TypeOK' /\ TearInv'
  BY <1>36 DEF Wake
<1>37. CASE UNCHANGED vars
  BY <1>37 DEF vars
<1> QED
  BY <1>1, <1>2, <1>3, <1>4, <1>5, <1>6, <1>7, <1>8, <1>8a, <1>9, <1>10, <1>11, <1>12, <1>13, <1>14, <1>15, <1>16, <1>17, <1>18, <1>19, <1>20, <1>21, <1>22, <1>23, <1>24, <1>25, <1>26, <1>27, <1>28, <1>29, <1>30, <1>31, <1>32, <1>33, <1>34, <1>35, <1>36, <1>37
     DEF Next, Connection, RunConnection, Session, RunSession, Terminated

THEOREM TypesCorrect == Spec => []TypeOK
BY InitTypes, StepTypes, PTL DEF Spec

-----------------------------------------------------------------------------
LEMMA StepHome ==
    ASSUME OwnSessions
    PROVE  TypeOK /\ TearInv /\ HomeInv /\ [Next]_vars => HomeInv'
<1> SUFFICES ASSUME TypeOK, TearInv, HomeInv, [Next]_vars PROVE HomeInv'
  OBVIOUS
<1> USE DEF OwnSessions, TypeOK, TearInv, HomeInv, NeedsSession, Pcs, RequestPcs, EndPcs, Stages,
        connVars, rtpVars, bindVars, tearVars, srvVars
<1>1. ASSUME NEW s \in RTSP, Accept(s) PROVE HomeInv'
  BY <1>1 DEF Accept
<1>2. ASSUME NEW s \in RTSP, Disconnect(s) PROVE HomeInv'
  BY <1>2 DEF Disconnect
<1>3. ASSUME NEW s \in RTSP, Timeout(s) PROVE HomeInv'
  BY <1>3 DEF Timeout
<1>4. ASSUME NEW s \in RTSP, FindSession(s) PROVE HomeInv'
  BY <1>4, SMTT(30) DEF FindSession, Resolve, Registered, Names
<1>5. ASSUME NEW s \in RTSP, DataPacket(s) PROVE HomeInv'
  BY <1>5, SMTT(30) DEF DataPacket, Resolve, Registered, Names
<1>6. ASSUME NEW s \in RTSP, NoticeEvent(s) PROVE HomeInv'
  BY <1>6 DEF NoticeEvent
<1>7. ASSUME NEW s \in RTSP, LeaveLoop(s) PROVE HomeInv'
  BY <1>7 DEF LeaveLoop
<1>8. ASSUME NEW s \in RTSP, EarlyResponse(s) PROVE HomeInv'
  BY <1>8 DEF EarlyResponse
<1>8a. ASSUME NEW s \in RTSP, BadRequest(s) PROVE HomeInv'
  BY <1>8a DEF BadRequest
<1>9. ASSUME NEW s \in RTSP, UseSession(s) PROVE HomeInv'
  BY <1>9 DEF UseSession
<1>10. ASSUME NEW s \in RTSP, CreateSession(s) PROVE HomeInv'
  BY <1>10 DEF CreateSession
<1>11. ASSUME NEW s \in RTSP, RegisterSession(s) PROVE HomeInv'
  BY <1>11 DEF RegisterSession
<1>12. ASSUME NEW s \in RTSP, ListSession(s) PROVE HomeInv'
  BY <1>12 DEF ListSession
<1>13. ASSUME NEW s \in RTSP, ResolveSession(s) PROVE HomeInv'
  BY <1>13 DEF ResolveSession, Resolve, Registered
<1>14. ASSUME NEW s \in RTSP, Serve(s) PROVE HomeInv'
  BY <1>14 DEF Serve
<1>15. ASSUME NEW s \in RTSP, PlayRequest(s) PROVE HomeInv'
  BY <1>15 DEF PlayRequest
<1>16. ASSUME NEW s \in RTSP, TeardownRequest(s) PROVE HomeInv'
  BY <1>16 DEF TeardownRequest, TeardownEnter, Decrement
<1>17. ASSUME NEW s \in RTSP, Post(s) PROVE HomeInv'
  BY <1>17 DEF Post, Decrement
<1>18. ASSUME NEW s \in RTSP, BindSession(s) PROVE HomeInv'
  BY <1>18 DEF BindSession
<1>19. ASSUME NEW s \in RTSP, CountHolder(s) PROVE HomeInv'
  BY <1>19 DEF CountHolder
<1>20. ASSUME NEW s \in RTSP, FinishRequest(s) PROVE HomeInv'
  BY <1>20 DEF FinishRequest, ReleaseCurrent, Release
<1>21. ASSUME NEW s \in RTSP, EndResolve(s) PROVE HomeInv'
  BY <1>21, SMTT(30) DEF EndResolve, Resolve, Registered
<1>22. ASSUME NEW s \in RTSP, EndTeardown(s) PROVE HomeInv'
  BY <1>22 DEF EndTeardown, TeardownEnter, Decrement
<1>23. ASSUME NEW s \in RTSP, EndTest(s) PROVE HomeInv'
  BY <1>23 DEF EndTest
<1>24. ASSUME NEW s \in RTSP, EndRelease(s) PROVE HomeInv'
  BY <1>24 DEF EndRelease, Release
<1>25. ASSUME NEW s \in RTSP, Clean(s) PROVE HomeInv'
  BY <1>25 DEF Clean, ReleaseCurrent, Release
<1>26. ASSUME NEW s \in RTSP, CheckHolders(s) PROVE HomeInv'
  BY <1>26 DEF CheckHolders
<1>27. ASSUME NEW s \in RTSP, DeleteConnection(s) PROVE HomeInv'
  BY <1>27 DEF DeleteConnection
<1>28. ASSUME NEW r \in RTP, Expire(r) PROVE HomeInv'
  BY <1>28 DEF Expire
<1>29. ASSUME NEW r \in RTP, CrossTeardown(r) PROVE HomeInv'
  BY <1>29 DEF CrossTeardown, TeardownEnter, Decrement
<1>30. ASSUME NEW r \in RTP, TeardownLeave(r) PROVE HomeInv'
  BY <1>30 DEF TeardownLeave
<1>31. ASSUME NEW r \in RTP, Unregister(r) PROVE HomeInv'
  BY <1>31 DEF Unregister
<1>32. ASSUME NEW r \in RTP, FinishClosing(r) PROVE HomeInv'
  BY <1>32 DEF FinishClosing
<1>33. ASSUME NEW r \in RTP, Unlist(r) PROVE HomeInv'
  BY <1>33 DEF Unlist
<1>34. ASSUME NEW r \in RTP, DropHolder(r) PROVE HomeInv'
  BY <1>34 DEF DropHolder, Decrement
<1>35. ASSUME NEW r \in RTP, FreeSession(r) PROVE HomeInv'
  BY <1>35 DEF FreeSession
<1>36. ASSUME NEW x \in RTSP \cup RTP, Wake(x) PROVE HomeInv'
  BY <1>36 DEF Wake
<1>37. CASE UNCHANGED vars
  BY <1>37, SMTT(30) DEF vars
<1> QED
  BY <1>1, <1>2, <1>3, <1>4, <1>5, <1>6, <1>7, <1>8, <1>8a, <1>9, <1>10, <1>11, <1>12, <1>13, <1>14, <1>15, <1>16, <1>17, <1>18, <1>19, <1>20, <1>21, <1>22, <1>23, <1>24, <1>25, <1>26, <1>27, <1>28, <1>29, <1>30, <1>31, <1>32, <1>33, <1>34, <1>35, <1>36, <1>37
     DEF Next, Connection, RunConnection, Session, RunSession, Terminated

LEMMA StepHold ==
    ASSUME OwnSessions
    PROVE  TypeOK /\ TearInv /\ HomeInv /\ HoldInv /\ [Next]_vars => HoldInv'
<1> SUFFICES ASSUME TypeOK, TearInv, HomeInv, HoldInv, [Next]_vars PROVE HoldInv'
  OBVIOUS
<1> USE DEF OwnSessions, TypeOK, TearInv, HomeInv, HoldInv, HoldPcs, CreatePcs, NeedsSession, Pcs,
        RequestPcs, EndPcs, Stages, connVars, rtpVars, bindVars, tearVars, srvVars
<1>1. ASSUME NEW s \in RTSP, Accept(s) PROVE HoldInv'
  BY <1>1 DEF Accept
<1>2. ASSUME NEW s \in RTSP, Disconnect(s) PROVE HoldInv'
  BY <1>2 DEF Disconnect
<1>3. ASSUME NEW s \in RTSP, Timeout(s) PROVE HoldInv'
  BY <1>3 DEF Timeout
<1>4. ASSUME NEW s \in RTSP, FindSession(s) PROVE HoldInv'
  <2>1. PICK h \in Names(s) \cup {None} :
          LET id == IF h # None THEN h ELSE IF lastOn[s] THEN last[s] ELSE None
          IN IF Registered(id)
             THEN cur' = [cur EXCEPT ![s] = id] /\ Resolve(id)
             ELSE UNCHANGED <<cur, refs>>
    BY <1>4 DEF FindSession
  <2> DEFINE id == IF h # None THEN h ELSE IF lastOn[s] THEN last[s] ELSE None
  <2>2. id # None => id \in RTP /\ home[id] = s
    BY DEF Names
  <2>3. CASE Registered(id)
    <3>1. /\ id \in RTP /\ home[id] = s /\ stage[id] = "registered"
          /\ cur' = [cur EXCEPT ![s] = id]
          /\ refs' = [refs EXCEPT ![id] = @ + 1]
      BY <2>1, <2>2, <2>3 DEF Registered, Resolve
    <3> HIDE DEF id
    <3> QED
      BY <1>4, <3>1 DEF FindSession
  <2>4. CASE ~Registered(id)
    BY <1>4, <2>1, <2>4 DEF FindSession
  <2> QED
    BY <2>3, <2>4
<1>5. ASSUME NEW s \in RTSP, DataPacket(s) PROVE HoldInv'
  <2>1. PICK r \in Names(s) :
          IF Registered(r)
          THEN cur' = [cur EXCEPT ![s] = r] /\ Resolve(r)
          ELSE UNCHANGED <<cur, refs>>
    BY <1>5 DEF DataPacket
  <2>2. r \in RTP /\ home[r] = s
    BY DEF Names
  <2>3. CASE Registered(r)
    <3>1. /\ stage[r] = "registered"
          /\ cur' = [cur EXCEPT ![s] = r]
          /\ refs' = [refs EXCEPT ![r] = @ + 1]
      BY <2>1, <2>3 DEF Registered, Resolve
    <3> QED
      BY <1>5, <2>2, <3>1 DEF DataPacket
  <2>4. CASE ~Registered(r)
    BY <1>5, <2>1, <2>4 DEF DataPacket
  <2> QED
    BY <2>3, <2>4
<1>6. ASSUME NEW s \in RTSP, NoticeEvent(s) PROVE HoldInv'
  BY <1>6 DEF NoticeEvent
<1>7. ASSUME NEW s \in RTSP, LeaveLoop(s) PROVE HoldInv'
  BY <1>7 DEF LeaveLoop
<1>8. ASSUME NEW s \in RTSP, EarlyResponse(s) PROVE HoldInv'
  BY <1>8 DEF EarlyResponse
<1>8a. ASSUME NEW s \in RTSP, BadRequest(s) PROVE HoldInv'
  BY <1>8a DEF BadRequest
<1>9. ASSUME NEW s \in RTSP, UseSession(s) PROVE HoldInv'
  BY <1>9 DEF UseSession
<1>10. ASSUME NEW s \in RTSP, CreateSession(s) PROVE HoldInv'
  BY <1>10 DEF CreateSession
<1>11. ASSUME NEW s \in RTSP, RegisterSession(s) PROVE HoldInv'
  BY <1>11 DEF RegisterSession
<1>12. ASSUME NEW s \in RTSP, ListSession(s) PROVE HoldInv'
  BY <1>12 DEF ListSession
<1>13. ASSUME NEW s \in RTSP, ResolveSession(s) PROVE HoldInv'
  <2>1. CASE Registered(cur[s])
    <3>1. refs' = [refs EXCEPT ![cur[s]] = @ + 1] /\ cur[s] \in RTP
      BY <1>13, <2>1 DEF ResolveSession, Resolve, Registered
    <3> QED
      BY <1>13, <2>1, <3>1, SMTT(30) DEF ResolveSession, Registered
  <2>2. CASE ~Registered(cur[s])
    BY <1>13, <2>2, SMTT(30) DEF ResolveSession, Registered
  <2> QED
    BY <2>1, <2>2
<1>14. ASSUME NEW s \in RTSP, Serve(s) PROVE HoldInv'
  BY <1>14 DEF Serve
<1>15. ASSUME NEW s \in RTSP, PlayRequest(s) PROVE HoldInv'
  BY <1>15 DEF PlayRequest
<1>16. ASSUME NEW s \in RTSP, TeardownRequest(s) PROVE HoldInv'
  BY <1>16 DEF TeardownRequest, TeardownEnter, Decrement
<1>17. ASSUME NEW s \in RTSP, Post(s) PROVE HoldInv'
  BY <1>17 DEF Post, Decrement
<1>18. ASSUME NEW s \in RTSP, BindSession(s) PROVE HoldInv'
  BY <1>18 DEF BindSession
<1>19. ASSUME NEW s \in RTSP, CountHolder(s) PROVE HoldInv'
  BY <1>19 DEF CountHolder
<1>20. ASSUME NEW s \in RTSP, FinishRequest(s) PROVE HoldInv'
  <2>1. CASE cur[s] # None
    <3>1. refs[cur[s]] > 0 /\ \A t \in RTSP \ {s} : cur[t] # cur[s]
      BY <1>20, <2>1 DEF FinishRequest
    <3>2. /\ pc' = [pc EXCEPT ![s] = "idle"]
          /\ cur' = [cur EXCEPT ![s] = None]
          /\ refs' = [refs EXCEPT ![cur[s]] = @ - 1]
          /\ UNCHANGED <<stage, killed, rtsp>>
      BY <1>20, <2>1 DEF FinishRequest, ReleaseCurrent, Release
    <3>3. \A r \in RTP \ {cur[s]} : refs'[r] = refs[r]
      BY <3>2
    <3>4. \A r \in RTP : refs'[r] >= 0
      BY <3>1, <3>2, <3>3
    <3>5. \A t \in RTSP \ {s} :
             /\ pc'[t] = pc[t] /\ cur'[t] = cur[t]
             /\ cur[t] # None => refs'[cur[t]] = refs[cur[t]]
      BY <3>1, <3>2, <3>3
    <3>6. pc'[s] = "idle" /\ cur'[s] = None
      BY <3>2
    <3> QED
      BY <3>2, <3>4, <3>5, <3>6
  <2>2. CASE cur[s] = None
    BY <1>20, <2>2 DEF FinishRequest, ReleaseCurrent
  <2> QED
    BY <2>1, <2>2
<1>21. ASSUME NEW s \in RTSP, EndResolve(s) PROVE HoldInv'
  <2>1. CASE holders[s] # 0 /\ lastOn[s] /\ Registered(last[s])
    <3>1. /\ last[s] \in RTP /\ stage[last[s]] = "registered" /\ home[last[s]] = s
          /\ cur' = [cur EXCEPT ![s] = last[s]]
          /\ refs' = [refs EXCEPT ![last[s]] = @ + 1]
          /\ pc' = [pc EXCEPT ![s] = "endTeardown"]
          /\ UNCHANGED <<stage, killed, rtsp, home>>
      BY <1>21, <2>1 DEF EndResolve, Resolve, Registered
    <3>2. \A t \in RTSP \ {s} : pc'[t] = pc[t] /\ cur'[t] = cur[t]
      BY <3>1
    <3>3. \A r \in RTP : refs'[r] \in Int /\ refs'[r] >= refs[r]
      BY <3>1
    <3>4. pc'[s] = "endTeardown" /\ cur'[s] = last[s] /\ refs'[last[s]] > 0
      BY <3>1
    <3> QED
      BY <3>1, <3>2, <3>3, <3>4
  <2>2. CASE ~(holders[s] # 0 /\ lastOn[s] /\ Registered(last[s]))
    BY <1>21, <2>2 DEF EndResolve
  <2> QED
    BY <2>1, <2>2
<1>22. ASSUME NEW s \in RTSP, EndTeardown(s) PROVE HoldInv'
  BY <1>22 DEF EndTeardown, TeardownEnter, Decrement
<1>23. ASSUME NEW s \in RTSP, EndTest(s) PROVE HoldInv'
  BY <1>23, SMTT(30) DEF EndTest
<1>24. ASSUME NEW s \in RTSP, EndRelease(s) PROVE HoldInv'
  BY <1>24 DEF EndRelease, Release
<1>25. ASSUME NEW s \in RTSP, Clean(s) PROVE HoldInv'
  <2>1. CASE cur[s] # None
    <3>1. refs[cur[s]] > 0 /\ \A t \in RTSP \ {s} : cur[t] # cur[s]
      BY <1>25, <2>1 DEF Clean
    <3>2. /\ pc' = [pc EXCEPT ![s] = "check"]
          /\ cur' = [cur EXCEPT ![s] = None]
          /\ refs' = [refs EXCEPT ![cur[s]] = @ - 1]
          /\ UNCHANGED <<stage, killed, rtsp>>
      BY <1>25, <2>1 DEF Clean, ReleaseCurrent, Release
    <3>3. \A r \in RTP \ {cur[s]} : refs'[r] = refs[r]
      BY <3>2
    <3>4. \A r \in RTP : refs'[r] >= 0
      BY <3>1, <3>2, <3>3
    <3>5. \A t \in RTSP \ {s} :
             /\ pc'[t] = pc[t] /\ cur'[t] = cur[t]
             /\ cur[t] # None => refs'[cur[t]] = refs[cur[t]]
      BY <3>1, <3>2, <3>3
    <3>6. pc'[s] = "check" /\ cur'[s] = None
      BY <3>2
    <3> QED
      BY <3>2, <3>4, <3>5, <3>6
  <2>2. CASE cur[s] = None
    BY <1>25, <2>2 DEF Clean, ReleaseCurrent
  <2> QED
    BY <2>1, <2>2
<1>26. ASSUME NEW s \in RTSP, CheckHolders(s) PROVE HoldInv'
  BY <1>26 DEF CheckHolders
<1>27. ASSUME NEW s \in RTSP, DeleteConnection(s) PROVE HoldInv'
  BY <1>27 DEF DeleteConnection
<1>28. ASSUME NEW r \in RTP, Expire(r) PROVE HoldInv'
  BY <1>28 DEF Expire
<1>29. ASSUME NEW r \in RTP, CrossTeardown(r) PROVE HoldInv'
  BY <1>29 DEF CrossTeardown, TeardownEnter, Decrement
<1>30. ASSUME NEW r \in RTP, TeardownLeave(r) PROVE HoldInv'
  BY <1>30 DEF TeardownLeave
<1>31. ASSUME NEW r \in RTP, Unregister(r) PROVE HoldInv'
  BY <1>31 DEF Unregister
<1>32. ASSUME NEW r \in RTP, FinishClosing(r) PROVE HoldInv'
  BY <1>32 DEF FinishClosing
<1>33. ASSUME NEW r \in RTP, Unlist(r) PROVE HoldInv'
  BY <1>33 DEF Unlist
<1>34. ASSUME NEW r \in RTP, DropHolder(r) PROVE HoldInv'
  BY <1>34 DEF DropHolder, Decrement
<1>35. ASSUME NEW r \in RTP, FreeSession(r) PROVE HoldInv'
  BY <1>35 DEF FreeSession
<1>36. ASSUME NEW x \in RTSP \cup RTP, Wake(x) PROVE HoldInv'
  BY <1>36 DEF Wake
<1>37. CASE UNCHANGED vars
  BY <1>37 DEF vars
<1> QED
  BY <1>1, <1>2, <1>3, <1>4, <1>5, <1>6, <1>7, <1>8, <1>8a, <1>9, <1>10, <1>11, <1>12, <1>13, <1>14, <1>15, <1>16, <1>17, <1>18, <1>19, <1>20, <1>21, <1>22, <1>23, <1>24, <1>25, <1>26, <1>27, <1>28, <1>29, <1>30, <1>31, <1>32, <1>33, <1>34, <1>35, <1>36, <1>37
     DEF Next, Connection, RunConnection, Session, RunSession, Terminated

-----------------------------------------------------------------------------
(* The count of holders is the number of sessions bound to the connection.  *)

LEMMA BoundFinite ==
    ASSUME NEW s \in RTSP
    PROVE  IsFiniteSet(Bound(s)) /\ Cardinality(Bound(s)) \in Nat
<1>1. IsFiniteSet(Bound(s))
  BY FS_Subset DEF Bound
<1> QED
  BY <1>1, FS_CardinalityType

\* A step that binds and unbinds nothing keeps the counts right.
LEMMA BoundUnchanged ==
    ASSUME HoldersMatch, UNCHANGED holders, \A t \in RTSP : Bound(t)' = Bound(t)
    PROVE  HoldersMatch'
BY DEF HoldersMatch

\* A session leaves the set of one connection, whose count goes down by one.
LEMMA BoundLoses ==
    ASSUME TypeOK, HoldersMatch, NEW s \in RTSP, NEW r \in Bound(s),
           holders' = [holders EXCEPT ![s] = @ - 1],
           \A t \in RTSP : Bound(t)' = IF t = s THEN Bound(t) \ {r} ELSE Bound(t)
    PROVE  HoldersMatch' /\ holders[s] # 0
<1>1. Cardinality(Bound(s) \ {r}) = Cardinality(Bound(s)) - 1
  BY BoundFinite, FS_RemoveElement
<1>2. Cardinality(Bound(s)) # 0
  BY BoundFinite, FS_EmptySet
<1> QED
  BY <1>1, <1>2, ZenonT(30) DEF TypeOK, HoldersMatch

\* A session joins the set of one connection, whose count goes up by one.
LEMMA BoundGains ==
    ASSUME TypeOK, HoldersMatch, NEW s \in RTSP, NEW r \in RTP \ Bound(s),
           holders' = [holders EXCEPT ![s] = @ + 1],
           \A t \in RTSP : Bound(t)' = IF t = s THEN Bound(t) \cup {r} ELSE Bound(t)
    PROVE  HoldersMatch'
<1>1. Cardinality(Bound(s) \cup {r}) = Cardinality(Bound(s)) + 1
  BY BoundFinite, FS_AddElement
<1> QED
  BY <1>1, ZenonT(30) DEF TypeOK, HoldersMatch

\* Teardown by the connection that uses the session.
LEMMA TeardownCounts ==
    ASSUME TypeOK, TearInv, HomeInv, HoldInv, HoldersMatch, GoneInv,
           NEW s \in RTSP, TeardownEnter(cur[s], s), cur[s] # None,
           pc[s] \in {"serve", "endTeardown"},
           pc' = [pc EXCEPT ![s] = IF pc[s] = "serve" THEN "tearing" ELSE "endTearing"],
           UNCHANGED <<cur, rtsp, stage>>
    PROVE  HoldersMatch' /\ GoneInv'
<1> DEFINE r == cur[s]
<1>1. /\ r \in RTP /\ ~tearing[r] /\ home[r] = s /\ stage[r] = "registered"
      /\ tearing' = [tearing EXCEPT ![r] = TRUE]
  BY DEF TypeOK, HomeInv, HoldInv, HoldPcs, CreatePcs, RequestPcs, TeardownEnter
<1>2. CASE rtsp[r] = None
  <2>1. UNCHANGED holders
    BY <1>2 DEF TeardownEnter
  <2>2. \A t \in RTSP : Bound(t)' = Bound(t)
    BY <1>1, <1>2 DEF Bound, TypeOK
  <2>3. HoldersMatch'
    BY <2>1, <2>2, BoundUnchanged
  <2> QED
    BY <2>1, <2>3 DEF GoneInv, TypeOK
<1>3. CASE rtsp[r] # None
  <2>1. rtsp[r] = s /\ holders' = [holders EXCEPT ![s] = @ - 1]
    BY <1>1, <1>3 DEF HomeInv, TeardownEnter, Decrement
  <2>2. r \in Bound(s)
    BY <1>1, <2>1 DEF Bound
  <2>3. \A t \in RTSP : Bound(t)' = IF t = s THEN Bound(t) \ {r} ELSE Bound(t)
    BY <1>1, <2>1 DEF Bound, TypeOK
  <2>4. HoldersMatch'
    BY <2>1, <2>2, <2>3, BoundLoses
  <2>5. pc'[s] \notin {"dtor", "freed"} /\ \A t \in RTSP \ {s} : holders'[t] = holders[t] /\ pc'[t] = pc[t]
    BY <2>1 DEF TypeOK
  <2> QED
    BY <2>4, <2>5 DEF GoneInv
<1> QED
  BY <1>2, <1>3

LEMMA StepHolders ==
    ASSUME OwnSessions
    PROVE  TypeOK /\ TearInv /\ HomeInv /\ HoldInv /\ HoldersMatch /\ GoneInv /\ [Next]_vars
             => HoldersMatch' /\ GoneInv'
<1> SUFFICES ASSUME TypeOK, TearInv, HomeInv, HoldInv, HoldersMatch, GoneInv, [Next]_vars
             PROVE  HoldersMatch' /\ GoneInv'
  OBVIOUS
<1> USE DEF connVars, rtpVars, bindVars, tearVars, srvVars
<1>1. ASSUME NEW s \in RTSP, Accept(s) PROVE HoldersMatch' /\ GoneInv'
  <2>1. UNCHANGED holders /\ \A t \in RTSP : Bound(t)' = Bound(t)
    BY <1>1 DEF Accept, Bound, TypeOK
  <2> QED
    BY <1>1, <2>1, BoundUnchanged DEF Accept, GoneInv, TypeOK
<1>2. ASSUME NEW s \in RTSP, Disconnect(s) PROVE HoldersMatch' /\ GoneInv'
  <2>1. UNCHANGED holders /\ \A t \in RTSP : Bound(t)' = Bound(t)
    BY <1>2 DEF Disconnect, Bound, TypeOK
  <2> QED
    BY <1>2, <2>1, BoundUnchanged DEF Disconnect, GoneInv, TypeOK
<1>3. ASSUME NEW s \in RTSP, Timeout(s) PROVE HoldersMatch' /\ GoneInv'
  <2>1. UNCHANGED holders /\ \A t \in RTSP : Bound(t)' = Bound(t)
    BY <1>3 DEF Timeout, Bound, TypeOK
  <2> QED
    BY <1>3, <2>1, BoundUnchanged DEF Timeout, GoneInv, TypeOK
<1>4. ASSUME NEW s \in RTSP, FindSession(s) PROVE HoldersMatch' /\ GoneInv'
  <2>1. UNCHANGED holders /\ \A t \in RTSP : Bound(t)' = Bound(t)
    BY <1>4 DEF FindSession, Resolve, Registered, Names, Bound, TypeOK
  <2> QED
    BY <1>4, <2>1, BoundUnchanged DEF FindSession, Resolve, Registered, Names, GoneInv, TypeOK
<1>5. ASSUME NEW s \in RTSP, DataPacket(s) PROVE HoldersMatch' /\ GoneInv'
  <2>1. UNCHANGED holders /\ \A t \in RTSP : Bound(t)' = Bound(t)
    BY <1>5 DEF DataPacket, Resolve, Registered, Names, Bound, TypeOK
  <2> QED
    BY <1>5, <2>1, BoundUnchanged DEF DataPacket, Resolve, Registered, Names, GoneInv, TypeOK
<1>6. ASSUME NEW s \in RTSP, NoticeEvent(s) PROVE HoldersMatch' /\ GoneInv'
  <2>1. UNCHANGED holders /\ \A t \in RTSP : Bound(t)' = Bound(t)
    BY <1>6 DEF NoticeEvent, Bound, TypeOK
  <2> QED
    BY <1>6, <2>1, BoundUnchanged DEF NoticeEvent, GoneInv, TypeOK
<1>7. ASSUME NEW s \in RTSP, LeaveLoop(s) PROVE HoldersMatch' /\ GoneInv'
  <2>1. UNCHANGED holders /\ \A t \in RTSP : Bound(t)' = Bound(t)
    BY <1>7 DEF LeaveLoop, Bound, TypeOK
  <2> QED
    BY <1>7, <2>1, BoundUnchanged DEF LeaveLoop, GoneInv, TypeOK
<1>8. ASSUME NEW s \in RTSP, EarlyResponse(s) PROVE HoldersMatch' /\ GoneInv'
  <2>1. UNCHANGED holders /\ \A t \in RTSP : Bound(t)' = Bound(t)
    BY <1>8 DEF EarlyResponse, Bound, TypeOK
  <2> QED
    BY <1>8, <2>1, BoundUnchanged DEF EarlyResponse, GoneInv, TypeOK
<1>8a. ASSUME NEW s \in RTSP, BadRequest(s) PROVE HoldersMatch' /\ GoneInv'
  <2>1. UNCHANGED holders /\ \A t \in RTSP : Bound(t)' = Bound(t)
    BY <1>8a DEF BadRequest, Bound, TypeOK
  <2> QED
    BY <1>8a, <2>1, BoundUnchanged DEF BadRequest, GoneInv, TypeOK
<1>9. ASSUME NEW s \in RTSP, UseSession(s) PROVE HoldersMatch' /\ GoneInv'
  <2>1. UNCHANGED holders /\ \A t \in RTSP : Bound(t)' = Bound(t)
    BY <1>9 DEF UseSession, Bound, TypeOK
  <2> QED
    BY <1>9, <2>1, BoundUnchanged DEF UseSession, GoneInv, TypeOK
<1>10. ASSUME NEW s \in RTSP, CreateSession(s) PROVE HoldersMatch' /\ GoneInv'
  <2>1. UNCHANGED holders /\ \A t \in RTSP : Bound(t)' = Bound(t)
    BY <1>10 DEF CreateSession, Bound, TypeOK
  <2> QED
    BY <1>10, <2>1, BoundUnchanged DEF CreateSession, GoneInv, TypeOK
<1>11. ASSUME NEW s \in RTSP, RegisterSession(s) PROVE HoldersMatch' /\ GoneInv'
  <2>1. UNCHANGED holders /\ \A t \in RTSP : Bound(t)' = Bound(t)
    BY <1>11 DEF RegisterSession, Bound, TypeOK, HoldInv, CreatePcs, NeedsSession
  <2> QED
    BY <1>11, <2>1, BoundUnchanged DEF RegisterSession, GoneInv, TypeOK
<1>12. ASSUME NEW s \in RTSP, ListSession(s) PROVE HoldersMatch' /\ GoneInv'
  <2>1. UNCHANGED holders /\ \A t \in RTSP : Bound(t)' = Bound(t)
    BY <1>12 DEF ListSession, Bound, TypeOK
  <2> QED
    BY <1>12, <2>1, BoundUnchanged DEF ListSession, GoneInv, TypeOK
<1>13. ASSUME NEW s \in RTSP, ResolveSession(s) PROVE HoldersMatch' /\ GoneInv'
  <2>1. UNCHANGED holders /\ \A t \in RTSP : Bound(t)' = Bound(t)
    BY <1>13 DEF ResolveSession, Resolve, Registered, Bound, TypeOK
  <2> QED
    BY <1>13, <2>1, BoundUnchanged DEF ResolveSession, Resolve, Registered, GoneInv, TypeOK
<1>14. ASSUME NEW s \in RTSP, Serve(s) PROVE HoldersMatch' /\ GoneInv'
  <2>1. UNCHANGED holders /\ \A t \in RTSP : Bound(t)' = Bound(t)
    BY <1>14 DEF Serve, Bound, TypeOK
  <2> QED
    BY <1>14, <2>1, BoundUnchanged DEF Serve, GoneInv, TypeOK
<1>15. ASSUME NEW s \in RTSP, PlayRequest(s) PROVE HoldersMatch' /\ GoneInv'
  <2>1. UNCHANGED holders /\ \A t \in RTSP : Bound(t)' = Bound(t)
    BY <1>15 DEF PlayRequest, Bound, TypeOK
  <2> QED
    BY <1>15, <2>1, BoundUnchanged DEF PlayRequest, GoneInv, TypeOK
<1>16. ASSUME NEW s \in RTSP, TeardownRequest(s) PROVE HoldersMatch' /\ GoneInv'
  BY <1>16, TeardownCounts DEF TeardownRequest, TypeOK, NeedsSession
<1>17. ASSUME NEW s \in RTSP, Post(s) PROVE HoldersMatch' /\ GoneInv'
  <2>1. UNCHANGED holders
    BY <1>17 DEF Post, HomeInv, TypeOK
  <2>2. \A t \in RTSP : Bound(t)' = Bound(t)
    BY <1>17 DEF Post, Bound, TypeOK
  <2> QED
    BY <1>17, <2>1, <2>2, BoundUnchanged DEF Post, GoneInv, TypeOK
<1>18. ASSUME NEW s \in RTSP, BindSession(s) PROVE HoldersMatch' /\ GoneInv'
  <2>1. rtsp[cur[s]] = None /\ cur[s] \in RTP
    BY <1>18 DEF BindSession, HoldInv, TypeOK, NeedsSession
  <2>2. \A t \in RTSP : Bound(t)' = Bound(t)
    BY <1>18, <2>1 DEF BindSession, Bound, TypeOK
  <2> QED
    BY <1>18, <2>2, BoundUnchanged DEF BindSession, GoneInv, TypeOK
<1>19. ASSUME NEW s \in RTSP, CountHolder(s) PROVE HoldersMatch' /\ GoneInv'
  <2> DEFINE r == cur[s]
  <2>1. r \in RTP \ Bound(s) /\ rtsp[r] = s /\ stage[r] = "registered" /\ ~tearing[r]
    BY <1>19 DEF CountHolder, Bound, TypeOK, NeedsSession, HoldInv, HoldPcs, RequestPcs, CreatePcs,
                 TearInv, HomeInv
  <2>2. \A t \in RTSP : Bound(t)' = IF t = s THEN Bound(t) \cup {r} ELSE Bound(t)
    BY <1>19, <2>1 DEF CountHolder, Bound, TypeOK
  <2>3. HoldersMatch'
    BY <1>19, <2>1, <2>2, BoundGains DEF CountHolder
  <2> QED
    BY <1>19, <2>3 DEF CountHolder, GoneInv, TypeOK
<1>20. ASSUME NEW s \in RTSP, FinishRequest(s) PROVE HoldersMatch' /\ GoneInv'
  <2>1. UNCHANGED holders /\ \A t \in RTSP : Bound(t)' = Bound(t)
    BY <1>20 DEF FinishRequest, ReleaseCurrent, Release, Bound, TypeOK
  <2> QED
    BY <1>20, <2>1, BoundUnchanged DEF FinishRequest, ReleaseCurrent, Release, GoneInv, TypeOK
<1>21. ASSUME NEW s \in RTSP, EndResolve(s) PROVE HoldersMatch' /\ GoneInv'
  <2>1. UNCHANGED holders /\ \A t \in RTSP : Bound(t)' = Bound(t)
    BY <1>21 DEF EndResolve, Resolve, Registered, Bound, TypeOK
  <2> QED
    BY <1>21, <2>1, BoundUnchanged DEF EndResolve, Resolve, Registered, GoneInv, TypeOK
<1>22. ASSUME NEW s \in RTSP, EndTeardown(s) PROVE HoldersMatch' /\ GoneInv'
  BY <1>22, TeardownCounts DEF EndTeardown, TypeOK, NeedsSession
<1>23. ASSUME NEW s \in RTSP, EndTest(s) PROVE HoldersMatch' /\ GoneInv'
  <2>1. UNCHANGED holders /\ \A t \in RTSP : Bound(t)' = Bound(t)
    BY <1>23 DEF EndTest, Bound, TypeOK
  <2> QED
    BY <1>23, <2>1, BoundUnchanged DEF EndTest, GoneInv, TypeOK
<1>24. ASSUME NEW s \in RTSP, EndRelease(s) PROVE HoldersMatch' /\ GoneInv'
  <2>1. UNCHANGED holders /\ \A t \in RTSP : Bound(t)' = Bound(t)
    BY <1>24 DEF EndRelease, Release, Bound, TypeOK
  <2> QED
    BY <1>24, <2>1, BoundUnchanged DEF EndRelease, Release, GoneInv, TypeOK
<1>25. ASSUME NEW s \in RTSP, Clean(s) PROVE HoldersMatch' /\ GoneInv'
  <2>1. UNCHANGED holders /\ \A t \in RTSP : Bound(t)' = Bound(t)
    BY <1>25 DEF Clean, ReleaseCurrent, Release, Bound, TypeOK
  <2> QED
    BY <1>25, <2>1, BoundUnchanged DEF Clean, ReleaseCurrent, Release, GoneInv, TypeOK
<1>26. ASSUME NEW s \in RTSP, CheckHolders(s) PROVE HoldersMatch' /\ GoneInv'
  <2>1. UNCHANGED holders /\ \A t \in RTSP : Bound(t)' = Bound(t)
    BY <1>26 DEF CheckHolders, Bound, TypeOK
  <2> QED
    BY <1>26, <2>1, BoundUnchanged DEF CheckHolders, GoneInv, TypeOK
<1>27. ASSUME NEW s \in RTSP, DeleteConnection(s) PROVE HoldersMatch' /\ GoneInv'
  <2>1. UNCHANGED holders /\ \A t \in RTSP : Bound(t)' = Bound(t)
    BY <1>27 DEF DeleteConnection, Bound, TypeOK
  <2> QED
    BY <1>27, <2>1, BoundUnchanged DEF DeleteConnection, GoneInv, TypeOK
<1>28. ASSUME NEW r \in RTP, Expire(r) PROVE HoldersMatch' /\ GoneInv'
  <2>1. UNCHANGED holders /\ \A t \in RTSP : Bound(t)' = Bound(t)
    BY <1>28 DEF Expire, Bound, TypeOK
  <2> QED
    BY <1>28, <2>1, BoundUnchanged DEF Expire, GoneInv, TypeOK
<1>29. ASSUME NEW r \in RTP, CrossTeardown(r) PROVE HoldersMatch' /\ GoneInv'
  BY <1>29 DEF CrossTeardown, OwnSessions
<1>30. ASSUME NEW r \in RTP, TeardownLeave(r) PROVE HoldersMatch' /\ GoneInv'
  <2>1. UNCHANGED holders /\ \A t \in RTSP : Bound(t)' = Bound(t)
    BY <1>30 DEF TeardownLeave, Bound, TypeOK, TearInv, HomeInv
  <2> QED
    BY <1>30, <2>1, BoundUnchanged DEF TeardownLeave, GoneInv, TypeOK
<1>31. ASSUME NEW r \in RTP, Unregister(r) PROVE HoldersMatch' /\ GoneInv'
  <2>1. UNCHANGED holders /\ \A t \in RTSP : Bound(t)' = Bound(t)
    BY <1>31 DEF Unregister, Bound, TypeOK
  <2> QED
    BY <1>31, <2>1, BoundUnchanged DEF Unregister, GoneInv, TypeOK
<1>32. ASSUME NEW r \in RTP, FinishClosing(r) PROVE HoldersMatch' /\ GoneInv'
  <2>1. UNCHANGED holders /\ \A t \in RTSP : Bound(t)' = Bound(t)
    BY <1>32 DEF FinishClosing, Bound, TypeOK
  <2> QED
    BY <1>32, <2>1, BoundUnchanged DEF FinishClosing, GoneInv, TypeOK
<1>33. ASSUME NEW r \in RTP, Unlist(r) PROVE HoldersMatch' /\ GoneInv'
  <2>1. UNCHANGED holders /\ \A t \in RTSP : Bound(t)' = Bound(t)
    BY <1>33 DEF Unlist, Bound, TypeOK
  <2> QED
    BY <1>33, <2>1, BoundUnchanged DEF Unlist, GoneInv, TypeOK
<1>34. ASSUME NEW r \in RTP, DropHolder(r) PROVE HoldersMatch' /\ GoneInv'
  <2>1. \A t \in RTSP : ~(pc[t] = "count" /\ cur[t] = r)
    BY <1>34 DEF DropHolder, HoldInv, HoldPcs, RequestPcs, CreatePcs, TypeOK
  <2>2. ~tearing[r]
    BY <1>34 DEF DropHolder, HoldInv, HoldPcs, RequestPcs, CreatePcs, TypeOK, TearInv, HomeInv
  <2>3. CASE rtsp[r] = None
    <3>1. UNCHANGED holders /\ \A t \in RTSP : Bound(t)' = Bound(t)
      BY <1>34, <2>3 DEF DropHolder, Bound, TypeOK
    <3> QED
      BY <1>34, <3>1, BoundUnchanged DEF DropHolder, GoneInv
  <2>4. CASE rtsp[r] # None
    <3> DEFINE s == rtsp[r]
    <3>1. s \in RTSP /\ r \in Bound(s)
      BY <1>34, <2>1, <2>2, <2>4 DEF DropHolder, Bound, TypeOK
    <3>2. holders' = [holders EXCEPT ![s] = @ - 1]
      BY <1>34, <2>4 DEF DropHolder, Decrement
    <3>3. \A t \in RTSP : Bound(t)' = IF t = s THEN Bound(t) \ {r} ELSE Bound(t)
      BY <1>34, <3>1 DEF DropHolder, Bound, TypeOK
    <3>4. HoldersMatch' /\ holders[s] # 0
      BY <3>1, <3>2, <3>3, BoundLoses
    <3> QED
      BY <1>34, <3>1, <3>2, <3>4 DEF DropHolder, GoneInv, TypeOK
  <2> QED
    BY <2>3, <2>4
<1>35. ASSUME NEW r \in RTP, FreeSession(r) PROVE HoldersMatch' /\ GoneInv'
  <2>1. UNCHANGED holders /\ \A t \in RTSP : Bound(t)' = Bound(t)
    BY <1>35 DEF FreeSession, Bound, TypeOK
  <2> QED
    BY <1>35, <2>1, BoundUnchanged DEF FreeSession, GoneInv, TypeOK
<1>36. ASSUME NEW x \in RTSP \cup RTP, Wake(x) PROVE HoldersMatch' /\ GoneInv'
  <2>1. UNCHANGED holders /\ \A t \in RTSP : Bound(t)' = Bound(t)
    BY <1>36 DEF Wake, Bound, TypeOK
  <2> QED
    BY <1>36, <2>1, BoundUnchanged DEF Wake, GoneInv, TypeOK
<1>37. CASE UNCHANGED vars
  <2>1. UNCHANGED holders /\ \A t \in RTSP : Bound(t)' = Bound(t)
    BY <1>37 DEF vars, Bound
  <2> QED
    BY <1>37, <2>1, BoundUnchanged DEF vars, GoneInv
<1> QED
  BY <1>1, <1>2, <1>3, <1>4, <1>5, <1>6, <1>7, <1>8, <1>8a, <1>9, <1>10, <1>11, <1>12, <1>13, <1>14, <1>15, <1>16, <1>17, <1>18, <1>19, <1>20, <1>21, <1>22, <1>23, <1>24, <1>25, <1>26, <1>27, <1>28, <1>29, <1>30, <1>31, <1>32, <1>33, <1>34, <1>35, <1>36, <1>37
     DEF Next, Connection, RunConnection, Session, RunSession, Terminated

LEMMA InitLifecycle == Init => LifecycleInv
<1> SUFFICES ASSUME Init PROVE LifecycleInv
  OBVIOUS
<1>1. TypeOK /\ TearInv
  BY InitTypes
<1>2. HomeInv /\ HoldInv /\ GoneInv
  BY DEF Init, HomeInv, HoldInv, GoneInv, HoldPcs, RequestPcs, CreatePcs
<1>3. \A s \in RTSP : Bound(s) = {}
  BY DEF Init, Bound
<1>4. HoldersMatch
  BY <1>3, FS_EmptySet DEF Init, HoldersMatch
<1> QED
  BY <1>1, <1>2, <1>4 DEF LifecycleInv

\* If clients keep to their own sessions, the invariant holds throughout.
LEMMA LifecycleInvariant ==
    ASSUME OwnSessions
    PROVE  Spec => []LifecycleInv
<1>1. LifecycleInv /\ [Next]_vars => LifecycleInv'
  BY StepTypes, StepHome, StepHold, StepHolders DEF LifecycleInv
<1> QED
  BY <1>1, InitLifecycle, PTL DEF Spec

\* A connection that has found its count zero is pointed at by no session.
LEMMA NothingPointsAtTheDying ==
    ASSUME LifecycleInv, NEW r \in RTP, NEW s \in RTSP, rtsp[r] = s, pc[s] \in {"dtor", "freed"}
    PROVE  stage[r] \in {"dropped", "freed"}
<1> SUFFICES ASSUME stage[r] \notin {"dropped", "freed"} PROVE FALSE
  OBVIOUS
<1>1. holders[s] = 0 /\ home[r] = s
  BY DEF LifecycleInv, TypeOK, GoneInv, HomeInv
<1>2. ~tearing[r]
  BY <1>1 DEF LifecycleInv, TypeOK, TearInv, HomeInv
<1>3. r \in Bound(s)
  BY <1>2 DEF Bound
<1>4. Cardinality(Bound(s)) = 0
  BY <1>1 DEF LifecycleInv, HoldersMatch
<1> QED
  BY <1>3, <1>4, BoundFinite, FS_EmptySet

-----------------------------------------------------------------------------
\* The server's client list has the sessions that are between the entry in it
\* and the destructor.
ClientInv ==
    /\ nRTP = Cardinality(clients)
    /\ \A r \in RTP : r \in clients <=>
          /\ stage[r] \in {"registered", "closing", "closed"}
          /\ \A s \in RTSP : cur[s] = r => pc[s] # "list"

LEMMA ClientsUnchanged ==
    TypeOK /\ ClientInv /\ UNCHANGED <<clients, nRTP>>
      /\ (\A r \in RTP : (r \in clients)' <=>
            (/\ stage[r] \in {"registered", "closing", "closed"}
             /\ \A s \in RTSP : cur[s] = r => pc[s] # "list")')
      => ClientInv'
BY SMTT(30) DEF ClientInv

LEMMA StepClients ==
    ASSUME OwnSessions
    PROVE  LifecycleInv /\ ClientInv /\ [Next]_vars => ClientInv'
<1> SUFFICES ASSUME LifecycleInv, ClientInv, [Next]_vars PROVE ClientInv'
  OBVIOUS
<1>0. TypeOK /\ HomeInv /\ HoldInv
  BY DEF LifecycleInv
<1> USE <1>0 DEF OwnSessions, ClientInv, TypeOK, HomeInv, HoldInv, HoldPcs, CreatePcs, NeedsSession, Pcs,
        RequestPcs, EndPcs, Stages, connVars, rtpVars, bindVars, tearVars, srvVars
<1>1. ASSUME NEW s \in RTSP, Accept(s) PROVE ClientInv'
  BY <1>1 DEF Accept
<1>2. ASSUME NEW s \in RTSP, Disconnect(s) PROVE ClientInv'
  BY <1>2 DEF Disconnect
<1>3. ASSUME NEW s \in RTSP, Timeout(s) PROVE ClientInv'
  BY <1>3 DEF Timeout
<1>4. ASSUME NEW s \in RTSP, FindSession(s) PROVE ClientInv'
  BY <1>4, SMTT(30) DEF FindSession, Resolve, Registered, Names
<1>5. ASSUME NEW s \in RTSP, DataPacket(s) PROVE ClientInv'
  BY <1>5, SMTT(30) DEF DataPacket, Resolve, Registered, Names
<1>6. ASSUME NEW s \in RTSP, NoticeEvent(s) PROVE ClientInv'
  BY <1>6 DEF NoticeEvent
<1>7. ASSUME NEW s \in RTSP, LeaveLoop(s) PROVE ClientInv'
  BY <1>7 DEF LeaveLoop
<1>8. ASSUME NEW s \in RTSP, EarlyResponse(s) PROVE ClientInv'
  BY <1>8 DEF EarlyResponse
<1>8a. ASSUME NEW s \in RTSP, BadRequest(s) PROVE ClientInv'
  BY <1>8a DEF BadRequest
<1>9. ASSUME NEW s \in RTSP, UseSession(s) PROVE ClientInv'
  BY <1>9 DEF UseSession
<1>10. ASSUME NEW s \in RTSP, CreateSession(s) PROVE ClientInv'
  <2>1. PICK r \in RTP :
          /\ stage[r] = "unborn"
          /\ stage' = [stage EXCEPT ![r] = "created"]
          /\ cur' = [cur EXCEPT ![s] = r]
    BY <1>10 DEF CreateSession
  <2>2. /\ pc[s] = "found" /\ cur[s] = None /\ pc' = [pc EXCEPT ![s] = "activate"]
        /\ UNCHANGED <<clients, nRTP>>
    BY <1>10 DEF CreateSession
  <2>3. r \notin clients /\ stage'[r] = "created"
    BY <2>1
  <2>4. \A q \in RTP \ {r} : /\ stage'[q] = stage[q]
                             /\ \A t \in RTSP : cur'[t] = q /\ pc'[t] = "list" <=>
                                                cur[t] = q /\ pc[t] = "list"
    BY <2>1, <2>2
  <2> QED
    BY <2>2, <2>3, <2>4
<1>11. ASSUME NEW s \in RTSP, RegisterSession(s) PROVE ClientInv'
  BY <1>11 DEF RegisterSession
<1>12. ASSUME NEW s \in RTSP, ListSession(s) PROVE ClientInv'
  <2>1. cur[s] \in RTP \ clients /\ stage[cur[s]] = "registered"
    BY <1>12 DEF ListSession
  <2>2. IsFiniteSet(clients)
    BY FS_Subset
  <2>3. nRTP' = Cardinality(clients')
    BY <1>12, <2>1, <2>2, FS_AddElement DEF ListSession
  <2>4. \A t \in RTSP \ {s} : cur[t] # cur[s]
    BY <2>1
  <2> QED
    BY <1>12, <2>1, <2>3, <2>4 DEF ListSession
<1>13. ASSUME NEW s \in RTSP, ResolveSession(s) PROVE ClientInv'
  BY <1>13 DEF ResolveSession, Resolve, Registered
<1>14. ASSUME NEW s \in RTSP, Serve(s) PROVE ClientInv'
  BY <1>14 DEF Serve
<1>15. ASSUME NEW s \in RTSP, PlayRequest(s) PROVE ClientInv'
  BY <1>15 DEF PlayRequest
<1>16. ASSUME NEW s \in RTSP, TeardownRequest(s) PROVE ClientInv'
  BY <1>16 DEF TeardownRequest, TeardownEnter, Decrement
<1>17. ASSUME NEW s \in RTSP, Post(s) PROVE ClientInv'
  BY <1>17 DEF Post, Decrement
<1>18. ASSUME NEW s \in RTSP, BindSession(s) PROVE ClientInv'
  BY <1>18 DEF BindSession
<1>19. ASSUME NEW s \in RTSP, CountHolder(s) PROVE ClientInv'
  BY <1>19 DEF CountHolder
<1>20. ASSUME NEW s \in RTSP, FinishRequest(s) PROVE ClientInv'
  BY <1>20, SMTT(30) DEF FinishRequest, ReleaseCurrent, Release
<1>21. ASSUME NEW s \in RTSP, EndResolve(s) PROVE ClientInv'
  BY <1>21, SMTT(30) DEF EndResolve, Resolve, Registered
<1>22. ASSUME NEW s \in RTSP, EndTeardown(s) PROVE ClientInv'
  BY <1>22 DEF EndTeardown, TeardownEnter, Decrement
<1>23. ASSUME NEW s \in RTSP, EndTest(s) PROVE ClientInv'
  BY <1>23, SMTT(30) DEF EndTest
<1>24. ASSUME NEW s \in RTSP, EndRelease(s) PROVE ClientInv'
  BY <1>24 DEF EndRelease, Release
<1>25. ASSUME NEW s \in RTSP, Clean(s) PROVE ClientInv'
  BY <1>25 DEF Clean, ReleaseCurrent, Release
<1>26. ASSUME NEW s \in RTSP, CheckHolders(s) PROVE ClientInv'
  BY <1>26 DEF CheckHolders
<1>27. ASSUME NEW s \in RTSP, DeleteConnection(s) PROVE ClientInv'
  BY <1>27 DEF DeleteConnection
<1>28. ASSUME NEW r \in RTP, Expire(r) PROVE ClientInv'
  BY <1>28 DEF Expire
<1>29. ASSUME NEW r \in RTP, CrossTeardown(r) PROVE ClientInv'
  BY <1>29 DEF CrossTeardown, TeardownEnter, Decrement
<1>30. ASSUME NEW r \in RTP, TeardownLeave(r) PROVE ClientInv'
  <2>1. \A t \in RTSP : pc'[t] = "list" <=> pc[t] = "list"
    BY <1>30 DEF TeardownLeave, LifecycleInv, TearInv
  <2> QED
    BY <1>30, <2>1 DEF TeardownLeave
<1>31. ASSUME NEW r \in RTP, Unregister(r) PROVE ClientInv'
  BY <1>31 DEF Unregister
<1>32. ASSUME NEW r \in RTP, FinishClosing(r) PROVE ClientInv'
  BY <1>32 DEF FinishClosing
<1>33. ASSUME NEW r \in RTP, Unlist(r) PROVE ClientInv'
  <2>1. r \in clients
    BY <1>33 DEF Unlist
  <2>2. IsFiniteSet(clients)
    BY FS_Subset
  <2>3. nRTP' = Cardinality(clients')
    BY <1>33, <2>1, <2>2, FS_RemoveElement DEF Unlist
  <2> QED
    BY <1>33, <2>1, <2>3 DEF Unlist
<1>34. ASSUME NEW r \in RTP, DropHolder(r) PROVE ClientInv'
  BY <1>34 DEF DropHolder, Decrement
<1>35. ASSUME NEW r \in RTP, FreeSession(r) PROVE ClientInv'
  BY <1>35 DEF FreeSession
<1>36. ASSUME NEW x \in RTSP \cup RTP, Wake(x) PROVE ClientInv'
  BY <1>36 DEF Wake
<1>37. CASE UNCHANGED vars
  BY <1>37, SMTT(30) DEF vars
<1> QED
  BY <1>1, <1>2, <1>3, <1>4, <1>5, <1>6, <1>7, <1>8, <1>8a, <1>9, <1>10, <1>11, <1>12, <1>13, <1>14, <1>15, <1>16, <1>17, <1>18, <1>19, <1>20, <1>21, <1>22, <1>23, <1>24, <1>25, <1>26, <1>27, <1>28, <1>29, <1>30, <1>31, <1>32, <1>33, <1>34, <1>35, <1>36, <1>37
     DEF Next, Connection, RunConnection, Session, RunSession, Terminated


-----------------------------------------------------------------------------
\* Every client keeps to one session at a time, and to its own: no behaviour of
\* Env is allowed.
SingleSessions == Env = {}

UsedPcs == RequestPcs \cup {"end", "clean"}

\* A connection has one session in the map at most, and the one count of that
\* session is the connection's.
SingleInv ==
    /\ \A q, r \in RTP :
          /\ home[q] # None /\ home[q] = home[r]
          /\ stage[q] \in {"created", "registered"} /\ stage[r] \in {"created", "registered"}
          => q = r
    /\ \A r \in RTP : stage[r] = "created" =>
          home[r] # None /\ pc[home[r]] = "activate" /\ cur[home[r]] = r
    /\ \A s \in RTSP : pc[s] = "end" /\ cur[s] # None => stage[cur[s]] = "registered"
    /\ \A r \in RTP : (\A s \in RTSP : cur[s] # r) => refs[r] = 0
    /\ \A s \in RTSP : pc[s] \in UsedPcs /\ cur[s] # None =>
          refs[cur[s]] = IF pc[s] \in CreatePcs THEN 0 ELSE 1

LEMMA StepSingle ==
    ASSUME SingleSessions
    PROVE  LifecycleInv /\ SingleInv /\ [Next]_vars => SingleInv'
<1> SUFFICES ASSUME LifecycleInv, SingleInv, [Next]_vars PROVE SingleInv'
  OBVIOUS
<1>0. TypeOK /\ TearInv /\ HomeInv /\ HoldInv
  BY DEF LifecycleInv
<1> USE <1>0 DEF SingleSessions, SingleInv, UsedPcs, TypeOK, TearInv, HomeInv, HoldInv, HoldPcs, CreatePcs,
        NeedsSession, Pcs, RequestPcs, EndPcs, Stages, connVars, rtpVars, bindVars, tearVars, srvVars
<1>1. ASSUME NEW s \in RTSP, Accept(s) PROVE SingleInv'
  BY <1>1 DEF Accept
<1>2. ASSUME NEW s \in RTSP, Disconnect(s) PROVE SingleInv'
  BY <1>2 DEF Disconnect
<1>3. ASSUME NEW s \in RTSP, Timeout(s) PROVE SingleInv'
  BY <1>3 DEF Timeout
<1>4. ASSUME NEW s \in RTSP, FindSession(s) PROVE SingleInv'
  <2>1. PICK h \in Names(s) \cup {None} :
          LET id == IF h # None THEN h ELSE IF lastOn[s] THEN last[s] ELSE None
          IN IF Registered(id)
             THEN cur' = [cur EXCEPT ![s] = id] /\ Resolve(id)
             ELSE UNCHANGED <<cur, refs>>
    BY <1>4 DEF FindSession
  <2> DEFINE id == IF h # None THEN h ELSE IF lastOn[s] THEN last[s] ELSE None
  <2>2. id # None => id \in RTP /\ home[id] = s
    BY DEF Names
  <2>3. CASE Registered(id)
    <3>1. /\ id \in RTP /\ home[id] = s /\ stage[id] = "registered"
          /\ cur' = [cur EXCEPT ![s] = id]
          /\ refs' = [refs EXCEPT ![id] = @ + 1]
      BY <2>1, <2>2, <2>3 DEF Registered, Resolve
    <3> HIDE DEF id
    <3>2. cur[s] = None
      BY <1>4 DEF FindSession
    <3>3. \A t \in RTSP : cur[t] # id
      BY <3>1, <3>2
    <3> QED
      BY <1>4, <3>1, <3>2, <3>3 DEF FindSession
  <2>4. CASE ~Registered(id)
    BY <1>4, <2>1, <2>4 DEF FindSession
  <2> QED
    BY <2>3, <2>4
<1>5. ASSUME NEW s \in RTSP, DataPacket(s) PROVE SingleInv'
  <2>1. PICK r \in Names(s) :
         IF Registered(r)
         THEN cur' = [cur EXCEPT ![s] = r] /\ Resolve(r)
         ELSE UNCHANGED <<cur, refs>>
    BY <1>5 DEF DataPacket
  <2>2. r \in RTP /\ home[r] = s /\ cur[s] = None
    BY <1>5 DEF Names, DataPacket
  <2>3. CASE Registered(r)
    <3>1. \A t \in RTSP : cur[t] # r
      BY <2>2
    <3> QED
      BY <1>5, <2>1, <2>2, <2>3, <3>1 DEF DataPacket, Registered, Resolve
  <2>4. CASE ~Registered(r)
    BY <1>5, <2>1, <2>4 DEF DataPacket
  <2> QED
    BY <2>3, <2>4
<1>6. ASSUME NEW s \in RTSP, NoticeEvent(s) PROVE SingleInv'
  BY <1>6 DEF NoticeEvent
<1>7. ASSUME NEW s \in RTSP, LeaveLoop(s) PROVE SingleInv'
  BY <1>7 DEF LeaveLoop
<1>8. ASSUME NEW s \in RTSP, EarlyResponse(s) PROVE SingleInv'
  BY <1>8 DEF EarlyResponse
<1>8a. ASSUME NEW s \in RTSP, BadRequest(s) PROVE SingleInv'
  BY <1>8a DEF BadRequest
<1>9. ASSUME NEW s \in RTSP, UseSession(s) PROVE SingleInv'
  BY <1>9 DEF UseSession
<1>10. ASSUME NEW s \in RTSP, CreateSession(s) PROVE SingleInv'
  BY <1>10 DEF CreateSession
<1>11. ASSUME NEW s \in RTSP, RegisterSession(s) PROVE SingleInv'
  BY <1>11 DEF RegisterSession
<1>12. ASSUME NEW s \in RTSP, ListSession(s) PROVE SingleInv'
  BY <1>12 DEF ListSession
<1>13. ASSUME NEW s \in RTSP, ResolveSession(s) PROVE SingleInv'
  BY <1>13 DEF ResolveSession, Resolve, Registered
<1>14. ASSUME NEW s \in RTSP, Serve(s) PROVE SingleInv'
  BY <1>14 DEF Serve
<1>15. ASSUME NEW s \in RTSP, PlayRequest(s) PROVE SingleInv'
  BY <1>15 DEF PlayRequest
<1>16. ASSUME NEW s \in RTSP, TeardownRequest(s) PROVE SingleInv'
  BY <1>16 DEF TeardownRequest, TeardownEnter, Decrement
<1>17. ASSUME NEW s \in RTSP, Post(s) PROVE SingleInv'
  BY <1>17, SMTT(30) DEF Post, Decrement
<1>18. ASSUME NEW s \in RTSP, BindSession(s) PROVE SingleInv'
  BY <1>18 DEF BindSession
<1>19. ASSUME NEW s \in RTSP, CountHolder(s) PROVE SingleInv'
  BY <1>19 DEF CountHolder
<1>20. ASSUME NEW s \in RTSP, FinishRequest(s) PROVE SingleInv'
  <2>1. CASE cur[s] # None
    <3>1. refs[cur[s]] = 1 /\ \A t \in RTSP \ {s} : cur[t] # cur[s]
      BY <1>20, <2>1, SMTT(30) DEF FinishRequest
    <3>2. /\ pc' = [pc EXCEPT ![s] = "idle"]
          /\ cur' = [cur EXCEPT ![s] = None]
          /\ refs' = [refs EXCEPT ![cur[s]] = @ - 1]
          /\ UNCHANGED <<stage, home>>
      BY <1>20, <2>1 DEF FinishRequest, ReleaseCurrent, Release
    <3>3. \A t \in RTSP \ {s} :
             /\ pc'[t] = pc[t] /\ cur'[t] = cur[t]
             /\ cur[t] # None => refs'[cur[t]] = refs[cur[t]]
      BY <3>1, <3>2
    <3>4. pc'[s] = "idle" /\ cur'[s] = None /\ refs'[cur[s]] = 0
      BY <3>1, <3>2, <2>1
    <3>5. \A r \in RTP : (\A t \in RTSP : cur'[t] # r) => refs'[r] = 0
      <4> SUFFICES ASSUME NEW r \in RTP, \A t \in RTSP : cur'[t] # r, r # cur[s] PROVE refs'[r] = 0
        BY <3>4
      <4>1. \A t \in RTSP : cur[t] # r
        BY <3>3
      <4> QED
        BY <4>1, <3>2
    <3>6. \A r \in RTP : stage[r] = "created" =>
             home'[r] # None /\ pc'[home'[r]] = "activate" /\ cur'[home'[r]] = r
      BY <1>20, <3>2, <3>3 DEF FinishRequest
    <3> QED
      BY <3>2, <3>3, <3>4, <3>5, <3>6
  <2>2. CASE cur[s] = None
    BY <1>20, <2>2 DEF FinishRequest, ReleaseCurrent
  <2> QED
    BY <2>1, <2>2
<1>21. ASSUME NEW s \in RTSP, EndResolve(s) PROVE SingleInv'
  <2>1. CASE holders[s] # 0 /\ lastOn[s] /\ Registered(last[s])
    <3> DEFINE r == last[s]
    <3>1. /\ r \in RTP /\ home[r] = s /\ stage[r] = "registered"
          /\ cur[s] # None => cur[s] = r
      BY <1>21, <2>1 DEF EndResolve, Registered
    <3>2. /\ pc' = [pc EXCEPT ![s] = "endTeardown"]
          /\ cur' = [cur EXCEPT ![s] = r]
          /\ refs' = [refs EXCEPT ![r] = @ + 1]
          /\ UNCHANGED <<stage, home>>
      BY <1>21, <2>1 DEF EndResolve, Resolve
    <3> HIDE DEF r
    <3>3. \A t \in RTSP \ {s} : pc'[t] = pc[t] /\ cur'[t] = cur[t] /\ cur[t] # r
      BY <3>1, <3>2
    <3>4. \A q \in RTP \ {r} : refs'[q] = refs[q] /\ cur[s] # q
      BY <3>1, <3>2
    <3>5. \A q \in RTP : (\A t \in RTSP : cur'[t] # q) => refs'[q] = 0
      BY <3>1, <3>2, <3>3, <3>4
    <3>6. \A q \in RTP : stage[q] = "created" =>
             home[q] # None /\ pc'[home[q]] = "activate" /\ cur'[home[q]] = q
      BY <1>21, <3>1, <3>2, <3>3 DEF EndResolve
    <3>7. pc'[s] = "endTeardown"
      BY <3>2
    <3>8. \A t \in RTSP : pc'[t] \in UsedPcs /\ cur'[t] # None =>
            refs'[cur'[t]] = IF pc'[t] \in CreatePcs THEN 0 ELSE 1
      BY <3>3, <3>4, <3>7
    <3>9. \A t \in RTSP : pc'[t] = "end" /\ cur'[t] # None => stage'[cur'[t]] = "registered"
      BY <3>2, <3>3, <3>7
    <3> QED
      BY <3>2, <3>5, <3>6, <3>8, <3>9
  <2>2. CASE ~(holders[s] # 0 /\ lastOn[s] /\ Registered(last[s]))
    <3>1. pc' = [pc EXCEPT ![s] = "clean"] /\ UNCHANGED <<cur, refs, stage, home>>
      BY <1>21, <2>2 DEF EndResolve
    <3> QED
      BY <1>21, <3>1 DEF EndResolve
  <2> QED
    BY <2>1, <2>2
<1>22. ASSUME NEW s \in RTSP, EndTeardown(s) PROVE SingleInv'
  BY <1>22 DEF EndTeardown, TeardownEnter, Decrement
<1>23. ASSUME NEW s \in RTSP, EndTest(s) PROVE SingleInv'
  BY <1>23, SMTT(30) DEF EndTest
<1>24. ASSUME NEW s \in RTSP, EndRelease(s) PROVE SingleInv'
  BY <1>24 DEF EndRelease, Release
<1>25. ASSUME NEW s \in RTSP, Clean(s) PROVE SingleInv'
  <2>1. CASE cur[s] # None
    <3>1. refs[cur[s]] = 1 /\ \A t \in RTSP \ {s} : cur[t] # cur[s]
      BY <1>25, <2>1 DEF Clean
    <3>2. /\ pc' = [pc EXCEPT ![s] = "check"]
          /\ cur' = [cur EXCEPT ![s] = None]
          /\ refs' = [refs EXCEPT ![cur[s]] = @ - 1]
          /\ UNCHANGED <<stage, home>>
      BY <1>25, <2>1 DEF Clean, ReleaseCurrent, Release
    <3>3. \A t \in RTSP \ {s} :
             /\ pc'[t] = pc[t] /\ cur'[t] = cur[t]
             /\ cur[t] # None => refs'[cur[t]] = refs[cur[t]]
      BY <3>1, <3>2
    <3>4. pc'[s] = "check" /\ cur'[s] = None /\ refs'[cur[s]] = 0
      BY <3>1, <3>2, <2>1
    <3>5. \A r \in RTP : (\A t \in RTSP : cur'[t] # r) => refs'[r] = 0
      <4> SUFFICES ASSUME NEW r \in RTP, \A t \in RTSP : cur'[t] # r, r # cur[s] PROVE refs'[r] = 0
        BY <3>4
      <4>1. \A t \in RTSP : cur[t] # r
        BY <3>3
      <4> QED
        BY <4>1, <3>2
    <3>6. \A r \in RTP : stage[r] = "created" =>
             home'[r] # None /\ pc'[home'[r]] = "activate" /\ cur'[home'[r]] = r
      BY <1>25, <3>2, <3>3 DEF Clean
    <3> QED
      BY <3>2, <3>3, <3>4, <3>5, <3>6
  <2>2. CASE cur[s] = None
    BY <1>25, <2>2 DEF Clean, ReleaseCurrent
  <2> QED
    BY <2>1, <2>2
<1>26. ASSUME NEW s \in RTSP, CheckHolders(s) PROVE SingleInv'
  BY <1>26 DEF CheckHolders
<1>27. ASSUME NEW s \in RTSP, DeleteConnection(s) PROVE SingleInv'
  BY <1>27 DEF DeleteConnection
<1>28. ASSUME NEW r \in RTP, Expire(r) PROVE SingleInv'
  BY <1>28 DEF Expire
<1>29. ASSUME NEW r \in RTP, CrossTeardown(r) PROVE SingleInv'
  BY <1>29 DEF CrossTeardown, TeardownEnter, Decrement
<1>30. ASSUME NEW r \in RTP, TeardownLeave(r) PROVE SingleInv'
  BY <1>30 DEF TeardownLeave
<1>31. ASSUME NEW r \in RTP, Unregister(r) PROVE SingleInv'
  BY <1>31 DEF Unregister
<1>32. ASSUME NEW r \in RTP, FinishClosing(r) PROVE SingleInv'
  BY <1>32 DEF FinishClosing
<1>33. ASSUME NEW r \in RTP, Unlist(r) PROVE SingleInv'
  BY <1>33 DEF Unlist
<1>34. ASSUME NEW r \in RTP, DropHolder(r) PROVE SingleInv'
  BY <1>34 DEF DropHolder, Decrement
<1>35. ASSUME NEW r \in RTP, FreeSession(r) PROVE SingleInv'
  BY <1>35 DEF FreeSession
<1>36. ASSUME NEW x \in RTSP \cup RTP, Wake(x) PROVE SingleInv'
  BY <1>36 DEF Wake
<1>37. CASE UNCHANGED vars
  BY <1>37 DEF vars
<1> QED
  BY <1>1, <1>2, <1>3, <1>4, <1>5, <1>6, <1>7, <1>8, <1>8a, <1>9, <1>10, <1>11, <1>12, <1>13, <1>14, <1>15, <1>16, <1>17, <1>18, <1>19, <1>20, <1>21, <1>22, <1>23, <1>24, <1>25, <1>26, <1>27, <1>28, <1>29, <1>30, <1>31, <1>32, <1>33, <1>34, <1>35, <1>36, <1>37
     DEF Next, Connection, RunConnection, Session, RunSession, Terminated


-----------------------------------------------------------------------------
(* SessionLease, step by step.                                             *)

Seen == Lease!LeaseNext \/ UNCHANGED Lease!leaseVars

LEMMA SameObjects == UNCHANGED stage => UNCHANGED Objects
BY DEF Objects, ObjectState

LEMMA SamePointers == UNCHANGED <<stage, rtsp>> => UNCHANGED Pointers
BY DEF Pointers

LEMMA SameDeleted == (\A t \in RTSP : pc'[t] = "freed" <=> pc[t] = "freed") => UNCHANGED DeletedConnections
BY DEF DeletedConnections

LEMMA SameLeases ==
    (\A t \in RTSP, r \in RTP : Leasing(t, r)' <=> Leasing(t, r)) => UNCHANGED Leases
BY DEF Leases

\* Where a connection stands, when only that tells whether it leases a session.
PlainPcs == Pcs \ (CreatePcs \cup {"endTest", "endRelease", "freed"})

\* A step of one connection that is not one of SessionLease.
LEMMA PlainStep ==
    ASSUME NEW s \in RTSP, TypeOK, UNCHANGED <<stage, rtsp, cur, refs>>,
           pc[s] \in PlainPcs, pc'[s] \in PlainPcs, \A t \in RTSP \ {s} : pc'[t] = pc[t]
    PROVE  Seen
<1>1. \A t \in RTSP : pc'[t] = "freed" <=> pc[t] = "freed"
  BY DEF PlainPcs
<1>2. \A t \in RTSP, r \in RTP : Leasing(t, r)' <=> Leasing(t, r)
  BY DEF PlainPcs, CreatePcs, Leasing
<1> QED
  BY <1>1, <1>2, SameObjects, SamePointers, SameDeleted, SameLeases DEF Seen, Lease!leaseVars

\* A connection takes a reference to a session in the map.
LEMMA AcquireStep ==
    ASSUME NEW s \in RTSP, NEW r \in RTP, TypeOK, UNCHANGED <<stage, rtsp>>,
           stage[r] = "registered", pc[s] # "freed",
           \A t \in RTSP : pc'[t] = "freed" <=> pc[t] = "freed",
           ~Leasing(s, r), Leasing(s, r)',
           \A t \in RTSP, q \in RTP : t # s \/ q # r => (Leasing(t, q)' <=> Leasing(t, q))
    PROVE  Seen
<1>1. UNCHANGED <<Objects, Pointers, DeletedConnections>>
  BY SameObjects, SamePointers, SameDeleted
<1>2. Objects[r] = "present" /\ s \notin DeletedConnections \cup Leases[r]
  BY DEF Objects, ObjectState, DeletedConnections, Leases
<1>3. Leases' = [Leases EXCEPT ![r] = @ \cup {s}]
  BY ZenonT(30) DEF Leases
<1>4. Lease!Acquire(s, r)
  BY <1>1, <1>2, <1>3 DEF Lease!Acquire
<1> QED
  BY <1>4 DEF Seen, Lease!LeaseNext

\* A connection gives a reference back.
LEMMA GiveBackStep ==
    ASSUME NEW s \in RTSP, NEW r \in RTP, TypeOK, UNCHANGED <<stage, rtsp>>,
           \A t \in RTSP : pc'[t] = "freed" <=> pc[t] = "freed",
           Leasing(s, r), ~Leasing(s, r)',
           \A t \in RTSP, q \in RTP : t # s \/ q # r => (Leasing(t, q)' <=> Leasing(t, q))
    PROVE  Seen
<1>1. UNCHANGED <<Objects, Pointers, DeletedConnections>>
  BY SameObjects, SamePointers, SameDeleted
<1>2. s \in Leases[r]
  BY DEF Leases
<1>3. Leases' = [Leases EXCEPT ![r] = @ \ {s}]
  BY ZenonT(30) DEF Leases
<1>4. Lease!GiveBack(s, r)
  BY <1>1, <1>2, <1>3 DEF Lease!GiveBack
<1> QED
  BY <1>4 DEF Seen, Lease!LeaseNext

\* A session stops pointing at a connection, or has pointed at none.
LEMMA UnpointStep ==
    ASSUME NEW r \in RTP, UNCHANGED <<Objects, Leases, DeletedConnections>>,
           Pointers' = [Pointers EXCEPT ![r] = None]
    PROVE  Seen
<1>1. CASE Pointers[r] # None
  <2>1. Lease!Unpoint(r)
    BY <1>1 DEF Lease!Unpoint
  <2> QED
    BY <2>1 DEF Seen, Lease!LeaseNext
<1>2. CASE Pointers[r] = None
  <2>1. UNCHANGED Pointers
    BY <1>2 DEF Pointers
  <2> QED
    BY <2>1 DEF Seen, Lease!leaseVars
<1> QED
  BY <1>1, <1>2

\* CleanupRequest of a connection that uses a session, or of one that does not.
LEMMA ReleaseStep ==
    ASSUME NEW s \in RTSP, TypeOK, HomeInv, HoldInv, ReleaseCurrent(s), UNCHANGED <<stage, rtsp>>,
           pc[s] \in {"send", "clean"}, pc'[s] \in {"idle", "check"},
           \A t \in RTSP \ {s} : pc'[t] = pc[t]
    PROVE  Seen
<1>1. \A t \in RTSP : pc'[t] = "freed" <=> pc[t] = "freed"
  OBVIOUS
<1>2. cur'[s] = None /\ \A t \in RTSP \ {s} : cur'[t] = cur[t]
  BY DEF ReleaseCurrent, TypeOK
<1>3. CASE cur[s] # None
  <2>0. PICK r \in RTP : cur[s] = r
    BY <1>3 DEF TypeOK
  <2>1. r # None /\ \A t \in RTSP \ {s} : cur[t] # r
    BY <1>3, <2>0 DEF HomeInv
  <2>2. \A q \in RTP \ {r} : refs'[q] = refs[q]
    BY <1>3, <2>0 DEF ReleaseCurrent, Release, TypeOK
  <2>3. Leasing(s, r) /\ ~Leasing(s, r)'
    BY <1>2, <2>0, <2>1 DEF Leasing
  <2>4. \A t \in RTSP, q \in RTP : t # s \/ q # r => (Leasing(t, q)' <=> Leasing(t, q))
    BY <1>2, <2>0, <2>1, <2>2 DEF Leasing
  <2> QED
    BY <1>1, <2>1, <2>3, <2>4, GiveBackStep
<1>4. CASE cur[s] = None
  <2>1. UNCHANGED <<cur, refs>>
    BY <1>4 DEF ReleaseCurrent, TypeOK
  <2> QED
    BY <2>1, PlainStep DEF PlainPcs, Pcs, RequestPcs, EndPcs, CreatePcs
<1> QED
  BY <1>3, <1>4

LEMMA StepSeen ==
    ASSUME SingleSessions
    PROVE  LifecycleInv /\ SingleInv /\ [Next]_vars => [Lease!LeaseNext]_(Lease!leaseVars)
<1> SUFFICES ASSUME LifecycleInv, SingleInv, [Next]_vars PROVE Seen
  BY DEF Seen
<1>0. TypeOK /\ TearInv /\ HomeInv /\ HoldInv
  BY DEF LifecycleInv
<1> USE <1>0 DEF connVars, rtpVars, bindVars, tearVars, srvVars
<1>1. ASSUME NEW s \in RTSP, Accept(s) PROVE Seen
  BY <1>1, PlainStep DEF Accept, PlainPcs, Pcs, RequestPcs, EndPcs, CreatePcs, TypeOK
<1>2. ASSUME NEW s \in RTSP, Disconnect(s) PROVE Seen
  BY <1>2, SameObjects, SamePointers, SameDeleted, SameLeases DEF Disconnect, Leasing, Seen, Lease!leaseVars
<1>3. ASSUME NEW s \in RTSP, Timeout(s) PROVE Seen
  BY <1>3, SameObjects, SamePointers, SameDeleted, SameLeases DEF Timeout, Leasing, Seen, Lease!leaseVars
<1>4. ASSUME NEW s \in RTSP, FindSession(s) PROVE Seen
  <2>1. PICK h \in Names(s) \cup {None} :
          LET id == IF h # None THEN h ELSE IF lastOn[s] THEN last[s] ELSE None
          IN IF Registered(id)
             THEN cur' = [cur EXCEPT ![s] = id] /\ Resolve(id)
             ELSE UNCHANGED <<cur, refs>>
    BY <1>4 DEF FindSession
  <2> DEFINE id == IF h # None THEN h ELSE IF lastOn[s] THEN last[s] ELSE None
  <2>3. CASE Registered(id)
    <3>0. PICK r \in RTP : r = id /\ home[r] = s /\ stage[r] = "registered"
      BY <2>3 DEF Registered, Names, SingleSessions, TypeOK, HomeInv
    <3>1. cur[s] = None /\ \A t \in RTSP : cur[t] # r
      BY <1>4, <3>0 DEF FindSession, HomeInv, HoldInv
    <3>2. /\ cur' = [cur EXCEPT ![s] = r] /\ pc' = [pc EXCEPT ![s] = "found"]
          /\ refs' = [refs EXCEPT ![r] = @ + 1] /\ UNCHANGED <<stage, rtsp>>
      BY <1>4, <2>1, <2>3, <3>0 DEF FindSession, Resolve
    <3> HIDE DEF id
    <3>3. ~Leasing(s, r) /\ Leasing(s, r)'
      BY <3>1, <3>2, <3>0 DEF Leasing, TypeOK
    <3>4. \A t \in RTSP, q \in RTP : t # s \/ q # r => (Leasing(t, q)' <=> Leasing(t, q))
      BY <3>1, <3>2, <3>0 DEF Leasing, TypeOK
    <3>5. pc[s] = "idle" /\ \A t \in RTSP : pc'[t] = "freed" <=> pc[t] = "freed"
      BY <1>4, <3>2 DEF FindSession, TypeOK
    <3> QED
      BY <3>0, <3>2, <3>3, <3>4, <3>5, AcquireStep
  <2>4. CASE ~Registered(id)
    <3>1. UNCHANGED <<cur, refs>>
      BY <2>1, <2>4
    <3> QED
      BY <1>4, <3>1, PlainStep DEF FindSession, PlainPcs, Pcs, RequestPcs, EndPcs, CreatePcs, TypeOK
  <2> QED
    BY <2>3, <2>4
<1>5. ASSUME NEW s \in RTSP, DataPacket(s) PROVE Seen
  <2>1. PICK r \in Names(s) :
         IF Registered(r)
         THEN cur' = [cur EXCEPT ![s] = r] /\ Resolve(r)
         ELSE UNCHANGED <<cur, refs>>
    BY <1>5 DEF DataPacket
  <2>3. CASE Registered(r)
    <3>0. r \in RTP /\ home[r] = s /\ stage[r] = "registered"
      BY <2>3 DEF Registered, Names, SingleSessions, TypeOK
    <3>1. cur[s] = None /\ \A t \in RTSP : cur[t] # r
      BY <1>5, <3>0 DEF DataPacket, HomeInv, HoldInv
    <3>2. /\ cur' = [cur EXCEPT ![s] = r] /\ pc' = [pc EXCEPT ![s] = "send"]
          /\ refs' = [refs EXCEPT ![r] = @ + 1] /\ UNCHANGED <<stage, rtsp>>
      BY <1>5, <2>1, <2>3 DEF DataPacket, Resolve
    <3>3. ~Leasing(s, r) /\ Leasing(s, r)'
      BY <3>1, <3>2, <3>0 DEF Leasing, TypeOK
    <3>4. \A t \in RTSP, q \in RTP : t # s \/ q # r => (Leasing(t, q)' <=> Leasing(t, q))
      BY <3>1, <3>2, <3>0 DEF Leasing, TypeOK
    <3>5. pc[s] = "idle" /\ \A t \in RTSP : pc'[t] = "freed" <=> pc[t] = "freed"
      BY <1>5, <3>2 DEF DataPacket, TypeOK
    <3> QED
      BY <3>0, <3>2, <3>3, <3>4, <3>5, AcquireStep
  <2>4. CASE ~Registered(r)
    <3>1. UNCHANGED <<cur, refs>>
      BY <2>1, <2>4
    <3> QED
      BY <1>5, <3>1, PlainStep DEF DataPacket, PlainPcs, Pcs, RequestPcs, EndPcs, CreatePcs, TypeOK
  <2> QED
    BY <2>3, <2>4
<1>6. ASSUME NEW s \in RTSP, NoticeEvent(s) PROVE Seen
  BY <1>6, PlainStep DEF NoticeEvent, PlainPcs, Pcs, RequestPcs, EndPcs, CreatePcs, TypeOK
<1>7. ASSUME NEW s \in RTSP, LeaveLoop(s) PROVE Seen
  BY <1>7, PlainStep DEF LeaveLoop, PlainPcs, Pcs, RequestPcs, EndPcs, CreatePcs, TypeOK
<1>8. ASSUME NEW s \in RTSP, EarlyResponse(s) PROVE Seen
  BY <1>8, PlainStep DEF EarlyResponse, PlainPcs, Pcs, RequestPcs, EndPcs, CreatePcs, TypeOK
<1>8a. ASSUME NEW s \in RTSP, BadRequest(s) PROVE Seen
  BY <1>8a, PlainStep DEF BadRequest, PlainPcs, Pcs, RequestPcs, EndPcs, CreatePcs, TypeOK
<1>9. ASSUME NEW s \in RTSP, UseSession(s) PROVE Seen
  BY <1>9, PlainStep DEF UseSession, PlainPcs, Pcs, RequestPcs, EndPcs, CreatePcs, TypeOK
<1>10. ASSUME NEW s \in RTSP, CreateSession(s) PROVE Seen
  <2>1. PICK r \in RTP :
          /\ stage[r] = "unborn" /\ stage' = [stage EXCEPT ![r] = "created"]
          /\ cur' = [cur EXCEPT ![s] = r]
    BY <1>10 DEF CreateSession
  <2>2. pc' = [pc EXCEPT ![s] = "activate"] /\ pc[s] = "found" /\ cur[s] = None /\ UNCHANGED <<refs, rtsp>>
    BY <1>10 DEF CreateSession
  <2>3. UNCHANGED Objects /\ UNCHANGED Pointers
    BY <2>1, <2>2 DEF Objects, Pointers, ObjectState, TypeOK
  <2>4. \A t \in RTSP, q \in RTP : Leasing(t, q)' <=> Leasing(t, q)
    BY <2>1, <2>2 DEF Leasing, TypeOK
  <2> QED
    BY <2>2, <2>3, <2>4, SameLeases, SameDeleted DEF Seen, Lease!leaseVars, TypeOK
<1>11. ASSUME NEW s \in RTSP, RegisterSession(s) PROVE Seen
  <2> DEFINE r == cur[s]
  <2>1. /\ r \in RTP /\ stage[r] = "created" /\ stage' = [stage EXCEPT ![r] = "registered"]
        /\ pc[s] = "activate" /\ pc' = [pc EXCEPT ![s] = "list"] /\ UNCHANGED <<cur, refs, rtsp>>
    BY <1>11 DEF RegisterSession, TypeOK, NeedsSession, HoldInv, CreatePcs
  <2> HIDE DEF r
  <2>2. Objects[r] = "absent" /\ Objects' = [Objects EXCEPT ![r] = "present"]
    BY <2>1 DEF Objects, ObjectState, TypeOK
  <2>3. UNCHANGED Pointers
    BY <2>1 DEF Pointers, TypeOK
  <2>4. \A t \in RTSP, q \in RTP : Leasing(t, q)' <=> Leasing(t, q)
    BY <2>1 DEF Leasing, TypeOK
  <2>5. UNCHANGED <<Leases, DeletedConnections>>
    BY <2>1, <2>4, SameLeases, SameDeleted DEF TypeOK
  <2>6. Lease!Publish(r)
    BY <2>2, <2>3, <2>5 DEF Lease!Publish
  <2> QED
    BY <2>1, <2>6 DEF Seen, Lease!LeaseNext
<1>12. ASSUME NEW s \in RTSP, ListSession(s) PROVE Seen
  <2>1. /\ pc[s] = "list" /\ pc' = [pc EXCEPT ![s] = "resolve"] /\ UNCHANGED <<cur, refs, rtsp, stage>>
    BY <1>12 DEF ListSession
  <2>2. \A t \in RTSP, q \in RTP : Leasing(t, q)' <=> Leasing(t, q)
    BY <2>1 DEF Leasing, TypeOK
  <2> QED
    BY <2>1, <2>2, SameObjects, SamePointers, SameLeases, SameDeleted DEF Seen, Lease!leaseVars, TypeOK
<1>13. ASSUME NEW s \in RTSP, ResolveSession(s) PROVE Seen
  <2> DEFINE r == cur[s]
  <2>1. /\ r \in RTP /\ stage[r] = "registered" /\ pc[s] = "resolve"
        /\ \A t \in RTSP \ {s} : cur[t] # r
    BY <1>13 DEF ResolveSession, TypeOK, NeedsSession, HoldInv, CreatePcs, HomeInv
  <2>2. /\ pc' = [pc EXCEPT ![s] = "serve"] /\ UNCHANGED <<cur, rtsp, stage>>
        /\ refs' = [refs EXCEPT ![r] = @ + 1]
    BY <1>13, <2>1 DEF ResolveSession, Registered, Resolve
  <2>3. ~Leasing(s, r) /\ Leasing(s, r)'
    BY <2>1, <2>2 DEF Leasing, TypeOK
  <2>4. \A t \in RTSP, q \in RTP : t # s \/ q # r => (Leasing(t, q)' <=> Leasing(t, q))
    BY <2>1, <2>2 DEF Leasing, TypeOK
  <2> QED
    BY <2>1, <2>2, <2>3, <2>4, AcquireStep DEF TypeOK
<1>14. ASSUME NEW s \in RTSP, Serve(s) PROVE Seen
  BY <1>14, PlainStep DEF Serve, PlainPcs, Pcs, RequestPcs, EndPcs, CreatePcs, TypeOK
<1>15. ASSUME NEW s \in RTSP, PlayRequest(s) PROVE Seen
  BY <1>15, PlainStep DEF PlayRequest, PlainPcs, Pcs, RequestPcs, EndPcs, CreatePcs, TypeOK
<1>16. ASSUME NEW s \in RTSP, TeardownRequest(s) PROVE Seen
  BY <1>16, PlainStep DEF TeardownRequest, TeardownEnter, PlainPcs, Pcs, RequestPcs, EndPcs, CreatePcs, TypeOK
<1>17. ASSUME NEW s \in RTSP, Post(s) PROVE Seen
  BY <1>17, PlainStep, SMTT(30) DEF Post, PlainPcs, Pcs, RequestPcs, EndPcs, CreatePcs, TypeOK
<1>18. ASSUME NEW s \in RTSP, BindSession(s) PROVE Seen
  <2> DEFINE r == cur[s]
  <2>1. /\ r \in RTP /\ stage[r] = "registered" /\ pc[s] = "bind"
    BY <1>18 DEF BindSession, TypeOK, NeedsSession, HoldInv, HoldPcs, RequestPcs, CreatePcs
  <2>2. /\ pc' = [pc EXCEPT ![s] = "count"] /\ UNCHANGED <<cur, refs, stage>>
        /\ rtsp' = [rtsp EXCEPT ![r] = s]
    BY <1>18 DEF BindSession
  <2> HIDE DEF r
  <2>3. Pointers' = [Pointers EXCEPT ![r] = s]
    BY <2>1, <2>2 DEF Pointers, TypeOK
  <2>4. \A t \in RTSP, q \in RTP : Leasing(t, q)' <=> Leasing(t, q)
    BY <2>1, <2>2 DEF Leasing, TypeOK
  <2>5. UNCHANGED <<Objects, Leases, DeletedConnections>>
    BY <2>1, <2>2, <2>4, SameObjects, SameLeases, SameDeleted DEF TypeOK
  <2>6. s \in Leases[r]
    BY <2>1 DEF Leases, Leasing, r
  <2>7. Lease!Point(s, r)
    BY <2>3, <2>5, <2>6 DEF Lease!Point
  <2> QED
    BY <2>1, <2>7 DEF Seen, Lease!LeaseNext
<1>19. ASSUME NEW s \in RTSP, CountHolder(s) PROVE Seen
  BY <1>19, PlainStep DEF CountHolder, PlainPcs, Pcs, RequestPcs, EndPcs, CreatePcs, TypeOK
<1>20. ASSUME NEW s \in RTSP, FinishRequest(s) PROVE Seen
  BY <1>20, ReleaseStep DEF FinishRequest, TypeOK
<1>21. ASSUME NEW s \in RTSP, EndResolve(s) PROVE Seen
  <2>1. CASE holders[s] # 0 /\ lastOn[s] /\ Registered(last[s])
    <3>0. PICK r \in RTP : r = last[s]
      BY <1>21, <2>1 DEF EndResolve, Registered, TypeOK
    <3>1. /\ home[r] = s /\ stage[r] = "registered"
          /\ cur[s] # None => cur[s] = r
          /\ \A t \in RTSP \ {s} : cur[t] # r
      BY <1>21, <2>1, <3>0 DEF EndResolve, Registered, TypeOK, HomeInv, SingleInv
    <3>2. /\ pc[s] = "end" /\ pc' = [pc EXCEPT ![s] = "endTeardown"]
          /\ cur' = [cur EXCEPT ![s] = r]
          /\ refs' = [refs EXCEPT ![r] = @ + 1]
          /\ UNCHANGED <<stage, rtsp>>
      BY <1>21, <2>1, <3>0 DEF EndResolve, Resolve
    <3>3. \A t \in RTSP, q \in RTP : t # s \/ q # r => (Leasing(t, q)' <=> Leasing(t, q))
      BY <3>1, <3>2 DEF Leasing, TypeOK
    <3>4. Leasing(s, r)'
      BY <3>1, <3>2 DEF Leasing, TypeOK
    <3>5. CASE cur[s] = None
      <4>1. ~Leasing(s, r)
        BY <3>1, <3>5 DEF Leasing
      <4> QED
        BY <3>1, <3>2, <3>3, <3>4, <4>1, AcquireStep DEF TypeOK
    <3>6. CASE cur[s] # None
      <4>1. Leasing(s, r)
        BY <3>1, <3>2, <3>6 DEF Leasing
      <4>2. \A t \in RTSP, q \in RTP : Leasing(t, q)' <=> Leasing(t, q)
        BY <3>3, <3>4, <4>1
      <4> QED
        BY <3>2, <4>2, SameObjects, SamePointers, SameDeleted, SameLeases DEF Seen, Lease!leaseVars, TypeOK
    <3> QED
      BY <3>5, <3>6
  <2>2. CASE ~(holders[s] # 0 /\ lastOn[s] /\ Registered(last[s]))
    <3>1. /\ pc[s] = "end" /\ pc' = [pc EXCEPT ![s] = "clean"] /\ UNCHANGED <<cur, refs, stage, rtsp>>
      BY <1>21, <2>2 DEF EndResolve
    <3> QED
      BY <3>1, PlainStep DEF PlainPcs, Pcs, RequestPcs, EndPcs, CreatePcs, TypeOK
  <2> QED
    BY <2>1, <2>2
<1>22. ASSUME NEW s \in RTSP, EndTeardown(s) PROVE Seen
  BY <1>22, PlainStep DEF EndTeardown, TeardownEnter, PlainPcs, Pcs, RequestPcs, EndPcs, CreatePcs, TypeOK
<1>23. ASSUME NEW s \in RTSP, EndTest(s) PROVE Seen
  <2>1. pc[s] = "endTest" /\ cur[s] \in RTP /\ UNCHANGED <<refs, stage, rtsp>>
    BY <1>23 DEF EndTest, TypeOK, NeedsSession
  <2>2. \A t \in RTSP : pc'[t] = "freed" <=> pc[t] = "freed"
    BY <1>23 DEF EndTest, TypeOK
  <2>3. \A t \in RTSP, q \in RTP : Leasing(t, q)' <=> Leasing(t, q)
    BY <1>23, <2>1 DEF EndTest, Leasing, TypeOK
  <2> QED
    BY <2>1, <2>2, <2>3, SameObjects, SamePointers, SameDeleted, SameLeases DEF Seen, Lease!leaseVars
<1>24. ASSUME NEW s \in RTSP, EndRelease(s) PROVE Seen
  <2>0. PICK r \in RTP : r = cur[s]
    BY <1>24 DEF EndRelease, TypeOK, NeedsSession
  <2>1. /\ pc[s] = "endRelease" /\ refs[r] > 0
        /\ \A t \in RTSP \ {s} : cur[t] # r
    BY <1>24, <2>0 DEF EndRelease, TypeOK, NeedsSession, HoldInv, HomeInv
  <2>2. /\ pc' = [pc EXCEPT ![s] = "endTest"] /\ UNCHANGED <<cur, rtsp, stage>>
        /\ refs' = [refs EXCEPT ![r] = @ - 1]
    BY <1>24, <2>0 DEF EndRelease, Release
  <2>3. Leasing(s, r) /\ (Leasing(s, r)' <=> refs[r] # 1)
    BY <2>0, <2>1, <2>2 DEF Leasing, TypeOK
  <2>4. \A t \in RTSP, q \in RTP : t # s \/ q # r => (Leasing(t, q)' <=> Leasing(t, q))
    BY <2>0, <2>1, <2>2 DEF Leasing, TypeOK
  <2>5. \A t \in RTSP : pc'[t] = "freed" <=> pc[t] = "freed"
    BY <2>1, <2>2 DEF TypeOK
  <2>6. CASE refs[r] = 1
    BY <2>1, <2>2, <2>3, <2>4, <2>5, <2>6, GiveBackStep
  <2>7. CASE refs[r] # 1
    <3>1. \A t \in RTSP, q \in RTP : Leasing(t, q)' <=> Leasing(t, q)
      BY <2>3, <2>4, <2>7
    <3> QED
      BY <2>2, <2>5, <3>1, SameObjects, SamePointers, SameDeleted, SameLeases DEF Seen, Lease!leaseVars
  <2> QED
    BY <2>6, <2>7
<1>25. ASSUME NEW s \in RTSP, Clean(s) PROVE Seen
  BY <1>25, ReleaseStep DEF Clean, TypeOK
<1>26. ASSUME NEW s \in RTSP, CheckHolders(s) PROVE Seen
  BY <1>26, PlainStep, SMTT(30) DEF CheckHolders, PlainPcs, Pcs, RequestPcs, EndPcs, CreatePcs, TypeOK
<1>27. ASSUME NEW s \in RTSP, DeleteConnection(s) PROVE Seen
  <2>1. /\ pc[s] = "dtor" /\ pc' = [pc EXCEPT ![s] = "freed"]
        /\ cur[s] = None /\ UNCHANGED <<cur, refs, rtsp, stage>>
    BY <1>27 DEF DeleteConnection, HoldInv
  <2>2. \A r \in RTP : rtsp[r] = s => stage[r] \in {"dropped", "freed"}
    BY <2>1, NothingPointsAtTheDying DEF LifecycleInv
  <2>3. \A r \in RTP : Pointers[r] # s /\ s \notin Leases[r]
    BY <2>1, <2>2 DEF Pointers, Leases, Leasing
  <2>4. DeletedConnections' = DeletedConnections \cup {s}
    BY <2>1 DEF DeletedConnections, TypeOK
  <2>5. \A t \in RTSP, q \in RTP : Leasing(t, q)' <=> Leasing(t, q)
    BY <2>1 DEF Leasing, TypeOK
  <2>6. UNCHANGED <<Objects, Pointers, Leases>>
    BY <2>1, <2>5, SameObjects, SamePointers, SameLeases
  <2>7. Lease!DeleteHolder(s)
    BY <2>3, <2>4, <2>6 DEF Lease!DeleteHolder
  <2> QED
    BY <2>7 DEF Seen, Lease!LeaseNext
<1>28. ASSUME NEW r \in RTP, Expire(r) PROVE Seen
  BY <1>28, SameObjects, SamePointers, SameDeleted, SameLeases DEF Expire, Leasing, Seen, Lease!leaseVars
<1>29. ASSUME NEW r \in RTP, CrossTeardown(r) PROVE Seen
  BY <1>29 DEF CrossTeardown, SingleSessions
<1>30. ASSUME NEW r \in RTP, TeardownLeave(r) PROVE Seen
  <2>1. /\ tearBy[r] \in RTSP /\ pc[tearBy[r]] \in {"tearing", "endTearing"} /\ cur[tearBy[r]] = r
        /\ refs[r] > 0 /\ stage[r] = "registered"
    BY <1>30 DEF TeardownLeave, TearInv, HomeInv, TypeOK, HoldInv, HoldPcs, RequestPcs, CreatePcs
  <2> DEFINE s == tearBy[r]
  <2>2. /\ pc'[s] \in {"post", "endTest"} /\ \A t \in RTSP \ {s} : pc'[t] = pc[t]
        /\ rtsp' = [rtsp EXCEPT ![r] = None] /\ UNCHANGED <<cur, refs, stage>>
    BY <1>30, <2>1 DEF TeardownLeave
  <2> HIDE DEF s
  <2>3. \A t \in RTSP, q \in RTP : Leasing(t, q)' <=> Leasing(t, q)
    BY <2>1, <2>2 DEF Leasing, s
  <2>4. UNCHANGED <<Objects, Leases, DeletedConnections>>
    BY <2>1, <2>2, <2>3, SameObjects, SameLeases, SameDeleted DEF s
  <2>5. Pointers' = [Pointers EXCEPT ![r] = None]
    BY <2>1, <2>2 DEF Pointers, TypeOK
  <2> QED
    BY <2>4, <2>5, UnpointStep
<1>31. ASSUME NEW r \in RTP, Unregister(r) PROVE Seen
  <2>1. \A t \in RTSP, q \in RTP : Leasing(t, q)' <=> Leasing(t, q)
    BY <1>31 DEF Unregister, Leasing
  <2>2. UNCHANGED <<Leases, DeletedConnections>>
    BY <1>31, <2>1, SameLeases, SameDeleted DEF Unregister
  <2>3. UNCHANGED Pointers /\ Objects[r] = "present" /\ Objects' = [Objects EXCEPT ![r] = "retired"]
    BY <1>31 DEF Unregister, Pointers, Objects, ObjectState, TypeOK
  <2>4. Leases[r] = {}
    BY <1>31 DEF Unregister, Leases, Leasing, TypeOK, HoldInv, HoldPcs, CreatePcs, Pcs, RequestPcs, EndPcs
  <2>5. Lease!Retire(r)
    BY <2>2, <2>3, <2>4 DEF Lease!Retire
  <2> QED
    BY <2>5 DEF Seen, Lease!LeaseNext
<1>32. ASSUME NEW r \in RTP, FinishClosing(r) PROVE Seen
  <2>1. \A t \in RTSP, q \in RTP : Leasing(t, q)' <=> Leasing(t, q)
    BY <1>32 DEF FinishClosing, Leasing
  <2>2. UNCHANGED <<Leases, DeletedConnections>>
    BY <1>32, <2>1, SameLeases, SameDeleted DEF FinishClosing
  <2>3. UNCHANGED Pointers /\ UNCHANGED Objects
    BY <1>32 DEF FinishClosing, Pointers, Objects, ObjectState, TypeOK
  <2> QED
    BY <2>2, <2>3 DEF Seen, Lease!leaseVars
<1>33. ASSUME NEW r \in RTP, Unlist(r) PROVE Seen
  <2>1. \A t \in RTSP, q \in RTP : Leasing(t, q)' <=> Leasing(t, q)
    BY <1>33 DEF Unlist, Leasing
  <2>2. UNCHANGED <<Leases, DeletedConnections>>
    BY <1>33, <2>1, SameLeases, SameDeleted DEF Unlist
  <2>3. UNCHANGED Pointers /\ UNCHANGED Objects
    BY <1>33 DEF Unlist, Pointers, Objects, ObjectState, TypeOK
  <2> QED
    BY <2>2, <2>3 DEF Seen, Lease!leaseVars
<1>34. ASSUME NEW r \in RTP, DropHolder(r) PROVE Seen
  <2>1. \A t \in RTSP, q \in RTP : Leasing(t, q)' <=> Leasing(t, q)
    BY <1>34 DEF DropHolder, Leasing
  <2>2. UNCHANGED <<Leases, DeletedConnections>>
    BY <1>34, <2>1, SameLeases, SameDeleted DEF DropHolder
  <2>3. UNCHANGED Objects /\ Pointers' = [Pointers EXCEPT ![r] = None]
    BY <1>34 DEF DropHolder, Pointers, Objects, ObjectState, TypeOK
  <2> QED
    BY <2>2, <2>3, UnpointStep
<1>35. ASSUME NEW r \in RTP, FreeSession(r) PROVE Seen
  <2>1. \A t \in RTSP, q \in RTP : Leasing(t, q)' <=> Leasing(t, q)
    BY <1>35 DEF FreeSession, Leasing
  <2>2. UNCHANGED <<Leases, DeletedConnections>>
    BY <1>35, <2>1, SameLeases, SameDeleted DEF FreeSession
  <2>3. /\ UNCHANGED Pointers /\ Pointers[r] = None
        /\ Objects[r] = "retired" /\ Objects' = [Objects EXCEPT ![r] = "gone"]
    BY <1>35, ZenonT(30) DEF FreeSession, Pointers, Objects, ObjectState, TypeOK
  <2>4. Lease!Destroy(r)
    BY <2>2, <2>3 DEF Lease!Destroy
  <2> QED
    BY <2>4 DEF Seen, Lease!LeaseNext
<1>36. ASSUME NEW x \in RTSP \cup RTP, Wake(x) PROVE Seen
  BY <1>36, SameObjects, SamePointers, SameDeleted, SameLeases DEF Wake, Leasing, Seen, Lease!leaseVars
<1>37. CASE UNCHANGED vars
  BY <1>37, SameObjects, SamePointers, SameDeleted, SameLeases DEF vars, Leasing, Seen, Lease!leaseVars
<1> QED
  BY <1>1, <1>2, <1>3, <1>4, <1>5, <1>6, <1>7, <1>8, <1>8a, <1>9, <1>10, <1>11, <1>12, <1>13, <1>14, <1>15, <1>16, <1>17, <1>18, <1>19, <1>20, <1>21, <1>22, <1>23, <1>24, <1>25, <1>26, <1>27, <1>28, <1>29, <1>30, <1>31, <1>32, <1>33, <1>34, <1>35, <1>36, <1>37
     DEF Next, Connection, RunConnection, Session, RunSession, Terminated

LEMMA InitSeen == Init => Lease!LeaseInit
BY DEF Init, Lease!LeaseInit, Objects, ObjectState, Leases, Leasing, Pointers, DeletedConnections
-----------------------------------------------------------------------------
(* The theorems.                                                           *)

\* While a request is at work on a session, the session is in the map.
THEOREM RequestsHoldTheirSession ==
    ASSUME OwnSessions
    PROVE  Spec => []RequestHoldsSession
<1>1. LifecycleInv => RequestHoldsSession
  BY DEF LifecycleInv, HoldInv, HoldPcs, CreatePcs, RequestHoldsSession, RequestPcs
<1> QED
  BY <1>1, LifecycleInvariant, PTL

\* fObjectHolders is the number of sessions that point at the connection.
THEOREM HoldersCounted ==
    ASSUME OwnSessions
    PROVE  Spec => []HoldersMatch
<1>1. LifecycleInv => HoldersMatch
  BY DEF LifecycleInv
<1> QED
  BY <1>1, LifecycleInvariant, PTL

\* No session is ever left pointing at a deleted connection.
THEOREM NoConnectionDangles ==
    ASSUME OwnSessions
    PROVE  Spec => []NoDanglingConnection
<1>1. LifecycleInv => NoDanglingConnection
  BY NothingPointsAtTheDying DEF NoDanglingConnection, LifecycleInv, TypeOK
<1> QED
  BY <1>1, LifecycleInvariant, PTL

\* The server's client list has no session that is deleted, and fNumRTPSessions is
\* its length (RTPSession::Activate and ~RTPSession, under the server mutex).
THEOREM ClientListCounted ==
    ASSUME OwnSessions
    PROVE  Spec => []ClientListMatches
<1>1. Init => ClientInv
  BY FS_EmptySet DEF Init, ClientInv
<1>2. LifecycleInv /\ ClientInv => ClientListMatches
  BY DEF ClientInv, ClientListMatches, LifecycleInv, TypeOK
<1> QED
  BY <1>1, <1>2, LifecycleInvariant, StepClients, PTL DEF Spec

LEMMA SingleInvariant ==
    ASSUME SingleSessions
    PROVE  Spec => [](LifecycleInv /\ SingleInv)
<1>1. OwnSessions
  BY DEF OwnSessions, SingleSessions
<1>2. Init => SingleInv
  BY DEF Init, SingleInv, UsedPcs, RequestPcs, CreatePcs
<1> QED
  BY <1>1, <1>2, LifecycleInvariant, StepSingle, PTL DEF Spec

\* A reference of the RTPSessionMap is counted once for each request at work on the
\* session, and for nothing else: Resolve and Release are paired on every path of Run.
THEOREM ReferencesMatch ==
    ASSUME SingleSessions
    PROVE  Spec => []RefsMatch
<1>1. LifecycleInv /\ SingleInv => RefsMatch
  <2> SUFFICES ASSUME LifecycleInv, SingleInv, NEW r \in RTP,
                      \A s \in RTSP : cur[s] = r => pc[s] \in RequestPcs \ {"activate", "list", "resolve"}
               PROVE  refs[r] = Cardinality({s \in RTSP : cur[s] = r})
    BY DEF RefsMatch
  <2>1. CASE \A s \in RTSP : cur[s] # r
    <3>1. {s \in RTSP : cur[s] = r} = {}
      BY <2>1
    <3> QED
      BY <2>1, <3>1, FS_EmptySet DEF SingleInv
  <2>2. ASSUME NEW s \in RTSP, cur[s] = r PROVE refs[r] = Cardinality({t \in RTSP : cur[t] = r})
    <3>1. {t \in RTSP : cur[t] = r} = {s}
      BY <2>2 DEF LifecycleInv, HomeInv
    <3>2. refs[r] = 1
      BY <2>2 DEF SingleInv, UsedPcs, CreatePcs
    <3> QED
      BY <3>1, <3>2, FS_Singleton
  <2> QED
    BY <2>1, <2>2
<1> QED
  BY <1>1, SingleInvariant, PTL

\* RTSPSession::Run and RTPSession::Run, with the map and the holder count between
\* them, implement SessionLease: every step of theirs is one of it or leaves it alone.
THEOREM LeaseImplemented ==
    ASSUME SingleSessions
    PROVE  Spec => Lease!LeaseSafeSpec
BY InitSeen, StepSeen, SingleInvariant, PTL DEF Spec, Lease!LeaseSafeSpec

-----------------------------------------------------------------------------
(* The resender.                                                           *)

\* What holds beyond ResenderAssumption for the assertions of the code: a
\* window takes a segment, and a packet fits the slack.
Roomy == (\A w \in Windows : w >= MSS) /\ (\A n \in Sizes : n <= Slack)

\* Nothing plays, loops or is outstanding before the first Play sets the
\* window, and only the resend loop has an index.
StartedInv ==
    /\ clientWindow = 0 => bytes = 0 /\ ~playing /\ loopPc = "free"
    /\ loopPc # "resend" => at = 0

\* The window is open, and within what the client takes or one segment.
OpenInv == cwnd >= 1 /\ cwnd <= Greatest(clientWindow, MSS)

\* The client's window takes a segment; no more than one packet beyond it is
\* outstanding.
OverInv == clientWindow > 0 => clientWindow >= MSS /\ bytes < clientWindow + Slack

BaseInv == ResenderTypeOK /\ StartedInv /\ OpenInv

-----------------------------------------------------------------------------
(* Removing a packet from the array.                                       *)

LEMMA WithoutShape ==
    ASSUME NEW S, NEW q \in Seq(S), NEW i \in 1..Len(q)
    PROVE  /\ Without(q, i) \in Seq(S)
           /\ Len(Without(q, i)) = Len(q) - 1
           /\ \A k \in 1..(Len(q) - 1) :
                Without(q, i)[k] = IF k = i THEN q[Len(q)] ELSE q[k]
<1> DEFINE r == [q EXCEPT ![i] = q[Len(q)]]
<1>1. Len(q) \in Nat /\ Len(q) >= 1 /\ i \in 1..Len(q) /\ q[Len(q)] \in S
  OBVIOUS
<1>2. r \in Seq(S) /\ Len(r) = Len(q)
  BY <1>1
<1>3. \A k \in 1..Len(q) : r[k] = IF k = i THEN q[Len(q)] ELSE q[k]
  BY <1>1
<1>4. Without(q, i) = SubSeq(r, 1, Len(q) - 1)
  BY DEF Without
<1> HIDE DEF r
<1>5. /\ SubSeq(r, 1, Len(q) - 1) \in Seq(S)
      /\ Len(SubSeq(r, 1, Len(q) - 1)) = Len(q) - 1
      /\ \A k \in 1..(Len(q) - 1) : SubSeq(r, 1, Len(q) - 1)[k] = r[k]
  BY <1>1, <1>2
<1> QED
  BY <1>1, <1>3, <1>4, <1>5

\* The packets that stay were there before, and no two of them were the same.
LEMMA WithoutDistinct ==
    ASSUME NEW q \in Seq(Entries), NEW i \in 1..Len(q),
           \A k, l \in 1..Len(q) : q[k].seq = q[l].seq => k = l
    PROVE  \A k, l \in 1..Len(Without(q, i)) :
             Without(q, i)[k].seq = Without(q, i)[l].seq => k = l
<1> SUFFICES ASSUME NEW k \in 1..Len(Without(q, i)), NEW l \in 1..Len(Without(q, i)),
                    Without(q, i)[k].seq = Without(q, i)[l].seq
             PROVE  k = l
  OBVIOUS
<1>0. Len(q) \in Nat
  OBVIOUS
<1>1. /\ Len(Without(q, i)) = Len(q) - 1
      /\ \A n \in 1..(Len(q) - 1) : Without(q, i)[n] = IF n = i THEN q[Len(q)] ELSE q[n]
  BY WithoutShape
<1> DEFINE from(n) == IF n = i THEN Len(q) ELSE n
<1>2. Without(q, i)[k] = q[from(k)] /\ Without(q, i)[l] = q[from(l)]
  BY <1>0, <1>1
<1>3. from(k) \in 1..Len(q) /\ from(l) \in 1..Len(q)
  BY <1>0, <1>1
<1>4. from(k) = from(l)
  BY <1>2, <1>3
<1> QED
  BY <1>0, <1>1, <1>4


-----------------------------------------------------------------------------
(* What the operations of the window return.                               *)

LEMMA OpenedBounds ==
    ASSUME BaseInv, NEW n \in Nat
    PROVE  /\ Opened(n) \in Nat
           /\ Opened(n) <= clientWindow
           /\ clientWindow >= 1 => Opened(n) >= 1
<1> DEFINE b == Least(n, bytes)
<1> DEFINE more == IF cwnd >= ssthresh THEN (b * b) \div cwnd ELSE b
<1>1. /\ b \in Nat /\ ssthresh \in Nat /\ clientWindow \in Nat
      /\ cwnd \in Nat /\ cwnd >= 1
  BY DEF BaseInv, ResenderTypeOK, OpenInv, Least
<1>2. \A x \in Nat, y \in Nat : y >= 1 => x \div y \in Nat
  OBVIOUS
<1>3. b * b \in Nat
  BY <1>1
<1>4. more \in Nat
  BY <1>1, <1>2, <1>3
<1>5. Opened(n) = Least(clientWindow, cwnd + more)
  BY DEF Opened
<1> HIDE DEF more
<1> QED
  BY <1>1, <1>4, <1>5 DEF Least

LEMMA EmptyKeeps ==
    ASSUME BaseInv, clientWindow >= 1, NEW n \in Nat, NEW update \in BOOLEAN,
           EmptyWindow(n, update)
    PROVE  /\ bytes' \in Nat /\ bytes' <= bytes
           /\ cwnd' \in Nat /\ cwnd' >= 1 /\ cwnd' <= Greatest(clientWindow, MSS)
<1>1. bytes \in Nat /\ cwnd \in Nat /\ clientWindow \in Nat /\ MSS \in Nat
  BY ResenderAssumption DEF BaseInv, ResenderTypeOK
<1>2. bytes' \in Nat /\ bytes' <= bytes
  BY <1>1 DEF EmptyWindow, Least
<1>3. cwnd' = cwnd \/ cwnd' = Opened(n)
  BY DEF EmptyWindow
<1>4. /\ Opened(n) \in Nat /\ Opened(n) <= clientWindow /\ Opened(n) >= 1
  BY OpenedBounds
<1> QED
  BY <1>1, <1>2, <1>3, <1>4 DEF BaseInv, OpenInv, Greatest

LEMMA AdjustKeeps ==
    ASSUME BaseInv, AdjustWindowForRetransmit
    PROVE  /\ cwnd' \in Nat /\ cwnd' >= 1 /\ cwnd' <= Greatest(clientWindow, MSS)
           /\ ssthresh' \in Nat
           /\ sinceAdjust' \in 0..(Backoff + 1)
<1>1. /\ cwnd \in Nat /\ clientWindow \in Nat /\ ssthresh \in Nat /\ sinceAdjust \in 0..(Backoff + 1)
      /\ MSS \in Nat \ {0} /\ Backoff \in Nat
  BY ResenderAssumption DEF BaseInv, ResenderTypeOK
<1>2. /\ cwnd \div 2 \in Nat /\ cwnd \div 2 <= cwnd
      /\ (cwnd * 3) \div 4 \in Nat
  BY <1>1
<1> QED
  BY <1>1, <1>2 DEF BaseInv, OpenInv, AdjustWindowForRetransmit, Greatest

-----------------------------------------------------------------------------
(* Types and the bounds of the window.                                     *)

LEMMA InitBase == ResenderInit => BaseInv
<1> SUFFICES ASSUME ResenderInit PROVE BaseInv
  OBVIOUS
<1>1. 1 \in Streams
  BY ResenderAssumption DEF Streams
<1>2. ResenderTypeOK
  <2>1. list \in [Streams -> Seq(Entries)] /\ Len(list[1]) = 0
    BY <1>1 DEF ResenderInit
  <2>2. /\ MSS \in Nat /\ MinRTO \in MinRTO..MaxRTO /\ Backoff + 1 \in 0..(Backoff + 1)
        /\ 0 \in 0..0
    BY ResenderAssumption
  <2> QED
    BY <1>1, <2>1, <2>2 DEF ResenderInit, ResenderTypeOK
<1>3. StartedInv /\ OpenInv
  BY ResenderAssumption DEF ResenderInit, StartedInv, OpenInv, Greatest
<1> QED
  BY <1>2, <1>3 DEF BaseInv

LEMMA StepBase == BaseInv /\ [ResenderNext]_resenderVars => BaseInv'
<1> SUFFICES ASSUME BaseInv, [ResenderNext]_resenderVars PROVE BaseInv'
  OBVIOUS
<1> USE ResenderAssumption
<1>0. /\ list \in [Streams -> Seq(Entries)] /\ st \in Streams
      /\ \A s \in Streams : Len(list[s]) \in Nat
  BY DEF BaseInv, ResenderTypeOK
<1>a. \A s \in Streams : \A i \in 1..Len(list[s]) :
         /\ list[s][i] \in Entries /\ list[s][i].size \in Nat
         /\ Without(list[s], i) \in Seq(Entries)
         /\ Len(Without(list[s], i)) = Len(list[s]) - 1
  <2> TAKE s \in Streams
  <2> TAKE i \in 1..Len(list[s])
  <2>1. list[s] \in Seq(Entries)
    BY <1>0
  <2>2. list[s][i] \in Entries
    BY <2>1
  <2>3. list[s][i].size \in Nat
    BY <2>2 DEF Entries
  <2>4. Without(list[s], i) \in Seq(Entries) /\ Len(Without(list[s], i)) = Len(list[s]) - 1
    BY <2>1, WithoutShape
  <2> QED
    BY <2>2, <2>3, <2>4
<1>1. ASSUME NEW s \in Streams, NEW n \in SeqNums, AckPacket(s, n) PROVE BaseInv'
  <2>1. clientWindow >= 1 /\ clientWindow > 0
    BY <1>1 DEF AckPacket, ReadyForAckProcessing, BaseInv, ResenderTypeOK
  <2>2. CASE Has(s, n)
    <3> DEFINE i == CHOOSE j \in 1..Len(list[s]) : list[s][j].seq = n
    <3>1. i \in 1..Len(list[s])
      BY <2>2 DEF Has
    <3>2. /\ EmptyWindow(list[s][i].size, TRUE)
          /\ list' = [list EXCEPT ![s] = Without(@, i)]
          /\ rto' \in MinRTO..MaxRTO
      BY <1>1, <2>2 DEF AckPacket, AddToRTTEstimate, BaseInv, ResenderTypeOK
    <3> HIDE DEF i
    <3>3. list[s][i].size \in Nat
      BY <1>a, <3>1
    <3>4. /\ bytes' \in Nat /\ bytes' <= bytes
          /\ cwnd' \in Nat /\ cwnd' >= 1 /\ cwnd' <= Greatest(clientWindow, MSS)
      BY <2>1, <3>2, <3>3, EmptyKeeps
    <3>5. list' \in [Streams -> Seq(Entries)]
      BY <1>0, <1>a, <3>1, <3>2
    <3>6. UNCHANGED <<ssthresh, clientWindow, sinceAdjust, playing, loop>> /\ at = 0
      BY <1>1 DEF AckPacket, BaseInv, StartedInv
    <3>7. at' \in 0..Len(list'[st'])
      BY <1>0, <3>5, <3>6 DEF loop
    <3> QED
      BY <2>1, <3>2, <3>4, <3>5, <3>6, <3>7, SMTT(30) DEF BaseInv, ResenderTypeOK, StartedInv, OpenInv, loop
  <2>3. CASE ~Has(s, n)
    <3>1. EmptyWindow(MSS, FALSE) /\ UNCHANGED <<list, rto, ssthresh, clientWindow, sinceAdjust, playing, loop>>
      BY <1>1, <2>3 DEF AckPacket
    <3>2. /\ bytes' \in Nat /\ bytes' <= bytes
          /\ cwnd' \in Nat /\ cwnd' >= 1 /\ cwnd' <= Greatest(clientWindow, MSS)
      BY <2>1, <3>1, EmptyKeeps
    <3> QED
      BY <2>1, <3>1, <3>2 DEF BaseInv, ResenderTypeOK, StartedInv, OpenInv, loop
  <2> QED
    BY <2>2, <2>3
<1>2. CASE ReliableRTPWrite \/ SendRetransmits
  <2>1. 1 \in Streams
    BY DEF Streams
  <2>2. PICK write \in BOOLEAN : StartResend(write)
    BY <1>2 DEF ReliableRTPWrite, SendRetransmits
  <2>3. at' \in 0..Len(list'[st'])
    BY <1>0, <2>1, <2>2 DEF StartResend
  <2> QED
    BY <2>1, <2>2, <2>3 DEF StartResend, window, BaseInv, ResenderTypeOK, StartedInv, OpenInv
<1>3. CASE NotDue
  BY <1>0, <1>3 DEF NotDue, window, BaseInv, ResenderTypeOK, StartedInv, OpenInv
<1>4. CASE DropExpired
  <2>1. at \in 1..Len(list[st]) /\ clientWindow >= 1
    <3>1. at # 0 /\ loopPc = "resend"
      BY <1>4 DEF DropExpired
    <3>2. at \in 0..Len(list[st]) /\ clientWindow \in Nat
      BY DEF BaseInv, ResenderTypeOK
    <3>3. clientWindow # 0
      BY <3>1 DEF BaseInv, StartedInv
    <3> QED
      BY <3>1, <3>2, <3>3
  <2>2. /\ bytes' \in Nat /\ bytes' <= bytes
        /\ cwnd' \in Nat /\ cwnd' >= 1 /\ cwnd' <= Greatest(clientWindow, MSS)
    BY <1>0, <1>a, <1>4, <2>1, EmptyKeeps DEF DropExpired
  <2>3. list' \in [Streams -> Seq(Entries)] /\ Len(list'[st]) = Len(list[st]) - 1
    BY <1>0, <1>a, <1>4, <2>1 DEF DropExpired
  <2> QED
    BY <1>0, <1>4, <2>1, <2>2, <2>3 DEF DropExpired, BaseInv, ResenderTypeOK, StartedInv, OpenInv
<1>5. CASE Resend
  <2>0. at \in 1..Len(list[st]) /\ clientWindow >= 1
    <3>1. at # 0 /\ loopPc = "resend"
      BY <1>5 DEF Resend
    <3>2. at \in 0..Len(list[st]) /\ clientWindow \in Nat
      BY DEF BaseInv, ResenderTypeOK
    <3>3. clientWindow # 0
      BY <3>1 DEF BaseInv, StartedInv
    <3> QED
      BY <3>1, <3>2, <3>3
  <2>1. at \in 1..Len(list[st]) /\ clientWindow >= 1 /\ list[st][at] \in Entries
    BY <1>0, <1>a, <2>0
  <2>2. /\ cwnd' \in Nat /\ cwnd' >= 1 /\ cwnd' <= Greatest(clientWindow, MSS)
        /\ ssthresh' \in Nat /\ sinceAdjust' \in 0..(Backoff + 1)
    BY <1>5, AdjustKeeps DEF Resend
  <2>3. rto' \in MinRTO..MaxRTO
    BY <1>5 DEF Resend, AddToRTTEstimate, BaseInv, ResenderTypeOK
  <2> DEFINE e == [list[st][at] EXCEPT !.age = 0, !.resent = TRUE]
  <2>4. e \in Entries
    <3>1. 0 \in Ages
      BY DEF Ages
    <3> QED
      BY <2>1, <3>1 DEF Entries
  <2>5. list' = [list EXCEPT ![st] = [list[st] EXCEPT ![at] = e]]
    BY <1>5, ZenonT(30) DEF Resend
  <2> HIDE DEF e
  <2>6. list' \in [Streams -> Seq(Entries)] /\ Len(list'[st]) = Len(list[st])
    BY <1>0, <2>1, <2>4, <2>5
  <2>7. UNCHANGED <<bytes, clientWindow, playing, loopPc, st, writing>> /\ at' = at - 1 /\ loopPc = "resend"
    BY <1>5 DEF Resend
  <2>8. at' \in 0..Len(list'[st'])
    BY <1>0, <2>1, <2>6, <2>7
  <2>9. ResenderTypeOK'
    BY <1>0, <2>2, <2>3, <2>6, <2>7, <2>8 DEF BaseInv, ResenderTypeOK
  <2> QED
    BY <2>1, <2>2, <2>7, <2>9 DEF BaseInv, StartedInv, OpenInv
<1>6. CASE NextStream
  BY <1>0, <1>6 DEF NextStream, window, Streams, BaseInv, ResenderTypeOK, StartedInv, OpenInv
<1>7. CASE EndResend
  <2>1. clientWindow >= 1 /\ 1 \in Streams
    BY <1>7 DEF EndResend, BaseInv, ResenderTypeOK, StartedInv, Streams
  <2>2. list' \in [Streams -> Seq(Entries)] /\ bytes' \in Nat
    <3>1. CASE UNCHANGED <<list, bytes>>
      BY <3>1 DEF BaseInv, ResenderTypeOK
    <3>2. ASSUME NEW s \in Streams, NEW n \in SeqNums, NEW size \in Sizes, NEW limit \in AgeLimits,
                 AddPacket(s, n, size, limit), ~UNCHANGED <<list, bytes>>
          PROVE  list' \in [Streams -> Seq(Entries)] /\ bytes' \in Nat
      <4> DEFINE e == [seq |-> n, size |-> size, age |-> 0, left |-> limit, resent |-> FALSE]
      <4>1. e \in Entries
        BY DEF Entries, Ages
      <4>2. list' = [list EXCEPT ![s] = Append(@, e)] /\ bytes' = bytes + size
        BY <3>2 DEF AddPacket
      <4> HIDE DEF e
      <4> QED
        BY <1>0, <4>1, <4>2 DEF BaseInv, ResenderTypeOK
    <3> QED
      BY <1>7, <3>1, <3>2 DEF EndResend
  <2>3. at' \in 0..Len(list'[st'])
    BY <1>7, <2>1, <2>2 DEF EndResend
  <2> QED
    BY <1>7, <2>1, <2>2, <2>3 DEF EndResend, BaseInv, ResenderTypeOK, StartedInv, OpenInv
<1>8. ASSUME NEW w \in Windows, PlaySession(w) PROVE BaseInv'
  <2>1. 1 \in Streams /\ w \in Nat /\ w >= 2 /\ at = 0
    BY <1>8 DEF Streams, PlaySession, BaseInv, StartedInv
  <2>2. w \div 2 \in Nat /\ w \div 2 >= 1 /\ w \div 2 <= w /\ (w * 3) \div 4 \in Nat
    BY <2>1
  <2>3. /\ clientWindow' \in Nat /\ clientWindow' > 0
        /\ cwnd' \in Nat /\ cwnd' >= 1 /\ cwnd' <= Greatest(clientWindow', MSS)
        /\ ssthresh' \in Nat /\ sinceAdjust' \in 0..(Backoff + 1)
    BY <1>8, <2>1, <2>2, SMTT(30) DEF PlaySession, SetWindowSize, BaseInv, ResenderTypeOK, OpenInv, Greatest
  <2>4. at' \in 0..Len(list'[st'])
    BY <1>0, <1>8, <2>1 DEF PlaySession
  <2> QED
    BY <1>8, <2>1, <2>3, <2>4, SMTT(30) DEF PlaySession, BaseInv, ResenderTypeOK, StartedInv, OpenInv
<1>9. CASE ClearPacket
  <2>1. clientWindow >= 1 /\ at = 0 /\ list[st] \in Seq(Entries) /\ list[st] # <<>>
    BY <1>0, <1>9 DEF ClearPacket, BaseInv, ResenderTypeOK, StartedInv
  <2>2. Head(list[st]) \in Entries /\ Tail(list[st]) \in Seq(Entries)
    BY <2>1
  <2>3. Head(list[st]).size \in Nat
    BY <2>2 DEF Entries
  <2>4. /\ bytes' \in Nat /\ bytes' <= bytes
        /\ cwnd' \in Nat /\ cwnd' >= 1 /\ cwnd' <= Greatest(clientWindow, MSS)
    BY <1>9, <2>1, <2>3, EmptyKeeps DEF ClearPacket
  <2>5. list' \in [Streams -> Seq(Entries)]
    BY <1>0, <1>9, <2>2 DEF ClearPacket
  <2>6. at' \in 0..Len(list'[st'])
    BY <1>0, <1>9, <2>1, <2>5 DEF ClearPacket, loop
  <2> QED
    BY <1>9, <2>1, <2>4, <2>5, <2>6 DEF ClearPacket, loop, BaseInv, ResenderTypeOK, StartedInv, OpenInv
<1>10. CASE ClearStream
  <2>1. clientWindow >= 1 /\ at = 0 /\ bytes \in Nat
    BY <1>10 DEF ClearStream, BaseInv, ResenderTypeOK, StartedInv
  <2>2. /\ bytes' \in Nat /\ bytes' <= bytes
        /\ cwnd' \in Nat /\ cwnd' >= 1 /\ cwnd' <= Greatest(clientWindow, MSS)
    BY <1>10, <2>1, EmptyKeeps DEF ClearStream
  <2>3. st' \in Streams /\ loopPc' \in {"clear", "free"}
    BY <1>0, <1>10 DEF ClearStream, Streams
  <2>4. at' \in 0..Len(list'[st'])
    BY <1>0, <1>10, <2>1, <2>3 DEF ClearStream
  <2> QED
    BY <1>10, <2>1, <2>2, <2>3, <2>4 DEF ClearStream, BaseInv, ResenderTypeOK, StartedInv, OpenInv
<1>11. CASE Pause
  BY <1>11 DEF Pause, window, loop, BaseInv, ResenderTypeOK, StartedInv, OpenInv
<1>12. CASE Tick
  <2>1. at = 0 /\ sinceAdjust \in 0..(Backoff + 1)
    BY <1>12 DEF Tick, BaseInv, ResenderTypeOK, StartedInv
  <2>2. sinceAdjust' \in 0..(Backoff + 1)
    <3>1. Backoff \in Nat /\ sinceAdjust' = Least(sinceAdjust + 1, Backoff + 1)
      BY <1>12 DEF Tick
    <3> QED
      BY <2>1, <3>1 DEF Least
  <2> DEFINE older(e) == [e EXCEPT !.age = Least(@ + 1, MaxRTO + 1), !.left = Greatest(@ - 1, -1)]
  <2>3. ASSUME NEW e \in Entries PROVE older(e) \in Entries
    <3>1. e.age \in Ages /\ e.left \in Int /\ MaxRTO \in Nat
      BY DEF Entries
    <3>2. Least(e.age + 1, MaxRTO + 1) \in Ages /\ Greatest(e.left - 1, -1) \in Int
      BY <3>1 DEF Ages, Least, Greatest
    <3> QED
      BY <3>2 DEF Entries
  <2>4. list' = [s \in Streams |-> [i \in 1..Len(list[s]) |-> older(list[s][i])]]
    BY <1>12 DEF Tick
  <2> HIDE DEF older
  <2>5. \A s \in Streams : list'[s] \in Seq(Entries)
    <3> TAKE s \in Streams
    <3>1. list'[s] = [i \in 1..Len(list[s]) |-> older(list[s][i])]
      BY <2>4
    <3>2. \A i \in 1..Len(list[s]) : older(list[s][i]) \in Entries
      BY <1>a, <2>3
    <3> QED
      BY <1>0, <3>1, <3>2
  <2>6. list' \in [Streams -> Seq(Entries)]
    BY <2>4, <2>5
  <2>7. at' \in 0..Len(list'[st'])
    <3>1. at' = 0 /\ st' \in Streams
      BY <1>0, <1>12, <2>1 DEF Tick, loop
    <3> QED
      BY <2>6, <3>1
  <2> QED
    BY <1>12, <2>1, <2>2, <2>6, <2>7 DEF Tick, loop, BaseInv, ResenderTypeOK, StartedInv, OpenInv
<1>13. CASE UNCHANGED resenderVars
  BY <1>13 DEF resenderVars, window, loop, BaseInv, ResenderTypeOK, StartedInv, OpenInv
<1> QED
  BY <1>1, <1>2, <1>3, <1>4, <1>5, <1>6, <1>7, <1>8, <1>9, <1>10, <1>11, <1>12, <1>13
  DEF ResenderNext, ResendLoop, ClearLoop

\* Every variable keeps its type, for any number of streams and any window:
\* no loop of the resender leaves the packet array.
THEOREM ResenderTypes == ResenderSpec => []ResenderTypeOK
<1>1. ResenderSpec => []BaseInv
  BY InitBase, StepBase, PTL DEF ResenderSpec
<1>2. BaseInv => ResenderTypeOK
  BY DEF BaseInv
<1> QED
  BY <1>1, <1>2, PTL

\* The congestion window never closes and stays within what the client takes
\* or one segment; nothing is outstanding before there is a window.
THEOREM WindowStaysBounded == ResenderSpec => []WindowBounded
<1>1. ResenderSpec => []BaseInv
  BY InitBase, StepBase, PTL DEF ResenderSpec
<1>2. BaseInv => WindowBounded
  BY ResenderAssumption DEF BaseInv, ResenderTypeOK, StartedInv, OpenInv, WindowBounded, Greatest
<1> QED
  BY <1>1, <1>2, PTL

-----------------------------------------------------------------------------
(* The assertion on fBytesInList.                                          *)

\* Bytes are only added while less than a window of them is outstanding.
LEMMA StepOver == Roomy /\ BaseInv /\ BaseInv' /\ OverInv /\ [ResenderNext]_resenderVars => OverInv'
<1> SUFFICES ASSUME Roomy, BaseInv, BaseInv', OverInv, [ResenderNext]_resenderVars PROVE OverInv'
  OBVIOUS
<1> USE ResenderAssumption
<1>0. /\ bytes \in Nat /\ clientWindow \in Nat /\ cwnd \in Nat /\ bytes' \in Nat
      /\ loopPc # "free" => clientWindow > 0
      /\ \A s \in Streams : list[s] \in Seq(Entries)
  BY SMTT(30) DEF BaseInv, ResenderTypeOK, StartedInv
<1>1. \A n \in Nat, update \in BOOLEAN : clientWindow >= 1 /\ EmptyWindow(n, update) => bytes' <= bytes
  BY EmptyKeeps
<1>a. \A e \in Entries : e.size \in Nat
  BY DEF Entries
<1>2. \A s \in Streams : \A i \in 1..Len(list[s]) : list[s][i].size \in Nat
  <2> SUFFICES ASSUME NEW s \in Streams, NEW i \in 1..Len(list[s])
               PROVE  list[s][i] \in Entries
    BY <1>a
  <2> QED
    BY <1>0, SMTT(30)
<1>3. ASSUME bytes' <= bytes, clientWindow' = clientWindow PROVE OverInv'
  BY <1>0, <1>3 DEF OverInv
<1>4. ASSUME NEW s \in Streams, NEW n \in SeqNums, AckPacket(s, n) PROVE OverInv'
  <2>1. clientWindow >= 1 /\ clientWindow' = clientWindow
    BY <1>0, <1>4 DEF AckPacket, ReadyForAckProcessing
  <2>2. CASE Has(s, n)
    <3> DEFINE i == CHOOSE j \in 1..Len(list[s]) : list[s][j].seq = n
    <3>1. i \in 1..Len(list[s]) /\ EmptyWindow(list[s][i].size, TRUE)
      BY <1>4, <2>2 DEF AckPacket, Has
    <3> HIDE DEF i
    <3> QED
      BY <1>1, <1>2, <1>3, <2>1, <3>1
  <2>3. CASE ~Has(s, n)
    BY <1>1, <1>3, <1>4, <2>1, <2>3 DEF AckPacket
  <2> QED
    BY <2>2, <2>3
<1>5. CASE DropExpired
  <2>1. at \in 1..Len(list[st]) /\ st \in Streams
    BY <1>5 DEF DropExpired, BaseInv, ResenderTypeOK
  <2>2. list[st][at].size \in Nat
    BY <1>2, <2>1
  <2>3. EmptyWindow(list[st][at].size, TRUE) /\ clientWindow >= 1 /\ clientWindow' = clientWindow
    <3>1. EmptyWindow(list[st][at].size, TRUE) /\ clientWindow' = clientWindow
      BY <1>5, Zenon DEF DropExpired
    <3>2. clientWindow >= 1
      BY <1>0, <1>5 DEF DropExpired
    <3> QED
      BY <3>1, <3>2, Zenon
  <2>4. bytes' <= bytes
    BY <1>1, <2>2, <2>3
  <2> QED
    BY <1>3, <2>3, <2>4
<1>6. CASE EndResend
  <2>1. CASE UNCHANGED <<list, bytes>>
    BY <1>0, <1>3, <1>6, <2>1 DEF EndResend
  <2>2. ASSUME NEW s \in Streams, NEW n \in SeqNums, NEW size \in Sizes, NEW limit \in AgeLimits,
               AddPacket(s, n, size, limit), ~UNCHANGED <<list, bytes>>, ~IsFlowControlled
        PROVE  OverInv'
    <3>1. bytes < cwnd /\ bytes' = bytes + size /\ size <= Slack /\ size \in Nat /\ Slack \in Nat
      BY <1>0, <2>2 DEF AddPacket, IsFlowControlled, Roomy
    <3>2. cwnd <= Greatest(clientWindow, MSS) /\ clientWindow' = clientWindow
      BY <1>6 DEF BaseInv, OpenInv, EndResend
    <3> QED
      BY <1>0, <3>1, <3>2 DEF OverInv, Greatest
  <2> QED
    BY <1>6, <2>1, <2>2 DEF EndResend
<1>7. ASSUME NEW w \in Windows, PlaySession(w) PROVE OverInv'
  <2>1. bytes' = bytes /\ w \in Nat /\ w >= MSS
    BY <1>7 DEF PlaySession, Roomy
  <2>2. CASE clientWindow > 0
    BY <1>0, <1>7, <2>1, <2>2 DEF PlaySession, SetWindowSize, OverInv
  <2>3. CASE clientWindow = 0
    <3>1. clientWindow' = w /\ bytes' = 0
      BY <1>7, <2>1, <2>3 DEF PlaySession, SetWindowSize, BaseInv, StartedInv
    <3> QED
      BY <2>1, <3>1 DEF OverInv
  <2> QED
    BY <1>0, <2>2, <2>3
<1>8. CASE ClearPacket
  <2>1. list[st] \in Seq(Entries) /\ list[st] # <<>>
    BY <1>0, <1>8 DEF ClearPacket, BaseInv, ResenderTypeOK
  <2>2. Head(list[st]) \in Entries
    BY <2>1
  <2>3. Head(list[st]).size \in Nat
    BY <1>a, <2>2
  <2>4. EmptyWindow(Head(list[st]).size, FALSE) /\ clientWindow >= 1 /\ clientWindow' = clientWindow
    <3>1. EmptyWindow(Head(list[st]).size, FALSE) /\ clientWindow' = clientWindow
      BY <1>8, Zenon DEF ClearPacket
    <3>2. clientWindow >= 1
      BY <1>0, <1>8 DEF ClearPacket
    <3> QED
      BY <3>1, <3>2, Zenon
  <2>5. bytes' <= bytes
    BY <1>1, <2>3, <2>4
  <2> QED
    BY <1>3, <2>4, <2>5
<1>9. CASE ClearStream
  <2>1. EmptyWindow(bytes, TRUE) /\ clientWindow >= 1 /\ clientWindow' = clientWindow
    <3>1. EmptyWindow(bytes, TRUE) /\ clientWindow' = clientWindow
      BY <1>9, Zenon DEF ClearStream
    <3>2. clientWindow >= 1
      BY <1>0, <1>9 DEF ClearStream
    <3> QED
      BY <3>1, <3>2, Zenon
  <2>2. bytes' <= bytes
    BY <1>0, <1>1, <2>1
  <2> QED
    BY <1>3, <2>1, <2>2
<1>10. CASE ReliableRTPWrite \/ SendRetransmits \/ NotDue \/ Resend \/ NextStream \/ Pause \/ Tick \/ UNCHANGED resenderVars
  <2>1. bytes' = bytes /\ clientWindow' = clientWindow
    BY <1>10 DEF ReliableRTPWrite, SendRetransmits, StartResend, NotDue, Resend, NextStream, Pause, Tick, resenderVars, window
  <2> QED
    BY <1>0, <1>3, <2>1
<1> QED
  BY <1>4, <1>5, <1>6, <1>7, <1>8, <1>9, <1>10 DEF ResenderNext, ResendLoop, ClearLoop

\* Assert(fBytesInList < fClientWindow + 2000) never fails when every window
\* takes a segment and no packet is larger than 2000 bytes.
THEOREM AssertNeverHits == ASSUME Roomy PROVE ResenderSpec => []AssertHolds
<1>1. ResenderInit => BaseInv /\ OverInv
  BY InitBase, ResenderAssumption DEF ResenderInit, OverInv
<1>2. BaseInv /\ OverInv /\ [ResenderNext]_resenderVars => BaseInv' /\ OverInv'
  BY StepBase, StepOver
<1>3. BaseInv /\ OverInv => AssertHolds
  BY DEF OverInv, AssertHolds
<1> QED
  BY <1>1, <1>2, <1>3, PTL DEF ResenderSpec

-----------------------------------------------------------------------------
(* No sequence number is kept twice.                                       *)

LEMMA StepDistinct == BaseInv /\ NoDuplicateSeq /\ [ResenderNext]_resenderVars => NoDuplicateSeq'
<1> SUFFICES ASSUME BaseInv, NoDuplicateSeq, [ResenderNext]_resenderVars PROVE NoDuplicateSeq'
  OBVIOUS
<1> DEFINE Distinct(q) == \A i, k \in 1..Len(q) : q[i].seq = q[k].seq => i = k
<1>0. /\ list \in [Streams -> Seq(Entries)] /\ st \in Streams
      /\ \A s \in Streams : Distinct(list[s]) /\ list[s] \in Seq(Entries) /\ Len(list[s]) \in Nat
  BY DEF BaseInv, ResenderTypeOK, NoDuplicateSeq
<1>1. ASSUME \A s \in Streams : Distinct(list'[s]) PROVE NoDuplicateSeq'
  BY <1>1 DEF NoDuplicateSeq
<1>2. ASSUME NEW s \in Streams, NEW i \in 1..Len(list[s]),
             list' = [list EXCEPT ![s] = Without(@, i)]
      PROVE  NoDuplicateSeq'
  <2>1. Distinct(Without(list[s], i))
    BY <1>0, WithoutDistinct
  <2>2. \A t \in Streams : list'[t] = IF t = s THEN Without(list[s], i) ELSE list[t]
    BY <1>0, <1>2
  <2> HIDE DEF Distinct
  <2>3. \A t \in Streams : Distinct(list'[t])
    BY <1>0, <2>1, <2>2
  <2> QED
    BY <1>1, <2>3
<1>3. ASSUME NEW s \in Streams, NEW n \in SeqNums, AckPacket(s, n) PROVE NoDuplicateSeq'
  <2>1. CASE Has(s, n)
    <3> DEFINE i == CHOOSE j \in 1..Len(list[s]) : list[s][j].seq = n
    <3>1. i \in 1..Len(list[s]) /\ list' = [list EXCEPT ![s] = Without(@, i)]
      BY <1>3, <2>1 DEF AckPacket, Has
    <3> HIDE DEF i
    <3> QED
      BY <1>2, <3>1
  <2>2. CASE ~Has(s, n)
    BY <1>3, <2>2 DEF AckPacket, NoDuplicateSeq
  <2> QED
    BY <2>1, <2>2
<1>4. CASE DropExpired
  <2>1. at \in 1..Len(list[st])
    BY <1>4 DEF DropExpired, BaseInv, ResenderTypeOK
  <2> QED
    BY <1>0, <1>2, <1>4, <2>1 DEF DropExpired
<1>5. CASE Resend
  <2>0. at \in 1..Len(list[st])
    BY <1>5 DEF Resend, BaseInv, ResenderTypeOK
  <2>1. at \in 1..Len(list[st]) /\ list[st][at] \in Entries
    BY <1>0, <2>0
  <2> DEFINE e == [list[st][at] EXCEPT !.age = 0, !.resent = TRUE]
  <2>2. e.seq = list[st][at].seq
    BY <2>1 DEF Entries
  <2>3. list' = [list EXCEPT ![st] = [list[st] EXCEPT ![at] = e]]
    <3>1. list \in [Streams -> Seq(Entries)] /\ st \in Streams
      BY <1>0
    <3> QED
      BY <1>5, <2>1, <3>1 DEF Resend
  <2> HIDE DEF e
  <2>4. \A s \in Streams : /\ Len(list'[s]) = Len(list[s])
                          /\ \A i \in 1..Len(list[s]) : list'[s][i].seq = list[s][i].seq
    BY <1>0, <2>1, <2>2, <2>3
  <2> QED
    BY <1>0, <1>1, <2>4
<1>6. CASE EndResend
  <2>1. CASE UNCHANGED <<list, bytes>>
    BY <2>1 DEF NoDuplicateSeq
  <2>2. ASSUME NEW s \in Streams, NEW n \in SeqNums, NEW size \in Sizes, NEW limit \in AgeLimits,
               AddPacket(s, n, size, limit), ~UNCHANGED <<list, bytes>>
        PROVE  NoDuplicateSeq'
    <3> DEFINE e == [seq |-> n, size |-> size, age |-> 0, left |-> limit, resent |-> FALSE]
    <3>1. list' = [list EXCEPT ![s] = Append(@, e)] /\ ~Has(s, n)
      BY <2>2 DEF AddPacket
    <3>2. e.seq = n
      OBVIOUS
    <3> HIDE DEF e
    <3>3. \A t \in Streams : list'[t] = IF t = s THEN Append(list[s], e) ELSE list[t]
      BY <1>0, <3>1
    <3>4. Distinct(Append(list[s], e))
      BY <1>0, <3>1, <3>2 DEF Has
    <3> HIDE DEF Distinct
    <3>5. \A t \in Streams : Distinct(list'[t])
      BY <1>0, <3>3, <3>4
    <3> QED
      BY <1>1, <3>5
  <2> QED
    BY <1>6, <2>1, <2>2 DEF EndResend
<1>7. CASE ClearPacket
  <2>1. list[st] # <<>> /\ list' = [list EXCEPT ![st] = Tail(@)]
    BY <1>7 DEF ClearPacket
  <2>2. Distinct(Tail(list[st]))
    <3>1. list[st] \in Seq(Entries) /\ Len(list[st]) \in Nat
      BY <1>0
    <3>2. /\ Len(Tail(list[st])) = Len(list[st]) - 1
          /\ \A i \in 1..Len(Tail(list[st])) : Tail(list[st])[i] = list[st][i + 1]
      BY <2>1, <3>1
    <3>3. SUFFICES ASSUME NEW i \in 1..Len(Tail(list[st])), NEW k \in 1..Len(Tail(list[st])),
                          list[st][i + 1].seq = list[st][k + 1].seq
                   PROVE  i = k
      BY <3>2
    <3>4. i + 1 \in 1..Len(list[st]) /\ k + 1 \in 1..Len(list[st])
      BY <3>1, <3>2
    <3> QED
      BY <1>0, <3>3, <3>4
  <2>3. \A t \in Streams : list'[t] = IF t = st THEN Tail(list[st]) ELSE list[t]
    BY <1>0, <2>1
  <2> HIDE DEF Distinct
  <2>4. \A t \in Streams : Distinct(list'[t])
    BY <1>0, <2>2, <2>3
  <2> QED
    BY <1>1, <2>4
<1>8. CASE Tick
  <2>1. \A s \in Streams : /\ Len(list'[s]) = Len(list[s])
                          /\ \A i \in 1..Len(list[s]) : list'[s][i].seq = list[s][i].seq
    <3> TAKE s \in Streams
    <3> DEFINE older(e) == [e EXCEPT !.age = Least(@ + 1, MaxRTO + 1), !.left = Greatest(@ - 1, -1)]
    <3>1. list'[s] = [i \in 1..Len(list[s]) |-> older(list[s][i])]
      BY <1>8 DEF Tick
    <3>2. Len(list[s]) \in Nat /\ \A i \in 1..Len(list[s]) : list[s][i] \in Entries
      BY <1>0
    <3>3. \A e \in Entries : older(e).seq = e.seq
      BY DEF Entries
    <3> HIDE DEF older
    <3> QED
      BY <3>1, <3>2, <3>3
  <2> QED
    BY <1>0, <1>1, <2>1
<1>9. ASSUME UNCHANGED list PROVE NoDuplicateSeq'
  BY <1>9 DEF NoDuplicateSeq
<1>10. CASE \/ ReliableRTPWrite \/ SendRetransmits \/ NotDue \/ NextStream \/ ClearStream \/ Pause
            \/ (\E w \in Windows : PlaySession(w)) \/ UNCHANGED resenderVars
  <2>1. UNCHANGED list
    BY <1>10 DEF ReliableRTPWrite, SendRetransmits, StartResend, NotDue, NextStream, ClearStream, Pause, PlaySession, resenderVars
  <2> QED
    BY <1>9, <2>1
<1> QED
  BY <1>3, <1>4, <1>5, <1>6, <1>7, <1>8, <1>10 DEF ResenderNext, ResendLoop, ClearLoop

\* A stream keeps every sequence number once: one acknowledgement is enough.
THEOREM NoSequenceNumberTwice == ResenderSpec => []NoDuplicateSeq
<1>1. ResenderInit => BaseInv /\ NoDuplicateSeq
  <2>1. ResenderInit => NoDuplicateSeq
    BY DEF ResenderInit, NoDuplicateSeq
  <2> QED
    BY <2>1, InitBase
<1>2. BaseInv /\ NoDuplicateSeq /\ [ResenderNext]_resenderVars => BaseInv' /\ NoDuplicateSeq'
  BY StepBase, StepDistinct
<1> QED
  BY <1>1, <1>2, PTL DEF ResenderSpec

-----------------------------------------------------------------------------
(* The bytes the window counts. *)

\* What the streams keep, the sizes, and their sum, when q is their lists.
KeptIn(q) == UNION {{<<s, i>> : i \in 1..Len(q[s])} : s \in Streams}
SizeIn(q) == [p \in KeptIn(q) |-> q[p[1]][p[2]].size]
Total(q)  == MapThenSumSet(LAMBDA p : q[p[1]][p[2]].size, KeptIn(q))

LEMMA KeptType ==
    ASSUME NEW q \in [Streams -> Seq(Entries)]
    PROVE  /\ IsFiniteSet(KeptIn(q)) /\ SizeIn(q) \in [KeptIn(q) -> Nat]
           /\ \A p \in KeptIn(q) : \E s \in Streams : \E i \in 1..Len(q[s]) : p = <<s, i>>
           /\ \A s \in Streams : \A i \in 1..Len(q[s]) : 
                 \E p \in KeptIn(q) : p = <<s, i>> /\ SizeIn(q)[p] = q[s][i].size
<1> DEFINE Of(s) == {<<s, i>> : i \in 1..Len(q[s])}
<1>1. \A p \in KeptIn(q) : \E s \in Streams : \E i \in 1..Len(q[s]) : p = <<s, i>>
  BY DEF KeptIn
<1>2. \A s \in Streams : \A i \in 1..Len(q[s]) : <<s, i>> \in KeptIn(q)
  BY DEF KeptIn
<1>3. \A p \in KeptIn(q) : SizeIn(q)[p] = q[p[1]][p[2]].size
  BY DEF SizeIn
<1>4. \A s \in Streams : \A i \in 1..Len(q[s]) : q[s][i].size \in Nat
  <2> TAKE s \in Streams
  <2> TAKE i \in 1..Len(q[s])
  <2>1. q[s] \in Seq(Entries)
    OBVIOUS
  <2>2. q[s][i] \in Entries
    BY <2>1
  <2> QED
    BY <2>2, ResenderAssumption DEF Entries
<1>5. SizeIn(q) \in [KeptIn(q) -> Nat]
  <2> SUFFICES ASSUME NEW p \in KeptIn(q) PROVE SizeIn(q)[p] \in Nat
    BY DEF SizeIn
  <2>1. PICK s \in Streams : \E i \in 1..Len(q[s]) : p = <<s, i>>
    BY <1>1
  <2>2. PICK i \in 1..Len(q[s]) : p = <<s, i>>
    BY <2>1
  <2> QED
    BY <1>3, <1>4, <2>2
<1>6. ASSUME NEW s \in Streams PROVE IsFiniteSet(Of(s))
  <2>1. IsFiniteSet(1..Len(q[s]))
    BY FS_Interval
  <2> DEFINE f == [i \in 1..Len(q[s]) |-> <<s, i>>]
  <2>2. f \in Surjection(1..Len(q[s]), Of(s))
    BY DEF Surjection
  <2> HIDE DEF f
  <2> QED
    BY <2>1, <2>2, FS_Surjection
<1>7. IsFiniteSet(KeptIn(q))
  <2>1. IsFiniteSet({Of(s) : s \in Streams})
    <3> DEFINE f == [s \in Streams |-> Of(s)]
    <3>1. f \in Surjection(Streams, {Of(s) : s \in Streams})
      <4> HIDE DEF Of
      <4> QED
        BY DEF Surjection
    <3>2. IsFiniteSet(Streams)
      BY FS_Interval, ResenderAssumption DEF Streams
    <3> HIDE DEF f, Of
    <3> QED
      BY <3>1, <3>2, FS_Surjection
  <2>2. \A x \in {Of(s) : s \in Streams} : IsFiniteSet(x)
    <3> HIDE DEF Of
    <3> QED
      BY <1>6
  <2>3. KeptIn(q) = UNION {Of(s) : s \in Streams}
    BY DEF KeptIn
  <2> HIDE DEF Of
  <2> QED
    BY <2>1, <2>2, <2>3, FS_UNION
<1>8. ASSUME NEW s \in Streams, NEW i \in 1..Len(q[s])
      PROVE  \E p \in KeptIn(q) : p = <<s, i>> /\ SizeIn(q)[p] = q[s][i].size
  <2>1. PICK p \in KeptIn(q) : p = <<s, i>>
    BY <1>2
  <2> QED
    BY <1>3, <2>1
<1> QED
  BY <1>1, <1>5, <1>7, <1>8

LEMMA TotalSums ==
    ASSUME NEW q \in [Streams -> Seq(Entries)]
    PROVE  \E g : Sums(g, SizeIn(q), KeptIn(q)) /\ Total(q) = g[KeptIn(q)]
<1> DEFINE D == KeptIn(q)
           f == SizeIn(q)
           size(x) == q[x[1]][x[2]].size
           first(s) == CHOOSE x \in s : TRUE
           Is(g) == g = [s \in SUBSET D |-> IF s = {} THEN 0 ELSE size(first(s)) + g[s \ {first(s)}]]
           c == [s \in SUBSET D |-> first(s)]
           add == [xy \in D \X Nat |-> f[xy[1]] + xy[2]]
<1>1. IsFiniteSet(D) /\ f \in [D -> Nat] /\ \A x \in D : f[x] = size(x)
  <2>1. \A x \in D : f[x] = size(x)
    BY DEF SizeIn
  <2> QED
    BY <2>1, KeptType
<1>2. \A s \in SUBSET D : s # {} => first(s) \in s
  OBVIOUS
<1>3. \E h : Recursion(h, D, Nat, 0, c, add)
  <2>1. \A xy \in D \X Nat : add[xy] \in Nat
    <3> HIDE DEF D, f
    <3> QED
      BY <1>1
  <2>2. \A s \in SUBSET D : s # {} => c[s] \in s
    <3> HIDE DEF D, first
    <3> QED
      BY <1>2
  <2> HIDE DEF D, c, add
  <2> QED
    BY <1>1, <2>1, <2>2, FoldExists
<1>4. PICK h : Recursion(h, D, Nat, 0, c, add)
  BY <1>3
<1>5. Is(h)
  <2>0. h \in [SUBSET D -> Nat]
    BY <1>4 DEF Recursion
  <2>1. h = [s \in SUBSET D |-> IF s = {} THEN 0 ELSE add[<<c[s], h[s \ {c[s]}]>>]]
    <3> HIDE DEF D, c, add
    <3> QED
      BY <1>4 DEF Recursion
  <2>2. ASSUME NEW s \in SUBSET D, s # {}
        PROVE  add[<<c[s], h[s \ {c[s]}]>>] = size(first(s)) + h[s \ {first(s)}]
    <3>1. c[s] = first(s) /\ first(s) \in D
      BY <1>2, <2>2
    <3>2. h[s \ {first(s)}] \in Nat
      BY <2>0
    <3> HIDE DEF first, size, D, f, c
    <3> QED
      BY <1>1, <3>1, <3>2
  <2> HIDE DEF first, size, D, f, c, add
  <2> QED
    BY <2>1, <2>2
<1>6. PICK g : g = CHOOSE k : Is(k)
  OBVIOUS
<1>7. Is(g)
  <2> HIDE DEF Is
  <2> QED
    BY <1>5, <1>6
<1>8. Total(q) = g[D]
  BY <1>6 DEF Total, MapThenSumSet, MapThenFoldSet
<1>9. g = [s \in SUBSET D |-> IF s = {} THEN 0 ELSE f[c[s]] + g[s \ {c[s]}]]
  <2>1. ASSUME NEW s \in SUBSET D, s # {}
        PROVE  f[c[s]] + g[s \ {c[s]}] = size(first(s)) + g[s \ {first(s)}]
    <3>1. c[s] = first(s) /\ first(s) \in D
      BY <1>2, <2>1
    <3> HIDE DEF first, size, D, f, c
    <3> QED
      BY <1>1, <3>1
  <2> HIDE DEF first, size, D, f, c
  <2> QED
    BY <1>7, <2>1
<1>10. \A s \in SUBSET D : s # {} => c[s] \in s
  <2> HIDE DEF D, first
  <2> QED
    BY <1>2
<1>11. Sums(g, f, D)
  <2> HIDE DEF D, f, c
  <2> QED
    BY <1>1, <1>9, <1>10, SumOrder
<1> QED
  BY <1>8, <1>11

\* D are the places of the packets in the lists q, and f their sizes.
Places(q, D, f) ==
    /\ IsFiniteSet(D) /\ f \in [D -> Nat]
    /\ \A p \in D : \E s \in Streams : \E i \in 1..Len(q[s]) : p = <<s, i>> /\ f[p] = q[s][i].size
    /\ \A s \in Streams : \A i \in 1..Len(q[s]) : \E p \in D : p = <<s, i>> /\ f[p] = q[s][i].size

LEMMA TotalPlaces ==
    ASSUME NEW q \in [Streams -> Seq(Entries)]
    PROVE  \E g, D, f : Places(q, D, f) /\ Sums(g, f, D) /\ Total(q) = g[D]
<1>1. Places(q, KeptIn(q), SizeIn(q))
  <2>1. ASSUME NEW p \in KeptIn(q)
        PROVE  \E s \in Streams : \E i \in 1..Len(q[s]) : p = <<s, i>> /\ SizeIn(q)[p] = q[s][i].size
    <3>1. PICK s \in Streams : \E i \in 1..Len(q[s]) : p = <<s, i>>
      BY KeptType
    <3>2. PICK i \in 1..Len(q[s]) : p = <<s, i>>
      BY <3>1
    <3>3. SizeIn(q)[p] = q[p[1]][p[2]].size
      BY DEF SizeIn
    <3> QED
      BY <3>2, <3>3
  <2> QED
    BY <2>1, KeptType DEF Places
<1> QED
  BY <1>1, TotalSums

LEMMA SumSplit ==
    ASSUME NEW g, NEW f, NEW D, Sums(g, f, D), NEW S, S \subseteq D, NEW x \in S,
           NEW T, T = S \ {x}
    PROVE  g[S] = f[x] + g[T] /\ g[S] \in Nat /\ g[T] \in Nat
<1>1. S \in SUBSET D /\ T \in SUBSET D
  OBVIOUS
<1> QED
  BY <1>1 DEF Sums

\* Lists whose packets have the same sizes.
LEMMA TotalSame ==
    ASSUME NEW q \in [Streams -> Seq(Entries)], NEW r \in [Streams -> Seq(Entries)],
           \A s \in Streams : /\ Len(r[s]) = Len(q[s])
                              /\ \A i \in 1..Len(q[s]) : r[s][i].size = q[s][i].size
    PROVE  Total(r) = Total(q)
<1>1. PICK g, D, f : Places(q, D, f) /\ Sums(g, f, D) /\ Total(q) = g[D]
  BY TotalPlaces
<1>2. PICK h, E, e : Places(r, E, e) /\ Sums(h, e, E) /\ Total(r) = h[E]
  BY TotalPlaces
<1>3. ASSUME NEW x \in D PROVE x \in E /\ f[x] = e[x]
  <2>1. PICK s \in Streams : \E i \in 1..Len(q[s]) : x = <<s, i>> /\ f[x] = q[s][i].size
    BY <1>1 DEF Places
  <2>2. PICK i \in 1..Len(q[s]) : x = <<s, i>> /\ f[x] = q[s][i].size
    BY <2>1
  <2>3. PICK y \in E : y = <<s, i>> /\ e[y] = r[s][i].size
    BY <1>2 DEF Places
  <2> QED
    BY <2>2, <2>3
<1>4. ASSUME NEW x \in E PROVE x \in D
  <2>1. PICK s \in Streams : \E i \in 1..Len(r[s]) : x = <<s, i>> /\ e[x] = r[s][i].size
    BY <1>2 DEF Places
  <2>2. PICK i \in 1..Len(r[s]) : x = <<s, i>>
    BY <2>1
  <2>3. PICK y \in D : y = <<s, i>> /\ f[y] = q[s][i].size
    BY <1>1 DEF Places
  <2> QED
    BY <2>2, <2>3
<1>5. D = E /\ IsFiniteSet(D)
  BY <1>1, <1>3, <1>4 DEF Places
<1> QED
  BY <1>1, <1>2, <1>3, <1>5, SumUnique

LEMMA TotalEmpty ==
    ASSUME NEW q \in [Streams -> Seq(Entries)], \A s \in Streams : q[s] = <<>>
    PROVE  Total(q) = 0
<1>1. PICK g, D, f : Places(q, D, f) /\ Sums(g, f, D) /\ Total(q) = g[D]
  BY TotalPlaces
<1>2. D = {}
  <2>1. \A s \in Streams : Len(q[s]) = 0
    OBVIOUS
  <2> QED
    BY <1>1, <2>1 DEF Places
<1> QED
  BY <1>1, <1>2 DEF Sums

LEMMA TotalAppend ==
    ASSUME NEW q \in [Streams -> Seq(Entries)], NEW s \in Streams, NEW entry \in Entries,
           NEW r \in [Streams -> Seq(Entries)], r[s] = Append(q[s], entry),
           \A t \in Streams : t # s => r[t] = q[t]
    PROVE  Total(r) = Total(q) + entry.size
<1>0. /\ r \in [Streams -> Seq(Entries)] /\ Len(q[s]) \in Nat /\ Len(r[s]) = Len(q[s]) + 1
      /\ r[s][Len(q[s]) + 1] = entry /\ \A i \in 1..Len(q[s]) : r[s][i] = q[s][i]
      /\ \A t \in Streams : t # s => r[t] = q[t]
  OBVIOUS
<1>1. PICK g, D, f : Places(q, D, f) /\ Sums(g, f, D) /\ Total(q) = g[D]
  BY TotalPlaces
<1>2. PICK h, E, e : Places(r, E, e) /\ Sums(h, e, E) /\ Total(r) = h[E]
  BY <1>0, TotalPlaces
<1>3. PICK n \in 1..Len(r[s]) : n = Len(q[s]) + 1 /\ r[s][n] = entry
  BY <1>0
<1>4. PICK p \in E : p = <<s, n>> /\ e[p] = entry.size
  <2>1. \A i \in 1..Len(r[s]) : \E x \in E : x = <<s, i>> /\ e[x] = r[s][i].size
    BY <1>2 DEF Places
  <2> QED
    BY <1>3, <2>1
<1>5. ASSUME NEW x \in D PROVE x \in E /\ x # p /\ f[x] = e[x]
  <2>1. PICK t \in Streams : \E i \in 1..Len(q[t]) : x = <<t, i>> /\ f[x] = q[t][i].size
    BY <1>1 DEF Places
  <2>2. PICK i \in 1..Len(q[t]) : x = <<t, i>> /\ f[x] = q[t][i].size
    BY <2>1
  <2>3. i \in 1..Len(r[t]) /\ ~(t = s /\ i = n) /\ r[t][i] = q[t][i]
    <3>1. CASE t = s
      <4>1. i \in 1..Len(q[s])
        BY <3>1
      <4>2. i \in 1..Len(r[s]) /\ i # n /\ r[s][i] = q[s][i]
        BY <1>0, <1>3, <4>1
      <4> QED
        BY <3>1, <4>2
    <3>2. CASE t # s
      BY <1>0, <3>2
    <3> QED
      BY <3>1, <3>2
  <2>4. PICK y \in E : y = <<t, i>> /\ e[y] = r[t][i].size
    BY <1>2, <2>3 DEF Places
  <2> QED
    BY <1>4, <2>2, <2>3, <2>4
<1>6. ASSUME NEW x \in E, x # p PROVE x \in D
  <2>1. PICK t \in Streams : \E i \in 1..Len(r[t]) : x = <<t, i>> /\ e[x] = r[t][i].size
    BY <1>2 DEF Places
  <2>2. PICK i \in 1..Len(r[t]) : x = <<t, i>>
    BY <2>1
  <2>3. ~(t = s /\ i = n)
    BY <1>4, <1>6, <2>2
  <2>4. i \in 1..Len(q[t])
    BY <1>0, <1>3, <2>3
  <2>5. PICK y \in D : y = <<t, i>> /\ f[y] = q[t][i].size
    BY <1>1, <2>4 DEF Places
  <2> QED
    BY <2>2, <2>5
<1>7. D = E \ {p} /\ IsFiniteSet(D) /\ D \subseteq E
  <2>1. IsFiniteSet(D)
    BY <1>1 DEF Places
  <2>2. D = E \ {p}
    BY <1>5, <1>6, Zenon
  <2> QED
    BY <2>1, <2>2
<1>8. g[D] = h[D]
  <2>1. Sums(g, f, D) /\ Sums(h, e, E) /\ \A x \in D : f[x] = e[x]
    BY <1>1, <1>2, <1>5
  <2> QED
    BY <1>7, <2>1, SumUnique, SMTT(30)
<1>9. h[E] = e[p] + h[D] /\ h[D] \in Nat
  BY <1>2, <1>7, SumSplit
<1>10. entry.size \in Nat
  BY ResenderAssumption DEF Entries
<1> QED
  BY <1>1, <1>2, <1>4, <1>7, <1>8, <1>9, <1>10

\* The total m of a list is n more than that, k, of another.
Shrunk(m, k, n) == m \in Nat /\ k \in Nat /\ n \in Nat /\ m = k + n

LEMMA TotalWithout ==
    ASSUME NEW q \in [Streams -> Seq(Entries)], NEW s \in Streams, NEW i \in 1..Len(q[s]),
           NEW r, r = [q EXCEPT ![s] = Without(@, i)]
    PROVE  Shrunk(Total(q), Total(r), q[s][i].size)
<1>0. PICK n \in 1..Len(q[s]) : n = Len(q[s]) /\ n \in Nat
  OBVIOUS
<1>a. /\ r \in [Streams -> Seq(Entries)] /\ Len(r[s]) = n - 1
      /\ \A k \in 1..(n - 1) : r[s][k] = IF k = i THEN q[s][n] ELSE q[s][k]
      /\ \A t \in Streams : t # s => r[t] = q[t]
  <2>1. PICK x \in Seq(Entries) : x = q[s]
    OBVIOUS
  <2>2. PICK w : w = Without(x, i)
    OBVIOUS
  <2>3. /\ w \in Seq(Entries) /\ Len(w) = n - 1
        /\ \A k \in 1..(n - 1) : w[k] = IF k = i THEN q[s][n] ELSE q[s][k]
    <3>1. i \in 1..Len(x)
      BY <2>1
    <3>2. /\ Without(x, i) \in Seq(Entries)
          /\ Len(Without(x, i)) = Len(x) - 1
          /\ \A k \in 1..(Len(x) - 1) : Without(x, i)[k] = IF k = i THEN x[Len(x)] ELSE x[k]
      BY <3>1, WithoutShape
    <3> QED
      BY <1>0, <2>1, <2>2, <3>2
  <2>4. r = [q EXCEPT ![s] = w]
    BY <2>1, <2>2
  <2> QED
    BY <2>3, <2>4
<1>1. PICK g, D, f : Places(q, D, f) /\ Sums(g, f, D) /\ Total(q) = g[D]
  BY TotalPlaces
<1>2. PICK h, E, e : Places(r, E, e) /\ Sums(h, e, E) /\ Total(r) = h[E]
  BY <1>a, TotalPlaces
<1>3. PICK end \in D : end = <<s, n>> /\ f[end] = q[s][n].size
  BY <1>0, <1>1 DEF Places
<1>4. PICK out \in D : out = <<s, i>> /\ f[out] = q[s][i].size
  BY <1>1 DEF Places
<1>5. ASSUME NEW x \in E
      PROVE  x \in D /\ x # end /\ (x # out => e[x] = f[x]) /\ (x = out => e[x] = f[end])
  <2>1. PICK t \in Streams : \E k \in 1..Len(r[t]) : x = <<t, k>> /\ e[x] = r[t][k].size
    BY <1>2 DEF Places
  <2>2. PICK k \in 1..Len(r[t]) : x = <<t, k>> /\ e[x] = r[t][k].size
    BY <2>1
  <2>3. k \in 1..Len(q[t]) /\ ~(t = s /\ k = n)
    BY <1>0, <1>a
  <2>4. PICK y \in D : y = <<t, k>> /\ f[y] = q[t][k].size
    BY <1>1, <2>3 DEF Places
  <2>5. y = x /\ x # end
    BY <1>3, <2>2, <2>3, <2>4
  <2>6. x = out <=> t = s /\ k = i
    BY <1>4, <2>2
  <2>7. t = s => k \in 1..(n - 1)
    BY <1>0, <1>a
  <2>8. CASE x = out
    <3>1. r[t][k] = q[s][n]
      BY <1>a, <2>6, <2>7, <2>8
    <3> QED
      BY <1>3, <2>2, <2>4, <2>5, <2>8, <3>1
  <2>9. CASE x # out
    <3>1. r[t][k] = q[t][k]
      BY <1>a, <2>6, <2>7, <2>9
    <3> QED
      BY <2>2, <2>4, <2>5, <2>9, <3>1
  <2> QED
    BY <2>8, <2>9
<1>6. ASSUME NEW x \in D, x # end PROVE x \in E
  <2>1. PICK t \in Streams : \E k \in 1..Len(q[t]) : x = <<t, k>> /\ f[x] = q[t][k].size
    BY <1>1 DEF Places
  <2>2. PICK k \in 1..Len(q[t]) : x = <<t, k>>
    BY <2>1
  <2>3. ~(t = s /\ k = n)
    BY <1>3, <1>6, <2>2
  <2>4. k \in 1..Len(r[t])
    BY <1>0, <1>a, <2>3
  <2>5. PICK y \in E : y = <<t, k>> /\ e[y] = r[t][k].size
    BY <1>2, <2>4 DEF Places
  <2> QED
    BY <2>2, <2>5
<1>7. E = D \ {end} /\ E \subseteq D /\ IsFiniteSet(D) /\ IsFiniteSet(E)
  BY <1>1, <1>2, <1>5, <1>6, SMTT(30) DEF Places
<1>8. f[end] \in Nat /\ f[out] \in Nat
  BY <1>1 DEF Places
<1>9. g[D] = f[end] + g[E] /\ g[D] \in Nat /\ g[E] \in Nat
  BY <1>1, <1>7, SumSplit
<1>10. PICK U : U = E \ {out}
  OBVIOUS
<1>11. h[U] = g[U]
  <2>1. U \subseteq E /\ U \subseteq D /\ \A x \in U : e[x] = f[x]
    BY <1>5, <1>7, <1>10
  <2> QED
    BY <1>1, <1>2, <1>7, <2>1, SumUnique
<1>12. CASE out = end
  <2>1. U = E
    BY <1>7, <1>10, <1>12
  <2> QED
    <3>1. h[E] = g[E]
      BY <1>11, <2>1
    <3>2. h[E] \in Nat /\ f[out] \in Nat /\ g[D] = f[out] + h[E]
      BY <1>8, <1>9, <1>12, <3>1
    <3> QED
      BY <1>1, <1>2, <1>4, <1>9, <3>2 DEF Shrunk
<1>13. CASE out # end
  <2>1. out \in E /\ e[out] = f[end]
    BY <1>5, <1>7, <1>13
  <2>2. h[E] = e[out] + h[U] /\ h[E] \in Nat
    BY <1>2, <1>10, <2>1 DEF Sums
  <2>3. g[E] = f[out] + g[U] /\ g[U] \in Nat
    BY <1>1, <1>7, <1>10, <2>1 DEF Sums
  <2> QED
    <3>1. h[E] \in Nat /\ f[out] \in Nat /\ g[D] = f[out] + h[E]
      <4>1. h[E] = f[end] + g[U] /\ g[D] = f[end] + (f[out] + g[U]) /\ h[E] \in Nat
        BY <1>9, <1>11, <2>1, <2>2, <2>3
      <4>2. f[end] \in Nat /\ f[out] \in Nat /\ g[U] \in Nat
        BY <1>8, <2>3
      <4> QED
        BY <4>1, <4>2
    <3> QED
      BY <1>1, <1>2, <1>4, <1>9, <3>1 DEF Shrunk
<1> QED
  BY <1>12, <1>13

-----------------------------------------------------------------------------

\* The window counts the packets that are kept; while they are cleared, the streams that
\* are done keep none, and after the last one nothing is counted either.
Counted ==
    /\ \A q : q = list => (loopPc # "clear" => bytes = Total(q))
    /\ loopPc = "clear" => \A t \in Streams : t < st => list[t] = <<>>

LEMMA StepCounted == BaseInv /\ BaseInv' /\ Counted /\ [ResenderNext]_resenderVars => Counted'
<1> SUFFICES ASSUME BaseInv, BaseInv', Counted, [ResenderNext]_resenderVars PROVE Counted'
  OBVIOUS
<1>0. PICK q \in [Streams -> Seq(Entries)] : q = list
  BY DEF BaseInv, ResenderTypeOK
<1>a. PICK r \in [Streams -> Seq(Entries)] : r = list'
  BY DEF BaseInv, ResenderTypeOK
<1>b. /\ loopPc # "clear" => bytes = Total(q)
      /\ loopPc = "clear" => \A t \in Streams : t < st => q[t] = <<>>
  BY <1>0 DEF Counted
<1>c. SUFFICES /\ loopPc' # "clear" => bytes' = Total(r)
               /\ loopPc' = "clear" => \A t \in Streams : t < st' => r[t] = <<>>
  BY <1>a DEF Counted
<1>d. bytes \in Nat /\ st \in Streams /\ NStreams \in Nat
  BY ResenderAssumption DEF BaseInv, ResenderTypeOK
<1>1. ASSUME NEW s \in Streams, NEW i \in 1..Len(q[s]), loopPc \in {"free", "resend"}, loopPc' = loopPc,
             r = [q EXCEPT ![s] = Without(@, i)], EmptyWindow(q[s][i].size, TRUE)
      PROVE  bytes' = Total(r)
  <2>1. /\ Total(q) \in Nat /\ Total(r) \in Nat /\ q[s][i].size \in Nat
        /\ Total(q) = Total(r) + q[s][i].size
    <3>1. Shrunk(Total(q), Total(r), q[s][i].size)
      BY <1>1, TotalWithout, Zenon
    <3> QED
      BY <3>1 DEF Shrunk
  <2>2. PICK n \in Nat : n = q[s][i].size
    BY <2>1
  <2>3. bytes' = bytes - Least(n, bytes) /\ bytes = Total(q)
    BY <1>1, <1>b, <2>2 DEF EmptyWindow
  <2> QED
    BY <2>1, <2>2, <2>3 DEF Least
<1>2. ASSUME NEW s \in Streams, NEW n \in SeqNums, AckPacket(s, n)
      PROVE  loopPc' = "free" /\ bytes' = Total(r)
  <2>0. loopPc = "free" /\ loopPc' = "free"
    BY <1>2 DEF AckPacket, loop
  <2>1. CASE Has(s, n)
    <3> DEFINE i == CHOOSE j \in 1..Len(list[s]) : list[s][j].seq = n
    <3>1. i \in 1..Len(list[s])
      BY <2>1 DEF Has
    <3>2. EmptyWindow(list[s][i].size, TRUE) /\ list' = [list EXCEPT ![s] = Without(@, i)]
      BY <1>2, <2>1 DEF AckPacket
    <3> HIDE DEF i
    <3> QED
      BY <1>0, <1>a, <1>1, <2>0, <3>1, <3>2
  <2>2. CASE ~Has(s, n)
    <3>1. bytes' = bytes /\ r = q
      BY <1>0, <1>a, <1>2, <2>2 DEF AckPacket, EmptyWindow
    <3> QED
      BY <1>b, <2>0, <3>1
  <2> QED
    BY <2>0, <2>1, <2>2
<1>3. CASE DropExpired
  <2>1. /\ loopPc = "resend" /\ loopPc' = "resend"
        /\ EmptyWindow(list[st][at].size, TRUE) /\ list' = [list EXCEPT ![st] = Without(@, at)]
    BY <1>3, Zenon DEF DropExpired
  <2>2. at \in 1..Len(list[st])
    BY <1>3 DEF DropExpired, BaseInv, ResenderTypeOK
  <2> QED
    BY <1>0, <1>a, <1>d, <1>1, <2>1, <2>2
<1>4. ASSUME UNCHANGED bytes, loopPc # "clear",
             \A s \in Streams : /\ Len(r[s]) = Len(q[s])
                                /\ \A i \in 1..Len(q[s]) : r[s][i].size = q[s][i].size
      PROVE  bytes' = Total(r)
  BY <1>b, <1>4, TotalSame
<1>5. CASE Resend
  <2>1. at \in 1..Len(list[st]) /\ loopPc = "resend" /\ loopPc' = "resend" /\ UNCHANGED bytes
    BY <1>5 DEF Resend, BaseInv, ResenderTypeOK
  <2>2. list[st][at] \in Entries
    BY <1>0, <1>d, <2>1
  <2> DEFINE e == [list[st][at] EXCEPT !.age = 0, !.resent = TRUE]
  <2>3. e.size = list[st][at].size
    BY <2>2 DEF Entries
  <2>4. list' = [list EXCEPT ![st] = [list[st] EXCEPT ![at] = e]]
    BY <1>5, ZenonT(30) DEF Resend
  <2> HIDE DEF e
  <2>5. \A s \in Streams : /\ Len(r[s]) = Len(q[s])
                           /\ \A i \in 1..Len(q[s]) : r[s][i].size = q[s][i].size
    BY <1>0, <1>a, <1>d, <2>1, <2>3, <2>4
  <2> QED
    BY <1>4, <2>1, <2>5
<1>6. CASE Tick
  <2>1. \A s \in Streams : /\ Len(list'[s]) = Len(list[s])
                           /\ \A i \in 1..Len(list[s]) : list'[s][i].size = list[s][i].size
    <3> DEFINE older(e) == [e EXCEPT !.age = Least(@ + 1, MaxRTO + 1), !.left = Greatest(@ - 1, -1)]
    <3>0. list' = [s \in Streams |-> [i \in 1..Len(list[s]) |-> older(list[s][i])]]
      BY <1>6, Zenon DEF Tick
    <3> TAKE s \in Streams
    <3>1. list'[s] = [i \in 1..Len(list[s]) |-> older(list[s][i])]
      BY <3>0, Zenon
    <3>2. Len(list[s]) \in Nat /\ \A i \in 1..Len(list[s]) : list[s][i] \in Entries
      BY <1>0
    <3>3. \A e \in Entries : older(e).size = e.size
      BY DEF Entries
    <3> HIDE DEF older
    <3> QED
      BY <3>1, <3>2, <3>3
  <2>2. loopPc = "free" /\ loopPc' = "free" /\ UNCHANGED bytes
    BY <1>6, Zenon DEF Tick, loop
  <2> QED
    BY <1>0, <1>a, <1>4, <2>1, <2>2
<1>7. CASE EndResend
  <2>0. loopPc = "resend" /\ loopPc' = "free"
    BY <1>7 DEF EndResend
  <2>1. CASE UNCHANGED <<list, bytes>>
    BY <1>0, <1>a, <1>b, <2>0, <2>1
  <2>2. ASSUME NEW s \in Streams, NEW n \in SeqNums, NEW size \in Sizes, NEW limit \in AgeLimits,
               AddPacket(s, n, size, limit), ~UNCHANGED <<list, bytes>>
        PROVE  bytes' = Total(r)
    <3> DEFINE e == [seq |-> n, size |-> size, age |-> 0, left |-> limit, resent |-> FALSE]
    <3>1. list' = [list EXCEPT ![s] = Append(@, e)] /\ bytes' = bytes + size
      BY <2>2 DEF AddPacket
    <3>2. e \in Entries /\ e.size = size
      <4>1. 0 \in Ages /\ limit \in Int
        BY ResenderAssumption DEF Ages
      <4> QED
        BY <4>1 DEF Entries
    <3> HIDE DEF e
    <3>3. Total(r) = Total(q) + e.size
      <4>1. PICK entry \in Entries : entry = e
        BY <3>2
      <4>2. r[s] = Append(q[s], entry) /\ \A t \in Streams : t # s => r[t] = q[t]
        BY <1>0, <1>a, <3>1, <4>1
      <4>3. Total(r) = Total(q) + entry.size
        <5> HIDE DEF e
        <5> QED
          BY ONLY <4>1, <4>2, <1>0, <1>a, TotalAppend
      <4> QED
        BY <4>1, <4>3
    <3> QED
      BY <1>b, <2>0, <3>1, <3>2, <3>3
  <2> QED
    BY <1>7, <2>0, <2>1, <2>2 DEF EndResend
<1>8. ASSUME NEW w \in Windows, PlaySession(w)
      PROVE  loopPc' = "clear" /\ \A t \in Streams : t < st' => r[t] = <<>>
  BY <1>8 DEF PlaySession, Streams
<1>9. CASE ClearPacket
  <2>1. loopPc = "clear" /\ loopPc' = "clear" /\ st' = st /\ list' = [list EXCEPT ![st] = Tail(@)]
    BY <1>9 DEF ClearPacket, loop
  <2>2. \A t \in Streams : t < st => r[t] = q[t]
    BY <1>0, <1>a, <1>d, <2>1 DEF Streams
  <2> QED
    BY <1>b, <2>1, <2>2
<1>10. CASE ClearStream
  <2>1. loopPc = "clear" /\ q[st] = <<>> /\ r = q /\ bytes' = bytes - Least(bytes, bytes)
    BY <1>0, <1>a, <1>10 DEF ClearStream, EmptyWindow
  <2>2. bytes' = 0
    BY <1>d, <2>1 DEF Least
  <2>3. CASE st < NStreams
    <3>1. st' = st + 1 /\ loopPc' = "clear"
      BY <1>10, <2>1, <2>3 DEF ClearStream
    <3>2. \A t \in Streams : t < st + 1 => t < st \/ t = st
      BY <1>d DEF Streams
    <3> QED
      BY <1>b, <2>1, <3>1, <3>2
  <2>4. CASE ~(st < NStreams)
    <3>1. loopPc' = "free"
      BY <1>10, <2>4 DEF ClearStream
    <3>2. \A t \in Streams : t < st \/ t = st
      BY <1>d, <2>4 DEF Streams
    <3>3. \A t \in Streams : r[t] = <<>>
      BY <1>b, <2>1, <3>2
    <3> QED
      BY <2>2, <3>1, <3>3, TotalEmpty
  <2> QED
    BY <2>3, <2>4
<1>11. CASE ReliableRTPWrite \/ SendRetransmits \/ NotDue \/ NextStream \/ Pause \/ UNCHANGED resenderVars
  <2>1. bytes' = bytes /\ r = q /\ (loopPc' = "clear" => loopPc = "clear" /\ st' = st)
        /\ (loopPc' # "clear" => loopPc # "clear")
    BY <1>0, <1>a, <1>11
    DEF ReliableRTPWrite, SendRetransmits, StartResend, NotDue, NextStream, Pause, resenderVars,
        window, loop
  <2> QED
    BY <1>b, <2>1
<1>12. DropExpired \/ Resend \/ Tick \/ EndResend => loopPc' # "clear"
  <2>1. Tick => loopPc' = "free"
    BY Zenon DEF Tick, loop
  <2>2. DropExpired \/ Resend => loopPc' = "resend"
    BY Zenon DEF DropExpired, Resend
  <2>3. EndResend => loopPc' = "free"
    BY Zenon DEF EndResend
  <2> QED
    BY <2>1, <2>2, <2>3
<1> QED
  BY <1>2, <1>3, <1>5, <1>6, <1>7, <1>8, <1>9, <1>10, <1>11, <1>12
  DEF ResenderNext, ResendLoop, ClearLoop

\* The bytes the window counts are those of the packets all streams keep, whichever of them
\* was acknowledged, expired or cleared (RTPPacketResender, RTPBandwidthTracker).
THEOREM WindowCountsWhatIsKept == ResenderSpec => []BytesMatch
<1>1. ResenderInit => BaseInv /\ Counted
  <2> SUFFICES ASSUME ResenderInit PROVE Counted
    BY InitBase
  <2>1. PICK q \in [Streams -> Seq(Entries)] : q = list
    BY InitBase DEF BaseInv, ResenderTypeOK
  <2>2. Total(q) = 0
    BY <2>1, TotalEmpty DEF ResenderInit
  <2> QED
    BY <2>1, <2>2 DEF ResenderInit, Counted
<1>2. BaseInv /\ Counted /\ [ResenderNext]_resenderVars => BaseInv' /\ Counted'
  BY StepBase, StepCounted
<1>3. ASSUME Counted PROVE BytesMatch
  <2>1. Total(list) = MapThenSumSet(LAMBDA p : list[p[1]][p[2]].size, Kept)
    BY DEF Total, Kept, KeptIn
  <2>2. loopPc # "clear" => bytes = Total(list)
    BY <1>3 DEF Counted
  <2> QED
    BY <2>1, <2>2 DEF BytesMatch
<1> QED
  BY <1>1, <1>2, <1>3, PTL DEF ResenderSpec
=============================================================================
