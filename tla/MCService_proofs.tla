--------------------------- MODULE MCService_proofs ---------------------------
(***************************************************************************)
(* The parts of the service keep their types, in every instance of         *)
(* MCService.  For each part there is what its own invariant leaves out:   *)
(* variables that no other property needs, and the memory of an attribute  *)
(* after the call that ends its behaviour.                                 *)
(***************************************************************************)
EXTENDS MCService, Service_proofs, Storage_proofs

-----------------------------------------------------------------------------
(* Requests. *)

RequestTyped == StreamInv /\ cur \in Nat /\ posts \in 0..MaxPosts

LEMMA RequestTypedStart == RequestInit => RequestTyped
<1> SUFFICES ASSUME RequestInit PROVE cur \in Nat /\ posts \in 0..MaxPosts
  BY RequestStart DEF RequestTyped
<1> QED
  BY StreamAssumption DEF RequestInit

LEMMA RequestTypedStep == RequestTyped /\ [RequestNext]_requestVars => RequestTyped'
<1> SUFFICES ASSUME RequestTyped, [RequestNext]_requestVars
             PROVE  cur' \in Nat /\ posts' \in 0..MaxPosts
  BY RequestStep DEF RequestTyped
<1>1. /\ cur \in Nat /\ posts \in 0..MaxPosts /\ retreat \in Nat /\ encoded \in Nat
      /\ MaxPosts \in Nat /\ BufferSize \in Nat
  BY StreamAssumption DEF RequestTyped, StreamInv, PlaceTypes
<1>2. CASE Advance
  BY <1>1, <1>2 DEF Advance
<1>3. CASE CleanUp
  BY <1>1, <1>3 DEF CleanUp
<1>4. ASSUME NEW n \in 1..BufferSize, Fill(n)
      PROVE  cur' \in Nat /\ posts' \in 0..MaxPosts
  <2>1. cur' = cur + n /\ posts' = posts
    BY <1>4 DEF Fill
  <2> QED
    BY <1>1, <2>1
<1>5. ASSUME NEW want, NEW m, ReadBody(want, m)
      PROVE  cur' \in Nat /\ posts' \in 0..MaxPosts
  BY <1>1, <1>5 DEF ReadBody
<1>6. ASSUME NEW n, SnarfRetreat(n)
      PROVE  cur' \in Nat /\ posts' \in 0..MaxPosts
  <2>1. cur' = 0 /\ posts' = posts + 1 /\ posts < MaxPosts
    BY <1>6 DEF SnarfRetreat
  <2> QED
    BY <1>1, <2>1
<1>7. CASE UNCHANGED requestVars
  BY <1>1, <1>7 DEF requestVars
<1> QED
  BY <1>2, <1>3, <1>4, <1>5, <1>6, <1>7 DEF RequestNext

LEMMA RequestTypesAre == RequestTyped => RequestTypeOK
BY DEF RequestTyped, StreamInv, PlaceTypes, RequestTypeOK

-----------------------------------------------------------------------------
(* The error log. *)

ErrorTyped ==
    CountInv /\ logging \in BOOLEAN /\ errorLog \in BOOLEAN /\ startedUp \in BOOLEAN
             /\ verbosity \in Levels

LEMMA ErrorTypedStart == ErrorInit => ErrorTyped
BY ErrorStart DEF ErrorTyped, ErrorInit

LEMMA ErrorTypedStep == ErrorTyped /\ [ErrorNext]_errorVars => ErrorTyped'
<1> SUFFICES ASSUME ErrorTyped, [ErrorNext]_errorVars
             PROVE  /\ logging' \in BOOLEAN /\ errorLog' \in BOOLEAN /\ startedUp' \in BOOLEAN
                    /\ verbosity' \in Levels
  BY ErrorStep DEF ErrorTyped
<1>1. logging \in BOOLEAN /\ errorLog \in BOOLEAN /\ startedUp \in BOOLEAN /\ verbosity \in Levels
  BY DEF ErrorTyped
<1>2. ASSUME NEW m, NEW level, LogError(m, level)
      PROVE  errorLog' \in BOOLEAN /\ UNCHANGED <<logging, verbosity, startedUp>>
  BY <1>1, <1>2 DEF LogError, Duplicate, Different, CheckErrorLogState
<1>3. ASSUME NEW up \in BOOLEAN, WriteMark(up)
      PROVE  startedUp' = up /\ UNCHANGED <<logging, verbosity, errorLog>>
  BY <1>3 DEF WriteMark
<1>4. ASSUME NEW on \in BOOLEAN, NEW level \in Levels, RereadErrorPrefs(on, level)
      PROVE  logging' = on /\ verbosity' = level /\ UNCHANGED <<errorLog, startedUp>>
  BY <1>4 DEF RereadErrorPrefs
<1>5. CASE UNCHANGED errorVars
  BY <1>1, <1>5 DEF errorVars
<1>6. CASE WriteShutdownMessage \/ WriteStartupMessage
  BY <1>1, <1>3, <1>6 DEF WriteShutdownMessage, WriteStartupMessage
<1> QED
  BY <1>1, <1>2, <1>4, <1>5, <1>6 DEF ErrorNext

LEMMA ErrorTypesAre == ErrorTyped => ErrorTypeOK
<1> SUFFICES ASSUME ErrorTyped PROVE ErrorTypeOK
  OBVIOUS
<1>1. /\ lines \in Seq(Lines) /\ received \in Seq(Messages) /\ Len(received) <= MaxMessages
      /\ repeats \in Nat /\ repeats <= Len(received) /\ lost \in BOOLEAN
      /\ lastMessage \in Messages \cup {NoMessage}
  BY DEF ErrorTyped, CountInv, CountTypes
<1>2. repeats \in 0..MaxMessages
  BY <1>1, ErrorAssumption
<1>3. \A i \in DOMAIN lines : lines[i] \in Lines
  BY <1>1
<1>4. {logging, errorLog, startedUp, lost} \subseteq BOOLEAN /\ verbosity \in Levels
  BY <1>1, Zenon DEF ErrorTyped
<1> QED
  BY <1>1, <1>2, <1>3, <1>4 DEF ErrorTypeOK, Lines

-----------------------------------------------------------------------------
(* The listeners and the two processes. *)

ListTyped == ListInv /\ others \subseteq Places /\ sought \subseteq Places /\ refused \subseteq sought

LEMMA ListTypesAre == ListTyped => ListenerTypeOK
BY DEF ListTyped, ListInv, SocketRecords, ListenerTypeOK

LEMMA CreateTyped ==
    ASSUME ListTyped, NEW w \in Seq(Places), NEW listen \in BOOLEAN, CreateListeners(w, listen), ListInv'
    PROVE  ListTyped'
<1>1. /\ sought' = Range(w) /\ refused' = Needed(w) \cap Held /\ others' = others
  BY DEF CreateListeners
<1>2. Range(w) \subseteq Places /\ Needed(w) \subseteq Range(w)
  BY DEF Range, Needed
<1> QED
  BY <1>1, <1>2 DEF ListTyped

LEMMA OpenTyped == ASSUME ListTyped, OpenListeners \/ RereadListeners PROVE ListTyped'
<1>1. setting \in Seq(Places) /\ Override \in Seq(Places) /\ ListInv'
  BY ListenerAssumption, OpenKeeps DEF ListTyped, ListInv
<1>2. (IF Override # <<>> THEN Override ELSE setting) \in Seq(Places)
  BY <1>1
<1> QED
  BY <1>1, <1>2, CreateTyped DEF OpenListeners, RereadListeners

ControlTyped ==
    /\ ListTyped
    /\ parent \in {"start", "forking", "wait", "sleep", "gone"}
    /\ childPID \in {"zero", "child", "old"}
    /\ child \in Living \cup {"none", "exited", "signalled"}
    /\ inherited \in BOOLEAN /\ sigInt \in BOOLEAN /\ sigTerm \in BOOLEAN
    /\ restart \in BOOLEAN /\ rereads \in BOOLEAN
    /\ state \in {"fatal", "running", "shutting"} /\ code \in Codes
    /\ toParent \subseteq Signals /\ toChild \subseteq Signals
    /\ forks \in 0..MaxForks /\ sent \in 0..MaxSignals

LEMMA ControlTypesAre == ControlTyped => ControlTypeOK
<1> SUFFICES ASSUME ControlTyped PROVE ControlTypeOK
  OBVIOUS
<1>1. {inherited, sigInt, sigTerm, restart, rereads} \subseteq BOOLEAN
  BY Zenon DEF ControlTyped
<1> QED
  BY <1>1, ListTypesAre DEF ControlTyped, ControlTypeOK

LEMMA ControlTypedStart == ControlInit => ControlTyped
<1> SUFFICES ASSUME ControlInit PROVE ControlTyped
  OBVIOUS
<1>1. ListTyped
  BY ControlStart DEF ControlInit, ListenerInit, ListTyped
<1>2. 0 \in Codes /\ 0 \in 0..MaxForks /\ 0 \in 0..MaxSignals
  BY ControlAssumption DEF Codes
<1> QED
  BY <1>1, <1>2 DEF ControlInit, ControlTyped

\* The listeners of a step of the processes.
LEMMA ListTypedStep == ASSUME ControlTyped, [ControlNext]_controlVars PROVE ListTyped'
<1>0. ListInv' /\ ListTyped
  BY ControlStep DEF ControlTyped, ListTyped
<1>1. ASSUME UNCHANGED listenerVars PROVE ListTyped'
  BY <1>0, <1>1 DEF ListTyped, listenerVars
<1>2. ASSUME NEW how, NEW status, Ends(how, status) PROVE ListTyped'
  BY <1>0, <1>2 DEF Ends, CloseListeners, ListTyped
<1>3. CASE Fork \/ RecordChild \/ WaitReturns \/ NoRestart \/ Detach \/ CreateServer
  BY <1>1, <1>3 DEF Fork, RecordChild, WaitReturns, NoRestart, Detach, CreateServer
<1>4. CASE Initialize
  BY <1>0, <1>2, <1>4, OpenTyped DEF Initialize
<1>5. CASE StartServing
  <2>1. ASSUME StartListening PROVE ListTyped'
    BY <1>0, <2>1 DEF StartListening, ListTyped
  <2> QED
    BY <1>2, <1>5, <2>1 DEF StartServing
<1>6. CASE RereadTask
  BY <1>0, <1>1, <1>6, OpenTyped DEF RereadTask
<1>7. CASE DoIdle
  BY <1>1, <1>2, <1>7 DEF DoIdle
<1>8. CASE ChildCrashes
  BY <1>2, <1>8 DEF ChildCrashes
<1>9. ASSUME NEW sig \in Signals, Send(sig) \/ ParentCatches(sig) PROVE ListTyped'
  BY <1>1, <1>9 DEF Send, ParentCatches
<1>10. ASSUME NEW sig \in Signals, ChildCatches(sig) PROVE ListTyped'
  BY <1>1, <1>2, <1>10 DEF ChildCatches
<1>11. CASE Outside
  <2>1. ASSUME NEW s \in Sockets, ListenerDies(s) PROVE ListTyped'
    BY <1>0, <2>1 DEF ListenerDies, ListTyped
  <2>2. ASSUME NEW w \in Settings, EditSetting(w) PROVE ListTyped'
    BY <1>0, <2>2 DEF EditSetting, ListTyped
  <2>3. ASSUME NEW p \in Places, OtherProgram(p) PROVE ListTyped'
    BY <1>0, <2>3 DEF OtherProgram, ListTyped
  <2> QED
    BY <1>11, <2>1, <2>2, <2>3 DEF Outside
<1>12. CASE UNCHANGED controlVars
  BY <1>1, <1>12 DEF controlVars
<1> QED
  BY <1>3, <1>4, <1>5, <1>6, <1>7, <1>8, <1>9, <1>10, <1>11, <1>12 DEF ControlNext

\* What a step of the processes leaves, in the parent, in the child, and of the signals.
ParentTyped ==
    /\ parent \in {"start", "forking", "wait", "sleep", "gone"}
    /\ childPID \in {"zero", "child", "old"}
    /\ forks \in 0..MaxForks /\ sent \in 0..MaxSignals
ChildTyped ==
    /\ child \in Living \cup {"none", "exited", "signalled"}
    /\ inherited \in BOOLEAN /\ sigInt \in BOOLEAN /\ sigTerm \in BOOLEAN
    /\ restart \in BOOLEAN /\ rereads \in BOOLEAN
    /\ state \in {"fatal", "running", "shutting"} /\ code \in Codes
SignalsTyped == toParent \subseteq Signals /\ toChild \subseteq Signals

LEMMA ControlParts == ControlTyped <=> ListTyped /\ ParentTyped /\ ChildTyped /\ SignalsTyped
BY DEF ControlTyped, ParentTyped, ChildTyped, SignalsTyped

LEMMA ProcessesTyped ==
    ASSUME ControlTyped, [ControlNext]_controlVars
    PROVE  ParentTyped' /\ ChildTyped' /\ SignalsTyped'
<1>0. ParentTyped /\ ChildTyped /\ SignalsTyped
  BY ControlParts
<1>1. ASSUME UNCHANGED parentVars PROVE ParentTyped' /\ toParent' \subseteq Signals
  BY <1>0, <1>1 DEF ParentTyped, SignalsTyped, parentVars
<1>2. ASSUME UNCHANGED childVars, child' \in Living \cup {"none", "exited", "signalled"}
      PROVE  ChildTyped'
  BY <1>0, <1>2 DEF ChildTyped, childVars
<1>3. ASSUME NEW how \in {"exited", "signalled"}, NEW status \in Codes, Ends(how, status),
             UNCHANGED <<inherited, sigInt, sigTerm, state, restart>>
      PROVE  ChildTyped' /\ toChild' \subseteq Signals
  BY <1>0, <1>3 DEF Ends, ChildTyped
<1>4. CASE Fork
  <2>1. ParentTyped'
    BY <1>0, <1>4, ControlAssumption DEF Fork, ParentTyped
  <2>2. ChildTyped' /\ SignalsTyped'
    BY <1>0, <1>4 DEF Fork, ChildTyped, SignalsTyped, Living, Codes
  <2> QED
    BY <2>1, <2>2
<1>5. CASE RecordChild \/ WaitReturns \/ NoRestart
  <2>1. ParentTyped' /\ SignalsTyped'
    BY <1>0, <1>5 DEF RecordChild, WaitReturns, NoRestart, ParentTyped, SignalsTyped
  <2>2. ChildTyped'
    BY <1>0, <1>2, <1>5 DEF RecordChild, WaitReturns, NoRestart, ChildTyped
  <2> QED
    BY <2>1, <2>2
<1>6. CASE Detach \/ CreateServer
  BY <1>0, <1>1, <1>2, <1>6 DEF Detach, CreateServer, SignalsTyped, Living
<1>7. CASE Initialize
  BY <1>0, <1>1, <1>2, <1>3, <1>7 DEF Initialize, SignalsTyped, Living, Codes
<1>8. CASE StartServing
  <2>1. CASE child' = "serving" /\ state' = "running"
                /\ UNCHANGED <<inherited, sigInt, sigTerm, restart, code, rereads, toChild>>
    BY <1>0, <1>1, <1>8, <2>1 DEF StartServing, SignalsTyped, ChildTyped, Living
  <2>2. CASE Ends("exited", -1) /\ UNCHANGED <<inherited, sigInt, sigTerm, state, restart>>
    BY <1>1, <1>3, <1>8, <2>2 DEF StartServing, SignalsTyped, Codes
  <2> QED
    BY <1>8, <2>1, <2>2 DEF StartServing
<1>9. CASE RereadTask
  BY <1>0, <1>1, <1>9 DEF RereadTask, SignalsTyped, ChildTyped
<1>10. CASE DoIdle
  <2>1. CASE state' = "shutting" /\ restart' = Restarts
                /\ UNCHANGED <<listenerVars, child, code, rereads, toChild>>
    <3>1. restart' \in BOOLEAN
      BY <2>1, Zenon DEF Restarts
    <3> QED
      BY <1>0, <1>1, <1>10, <2>1, <3>1 DEF DoIdle, SignalsTyped, ChildTyped
  <2>2. CASE Ends("exited", IF restart THEN -2 ELSE 0) /\ UNCHANGED <<state, restart>>
    <3>1. (IF restart THEN -2 ELSE 0) \in Codes
      BY DEF Codes
    <3> QED
      BY <1>1, <1>3, <1>10, <2>2, <3>1 DEF DoIdle, SignalsTyped
  <2> QED
    BY <1>10, <2>1, <2>2 DEF DoIdle
<1>11. CASE ChildCrashes
  BY <1>1, <1>3, <1>11 DEF ChildCrashes, SignalsTyped, Codes
<1>12. ASSUME NEW sig \in Signals, Send(sig)
       PROVE  ParentTyped' /\ ChildTyped' /\ SignalsTyped'
  <2>1. ParentTyped'
    BY <1>0, <1>12, ControlAssumption DEF Send, ParentTyped
  <2>2. ChildTyped'
    BY <1>0, <1>2, <1>12 DEF Send, ChildTyped
  <2>3. SignalsTyped'
    BY <1>0, <1>12 DEF Send, SignalsTyped
  <2> QED
    BY <2>1, <2>2, <2>3
<1>13. ASSUME NEW sig \in Signals, ParentCatches(sig)
       PROVE  ParentTyped' /\ ChildTyped' /\ SignalsTyped'
  <2>1. ParentTyped'
    BY <1>0, <1>13 DEF ParentCatches, ParentTyped
  <2>2. ChildTyped'
    BY <1>0, <1>2, <1>13 DEF ParentCatches, ChildTyped
  <2>3. SignalsTyped'
    BY <1>0, <1>13 DEF ParentCatches, SignalsTyped
  <2> QED
    BY <2>1, <2>2, <2>3
<1>14. ASSUME NEW sig \in Signals, ChildCatches(sig)
       PROVE  ParentTyped' /\ ChildTyped' /\ SignalsTyped'
  <2>0. ParentTyped' /\ toParent' \subseteq Signals
    BY <1>1, <1>14 DEF ChildCatches
  <2>1. CASE toChild' = toChild \ {sig} /\ UNCHANGED <<listenerVars, child, childVars>>
    BY <1>0, <1>2, <2>0, <2>1 DEF SignalsTyped, ChildTyped
  <2>2. CASE Ends("signalled", 0) /\ UNCHANGED <<inherited, sigInt, sigTerm, state, restart>>
    BY <1>3, <2>0, <2>2 DEF SignalsTyped, Codes
  <2>3. CASE /\ toChild' = toChild \ {sig}
             /\ sigInt' = (sigInt \/ sig = "INT") /\ sigTerm' = (sigTerm \/ sig = "TERM")
             /\ rereads' = (rereads \/ sig = "HUP")
             /\ UNCHANGED <<listenerVars, child, inherited, state, restart, code>>
    <3>1. sigInt' \in BOOLEAN /\ sigTerm' \in BOOLEAN /\ rereads' \in BOOLEAN
      BY <2>3, Zenon
    <3> QED
      BY <1>0, <2>0, <2>3, <3>1 DEF SignalsTyped, ChildTyped
  <2> QED
    BY <1>14, <2>1, <2>2, <2>3 DEF ChildCatches
<1>15. CASE Outside
  BY <1>0, <1>1, <1>2, <1>15 DEF Outside, SignalsTyped, ChildTyped
<1>16. CASE UNCHANGED controlVars
  <2>1. UNCHANGED <<parentVars, childVars, child, toChild>>
    BY <1>16 DEF controlVars, parentVars, childVars
  <2> QED
    BY <1>0, <1>1, <1>2, <2>1 DEF SignalsTyped, ChildTyped
<1>17. CASE \E sig \in Signals : Send(sig) \/ ParentCatches(sig) \/ ChildCatches(sig)
  BY <1>12, <1>13, <1>14, <1>17
<1>18. CASE \/ Fork \/ RecordChild \/ WaitReturns \/ NoRestart
            \/ Detach \/ CreateServer \/ Initialize \/ StartServing \/ RereadTask \/ DoIdle
            \/ ChildCrashes
  BY <1>4, <1>5, <1>6, <1>7, <1>8, <1>9, <1>10, <1>11, <1>18
<1> QED
  BY <1>15, <1>16, <1>17, <1>18 DEF ControlNext

LEMMA ControlTypedStep == ControlTyped /\ [ControlNext]_controlVars => ControlTyped'
<1> SUFFICES ASSUME ControlTyped, [ControlNext]_controlVars PROVE ControlTyped'
  OBVIOUS
<1>1. ListTyped' /\ ParentTyped' /\ ChildTyped' /\ SignalsTyped'
  BY ListTypedStep, ProcessesTyped
<1> QED
  BY <1>1 DEF ControlTyped, ParentTyped, ChildTyped, SignalsTyped

-----------------------------------------------------------------------------
(* The attribute, also when a string longer than the array has cut it off. *)

LEMMA DeleteTyped ==
    ASSUME NEW m \in Memories, NEW b, NEW r, r = Delete(m, b)
    PROVE  r \in Memories /\ r.slot = m.slot /\ DOMAIN r.heap \subseteq DOMAIN m.heap
<1> DEFINE D == DOMAIN m.heap \ {b}
           h == [x \in D |-> m.heap[x]]
           lost1 == m.stray \/ b \notin DOMAIN m.heap \ {External}
<1>1. r = [m EXCEPT !.heap = h, !.stray = lost1]
  BY DEF Delete, Restrict
<1>2. h \in Heaps /\ DOMAIN h \subseteq DOMAIN m.heap
  <2>1. D \subseteq Blocks \cup {External} /\ \A x \in D : m.heap[x] \in Cells
    BY MemoryParts, HeapParts
  <2>2. h = [x \in D |-> h[x]] /\ \A x \in D : h[x] \in Cells
    BY <2>1
  <2> HIDE DEF h, D
  <2>3. h \in Heaps
    BY <2>1, <2>2, HeapWhole
  <2> QED
    BY <2>3 DEF h, D
<1>3. lost1 \in BOOLEAN
  BY Zenon
<1> HIDE DEF h, lost1
<1> QED
  BY <1>1, <1>2, <1>3 DEF Memories

LEMMA SetCellTyped ==
    ASSUME NEW m \in Memories, NEW k \in 1..MaxValues, NEW x \in CellValues,
           NEW r, r = SetCell(m, k, x)
    PROVE  r \in Memories
<1> DEFINE p == m.slot.ptr
           D == DOMAIN m.heap
           h == [b \in D |-> IF b = p THEN [m.heap[b] EXCEPT ![k] = x] ELSE m.heap[b]]
<1>1. r = [m EXCEPT !.heap = h]
  BY DEF SetCell
<1>2. D \subseteq Blocks \cup {External} /\ \A b \in D : m.heap[b] \in [1..MaxValues -> CellValues]
  BY MemoryParts, HeapParts DEF Cells, CellValues
<1>3. h = [b \in D |-> h[b]] /\ \A b \in D : h[b] \in Cells
  BY <1>2 DEF Cells, CellValues
<1>4. h \in Heaps
  <2> HIDE DEF h, D
  <2> QED
    BY <1>2, <1>3, HeapWhole
<1> HIDE DEF h
<1> QED
  BY <1>1, <1>4 DEF Memories

\* The first of several strings is replaced by one that is longer than the array.
LEMMA OverlongTyped ==
    ASSUME NEW m, NEW q, Listed("string", m, q, {}), Len(q) > 1, NEW v \in Contents,
           Size[v] > m.slot.alloc, kind = "string",
           NEW r, r = Numbered(Stored(Enlarged(m, 0, Size[v]), 0, v), 0)
    PROVE  r \in Memories
<1> DEFINE e == Enlarged(m, 0, Size[v])
           b == Fresh(m.heap)
           s == Fresh(e.heap)
           n == Len(q)
           cells == [NewBlock EXCEPT ![1] = v]
           m1 == New(e, s, cells)
           m2 == Delete(m1, CellsOf(e, e.slot.ptr)[1])
           m3 == SetCell(m2, 1, s)
<1>1. /\ m \in Memories /\ m.slot.num = n /\ m.slot.ptr \in Blocks /\ m.slot.internal
      /\ DOMAIN m.heap = {External, m.slot.ptr} \cup {Piece(m, k) : k \in 1..n}
      /\ n \in Nat /\ n <= MaxValues
  <2>1. m.slot.ptr # Nothing /\ m \in Memories /\ m.slot.num = n /\ m.slot.ptr \in Blocks
        /\ m.slot.internal
    BY DEF Listed
  <2>2. DOMAIN m.heap = {External, m.slot.ptr} \cup {Piece(m, k) : k \in 1..n}
    BY <2>1, StoreConstants DEF Listed
  <2> QED
    BY <2>1, <2>2, MemoryParts, StoreConstants
<1>2. b \in Blocks /\ b \notin DOMAIN m.heap
  BY ListedRoom DEF MayGrow
<1>3. Size[v] \in Nat /\ Size[v] * (0 + 1) = Size[v] /\ m.slot.alloc \in Nat
  BY <1>1, StoreConstants, MemoryParts
<1>4. /\ e \in Memories /\ e.slot.num = n /\ e.slot.ptr = b
      /\ DOMAIN e.heap = (DOMAIN m.heap \ {m.slot.ptr}) \cup {b}
  <2>1. ~(Size[v] * (0 + 1) <= m.slot.alloc) /\ 0 \in Nat
    BY <1>3
  <2>2. m.slot.internal => m.slot.ptr \in DOMAIN m.heap /\ m.slot.ptr # External
    BY <1>1, StoreConstants
  <2> HIDE DEF e, b
  <2>3. PICK x : x = b /\ x \in Blocks /\ x \notin DOMAIN m.heap /\ x = Fresh(m.heap)
    BY <1>2 DEF b
  <2>4. PICK y : y = e /\ y = Enlarged(m, 0, Size[v])
    BY DEF e
  <2> QED
    BY <1>1, <1>3, <2>1, <2>2, <2>3, <2>4, EnlargedIs
<1> HIDE DEF e, b
<1>5. s \in Blocks /\ s \notin DOMAIN e.heap
  <2> DEFINE c == [k \in 1..n |-> Piece(m, k)]
  <2>1. DOMAIN e.heap \subseteq {External, b} \cup {c[k] : k \in 1..n}
    BY <1>1, <1>4
  <2>2. n \in 0..MaxValues
    BY <1>1, StoreConstants
  <2> HIDE DEF c, n
  <2>3. UsesOnly(DOMAIN e.heap, n, c, b, b)
    BY <2>1 DEF UsesOnly
  <2>4. HasRoom(DOMAIN e.heap)
    BY <2>2, <2>3, RoomOne
  <2> QED
    BY <2>4, FreshIs
<1>6. cells \in Cells
  <2>1. NewBlock \in [1..MaxValues -> Contents \cup Blocks \cup {Nothing}] /\ 1 \in 1..MaxValues
    BY NewBlockType, StoreConstants DEF Cells
  <2> QED
    BY <2>1 DEF Cells
<1> HIDE DEF cells, s
<1>7. m1 \in Memories /\ m1.slot = e.slot
  BY <1>4, <1>5, <1>6, NewIs
<1> HIDE DEF m1
<1>8. m2 \in Memories /\ m2.slot = e.slot
  BY <1>7, DeleteTyped
<1> HIDE DEF m2
<1>9. m3 \in Memories
  BY <1>5, <1>8, SetCellTyped, StoreConstants DEF CellValues
<1>10. Stored(e, 0, v) = m3
  <2>1. Stored(e, 0, v) = StringPut(e, 0, v)
    BY <1>1, <1>4 DEF Stored
  <2>2. 0 < e.slot.num /\ 0 + 1 = 1
    BY <1>1, <1>4
  <2> QED
    BY <2>1, <2>2 DEF StringPut, m3, m2, m1, cells, s
<1>11. r = Numbered(m3, 0)
  BY <1>10 DEF e
<1> HIDE DEF m3
<1> QED
  BY <1>9, <1>11, NumberedIs, StoreConstants

StoreTyped ==
    /\ StoreInv
    /\ Memory \in Memories /\ stored \in Seq(Contents \cup Blocks)
    /\ holder \in Threads \cup {NoThread} /\ locked \in BOOLEAN
    /\ given \in Blocks \cup {External, Nothing}

LEMMA StoreTypesAre == StoreTyped => StoreTypeOK
<1> SUFFICES ASSUME StoreTyped PROVE StoreTypeOK
  OBVIOUS
<1>1. slot \in SlotRecords /\ heap \in Heaps /\ stray \in BOOLEAN
  BY DEF StoreTyped, Memory, Memories
<1>2. DOMAIN heap \subseteq Blocks \cup {External} /\ Range(heap) \subseteq Cells
  BY <1>1, HeapParts DEF Range
<1>3. {stray, locked, overlong} \subseteq BOOLEAN
  BY <1>1, Zenon DEF StoreTyped, StoreInv
<1> QED
  BY <1>1, <1>2, <1>3 DEF StoreTyped, StoreInv, StoreTypeOK, SlotRecords

\* What Rep says of the memory includes its types.
LEMMA RepTypes ==
    ASSUME NEW k, NEW m, NEW q, Rep(k, m, q)
    PROVE  /\ m \in Memories /\ q \in Seq(Contents \cup Blocks)
           /\ DOMAIN m.heap \subseteq Blocks \cup {External}
<1>1. m \in Memories /\ q \in Seq(ValuesOf(k))
  BY RepMemories
<1>2. q \in Seq(Contents \cup Blocks)
  BY <1>1 DEF ValuesOf
<1>3. m.heap \in Heaps
  BY <1>1 DEF Memories
<1> QED
  BY <1>1, <1>2, <1>3, HeapParts

LEMMA StoreTypedStart == StoreInit => StoreTyped
<1> SUFFICES ASSUME StoreInit PROVE StoreTyped
  OBVIOUS
<1>1. StoreInv /\ ~overlong /\ given = Nothing /\ holder = NoThread
      /\ locked = FALSE
  BY StoreStart DEF StoreInit
<1>2. Memory \in Memories /\ stored \in Seq(Contents \cup Blocks)
  BY <1>1, RepTypes DEF StoreInv
<1> QED
  BY <1>1, <1>2 DEF StoreTyped

\* The call after which nothing more is done to the attribute.
LEMMA LastCallTyped ==
    ASSUME StoreTyped, NEW t \in Threads, NEW i \in 0..(MaxValues - 1), NEW v \in Contents,
           SetValue(t, i, v), overlong'
    PROVE  /\ Memory' \in Memories /\ stored' \in Seq(Contents \cup Blocks)
           /\ given' \in Blocks \cup {External, Nothing}
<1> DEFINE r == Numbered(Stored(Enlarged(Memory, 0, Size[v]), 0, v), 0)
<1>1. /\ kind = "string" /\ i = 0 /\ slot.num > 1 /\ Size[v] > slot.alloc /\ ~overlong
      /\ Enter(t) /\ stored' = IF i < Len(stored) THEN [stored EXCEPT ![i + 1] = v]
                               ELSE Append(stored, v)
  BY DEF SetValue, Enter
<1>2. Becomes(r)
  BY <1>1 DEF SetValue, Width
<1>3. Memory.slot = slot /\ Rep(kind, Memory, stored) /\ slot.num = Len(stored)
      /\ stored \in Seq(Contents \cup Blocks)
  BY <1>1, RepMemories DEF Memory, StoreTyped, StoreInv
<1>4. Listed("string", Memory, stored, {}) /\ Len(stored) > 1 /\ Size[v] > Memory.slot.alloc
  BY <1>1, <1>3 DEF Rep, AreListed
<1> HIDE DEF r
<1>5. r \in Memories
  BY <1>1, <1>4, OverlongTyped DEF r
<1>6. stored' \in Seq(Contents \cup Blocks)
  BY <1>1, <1>3
<1>7. given' \in Blocks \cup {External, Nothing}
  BY <1>1 DEF Enter, StoreTyped
<1> QED
  BY <1>2, <1>5, <1>6, <1>7, BecomesIs

LEMMA StoreTypedStep == StoreTyped /\ [StoreNext]_storeVars => StoreTyped'
<1> SUFFICES ASSUME StoreTyped, [StoreNext]_storeVars
             PROVE  /\ Memory' \in Memories /\ stored' \in Seq(Contents \cup Blocks)
                    /\ holder' \in Threads \cup {NoThread} /\ locked' \in BOOLEAN
                    /\ given' \in Blocks \cup {External, Nothing}
  BY StoreStep DEF StoreTyped
<1>1. StoreInv'
  BY StoreStep DEF StoreTyped
<1>2. holder' \in Threads \cup {NoThread} /\ locked' \in BOOLEAN
  <2>1. ASSUME NEW t \in Threads, Enter(t) PROVE UNCHANGED <<holder, locked>>
    BY <2>1 DEF Enter
  <2>2. ASSUME NEW t \in Threads, NEW i \in 0..(MaxValues - 1), NEW v \in Contents, SetValue(t, i, v)
        PROVE  UNCHANGED <<holder, locked>>
    BY <2>1, <2>2 DEF SetValue
  <2>3. ASSUME NEW t \in Threads, NEW i \in 0..(MaxValues - 1), RemoveValue(t, i)
        PROVE  UNCHANGED <<holder, locked>>
    BY <2>1, <2>3 DEF RemoveValue
  <2>4. ASSUME NEW t \in Threads, NEW n \in 0..(MaxValues - 1), SetNumValues(t, n)
        PROVE  UNCHANGED <<holder, locked>>
    BY <2>1, <2>4 DEF SetNumValues
  <2>5. ASSUME NEW t \in Threads, CreateObjectValue(t)
        PROVE  UNCHANGED <<holder, locked>>
    BY <2>1, <2>5 DEF CreateObjectValue
  <2>6. ASSUME NEW t \in Threads, NEW i \in 0..(MaxValues - 1), GetValuePtr(t, i)
        PROVE  UNCHANGED <<holder, locked>>
    BY <2>6 DEF GetValuePtr
  <2>7. ASSUME NEW t \in Threads, LockObject(t) \/ UnlockObject(t)
        PROVE  holder' \in Threads \cup {NoThread} /\ locked' \in BOOLEAN
    BY <2>7 DEF LockObject, UnlockObject
  <2>8. CASE UNCHANGED storeVars
    BY <2>8 DEF storeVars, StoreTyped
  <2> QED
    BY <2>2, <2>3, <2>4, <2>5, <2>6, <2>7, <2>8 DEF StoreNext, StoreTyped
<1>3. CASE ~overlong'
  <2>1. Rep(kind', Memory', stored') /\ (given' # Nothing => given' \in DOMAIN heap')
    BY <1>1, <1>3 DEF StoreInv
  <2>2. PICK k, m, q, h : k = kind' /\ m = Memory' /\ q = stored' /\ h = heap'
    OBVIOUS
  <2>3. m.heap = h
    BY <2>2 DEF Memory
  <2>4. m \in Memories /\ q \in Seq(Contents \cup Blocks) /\ DOMAIN h \subseteq Blocks \cup {External}
    BY <2>1, <2>2, <2>3, RepTypes
  <2> QED
    BY <1>2, <2>1, <2>2, <2>4
<1>4. CASE overlong'
  <2>1. ASSUME UNCHANGED <<slot, heap, stray, stored>>
        PROVE  Memory' \in Memories /\ stored' \in Seq(Contents \cup Blocks)
    BY <2>1 DEF Memory, StoreTyped
  <2>2. ASSUME NEW t \in Threads, NEW i \in 0..(MaxValues - 1), NEW v \in Contents, SetValue(t, i, v)
        PROVE  /\ Memory' \in Memories /\ stored' \in Seq(Contents \cup Blocks)
               /\ given' \in Blocks \cup {External, Nothing}
    BY <1>4, <2>2, LastCallTyped
  <2>3. ASSUME NEW t \in Threads, LockObject(t) \/ UnlockObject(t)
        PROVE  /\ Memory' \in Memories /\ stored' \in Seq(Contents \cup Blocks)
               /\ given' \in Blocks \cup {External, Nothing}
    BY <2>1, <2>3 DEF LockObject, UnlockObject, StoreTyped
  <2>4. ASSUME NEW t \in Threads, Enter(t), overlong' = overlong PROVE FALSE
    BY <1>4, <2>4 DEF Enter
  <2>5. ASSUME NEW t \in Threads, NEW i \in 0..(MaxValues - 1), RemoveValue(t, i) PROVE FALSE
    BY <2>4, <2>5 DEF RemoveValue
  <2>6. ASSUME NEW t \in Threads, NEW n \in 0..(MaxValues - 1), SetNumValues(t, n) PROVE FALSE
    BY <2>4, <2>6 DEF SetNumValues
  <2>7. ASSUME NEW t \in Threads, CreateObjectValue(t) PROVE FALSE
    BY <2>4, <2>7 DEF CreateObjectValue
  <2>8. ASSUME NEW t \in Threads, NEW i \in 0..(MaxValues - 1), GetValuePtr(t, i) PROVE FALSE
    BY <1>4, <2>8 DEF GetValuePtr
  <2>9. CASE UNCHANGED storeVars
    BY <2>1, <2>9 DEF storeVars, StoreTyped
  <2>10. /\ Memory' \in Memories /\ stored' \in Seq(Contents \cup Blocks)
         /\ given' \in Blocks \cup {External, Nothing}
    BY <2>2, <2>3, <2>5, <2>6, <2>7, <2>8, <2>9 DEF StoreNext
  <2> QED
    BY <1>2, <2>10
<1> QED
  BY <1>3, <1>4

-----------------------------------------------------------------------------
(* The parts of the service, of which a behaviour takes one. *)

ServiceInv ==
    /\ RequestTyped /\ ConnInv /\ TunnelInv /\ StoreTyped
    /\ LogInv /\ ControlTyped /\ PrefsInv /\ ErrorTyped

LEMMA ServiceStart == ServiceInit => ServiceInv
BY RequestTypedStart, ConnStart, TunnelStart, StoreTypedStart, LogStart, ControlTypedStart,
   PrefsInitially, ErrorTypedStart DEF ServiceInit, ServiceInv

\* A step of the service is, for each part, a step of it or none.
LEMMA ServiceParts ==
    ASSUME [ServiceNext]_serviceVars
    PROVE  /\ [RequestNext]_requestVars /\ [ConnNext]_connVars /\ [TunnelNext]_tunnelVars
           /\ [StoreNext]_storeVars /\ [LogNext]_logVars /\ [ControlNext]_controlVars
           /\ [PrefsNext]_prefsVars /\ [ErrorNext]_errorVars
BY DEF ServiceNext, serviceVars

LEMMA ServiceStep == ServiceInv /\ [ServiceNext]_serviceVars => ServiceInv'
<1> SUFFICES ASSUME ServiceInv, [ServiceNext]_serviceVars PROVE ServiceInv'
  OBVIOUS
<1>1. /\ RequestTyped' /\ ConnInv' /\ TunnelInv' /\ StoreTyped'
      /\ LogInv' /\ ControlTyped' /\ PrefsInv' /\ ErrorTyped'
  BY ServiceParts, RequestTypedStep, ConnStep, TunnelStep, StoreTypedStep, LogStep,
     ControlTypedStep, PrefsStep, ErrorTypedStep DEF ServiceInv
<1> QED
  BY <1>1 DEF ServiceInv

LEMMA ServiceTypesAre == ServiceInv => ServiceTypeOK
<1> SUFFICES ASSUME ServiceInv PROVE ServiceTypeOK
  OBVIOUS
<1>1. TunnelTypeOK
  BY DEF ServiceInv, TunnelInv
<1> QED
  BY <1>1, RequestTypesAre, OutputTyped, StoreTypesAre, LogTypesAre, ControlTypesAre,
     PrefsTypesAre, ErrorTypesAre DEF ServiceInv, ServiceTypeOK

\* Whatever part of the service runs, the requests and their buffers, the connection and its
\* output, the tunnel halves, the memory of the attributes, the log, the processes and the
\* listeners, the preferences and the error log are of their types.
THEOREM ServiceTypes == ServiceSpec => []ServiceTypeOK
<1>1. ServiceInit => ServiceInv
  BY ServiceStart
<1>2. ServiceInv /\ [ServiceNext]_serviceVars => ServiceInv'
  BY ServiceStep
<1>3. ServiceInv => ServiceTypeOK
  BY ServiceTypesAre
<1> QED
  BY <1>1, <1>2, <1>3, PTL DEF ServiceSpec

=============================================================================
