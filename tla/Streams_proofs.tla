---------------------------- MODULE Streams_proofs ----------------------------
(***************************************************************************)
(* Theorems about the streams: what reaches them (StreamSetup), and the    *)
(* mutexes that the tasks which serve them take (StreamLocks).             *)
(*                                                                         *)
(* Packets of the clients reach the stream they are for (StreamsReached),  *)
(* for any number of sessions, connections, tracks, addresses and sockets. *)
(* The property is not inductive.  That a new stream finds its place in    *)
(* the table free needs that nobody uses a pair that is not bound, and so  *)
(* the exact count of its users (PairsCounted).  That a channel leads to   *)
(* its stream needs that the map of the connection and the channels of the *)
(* streams are inverse to each other (Numbered), and that what is pushed   *)
(* is reflected as the same track that a session which is alone on its     *)
(* connection has its streams in the order of their channels (InTurn).     *)
(*                                                                         *)
(* Every task takes the mutexes in the order of their ranks, but for the   *)
(* one case that Mine names, so that no circle of tasks can wait, for any  *)
(* finite sets of broadcasters and viewers and any number of streams and   *)
(* task threads.                                                           *)
(***************************************************************************)
EXTENDS StreamSetup, StreamLocks, DataLemmas, SequenceTheorems

\* The streams that hold pair p.
Users(p) == {s \in StreamIDs : Object(s).pair = p /\ Object(s).state # "deleted"}

\* What stream s has depends on its transport, and while it is up its address
\* is in the table.
InTable(o, s, entries) ==
    IF o.tcp THEN o.pair = Nobody
    ELSE /\ o.pair \in Pairs /\ o.dest \in Destinations
         /\ o.rtp = 0 /\ o.rtcp = 0
         /\ o.state = "up" => entries[o.pair][o.dest] = s

Registered ==
    \A c \in ClientSessions : \A i \in 1..Len(added[c]) : InTable(added[c][i], <<c, i>>, table)

\* The table has streams that are up, at their addresses.
Entered ==
    \A p \in Pairs, d \in Destinations : table[p][d] # Nobody =>
        \E c \in ClientSessions : \E i \in 1..Len(added[c]) :
            /\ table[p][d] = <<c, i>>
            /\ ~added[c][i].tcp /\ added[c][i].state = "up"
            /\ added[c][i].pair = p /\ added[c][i].dest = d

\* Stream o has the channels of place n in the map of connection k.
HasPlace(o, k, n) == o.tcp /\ o.conn = k /\ o.rtp = 2 * (n - 1) /\ o.rtcp = 2 * (n - 1) + 1

\* The map of a connection leads to the stream with the channels.
Numbered ==
    \A k \in Connections : \A n \in 1..Len(given[k]) :
        \E i \in 1..Len(added[given[k][n]]) : HasPlace(added[given[k][n]][i], k, n)

\* The channels of a stream are the two of some place.
EvenChannels(o) == o.tcp => \E n \in Nat : o.rtp = 2 * n /\ o.rtcp = 2 * n + 1

Even == \A c \in ClientSessions : \A i \in 1..Len(added[c]) : EvenChannels(added[c][i])

SetupInv ==
    /\ SetupTypeOK
    /\ Registered /\ Entered
    /\ \A p \in Pairs : IsFiniteSet(Users(p))
    /\ PairsCounted
    /\ Numbered /\ Even

-----------------------------------------------------------------------------
(* What a step does to the streams                                         *)

LEMMA Adds ==
    ASSUME SetupTypeOK, NEW c \in ClientSessions, NEW o \in StreamObjects, AddStream(c, o)
    PROVE  /\ added' \in [ClientSessions -> Seq(StreamObjects)]
           /\ phase' \in [ClientSessions -> {"new", "live", "closed", "deleted"}]
           /\ Len(added'[c]) = Len(added[c]) + 1
           /\ added'[c][Len(added[c]) + 1] = o
           /\ \A i \in 1..Len(added[c]) : added'[c][i] = added[c][i]
           /\ \A b \in ClientSessions \ {c} : added'[b] = added[b]
BY DEF SetupTypeOK, AddStream

\* Stream r is stream o in state x.
SameBut(o, r, x) ==
    /\ r.track = o.track /\ r.conn = o.conn /\ r.tcp = o.tcp /\ r.rtp = o.rtp
    /\ r.rtcp = o.rtcp /\ r.pair = o.pair /\ r.dest = o.dest /\ r.state = x

\* A step changes the state of stream i of session c to x.
ChangesState(c, i, x) == added' = [added EXCEPT ![c][i].state = x]

LEMMA Changes ==
    ASSUME SetupTypeOK, NEW c \in ClientSessions, NEW i \in 1..Len(added[c]),
           NEW x \in {"up", "unregistered", "deleted"},
           ChangesState(c, i, x)
    PROVE  /\ added' \in [ClientSessions -> Seq(StreamObjects)]
           /\ \A b \in ClientSessions : Len(added'[b]) = Len(added[b])
           /\ SameBut(added[c][i], added'[c][i], x)
           /\ \A b \in ClientSessions : \A j \in 1..Len(added[b]) :
                 b # c \/ j # i => added'[b][j] = added[b][j]
<1>1. added[c] \in Seq(StreamObjects) /\ added[c][i] \in StreamObjects
    BY DEF SetupTypeOK
<1>2. [added[c][i] EXCEPT !.state = x] \in StreamObjects
    BY <1>1 DEF StreamObjects
<1> DEFINE q == [added[c] EXCEPT ![i] = [added[c][i] EXCEPT !.state = x]]
<1>3. q \in Seq(StreamObjects) /\ Len(q) = Len(added[c])
    BY <1>1, <1>2
<1>4. q[i] = [added[c][i] EXCEPT !.state = x] /\ \A j \in 1..Len(added[c]) : j # i => q[j] = added[c][j]
    BY <1>1
<1>5. added' = [added EXCEPT ![c] = q]
    BY DEF SetupTypeOK, ChangesState
<1>6. added'[c] = q /\ \A b \in ClientSessions : b # c => added'[b] = added[b]
    BY <1>5 DEF SetupTypeOK
<1>7. added' \in [ClientSessions -> Seq(StreamObjects)]
    BY <1>3, <1>5 DEF SetupTypeOK
<1>8. SameBut(added[c][i], q[i], x)
    BY <1>1, <1>4, SMTT(30) DEF SameBut, StreamObjects
<1> HIDE DEF q
<1> QED
    BY <1>3, <1>4, <1>6, <1>7, <1>8

\* The streams are the pairs of a session and a place in its list.
LEMMA IDs ==
    /\ \A s : s \in StreamIDs <=>
          \E c \in ClientSessions : \E i \in 1..Len(added[c]) : s = <<c, i>>
    /\ \A c \in ClientSessions : \A i \in 1..Len(added[c]) : Object(<<c, i>>) = added[c][i]
BY DEF StreamIDs, Object

LEMMA IDsNext ==
    /\ \A s : s \in StreamIDs' <=>
          \E c \in ClientSessions : \E i \in 1..Len(added'[c]) : s = <<c, i>>
    /\ \A c \in ClientSessions : \A i \in 1..Len(added'[c]) : Object(<<c, i>>)' = added'[c][i]
BY DEF StreamIDs, Object

-----------------------------------------------------------------------------
(* The table and the pairs                                                 *)

\* An unused pair has no entries, so that every pair SETUP may take has a free
\* place for the address.
LEMMA PlaceFree ==
    ASSUME SetupInv, NEW d \in Destinations,
           NEW p \in NewSocketPairs \cup SocketPairsFor(d)
    PROVE  p \in Pairs /\ table[p][d] = Nobody
<1>1. p \in Pairs
    BY DEF NewSocketPairs, SocketPairsFor
<1>2. CASE table[p][d] = Nobody
    BY <1>1, <1>2
<1>3. CASE table[p][d] # Nobody
    <2>0. PICK c \in ClientSessions :
              \E i \in 1..Len(added[c]) : added[c][i].state = "up" /\ added[c][i].pair = p
        BY <1>1, <1>3 DEF SetupInv, Entered
    <2>1. PICK i \in 1..Len(added[c]) : added[c][i].state = "up" /\ added[c][i].pair = p
        BY <2>0
    <2>2. <<c, i>> \in Users(p)
        BY <2>1, IDs DEF Users
    <2>3. Cardinality(Users(p)) \in Nat /\ Cardinality(Users(p)) # 0
        BY <1>1, <2>2, FS_EmptySet, FS_CardinalityType DEF SetupInv
    <2>4. pairRefs[p] = Cardinality(Users(p)) + IF p \in Standing THEN 1 ELSE 0
        BY <1>1 DEF SetupInv, PairsCounted, Users
    <2>5. IsBound(p)
        BY <2>3, <2>4 DEF IsBound
    <2> QED
        BY <1>1, <1>3, <2>5 DEF NewSocketPairs, SocketPairsFor
<1> QED
    BY <1>2, <1>3

\* A step that adds stream o of session c puts it among the users of its pair
\* and leaves the others as they are.
LEMMA UsersAdded ==
    ASSUME SetupTypeOK, NEW c \in ClientSessions, NEW o \in StreamObjects, AddStream(c, o),
           o.state # "deleted", NEW p \in Pairs
    PROVE  /\ o.pair # p => Users(p)' = Users(p)
           /\ o.pair = p => Users(p)' = Users(p) \cup {<<c, Len(added[c]) + 1>>}
           /\ <<c, Len(added[c]) + 1>> \notin Users(p)
<1>0. Len(added[c]) \in Nat
    BY DEF SetupTypeOK
<1>1. PICK m \in Nat : m = Len(added[c]) + 1
    BY <1>0
<1> DEFINE new == <<c, m>>
<1>2. \A b \in ClientSessions : \A i \in 1..Len(added[b]) :
          i \in 1..Len(added'[b]) /\ added'[b][i] = added[b][i]
    BY <1>0, <1>1, Adds, SMTT(30)
<1>3. \A b \in ClientSessions : \A i \in 1..Len(added'[b]) :
          i \in 1..Len(added[b]) \/ <<b, i>> = new
    BY <1>0, <1>1, Adds
<1>4. m \in 1..Len(added'[c]) /\ added'[c][m] = o
    BY <1>0, <1>1, Adds
<1>5. new \notin StreamIDs
    BY <1>0, <1>1, IDs
<1>6. \A s : s \in StreamIDs' <=> s \in StreamIDs \/ s = new
    BY <1>2, <1>3, <1>4, IDs, IDsNext
<1>7. \A s \in StreamIDs : Object(s)' = Object(s)
    <2> SUFFICES ASSUME NEW s \in StreamIDs
                 PROVE  Object(s)' = Object(s)
        OBVIOUS
    <2>0. PICK b \in ClientSessions : \E i \in 1..Len(added[b]) : s = <<b, i>>
        BY IDs
    <2>1. PICK i \in 1..Len(added[b]) : s = <<b, i>>
        BY <2>0
    <2> QED
        BY <2>1, <1>2, IDs, IDsNext
<1>8. Object(new)' = o
    BY <1>4, IDsNext
<1> HIDE DEF new
<1>9. \A s : s \in Users(p)' <=> s \in Users(p) \/ (s = new /\ o.pair = p)
    BY <1>5, <1>6, <1>7, <1>8 DEF Users
<1>10. new \notin Users(p)
    BY <1>5 DEF Users
<1> QED
    BY <1>1, <1>9, <1>10 DEF new

\* A step that changes the state of a stream changes the users of its pair only
\* if the stream is deleted.
LEMMA UsersChanged ==
    ASSUME SetupTypeOK, NEW c \in ClientSessions, NEW i \in 1..Len(added[c]),
           NEW x \in {"unregistered", "deleted"}, added[c][i].state # "deleted",
           ChangesState(c, i, x), NEW p \in Pairs
    PROVE  Users(p)' = IF x = "deleted" /\ added[c][i].pair = p
                       THEN Users(p) \ {<<c, i>>} ELSE Users(p)
<1>0. /\ \A b \in ClientSessions : Len(added'[b]) = Len(added[b])
      /\ SameBut(added[c][i], added'[c][i], x)
      /\ \A b \in ClientSessions : \A j \in 1..Len(added[b]) :
            b # c \/ j # i => added'[b][j] = added[b][j]
    <2>1. x \in {"up", "unregistered", "deleted"}
        OBVIOUS
    <2> QED
        BY <2>1, Changes
<1>1. added[c][i] \in StreamObjects
    BY DEF SetupTypeOK
<1>2. added'[c][i].pair = added[c][i].pair /\ added'[c][i].state = x
    BY <1>0 DEF SameBut
<1>3. \A s : s \in StreamIDs' <=> s \in StreamIDs
    BY <1>0, IDs, IDsNext
<1>4. \A s \in StreamIDs : s # <<c, i>> => Object(s)' = Object(s)
    <2> SUFFICES ASSUME NEW s \in StreamIDs, s # <<c, i>>
                 PROVE  Object(s)' = Object(s)
        OBVIOUS
    <2>0. PICK b \in ClientSessions : \E j \in 1..Len(added[b]) : s = <<b, j>>
        BY IDs
    <2>1. PICK j \in 1..Len(added[b]) : s = <<b, j>>
        BY <2>0
    <2> QED
        BY <2>1, <1>0, IDs, IDsNext, SMTT(30)
<1>5. /\ <<c, i>> \in StreamIDs
      /\ Object(<<c, i>>) = added[c][i]
      /\ Object(<<c, i>>)' = added'[c][i]
    <2>1. i \in 1..Len(added'[c])
        BY <1>0
    <2> QED
        BY <2>1, IDs, IDsNext
<1>6. \A s : s \in Users(p)' <=> s \in Users(p) /\ ~(x = "deleted" /\ s = <<c, i>>)
    BY <1>2, <1>3, <1>4, <1>5 DEF Users
<1>7. <<c, i>> \in Users(p) => added[c][i].pair = p
    BY <1>5 DEF Users
<1> QED
    BY <1>6, <1>7

-----------------------------------------------------------------------------
(* The invariant                                                           *)

LEMMA SetupStarts ==
    ASSUME SetupInit
    PROVE  SetupInv
<1>1. SetupTypeOK
    BY SetupAssumption DEF SetupInit, SetupTypeOK
<1>2. \A c \in ClientSessions : 1..Len(added[c]) = {}
    BY DEF SetupInit
<1>3. \A k \in Connections : 1..Len(given[k]) = {}
    BY DEF SetupInit
<1>4. Registered /\ Numbered /\ Even
    BY <1>2, <1>3 DEF Registered, Numbered, Even
<1>5. Entered
    BY DEF SetupInit, Entered
<1>6. \A s : s \notin StreamIDs
    BY <1>2, IDs
<1>7. \A p \in Pairs : Users(p) = {}
    BY <1>6 DEF Users
<1>8. \A p \in Pairs : IsFiniteSet(Users(p)) /\ Cardinality(Users(p)) = 0
    BY <1>7, FS_EmptySet
<1>9. PairsCounted
    <2> SUFFICES ASSUME NEW p \in Pairs
                 PROVE  pairRefs[p] = Cardinality(Users(p)) + IF p \in Standing THEN 1 ELSE 0
        BY DEF PairsCounted, Users
    <2> QED
        BY <1>8 DEF SetupInit
<1> QED
    BY <1>1, <1>4, <1>5, <1>8, <1>9 DEF SetupInv

\* The channels of one connection lead to the streams they led to before, if
\* streams are only added and changed in their states.
LEMMA NumbersKept ==
    ASSUME SetupInv, UNCHANGED given,
           \A c \in ClientSessions : \A i \in 1..Len(added[c]) :
               /\ i \in 1..Len(added'[c])
               /\ added'[c][i].tcp = added[c][i].tcp /\ added'[c][i].conn = added[c][i].conn
               /\ added'[c][i].rtp = added[c][i].rtp /\ added'[c][i].rtcp = added[c][i].rtcp
    PROVE  Numbered'
<1>1. \A k \in Connections : \A n \in 1..Len(given[k]) :
          \E i \in 1..Len(added'[given[k][n]]) : HasPlace(added'[given[k][n]][i], k, n)
    <2> SUFFICES ASSUME NEW k \in Connections, NEW n \in 1..Len(given[k])
                 PROVE  \E i \in 1..Len(added'[given[k][n]]) :
                            HasPlace(added'[given[k][n]][i], k, n)
        OBVIOUS
    <2>1. PICK i \in 1..Len(added[given[k][n]]) : HasPlace(added[given[k][n]][i], k, n)
        BY DEF SetupInv, Numbered
    <2>2. given[k][n] \in ClientSessions
        BY DEF SetupInv, SetupTypeOK
    <2>3. i \in 1..Len(added'[given[k][n]]) /\ HasPlace(added'[given[k][n]][i], k, n)
        BY <2>1, <2>2 DEF HasPlace
    <2> QED
        BY <2>3
<1> QED
    BY <1>1 DEF Numbered

LEMMA SetupTcpKeeps ==
    ASSUME SetupInv, NEW c \in ClientSessions, NEW k \in Connections, NEW t \in TrackIDs,
           SetupTcp(c, k, t)
    PROVE  SetupInv'
<1> DEFINE o == [track |-> t, conn |-> k, tcp |-> TRUE,
                 rtp |-> 2 * Len(given[k]), rtcp |-> 2 * Len(given[k]) + 1,
                 pair |-> Nobody, dest |-> Nobody, state |-> "up"]
<1>1. SetupTypeOK /\ Len(given[k]) \in Nat /\ Len(added[c]) \in Nat
    BY DEF SetupInv, SetupTypeOK
<1>2. o \in StreamObjects
    BY <1>1 DEF StreamObjects
<1>3. AddStream(c, o)
    BY DEF SetupTcp
<1>4. /\ added' \in [ClientSessions -> Seq(StreamObjects)]
      /\ phase' \in [ClientSessions -> {"new", "live", "closed", "deleted"}]
      /\ Len(added'[c]) = Len(added[c]) + 1
      /\ added'[c][Len(added[c]) + 1] = o
      /\ \A i \in 1..Len(added[c]) : added'[c][i] = added[c][i]
      /\ \A b \in ClientSessions \ {c} : added'[b] = added[b]
    <2> HIDE DEF o
    <2> QED
        BY <1>1, <1>2, <1>3, Adds
<1>5. given' = [given EXCEPT ![k] = Append(@, c)] /\ UNCHANGED <<recording, table, pairRefs>>
    BY DEF SetupTcp
<1>6. SetupTypeOK'
    BY <1>1, <1>4, <1>5 DEF SetupTypeOK
<1>7. \A b \in ClientSessions : \A i \in 1..Len(added[b]) :
          i \in 1..Len(added'[b]) /\ added'[b][i] = added[b][i]
    <2> SUFFICES ASSUME NEW b \in ClientSessions, NEW i \in 1..Len(added[b])
                 PROVE  i \in 1..Len(added'[b]) /\ added'[b][i] = added[b][i]
        OBVIOUS
    <2> HIDE DEF o
    <2>1. CASE b = c
        BY <1>1, <1>4, <2>1
    <2>2. CASE b # c
        BY <1>4, <2>2
    <2> QED
        BY <2>1, <2>2
<1>8. \A b \in ClientSessions : \A i \in 1..Len(added'[b]) :
          i \in 1..Len(added[b]) \/ added'[b][i] = o
    <2> SUFFICES ASSUME NEW b \in ClientSessions, NEW i \in 1..Len(added'[b])
                 PROVE  i \in 1..Len(added[b]) \/ added'[b][i] = o
        OBVIOUS
    <2> HIDE DEF o
    <2>1. CASE b = c
        <3>1. i \in 1..Len(added[c]) \/ i = Len(added[c]) + 1
            BY <1>1, <1>4, <2>1
        <3> QED
            BY <1>4, <2>1, <3>1
    <2>2. CASE b # c
        BY <1>4, <2>2
    <2> QED
        BY <2>1, <2>2
<1>9. Registered'
    <2>1. \A s : InTable(o, s, table)
        BY DEF InTable
    <2> HIDE DEF o
    <2> QED
        BY <1>5, <1>7, <1>8, <2>1 DEF SetupInv, Registered
<1>10. Entered'
    BY <1>5, <1>7 DEF SetupInv, Entered
<1>11. \A p \in Pairs : Users(p)' = Users(p)
    <2>1. o.state # "deleted" /\ \A p \in Pairs : o.pair # p
        BY SetupAssumption
    <2> HIDE DEF o
    <2> QED
        BY <1>1, <1>2, <1>3, <2>1, UsersAdded
<1>12. (\A p \in Pairs : IsFiniteSet(Users(p)))' /\ PairsCounted'
    BY <1>5, <1>11 DEF SetupInv, PairsCounted, Users
<1>13. Numbered'
    <2>1. HasPlace(o, k, Len(given[k]) + 1)
        BY <1>1 DEF HasPlace
    <2> HIDE DEF o
    <2>2. \A h \in Connections : \A n \in 1..Len(given'[h]) :
              \E i \in 1..Len(added'[given'[h][n]]) : HasPlace(added'[given'[h][n]][i], h, n)
        <3> SUFFICES ASSUME NEW h \in Connections, NEW n \in 1..Len(given'[h])
                     PROVE  \E i \in 1..Len(added'[given'[h][n]]) :
                                HasPlace(added'[given'[h][n]][i], h, n)
            OBVIOUS
        <3>1. CASE h = k /\ n = Len(given[k]) + 1
            <4>1. given'[h][n] = c
                BY <1>1, <1>5, <3>1 DEF SetupTypeOK
            <4>2. Len(added[c]) + 1 \in 1..Len(added'[c])
                BY <1>1, <1>4
            <4>3. HasPlace(added'[c][Len(added[c]) + 1], h, n)
                BY <1>4, <2>1, <3>1
            <4> QED
                BY <4>1, <4>2, <4>3
        <3>2. CASE n \in 1..Len(given[h])
            <4>1. given'[h][n] = given[h][n] /\ given[h][n] \in ClientSessions
                BY <1>1, <1>5, <3>2 DEF SetupTypeOK
            <4>2. PICK i \in 1..Len(added[given[h][n]]) : HasPlace(added[given[h][n]][i], h, n)
                BY <3>2 DEF SetupInv, Numbered
            <4>3. PICK b \in ClientSessions : b = given[h][n]
                BY <4>1
            <4>4. given'[h][n] = b /\ HasPlace(added[b][i], h, n)
                BY <4>1, <4>2, <4>3
            <4>5. i \in 1..Len(added'[b]) /\ added'[b][i] = added[b][i]
                BY <1>7, <4>2, <4>3
            <4>6. HasPlace(added'[b][i], h, n)
                BY <4>4, <4>5
            <4> QED
                BY <4>4, <4>5, <4>6
        <3>3. n \in 1..Len(given[h]) \/ (h = k /\ n = Len(given[k]) + 1)
            <4>1. given \in [Connections -> Seq(ClientSessions)]
                BY <1>1 DEF SetupTypeOK
            <4>2. CASE h = k
                <5>1. given'[h] = Append(given[k], c) /\ given[k] \in Seq(ClientSessions)
                    BY <1>5, <4>1, <4>2
                <5>2. Len(given'[h]) = Len(given[k]) + 1 /\ Len(given[k]) \in Nat
                    BY <5>1
                <5> QED
                    BY <4>2, <5>2
            <4>3. CASE h # k
                BY <1>5, <4>1, <4>3
            <4> QED
                BY <4>2, <4>3
        <3> QED
            BY <3>1, <3>2, <3>3
    <2> QED
        BY <2>2 DEF Numbered
<1>14. Even'
    <2>1. EvenChannels(o)
        BY <1>1 DEF EvenChannels
    <2> HIDE DEF o
    <2> QED
        BY <1>7, <1>8, <2>1 DEF SetupInv, Even
<1> QED
    BY <1>6, <1>9, <1>10, <1>12, <1>13, <1>14 DEF SetupInv

LEMMA SetupUdpKeeps ==
    ASSUME SetupInv, NEW c \in ClientSessions, NEW k \in Connections, NEW t \in TrackIDs,
           NEW d \in Destinations, NEW multicast \in BOOLEAN,
           SetupUdp(c, k, t, d, multicast)
    PROVE  SetupInv'
<1>1. PICK p \in NewSocketPairs \cup SocketPairsFor(d) :
          /\ AddStream(c, [track |-> t, conn |-> k, tcp |-> FALSE, rtp |-> 0, rtcp |-> 0,
                           pair |-> p, dest |-> d, state |-> "up"])
          /\ table' = [table EXCEPT ![p][d] = <<c, Len(added[c]) + 1>>]
          /\ pairRefs' = [pairRefs EXCEPT ![p] = @ + 1]
    BY DEF SetupUdp
<1> DEFINE o == [track |-> t, conn |-> k, tcp |-> FALSE, rtp |-> 0, rtcp |-> 0,
                 pair |-> p, dest |-> d, state |-> "up"]
<1>2. SetupTypeOK /\ Len(added[c]) \in Nat
    BY DEF SetupInv, SetupTypeOK
<1>3. p \in Pairs /\ table[p][d] = Nobody
    BY PlaceFree
<1>4. o \in StreamObjects
    BY <1>3 DEF StreamObjects
<1>5. PICK m \in Nat : m = Len(added[c]) + 1
    BY <1>2
<1>6. /\ added' \in [ClientSessions -> Seq(StreamObjects)]
      /\ phase' \in [ClientSessions -> {"new", "live", "closed", "deleted"}]
      /\ \A b \in ClientSessions : \A i \in 1..Len(added[b]) :
            i \in 1..Len(added'[b]) /\ added'[b][i] = added[b][i]
      /\ \A b \in ClientSessions : \A i \in 1..Len(added'[b]) :
            i \in 1..Len(added[b]) \/ (b = c /\ i = m /\ added'[b][i] = o)
      /\ m \in 1..Len(added'[c]) /\ added'[c][m] = o
    <2>1. AddStream(c, o)
        BY <1>1
    <2> HIDE DEF o
    <2>2. /\ added' \in [ClientSessions -> Seq(StreamObjects)]
          /\ phase' \in [ClientSessions -> {"new", "live", "closed", "deleted"}]
          /\ Len(added'[c]) = Len(added[c]) + 1
          /\ added'[c][Len(added[c]) + 1] = o
          /\ \A i \in 1..Len(added[c]) : added'[c][i] = added[c][i]
          /\ \A b \in ClientSessions \ {c} : added'[b] = added[b]
        BY <1>2, <1>4, <2>1, Adds
    <2> QED
        <3>1. ASSUME NEW b \in ClientSessions, NEW i \in 1..Len(added[b])
              PROVE  i \in 1..Len(added'[b]) /\ added'[b][i] = added[b][i]
            <4>1. CASE b = c
                BY <1>2, <2>2, <4>1
            <4>2. CASE b # c
                BY <2>2, <4>2
            <4> QED
                BY <4>1, <4>2
        <3>2. m \in 1..Len(added'[c]) /\ added'[c][m] = o
            BY <1>2, <1>5, <2>2
        <3>3. ASSUME NEW b \in ClientSessions, NEW i \in 1..Len(added'[b])
              PROVE  i \in 1..Len(added[b]) \/ (b = c /\ i = m /\ added'[b][i] = o)
            <4>1. CASE b = c
                <5>1. i \in 1..Len(added[c]) \/ i = m
                    BY <1>2, <1>5, <2>2, <4>1
                <5> QED
                    BY <3>2, <4>1, <5>1
            <4>2. CASE b # c
                BY <2>2, <4>2
            <4> QED
                BY <4>1, <4>2
        <3> QED
            BY <2>2, <3>1, <3>2, <3>3
<1>7. /\ UNCHANGED <<given, recording>>
      /\ table' \in [Pairs -> [Destinations -> (ClientSessions \X Nat) \cup {Nobody}]]
      /\ table'[p][d] = <<c, m>>
      /\ \A q \in Pairs, e \in Destinations : q # p \/ e # d => table'[q][e] = table[q][e]
    <2>1. UNCHANGED <<given, recording>>
        BY DEF SetupUdp
    <2>2. table \in [Pairs -> [Destinations -> (ClientSessions \X Nat) \cup {Nobody}]]
        BY <1>2 DEF SetupTypeOK
    <2>3. table' = [table EXCEPT ![p][d] = <<c, m>>]
        BY <1>1, <1>5
    <2>4. <<c, m>> \in ClientSessions \X Nat
        BY <1>5
    <2> QED
        BY <1>3, <2>1, <2>2, <2>3, <2>4
<1>8. pairRefs' \in [Pairs -> Nat] /\ pairRefs'[p] = pairRefs[p] + 1
      /\ \A q \in Pairs \ {p} : pairRefs'[q] = pairRefs[q]
    BY <1>1, <1>2, <1>3 DEF SetupTypeOK
<1>9. SetupTypeOK'
    BY <1>2, <1>6, <1>7, <1>8, SMTT(30) DEF SetupTypeOK
<1>10. Registered'
    <2>1. InTable(o, <<c, m>>, table')
        BY <1>3, <1>7 DEF InTable
    <2>2. \A b \in ClientSessions : \A i \in 1..Len(added[b]) :
              InTable(added[b][i], <<b, i>>, table')
        <3> SUFFICES ASSUME NEW b \in ClientSessions, NEW i \in 1..Len(added[b])
                     PROVE  InTable(added[b][i], <<b, i>>, table')
            OBVIOUS
        <3>1. InTable(added[b][i], <<b, i>>, table)
            BY DEF SetupInv, Registered
        <3>2. <<b, i>> # Nobody
            BY <1>2, SetupAssumption DEF SetupTypeOK
        <3> QED
            BY <1>3, <1>7, <3>1, <3>2 DEF InTable
    <2> HIDE DEF o
    <2>3. \A b \in ClientSessions : \A i \in 1..Len(added'[b]) :
              InTable(added'[b][i], <<b, i>>, table')
        BY <1>6, <2>1, <2>2
    <2> QED
        BY <2>3 DEF Registered
<1>11. Entered'
    <2> SUFFICES ASSUME NEW q \in Pairs, NEW e \in Destinations, table'[q][e] # Nobody
                 PROVE  \E b \in ClientSessions : \E i \in 1..Len(added'[b]) :
                            /\ table'[q][e] = <<b, i>>
                            /\ ~added'[b][i].tcp /\ added'[b][i].state = "up"
                            /\ added'[b][i].pair = q /\ added'[b][i].dest = e
        BY DEF Entered
    <2>1. CASE q = p /\ e = d
        <3>1. added'[c][m].pair = p /\ added'[c][m].dest = d
              /\ ~added'[c][m].tcp /\ added'[c][m].state = "up"
            BY <1>6
        <3>2. table'[q][e] = <<c, m>> /\ m \in 1..Len(added'[c])
            BY <1>6, <1>7, <2>1
        <3> HIDE DEF o
        <3> QED
            BY <2>1, <3>1, <3>2
    <2>2. CASE q # p \/ e # d
        <3>0. PICK b \in ClientSessions : \E i \in 1..Len(added[b]) :
                  /\ table[q][e] = <<b, i>>
                  /\ ~added[b][i].tcp /\ added[b][i].state = "up"
                  /\ added[b][i].pair = q /\ added[b][i].dest = e
            BY <1>7, <2>2 DEF SetupInv, Entered
        <3>1. PICK i \in 1..Len(added[b]) :
                  /\ table[q][e] = <<b, i>>
                  /\ ~added[b][i].tcp /\ added[b][i].state = "up"
                  /\ added[b][i].pair = q /\ added[b][i].dest = e
            BY <3>0
        <3>2. table'[q][e] = <<b, i>> /\ i \in 1..Len(added'[b]) /\ added'[b][i] = added[b][i]
            BY <1>6, <1>7, <2>2, <3>1
        <3> QED
            BY <3>1, <3>2
    <2> QED
        BY <2>1, <2>2
<1>12. \A q \in Pairs :
          /\ q # p => Users(q)' = Users(q)
          /\ q = p => Users(q)' = Users(q) \cup {<<c, m>>}
          /\ <<c, m>> \notin Users(q)
    <2>1. o.pair = p /\ o.state # "deleted" /\ AddStream(c, o)
        BY <1>1
    <2> HIDE DEF o
    <2> QED
        BY <1>2, <1>4, <1>5, <2>1, UsersAdded
<1>13. \A q \in Pairs : /\ IsFiniteSet(Users(q)')
                         /\ Cardinality(Users(q)') = Cardinality(Users(q)) + IF q = p THEN 1 ELSE 0
    <2>1. \A q \in Pairs : IsFiniteSet(Users(q)) /\ Cardinality(Users(q)) \in Nat
        BY FS_CardinalityType DEF SetupInv
    <2>2. /\ IsFiniteSet(Users(p) \cup {<<c, m>>})
          /\ Cardinality(Users(p) \cup {<<c, m>>}) = Cardinality(Users(p)) + 1
        <3>1. p \in Pairs
            BY <1>3
        <3>2. IsFiniteSet(Users(p)) /\ <<c, m>> \notin Users(p)
            BY <1>12, <2>1, <3>1
        <3> QED
            BY ONLY <3>2, FS_AddElement
    <2> SUFFICES ASSUME NEW q \in Pairs
                 PROVE  /\ IsFiniteSet(Users(q)')
                        /\ Cardinality(Users(q)') = Cardinality(Users(q)) + IF q = p THEN 1 ELSE 0
        OBVIOUS
    <2>3. CASE q = p
        <3>1. Users(q)' = Users(p) \cup {<<c, m>>}
            BY <1>12, <2>3
        <3> QED
            BY ONLY <2>2, <2>3, <3>1
    <2>4. CASE q # p
        <3>1. Users(q)' = Users(q)
            BY <1>12, <2>4
        <3> QED
            BY <2>1, <2>4, <3>1
    <2> QED
        BY ONLY <2>3, <2>4
<1>14. PairsCounted'
    <2> SUFFICES ASSUME NEW q \in Pairs
                 PROVE  pairRefs'[q] = Cardinality(Users(q)') + IF q \in Standing THEN 1 ELSE 0
        BY DEF PairsCounted, Users
    <2>1. pairRefs[q] = Cardinality(Users(q)) + IF q \in Standing THEN 1 ELSE 0
        BY DEF SetupInv, PairsCounted, Users
    <2>2. Cardinality(Users(q)) \in Nat
        BY FS_CardinalityType DEF SetupInv
    <2> QED
        BY <1>3, <1>8, <1>13, <2>1, <2>2
<1>15. Numbered'
    <2>1. UNCHANGED given
        BY <1>7
    <2> QED
        BY <1>6, <2>1, NumbersKept
<1>16. Even'
    <2>1. EvenChannels(o)
        BY DEF EvenChannels
    <2> HIDE DEF o
    <2> QED
        BY <1>6, <2>1 DEF SetupInv, Even
<1> QED
    BY <1>9, <1>10, <1>11, <1>13, <1>14, <1>15, <1>16 DEF SetupInv

\* A change of state, and of nothing else.
LEMMA StateChanged ==
    ASSUME SetupInv, NEW c \in ClientSessions, NEW i \in 1..Len(added[c]),
           NEW x \in {"up", "unregistered", "deleted"},
           ChangesState(c, i, x), UNCHANGED given
    PROVE  /\ added' \in [ClientSessions -> Seq(StreamObjects)]
           /\ \A b \in ClientSessions : Len(added'[b]) = Len(added[b])
           /\ SameBut(added[c][i], added'[c][i], x)
           /\ \A b \in ClientSessions : \A j \in 1..Len(added[b]) :
                 b # c \/ j # i => added'[b][j] = added[b][j]
           /\ Numbered' /\ Even'
<1>1. /\ added' \in [ClientSessions -> Seq(StreamObjects)]
      /\ \A b \in ClientSessions : Len(added'[b]) = Len(added[b])
      /\ SameBut(added[c][i], added'[c][i], x)
      /\ \A b \in ClientSessions : \A j \in 1..Len(added[b]) :
            b # c \/ j # i => added'[b][j] = added[b][j]
    BY Changes DEF SetupInv
<1>2. \A b \in ClientSessions : \A j \in 1..Len(added[b]) :
          /\ j \in 1..Len(added'[b])
          /\ added'[b][j].tcp = added[b][j].tcp /\ added'[b][j].conn = added[b][j].conn
          /\ added'[b][j].rtp = added[b][j].rtp /\ added'[b][j].rtcp = added[b][j].rtcp
    BY <1>1 DEF SameBut
<1>3. Numbered'
    BY <1>2, NumbersKept
<1>4. Even'
    <2>1. \A b \in ClientSessions : \A j \in 1..Len(added[b]) :
              EvenChannels(added[b][j]) => EvenChannels(added'[b][j])
        BY <1>2, SMTT(30) DEF EvenChannels
    <2> QED
        BY <1>1, <2>1 DEF SetupInv, Even
<1> QED
    BY <1>1, <1>3, <1>4

\* A stream that is not in the table goes from any state to any but "up".
LEMMA StateOutOfTable ==
    ASSUME SetupInv, NEW c \in ClientSessions, NEW i \in 1..Len(added[c]),
           NEW x \in {"unregistered", "deleted"},
           ChangesState(c, i, x), UNCHANGED <<given, table>>,
           added[c][i].tcp \/ added[c][i].state # "up"
    PROVE  Registered' /\ Entered'
<1>1. /\ \A b \in ClientSessions : Len(added'[b]) = Len(added[b])
      /\ SameBut(added[c][i], added'[c][i], x)
      /\ \A b \in ClientSessions : \A j \in 1..Len(added[b]) :
            b # c \/ j # i => added'[b][j] = added[b][j]
    <2>1. x \in {"up", "unregistered", "deleted"} /\ UNCHANGED given
        OBVIOUS
    <2> QED
        BY <2>1, StateChanged
<1>2. Registered'
    <2>1. \A b \in ClientSessions : \A j \in 1..Len(added[b]) :
              InTable(added[b][j], <<b, j>>, table) => InTable(added'[b][j], <<b, j>>, table)
        <3> SUFFICES ASSUME NEW b \in ClientSessions, NEW j \in 1..Len(added[b]),
                            InTable(added[b][j], <<b, j>>, table)
                     PROVE  InTable(added'[b][j], <<b, j>>, table)
            OBVIOUS
        <3>1. CASE b # c \/ j # i
            <4>1. added'[b][j] = added[b][j]
                BY <1>1, <3>1
            <4> QED
                BY <4>1
        <3>2. CASE b = c /\ j = i
            <4>1. SameBut(added[b][j], added'[b][j], x) /\ x # "up"
                BY <1>1, <3>2
            <4> QED
                BY <4>1 DEF SameBut, InTable
        <3> QED
            BY <3>1, <3>2
    <2>2. \A b \in ClientSessions : \A j \in 1..Len(added'[b]) :
              InTable(added'[b][j], <<b, j>>, table')
        BY <1>1, <2>1 DEF SetupInv, Registered
    <2> QED
        BY <2>2 DEF Registered
<1>3. Entered'
    <2> SUFFICES ASSUME NEW p \in Pairs, NEW d \in Destinations, table[p][d] # Nobody
                 PROVE  \E b \in ClientSessions : \E j \in 1..Len(added'[b]) :
                            /\ table[p][d] = <<b, j>>
                            /\ ~added'[b][j].tcp /\ added'[b][j].state = "up"
                            /\ added'[b][j].pair = p /\ added'[b][j].dest = d
        BY DEF Entered
    <2>0. PICK b \in ClientSessions : \E j \in 1..Len(added[b]) :
              /\ table[p][d] = <<b, j>>
              /\ ~added[b][j].tcp /\ added[b][j].state = "up"
              /\ added[b][j].pair = p /\ added[b][j].dest = d
        BY DEF SetupInv, Entered
    <2>1. PICK j \in 1..Len(added[b]) :
              /\ table[p][d] = <<b, j>>
              /\ ~added[b][j].tcp /\ added[b][j].state = "up"
              /\ added[b][j].pair = p /\ added[b][j].dest = d
        BY <2>0
    <2>2. j \in 1..Len(added'[b]) /\ added'[b][j] = added[b][j]
        BY <1>1, <2>1
    <2> QED
        BY <2>1, <2>2
<1> QED
    BY <1>2, <1>3

\* A step that leaves the users of the pairs and their numbers alone.
LEMMA CountsKept ==
    ASSUME SetupInv, UNCHANGED pairRefs, \A p \in Pairs : Users(p)' = Users(p)
    PROVE  /\ \A p \in Pairs : IsFiniteSet(Users(p)')
           /\ PairsCounted'
BY DEF SetupInv, PairsCounted, Users

LEMMA DeleteTcpStreamKeeps ==
    ASSUME SetupInv, NEW c \in ClientSessions, NEW i \in 1..Len(added[c]), DeleteTcpStream(c, i)
    PROVE  SetupInv'
<1>1. /\ added[c][i].tcp /\ added[c][i].state # "deleted" /\ added[c][i].pair = Nobody
      /\ phase' = [phase EXCEPT ![c] = IF i = Len(added[c]) THEN "deleted" ELSE @]
      /\ ChangesState(c, i, "deleted") /\ UNCHANGED <<given, recording, table, pairRefs>>
    <2>1. InTable(added[c][i], <<c, i>>, table)
        BY DEF SetupInv, Registered
    <2> QED
        BY <2>1 DEF DeleteTcpStream, Deleting, Deleted, ChangesState, InTable
<1>2. SetupTypeOK' /\ Numbered' /\ Even'
    <2>1. /\ added' \in [ClientSessions -> Seq(StreamObjects)]
          /\ Numbered' /\ Even'
        BY <1>1, StateChanged
    <2> QED
        BY <1>1, <2>1 DEF SetupInv, SetupTypeOK
<1>3. Registered' /\ Entered'
    BY <1>1, StateOutOfTable
<1>4. \A p \in Pairs : Users(p)' = Users(p)
    BY <1>1, UsersChanged, SetupAssumption DEF SetupInv
<1>5. (\A p \in Pairs : IsFiniteSet(Users(p)')) /\ PairsCounted'
    BY <1>1, <1>4, CountsKept
<1> QED
    BY <1>2, <1>3, <1>5 DEF SetupInv

LEMMA UnregisterStreamKeeps ==
    ASSUME SetupInv, NEW c \in ClientSessions, NEW i \in 1..Len(added[c]), UnregisterStream(c, i)
    PROVE  SetupInv'
<1>1. PICK p \in Pairs, d \in Destinations :
          /\ ~added[c][i].tcp /\ added[c][i].state = "up"
          /\ added[c][i].pair = p /\ added[c][i].dest = d /\ table[p][d] = <<c, i>>
    <2>1. InTable(added[c][i], <<c, i>>, table)
        BY DEF SetupInv, Registered
    <2> QED
        BY <2>1 DEF UnregisterStream, InTable
<1>2. /\ table' = [table EXCEPT ![p][d] = Nobody]
      /\ ChangesState(c, i, "unregistered") /\ UNCHANGED <<phase, given, recording, pairRefs>>
    BY <1>1 DEF UnregisterStream, ChangesState
<1>3. /\ added' \in [ClientSessions -> Seq(StreamObjects)]
      /\ \A b \in ClientSessions : Len(added'[b]) = Len(added[b])
      /\ SameBut(added[c][i], added'[c][i], "unregistered")
      /\ \A b \in ClientSessions : \A j \in 1..Len(added[b]) :
            b # c \/ j # i => added'[b][j] = added[b][j]
      /\ Numbered' /\ Even'
    BY <1>2, StateChanged
<1>4. /\ table' \in [Pairs -> [Destinations -> (ClientSessions \X Nat) \cup {Nobody}]]
      /\ table'[p][d] = Nobody
      /\ \A q \in Pairs, e \in Destinations : q # p \/ e # d => table'[q][e] = table[q][e]
    BY <1>2 DEF SetupInv, SetupTypeOK
<1>5. SetupTypeOK'
    BY <1>2, <1>3, <1>4 DEF SetupInv, SetupTypeOK
<1>6. Registered'
    <2>1. \A b \in ClientSessions : \A j \in 1..Len(added[b]) :
              InTable(added'[b][j], <<b, j>>, table')
        <3> SUFFICES ASSUME NEW b \in ClientSessions, NEW j \in 1..Len(added[b])
                     PROVE  InTable(added'[b][j], <<b, j>>, table')
            OBVIOUS
        <3>1. InTable(added[b][j], <<b, j>>, table)
            BY SMTT(30) DEF SetupInv, Registered
        <3>2. CASE b = c /\ j = i
            BY <1>3, <3>1, <3>2 DEF SameBut, InTable
        <3>3. CASE <<b, j>> # <<c, i>>
            <4>1. added'[b][j] = added[b][j]
                BY <1>3, <3>3
            <4>2. table[p][d] # <<b, j>>
                BY <1>1, <3>3
            <4> QED
                <5> SUFFICES ASSUME ~added[b][j].tcp, added[b][j].state = "up"
                             PROVE  table'[added[b][j].pair][added[b][j].dest] = <<b, j>>
                    BY <3>1, <4>1 DEF InTable
                <5>1. /\ added[b][j].pair \in Pairs /\ added[b][j].dest \in Destinations
                      /\ table[added[b][j].pair][added[b][j].dest] = <<b, j>>
                    BY <3>1 DEF InTable
                <5>2. added[b][j].pair # p \/ added[b][j].dest # d
                    BY <4>2, <5>1
                <5> QED
                    BY <1>4, <5>1, <5>2
        <3> QED
            BY <3>2, <3>3
    <2>2. \A b \in ClientSessions : \A j \in 1..Len(added'[b]) :
              InTable(added'[b][j], <<b, j>>, table')
        BY <1>3, <2>1
    <2> QED
        BY <2>2 DEF Registered
<1>7. Entered'
    <2> SUFFICES ASSUME NEW q \in Pairs, NEW e \in Destinations, table'[q][e] # Nobody
                 PROVE  \E b \in ClientSessions : \E j \in 1..Len(added'[b]) :
                            /\ table'[q][e] = <<b, j>>
                            /\ ~added'[b][j].tcp /\ added'[b][j].state = "up"
                            /\ added'[b][j].pair = q /\ added'[b][j].dest = e
        BY DEF Entered
    <2>1. q # p \/ e # d
        BY <1>4
    <2>2. PICK b \in ClientSessions : \E j \in 1..Len(added[b]) :
              /\ table[q][e] = <<b, j>>
              /\ ~added[b][j].tcp /\ added[b][j].state = "up"
              /\ added[b][j].pair = q /\ added[b][j].dest = e
        BY <1>4, <2>1 DEF SetupInv, Entered
    <2>3. PICK j \in 1..Len(added[b]) :
              /\ table[q][e] = <<b, j>>
              /\ ~added[b][j].tcp /\ added[b][j].state = "up"
              /\ added[b][j].pair = q /\ added[b][j].dest = e
        BY <2>2
    <2>4. b # c \/ j # i
        BY <1>1, <2>1, <2>3
    <2>5. added'[b][j] = added[b][j] /\ j \in 1..Len(added'[b]) /\ table'[q][e] = <<b, j>>
        BY <1>3, <1>4, <2>1, <2>3, <2>4
    <2> QED
        BY <2>3, <2>5
<1>8. \A q \in Pairs : Users(q)' = Users(q)
    <2>1. SetupTypeOK /\ added[c][i].state # "deleted"
        BY <1>1 DEF SetupInv
    <2> QED
        BY <1>2, <2>1, UsersChanged
<1>9. (\A q \in Pairs : IsFiniteSet(Users(q)')) /\ PairsCounted'
    BY <1>2, <1>8, CountsKept
<1> QED
    BY <1>3, <1>5, <1>6, <1>7, <1>9, SMTT(30) DEF SetupInv

LEMMA ReleaseStreamKeeps ==
    ASSUME SetupInv, NEW c \in ClientSessions, NEW i \in 1..Len(added[c]), ReleaseStream(c, i)
    PROVE  SetupInv'
<1>1. PICK p \in Pairs :
          added[c][i].state = "unregistered" /\ added[c][i].pair = p
    <2>1. InTable(added[c][i], <<c, i>>, table)
        BY DEF SetupInv, Registered
    <2> QED
        BY <2>1 DEF ReleaseStream, InTable
<1>2. /\ pairRefs' = [pairRefs EXCEPT ![p] = @ - 1]
      /\ phase' = [phase EXCEPT ![c] = IF i = Len(added[c]) THEN "deleted" ELSE @]
      /\ ChangesState(c, i, "deleted") /\ UNCHANGED <<given, recording, table>>
    BY <1>1 DEF ReleaseStream, Deleted, ChangesState
<1>3. added' \in [ClientSessions -> Seq(StreamObjects)] /\ Numbered' /\ Even'
    BY <1>2, StateChanged
<1>4. Registered' /\ Entered'
    <2>1. added[c][i].state # "up"
        BY <1>1
    <2> QED
        BY <1>2, <2>1, StateOutOfTable
<1>5. \A q \in Pairs : Users(q)' = IF q = p THEN Users(q) \ {<<c, i>>} ELSE Users(q)
    <2>1. SetupTypeOK /\ added[c][i].state # "deleted"
        BY <1>1 DEF SetupInv
    <2>2. \A q \in Pairs : Users(q)' = IF added[c][i].pair = q
                                       THEN Users(q) \ {<<c, i>>} ELSE Users(q)
        BY <1>2, <2>1, UsersChanged
    <2> QED
        BY <1>1, <2>2
<1>6. <<c, i>> \in Users(p)
    BY <1>1, IDs DEF Users
<1>7. \A q \in Pairs : IsFiniteSet(Users(q)) /\ Cardinality(Users(q)) \in Nat
    BY FS_CardinalityType DEF SetupInv
<1>8. /\ IsFiniteSet(Users(p) \ {<<c, i>>})
      /\ Cardinality(Users(p) \ {<<c, i>>}) = Cardinality(Users(p)) - 1
    BY <1>6, <1>7, FS_RemoveElement
<1>9. \A q \in Pairs : pairRefs[q] = Cardinality(Users(q)) + IF q \in Standing THEN 1 ELSE 0
    BY DEF SetupInv, PairsCounted, Users
<1>10. Cardinality(Users(p)) >= 1
    <2>1. Cardinality(Users(p) \ {<<c, i>>}) \in Nat
        BY <1>8, FS_CardinalityType
    <2> QED
        BY <1>7, <1>8, <2>1
<1>11. \A q \in Pairs : /\ IsFiniteSet(Users(q)')
                         /\ pairRefs'[q] \in Nat
                         /\ pairRefs'[q] = Cardinality(Users(q)')
                                            + IF q \in Standing THEN 1 ELSE 0
    <2> SUFFICES ASSUME NEW q \in Pairs
                 PROVE  /\ IsFiniteSet(Users(q)')
                        /\ pairRefs'[q] \in Nat
                        /\ pairRefs'[q] = Cardinality(Users(q)')
                                           + IF q \in Standing THEN 1 ELSE 0
        OBVIOUS
    <2>1. pairRefs'[q] = IF q = p THEN pairRefs[q] - 1 ELSE pairRefs[q]
        BY <1>2 DEF SetupInv, SetupTypeOK
    <2>2. CASE q = p
        <3>1. Users(q)' = Users(p) \ {<<c, i>>}
            BY <1>5, <2>2
        <3> QED
            BY <1>7, <1>8, <1>9, <1>10, <2>1, <2>2, <3>1
    <2>3. CASE q # p
        <3>1. Users(q)' = Users(q)
            BY <1>5, <2>3
        <3>2. pairRefs[q] \in Nat
            BY DEF SetupInv, SetupTypeOK
        <3> QED
            BY <1>7, <1>9, <2>1, <2>3, <3>1, <3>2
    <2> QED
        BY <2>2, <2>3
<1>12. PairsCounted'
    BY <1>11 DEF PairsCounted, Users
<1>13. SetupTypeOK'
    <2>1. pairRefs' \in [Pairs -> Nat]
        BY <1>2, <1>11 DEF SetupInv, SetupTypeOK
    <2>2. phase' \in [ClientSessions -> {"new", "live", "closed", "deleted"}]
        BY <1>2 DEF SetupInv, SetupTypeOK
    <2> QED
        BY <1>2, <1>3, <2>1, <2>2 DEF SetupInv, SetupTypeOK
<1> QED
    BY <1>3, <1>4, <1>11, <1>12, <1>13 DEF SetupInv

\* The streams stay as they are.
LEMMA StreamsKept ==
    ASSUME SetupInv, UNCHANGED <<added, given, table, pairRefs>>, SetupTypeOK'
    PROVE  SetupInv'
<1>1. \A p \in Pairs : Users(p)' = Users(p)
    BY DEF Users, StreamIDs, Object
<1>2. (\A p \in Pairs : IsFiniteSet(Users(p)')) /\ PairsCounted'
    BY <1>1, CountsKept
<1>3. Registered' /\ Entered' /\ Numbered' /\ Even'
    BY DEF SetupInv, Registered, Entered, Numbered, Even
<1> QED
    BY <1>2, <1>3 DEF SetupInv

\* Streams, sockets, the table of datagrams and the channels of connections fit
\* each other in every state that SETUP and the end of sessions reach.
THEOREM SetupInvHolds == SetupSpec => []SetupInv
<1>1. SetupInit => SetupInv
    BY SetupStarts
<1>2. SetupInv /\ [SetupNext]_setupVars => SetupInv'
    <2> SUFFICES ASSUME SetupInv, [SetupNext]_setupVars
                 PROVE  SetupInv'
        OBVIOUS
    <2>1. ASSUME NEW c \in ClientSessions, NEW k \in Connections, NEW t \in TrackIDs,
                 SetupTcp(c, k, t)
          PROVE  SetupInv'
        BY <2>1, SetupTcpKeeps
    <2>2. ASSUME NEW c \in ClientSessions, NEW k \in Connections, NEW t \in TrackIDs,
                 NEW d \in Destinations, NEW multicast \in BOOLEAN,
                 SetupUdp(c, k, t, d, multicast)
          PROVE  SetupInv'
        BY <2>2, SetupUdpKeeps
    <2>3. ASSUME NEW c \in ClientSessions, NEW k \in Connections, RecordOn(c, k)
          PROVE  SetupInv'
        <3>1. SetupTypeOK'
            BY <2>3 DEF RecordOn, SetupInv, SetupTypeOK
        <3> QED
            BY <2>3, <3>1, StreamsKept DEF RecordOn
    <2>4. ASSUME NEW c \in ClientSessions, CloseSession(c)
          PROVE  SetupInv'
        <3>1. SetupTypeOK'
            BY <2>4 DEF CloseSession, SetupInv, SetupTypeOK
        <3> QED
            BY <2>4, <3>1, StreamsKept DEF CloseSession
    <2>5. ASSUME NEW c \in ClientSessions, NEW i \in 1..Len(added[c]),
                 DeleteTcpStream(c, i) \/ UnregisterStream(c, i) \/ ReleaseStream(c, i)
          PROVE  SetupInv'
        BY <2>5, DeleteTcpStreamKeeps, UnregisterStreamKeeps, ReleaseStreamKeeps
    <2>6. CASE UNCHANGED setupVars
        <3>1. SetupTypeOK'
            BY <2>6 DEF setupVars, SetupInv, SetupTypeOK
        <3> QED
            BY <2>6, <3>1, StreamsKept DEF setupVars
    <2> QED
        BY <2>1, <2>2, <2>3, <2>4, <2>5, <2>6 DEF SetupNext
<1> QED
    BY <1>1, <1>2, PTL DEF SetupSpec

-----------------------------------------------------------------------------
(* A client that pushes one presentation and nothing else                  *)

\* Connection k serves session c only, and c has interleaved streams on k only.
PushesOnly(k, c) ==
    /\ \A n \in 1..Len(given[k]) : given[k][n] = c
    /\ \A i \in 1..Len(added[c]) : added[c][i].tcp /\ added[c][i].conn = k

\* Such a session has as many streams as the connection has places for them, in
\* their order.
InTurn ==
    \A k \in Connections, c \in ClientSessions : PushesOnly(k, c) =>
        /\ Len(given[k]) = Len(added[c])
        /\ \A i \in 1..Len(added[c]) : HasPlace(added[c][i], k, i)

LEMMA OrderKeptByState ==
    ASSUME InTurn, UNCHANGED given,
           \A c \in ClientSessions : Len(added'[c]) = Len(added[c]),
           \A c \in ClientSessions : \A i \in 1..Len(added[c]) :
               /\ added'[c][i].tcp = added[c][i].tcp /\ added'[c][i].conn = added[c][i].conn
               /\ added'[c][i].rtp = added[c][i].rtp /\ added'[c][i].rtcp = added[c][i].rtcp
    PROVE  InTurn'
<1> SUFFICES ASSUME NEW k \in Connections, NEW c \in ClientSessions, PushesOnly(k, c)'
             PROVE  /\ Len(given'[k]) = Len(added'[c])
                    /\ \A i \in 1..Len(added'[c]) : HasPlace(added'[c][i], k, i)
    BY DEF InTurn
<1>1. PushesOnly(k, c)
    BY DEF PushesOnly
<1>2. \A i \in 1..Len(added[c]) : HasPlace(added[c][i], k, i) => HasPlace(added'[c][i], k, i)
    BY DEF HasPlace
<1> QED
    BY <1>1, <1>2 DEF InTurn

LEMMA OrderKeptByTcp ==
    ASSUME InTurn, SetupTypeOK, NEW b \in ClientSessions, NEW h \in Connections,
           NEW t \in TrackIDs, SetupTcp(b, h, t)
    PROVE  InTurn'
<1> DEFINE o == [track |-> t, conn |-> h, tcp |-> TRUE,
                 rtp |-> 2 * Len(given[h]), rtcp |-> 2 * Len(given[h]) + 1,
                 pair |-> Nobody, dest |-> Nobody, state |-> "up"]
<1>1. Len(given[h]) \in Nat /\ Len(added[b]) \in Nat
    BY DEF SetupTypeOK
<1>2. o \in StreamObjects /\ AddStream(b, o)
    BY <1>1 DEF StreamObjects, SetupTcp
<1>3. o.conn = h /\ HasPlace(o, h, Len(given[h]) + 1)
    BY <1>1 DEF HasPlace
<1> HIDE DEF o
<1>4. /\ Len(added'[b]) = Len(added[b]) + 1
      /\ added'[b][Len(added[b]) + 1] = o
      /\ \A i \in 1..Len(added[b]) : added'[b][i] = added[b][i]
      /\ \A c \in ClientSessions \ {b} : added'[c] = added[c]
    BY <1>2, Adds
<1>5. /\ Len(given'[h]) = Len(given[h]) + 1
      /\ given'[h][Len(given[h]) + 1] = b
      /\ \A n \in 1..Len(given[h]) : given'[h][n] = given[h][n]
      /\ \A k \in Connections \ {h} : given'[k] = given[k]
    BY DEF SetupTcp, SetupTypeOK
<1> SUFFICES ASSUME NEW k \in Connections, NEW c \in ClientSessions, PushesOnly(k, c)'
             PROVE  /\ Len(given'[k]) = Len(added'[c])
                    /\ \A i \in 1..Len(added'[c]) : HasPlace(added'[c][i], k, i)
    BY DEF InTurn
<1>6. /\ \A n \in 1..Len(given'[k]) : given'[k][n] = c
      /\ \A i \in 1..Len(added'[c]) : added'[c][i].tcp /\ added'[c][i].conn = k
    BY DEF PushesOnly
<1>7. k = h <=> c = b
    <2>1. ASSUME k = h PROVE c = b
        BY <1>1, <1>5, <1>6, <2>1
    <2>2. ASSUME c = b PROVE k = h
        BY <1>1, <1>3, <1>4, <1>6, <2>2
    <2> QED
        BY <2>1, <2>2
<1>8. PushesOnly(k, c)
    <2>1. \A n \in 1..Len(given[k]) : n \in 1..Len(given'[k]) /\ given'[k][n] = given[k][n]
        BY <1>1, <1>5
    <2>2. \A i \in 1..Len(added[c]) : i \in 1..Len(added'[c]) /\ added'[c][i] = added[c][i]
        BY <1>1, <1>4
    <2> QED
        BY <1>6, <2>1, <2>2, SMTT(30) DEF PushesOnly
<1>9. /\ Len(given[k]) = Len(added[c])
      /\ \A i \in 1..Len(added[c]) : HasPlace(added[c][i], k, i)
    BY <1>8 DEF InTurn
<1>10. CASE k = h
    <2>1. c = b /\ Len(given[h]) = Len(added[b])
        BY <1>7, <1>9, <1>10
    <2>2. Len(given'[k]) = Len(added'[c])
        BY <1>4, <1>5, <1>10, <2>1
    <2>3. \A i \in 1..Len(added'[b]) : i \in 1..Len(added[b]) \/ i = Len(added[b]) + 1
        BY <1>1, <1>4
    <2>4. HasPlace(o, k, Len(added[b]) + 1)
        BY <1>3, <1>10, <2>1
    <2>5. \A i \in 1..Len(added'[b]) : HasPlace(added'[b][i], k, i)
        BY <1>4, <1>9, <2>1, <2>3, <2>4
    <2> QED
        BY <2>1, <2>2, <2>5
<1>11. CASE k # h
    BY <1>4, <1>5, <1>7, <1>9, <1>11
<1> QED
    BY <1>10, <1>11

LEMMA OrderKeptByUdp ==
    ASSUME InTurn, SetupInv, NEW b \in ClientSessions, NEW h \in Connections,
           NEW t \in TrackIDs, NEW d \in Destinations, NEW multicast \in BOOLEAN,
           SetupUdp(b, h, t, d, multicast)
    PROVE  InTurn'
<1>1. PICK p \in NewSocketPairs \cup SocketPairsFor(d) :
          AddStream(b, [track |-> t, conn |-> h, tcp |-> FALSE, rtp |-> 0, rtcp |-> 0,
                        pair |-> p, dest |-> d, state |-> "up"])
    BY DEF SetupUdp
<1> DEFINE o == [track |-> t, conn |-> h, tcp |-> FALSE, rtp |-> 0, rtcp |-> 0,
                 pair |-> p, dest |-> d, state |-> "up"]
<1>2. p \in Pairs
    BY PlaceFree
<1>3. o \in StreamObjects /\ AddStream(b, o) /\ ~o.tcp
    BY <1>1, <1>2 DEF StreamObjects
<1> HIDE DEF o
<1>4. SetupTypeOK /\ Len(added[b]) \in Nat
    BY DEF SetupInv, SetupTypeOK
<1>5. /\ Len(added'[b]) = Len(added[b]) + 1
      /\ added'[b][Len(added[b]) + 1] = o
      /\ \A c \in ClientSessions \ {b} : added'[c] = added[c]
    BY <1>3, <1>4, Adds
<1>6. UNCHANGED given
    BY DEF SetupUdp
<1> SUFFICES ASSUME NEW k \in Connections, NEW c \in ClientSessions, PushesOnly(k, c)'
             PROVE  /\ Len(given'[k]) = Len(added'[c])
                    /\ \A i \in 1..Len(added'[c]) : HasPlace(added'[c][i], k, i)
    BY DEF InTurn
<1>7. c # b
    BY <1>3, <1>4, <1>5 DEF PushesOnly
<1>8. added'[c] = added[c] /\ PushesOnly(k, c)
    BY <1>5, <1>6, <1>7 DEF PushesOnly
<1> QED
    BY <1>6, <1>8 DEF InTurn

LEMMA OrderHolds == SetupSpec => []InTurn
<1>1. SetupInit => InTurn
    BY DEF SetupInit, InTurn
<1>2. SetupInv /\ InTurn /\ [SetupNext]_setupVars => InTurn'
    <2> SUFFICES ASSUME SetupInv, InTurn, [SetupNext]_setupVars
                 PROVE  InTurn'
        OBVIOUS
    <2>1. ASSUME NEW c \in ClientSessions, NEW k \in Connections, NEW t \in TrackIDs,
                 SetupTcp(c, k, t)
          PROVE  InTurn'
        BY <2>1, OrderKeptByTcp DEF SetupInv
    <2>2. ASSUME NEW c \in ClientSessions, NEW k \in Connections, NEW t \in TrackIDs,
                 NEW d \in Destinations, NEW multicast \in BOOLEAN,
                 SetupUdp(c, k, t, d, multicast)
          PROVE  InTurn'
        BY <2>2, OrderKeptByUdp
    <2>3. ASSUME UNCHANGED <<added, given>>
          PROVE  InTurn'
        BY <2>3 DEF InTurn, PushesOnly
    <2>4. ASSUME NEW c \in ClientSessions, NEW i \in 1..Len(added[c]),
                 DeleteTcpStream(c, i) \/ UnregisterStream(c, i) \/ ReleaseStream(c, i)
          PROVE  InTurn'
        <3>1. PICK x \in {"unregistered", "deleted"} : ChangesState(c, i, x) /\ UNCHANGED given
            BY <2>4 DEF DeleteTcpStream, UnregisterStream, ReleaseStream, Deleted, ChangesState
        <3>2. x \in {"up", "unregistered", "deleted"}
            OBVIOUS
        <3>3. /\ \A b \in ClientSessions : Len(added'[b]) = Len(added[b])
              /\ SameBut(added[c][i], added'[c][i], x)
              /\ \A b \in ClientSessions : \A j \in 1..Len(added[b]) :
                    b # c \/ j # i => added'[b][j] = added[b][j]
            BY <3>1, <3>2, StateChanged, SMTT(30)
        <3> QED
            BY <3>1, <3>3, OrderKeptByState DEF SameBut
    <2> QED
        BY <2>1, <2>2, <2>3, <2>4 DEF SetupNext, RecordOn, CloseSession, setupVars
<1> QED
    BY <1>1, <1>2, SetupInvHolds, PTL DEF SetupSpec

-----------------------------------------------------------------------------
(* Every packet reaches its stream                                         *)

\* The two channels of a place, and the place of a channel
LEMMA Halves ==
    ASSUME NEW m \in Nat, NEW ch \in 0..(2 * m - 1)
    PROVE  /\ (ch \div 2) + 1 \in 1..m
           /\ ch = 2 * (ch \div 2) \/ ch = 2 * (ch \div 2) + 1
           /\ ch % 2 = 1 => ch = 2 * (ch \div 2) + 1
OBVIOUS

LEMMA DatagramsReachTheirs ==
    ASSUME SetupInv
    PROVE  DatagramsReach
<1>1. ASSUME NEW s \in StreamIDs, ~Object(s).tcp, Object(s).state = "up"
      PROVE  DatagramTo(Object(s).pair, Object(s).dest) = s
    <2>0. PICK c \in ClientSessions : \E i \in 1..Len(added[c]) : s = <<c, i>>
        BY IDs
    <2>1. PICK i \in 1..Len(added[c]) : s = <<c, i>>
        BY <2>0
    <2>2. Object(s) = added[c][i] /\ InTable(added[c][i], <<c, i>>, table)
        BY <2>1, IDs DEF SetupInv, Registered
    <2> QED
        BY <1>1, <2>1, <2>2 DEF DatagramTo, InTable
<1>2. ASSUME NEW p \in Pairs, NEW d \in Destinations, DatagramTo(p, d) # Nobody
      PROVE  /\ DatagramTo(p, d) \in StreamIDs
             /\ ~Object(DatagramTo(p, d)).tcp /\ Object(DatagramTo(p, d)).state = "up"
             /\ Object(DatagramTo(p, d)).pair = p /\ Object(DatagramTo(p, d)).dest = d
    <2>0. PICK c \in ClientSessions : \E i \in 1..Len(added[c]) :
              /\ table[p][d] = <<c, i>>
              /\ ~added[c][i].tcp /\ added[c][i].state = "up"
              /\ added[c][i].pair = p /\ added[c][i].dest = d
        BY <1>2 DEF SetupInv, Entered, DatagramTo
    <2>1. PICK i \in 1..Len(added[c]) :
              /\ table[p][d] = <<c, i>>
              /\ ~added[c][i].tcp /\ added[c][i].state = "up"
              /\ added[c][i].pair = p /\ added[c][i].dest = d
        BY <2>0
    <2>2. DatagramTo(p, d) = <<c, i>> /\ <<c, i>> \in StreamIDs /\ Object(<<c, i>>) = added[c][i]
        BY <2>1, IDs DEF DatagramTo
    <2> QED
        BY <2>1, <2>2
<1> QED
    BY <1>1, <1>2 DEF DatagramsReach

\* Each channel of a connection belongs to a stream of the session it names.
LEMMA ChannelsLead ==
    ASSUME SetupInv, NEW k \in Connections, NEW ch \in Channels(k)
    PROVE  /\ SessionOf(k, ch) \in ClientSessions
           /\ \E i \in 1..Len(added[SessionOf(k, ch)]) :
                 HasPlace(added[SessionOf(k, ch)][i], k, (ch \div 2) + 1)
<1>1. Len(given[k]) \in Nat
    BY DEF SetupInv, SetupTypeOK
<1>2. (ch \div 2) + 1 \in 1..Len(given[k])
    BY <1>1, Halves DEF Channels
<1>3. given[k] \in Seq(ClientSessions)
    BY DEF SetupInv, SetupTypeOK
<1> QED
    BY <1>2, <1>3 DEF SetupInv, Numbered, SessionOf

LEMMA PlacesHaveChannels ==
    ASSUME NEW k \in Connections, NEW ch \in Channels(k), Len(given[k]) \in Nat,
           NEW c \in ClientSessions, NEW i \in 1..Len(added[c]),
           HasPlace(added[c][i], k, (ch \div 2) + 1)
    PROVE  /\ HasChannel(c, i, ch)
           /\ added[c][i].tcp /\ added[c][i].conn = k
<1>1. ch = 2 * (ch \div 2) \/ ch = 2 * (ch \div 2) + 1
    BY Halves DEF Channels
<1>2. ch \div 2 \in Nat
    BY Halves DEF Channels
<1> QED
    BY <1>1, <1>2 DEF HasPlace, HasChannel

LEMMA FeedbackReachesTheirs ==
    ASSUME SetupInv
    PROVE  FeedbackReaches
<1> SUFFICES ASSUME NEW k \in Connections, NEW ch \in Channels(k),
                    OverOneConnection(SessionOf(k, ch)), ch % 2 = 1,
                    NEW i \in 1..Len(added[SessionOf(k, ch)]), FindsStream(SessionOf(k, ch), i, ch)
             PROVE  /\ added[SessionOf(k, ch)][i].tcp /\ added[SessionOf(k, ch)][i].conn = k
                    /\ added[SessionOf(k, ch)][i].rtcp = ch
    BY DEF FeedbackReaches
<1>1. PICK c \in ClientSessions : c = SessionOf(k, ch)
    BY ChannelsLead
<1>2. PICK j \in 1..Len(added[c]) : added[c][j].tcp /\ added[c][j].conn = k
    BY <1>1, ChannelsLead DEF HasPlace
<1>3. PICK o : o = added[c][i]
    OBVIOUS
<1>4. InTable(o, <<c, i>>, table) /\ EvenChannels(o) /\ ch \in {o.rtp, o.rtcp}
    BY <1>1, <1>3 DEF SetupInv, Registered, Even, FindsStream, HasChannel
<1>5. o.tcp
    BY <1>4 DEF InTable
<1>6. o.conn = k
    BY <1>1, <1>2, <1>3, <1>5 DEF OverOneConnection
<1>7. o.rtcp = ch
    <2>1. PICK n \in Nat : o.rtp = 2 * n /\ o.rtcp = 2 * n + 1
        BY <1>4, <1>5 DEF EvenChannels
    <2>2. (2 * n) % 2 = 0
        OBVIOUS
    <2> QED
        BY <1>4, <2>1, <2>2
<1> QED
    BY <1>1, <1>3, <1>5, <1>6, <1>7

LEMMA PushReachesTheirs ==
    ASSUME SetupInv, InTurn
    PROVE  PushReaches
<1> SUFFICES ASSUME NEW k \in Connections, PushesInOrder(k), NEW ch \in Channels(k)
             PROVE  \E i \in 1..Len(added[recording[k]]) :
                        /\ FindsStream(recording[k], i, ch)
                        /\ added[recording[k]][i].track = PushedTo(ch)
    BY DEF PushReaches
<1>1. PICK c \in ClientSessions : c = recording[k]
    BY SetupAssumption DEF PushesInOrder, SetupInv, SetupTypeOK
<1>2. /\ Len(given[k]) \in Nat /\ Len(given[k]) = Len(added[c])
      /\ \A i \in 1..Len(added[c]) : HasPlace(added[c][i], k, i) /\ added[c][i].track = i
    <2>1. PushesOnly(k, c) /\ \A i \in 1..Len(added[c]) : added[c][i].track = i
        BY <1>1 DEF PushesInOrder, PushesOnly
    <2> QED
        BY <2>1 DEF InTurn, SetupInv, SetupTypeOK
<1>3. PICK i \in 1..Len(added[c]) : i = (ch \div 2) + 1
    BY <1>2, Halves DEF Channels
<1>4. HasChannel(c, i, ch)
    BY <1>2, <1>3, PlacesHaveChannels
<1>5. \A j \in 1..(i - 1) : ~HasChannel(c, j, ch)
    <2> SUFFICES ASSUME NEW j \in 1..(i - 1)
                 PROVE  ~HasChannel(c, j, ch)
        OBVIOUS
    <2>1. j \in 1..Len(added[c]) /\ j < i
        BY <1>2
    <2>2. added[c][j].rtp = 2 * (j - 1) /\ added[c][j].rtcp = 2 * (j - 1) + 1
        BY <1>2, <2>1 DEF HasPlace
    <2>3. ch = 2 * (i - 1) \/ ch = 2 * (i - 1) + 1
        BY <1>2, <1>3, Halves DEF Channels
    <2> QED
        BY <1>2, <2>1, <2>2, <2>3 DEF HasChannel
<1> QED
    BY <1>1, <1>2, <1>3, <1>4, <1>5 DEF FindsStream, PushedTo

\* The RTCP of a stream over UDP reaches it from SETUP until it is deleted and
\* none reaches a deleted stream (RTCPTask::Run); the sockets live exactly as
\* long as a stream uses them; every channel of a session leads to a stream
\* (HandleIncomingDataPacket does not check), RTCP to the one that was given the
\* channel if the session uses one connection; and the tracks that a client
\* pushes alone on its connection, in their order, are reflected as themselves.
THEOREM PacketsReachTheirStreams == SetupSpec => []StreamsReached
<1>1. SetupInv /\ InTurn => StreamsReached
    <2> SUFFICES ASSUME SetupInv, InTurn
                 PROVE  StreamsReached
        OBVIOUS
    <2>1. DatagramsReach /\ FeedbackReaches /\ PushReaches
        BY DatagramsReachTheirs, FeedbackReachesTheirs, PushReachesTheirs
    <2>2. StreamFound
        <3>1. \A k \in Connections : Len(given[k]) \in Nat
            BY DEF SetupInv, SetupTypeOK
        <3> QED
            BY <3>1, ChannelsLead, PlacesHaveChannels DEF StreamFound
    <2> QED
        BY <2>1, <2>2 DEF StreamsReached, SetupInv
<1> QED
    BY <1>1, SetupInvHolds, OrderHolds, PTL

-----------------------------------------------------------------------------
(* The order of the mutexes. *)

\* While the server runs, its preferences are not reread; no client both watches and
\* broadcasts: the packets it sends are taken in with its attributes locked, which
\* TearDownAllOutputs waits for.
OrderAssumption == ~Reread /\ Broadcasters \cap Viewers = {}

Mutexes ==
    Of("rtsp", Peers) \cup Of("session", Peers) \cup Of("attributes", Peers)
        \cup Of("pointer", Peers) \cup Of("output", Peers)
        \cup Of("bucket", 1..NumStreams) \cup Of("demuxer", 1..NumStreams)
        \cup {SessionMap, RTPMap, ServerMutex, PrefsMutex, Pool, RTCPDemuxer}

\* The order in which the mutexes are taken.
Rank(m) ==
    CASE m[1] = "rtsp"       -> 0
      [] m[1] = "session"    -> 1
      [] m[1] = "broadcasts" -> 2
      [] m[1] = "attributes" -> IF m[2] \in Viewers THEN NumStreams + 6 ELSE 3
      [] m[1] = "demuxer"    -> 4
      [] m[1] = "bucket"     -> 4 + m[2]
      [] m[1] = "output"     -> NumStreams + 5
      [] m[1] = "pointer"    -> NumStreams + 7
      [] m[1] = "prefs"      -> NumStreams + 8
      [] m[1] = "pool"       -> NumStreams + 9
      [] m[1] = "rtcp"       -> NumStreams + 10
      [] m[1] = "server"     -> NumStreams + 11
      [] m[1] = "sessions"   -> NumStreams + 12

Waits == [wants : Mutexes, has : SUBSET Mutexes, try : BOOLEAN, skip : Nat]

\* A connection locks the attributes of its own client session.
Mine(t, m) == \E b \in Broadcasters : t = <<"connection", b>> /\ m = Attributes(b)

\* The attributes of a broadcaster are held by its own connection only.
OwnOnly(t, H) == \A b \in Broadcasters : Attributes(b) \in H => t = <<"connection", b>>

\* A wait of task t that keeps the order when H is held besides.
Ordered(t, H, w) ==
    /\ OwnOnly(t, w.has \cup H)
    /\ \/ w.try
       \/ w.wants \in w.has \cup H
       \/ Mine(t, w.wants)
       \/ \A m \in w.has \cup H : Rank(m) < Rank(w.wants)

\* Nothing is held at a wait that was not held or asked for at the one before it.
Nested(q) ==
    /\ \A i \in 1..Len(q) : i + q[i].skip <= Len(q)
    /\ \A i \in 1..Len(q) : i < Len(q) => q[i + 1].has \subseteq q[i].has \cup {q[i].wants}
    /\ \A i \in 1..Len(q) :
          q[i].try /\ i + q[i].skip < Len(q) => q[i + 1 + q[i].skip].has \subseteq q[i].has

Fine(t, H, q) ==
    /\ q \in Seq(Waits) /\ Nested(q)
    /\ q # <<>> => q[1].has = {}
    /\ \A i \in 1..Len(q) : Ordered(t, H, q[i])

OneHolder == \A t, u \in Tasks : t # u => Held(t) \cap Held(u) = {}

LockInv ==
    /\ todo \in [Tasks -> Seq(Waits)]
    /\ \A t \in Tasks : Nested(todo[t])
    /\ \A t \in Tasks : \A i \in 1..Len(todo[t]) : Ordered(t, {}, todo[t][i])
    /\ OneHolder

USE DEF lockVars

-----------------------------------------------------------------------------
(* The mutexes and their ranks.                                            *)

LEMMA Ranks ==
    /\ \A c \in Peers : Rank(RtspMutex(c)) = 0 /\ Rank(SessionMutex(c)) = 1
    /\ \A c \in Viewers : Rank(Attributes(c)) = NumStreams + 6
    /\ \A c \in Peers \ Viewers : Rank(Attributes(c)) = 3
    /\ \A c \in Peers : Rank(OutputMutex(c)) = NumStreams + 5 /\ Rank(PointerMutex(c)) = NumStreams + 7
    /\ \A s \in 1..NumStreams : Rank(Bucket(s)) = 4 + s /\ Rank(Demuxer(s)) = 4
    /\ Rank(SessionMap) = 2 /\ Rank(PrefsMutex) = NumStreams + 8 /\ Rank(Pool) = NumStreams + 9
    /\ Rank(RTCPDemuxer) = NumStreams + 10 /\ Rank(ServerMutex) = NumStreams + 11
    /\ Rank(RTPMap) = NumStreams + 12
BY DEF Rank, RtspMutex, SessionMutex, Attributes, OutputMutex, PointerMutex, Bucket, Demuxer,
   SessionMap, PrefsMutex, Pool, RTCPDemuxer, ServerMutex, RTPMap

LEMMA AllMutexes ==
    /\ \A c \in Peers : {RtspMutex(c), SessionMutex(c), Attributes(c), OutputMutex(c),
                         PointerMutex(c)} \subseteq Mutexes
    /\ \A s \in 1..NumStreams : {Bucket(s), Demuxer(s)} \subseteq Mutexes
    /\ {SessionMap, PrefsMutex, Pool, RTCPDemuxer, ServerMutex, RTPMap} \subseteq Mutexes
<1>1. \A x, S, k : x \in S => <<k, x>> \in Of(k, S)
  BY DEF Of
<1>2. \A c \in Peers : {RtspMutex(c), SessionMutex(c), Attributes(c), OutputMutex(c),
                        PointerMutex(c)} \subseteq Mutexes
  BY <1>1 DEF Mutexes, RtspMutex, SessionMutex, Attributes, OutputMutex, PointerMutex
<1>3. \A s \in 1..NumStreams : Bucket(s) \in Of("bucket", 1..NumStreams)
                                 /\ Demuxer(s) \in Of("demuxer", 1..NumStreams)
  BY DEF Of, Bucket, Demuxer
<1> QED
  BY <1>2, <1>3, Zenon DEF Mutexes

LEMMA RankBound == \A m \in Mutexes : Rank(m) \in Nat /\ Rank(m) <= NumStreams + 12
<1> SUFFICES ASSUME NEW m \in Mutexes PROVE Rank(m) \in Nat /\ Rank(m) <= NumStreams + 12
  OBVIOUS
<1>0. NumStreams \in Nat
  BY LocksAssumption
<1>1. ASSUME NEW c \in Peers, m \in {RtspMutex(c), SessionMutex(c), Attributes(c), OutputMutex(c),
                                     PointerMutex(c)}
      PROVE  Rank(m) \in Nat /\ Rank(m) <= NumStreams + 12
  <2>1. Rank(RtspMutex(c)) = 0 /\ Rank(SessionMutex(c)) = 1
    BY Ranks
  <2>2. Rank(Attributes(c)) = NumStreams + 6 \/ Rank(Attributes(c)) = 3
    BY Ranks
  <2>3. Rank(OutputMutex(c)) = NumStreams + 5 /\ Rank(PointerMutex(c)) = NumStreams + 7
    BY Ranks
  <2>4. CASE m = Attributes(c)
    BY <1>0, <2>2, <2>4
  <2>5. CASE m # Attributes(c)
    BY <1>0, <1>1, <2>1, <2>3, <2>5
  <2> QED
    BY <2>4, <2>5
<1>2. ASSUME NEW s \in 1..NumStreams, m \in {Bucket(s), Demuxer(s)}
      PROVE  Rank(m) \in Nat /\ Rank(m) <= NumStreams + 12
  <2>1. Rank(Bucket(s)) = 4 + s /\ Rank(Demuxer(s)) = 4
    BY Ranks
  <2> QED
    BY <1>0, <1>2, <2>1
<1>3. CASE m \in {SessionMap, PrefsMutex, Pool, RTCPDemuxer, ServerMutex, RTPMap}
  <2>1. /\ Rank(SessionMap) = 2 /\ Rank(PrefsMutex) = NumStreams + 8 /\ Rank(Pool) = NumStreams + 9
        /\ Rank(RTCPDemuxer) = NumStreams + 10 /\ Rank(ServerMutex) = NumStreams + 11
        /\ Rank(RTPMap) = NumStreams + 12
    BY Ranks
  <2> QED
    BY <1>0, <1>3, <2>1
<1> QED
  BY <1>1, <1>2, <1>3 DEF Mutexes, Of, RtspMutex, SessionMutex, Attributes, OutputMutex,
     PointerMutex, Bucket, Demuxer

\* The mutex m may be waited for while H is held; or held itself besides.
Reachable(t, H, m) ==
    /\ m \in Mutexes /\ OwnOnly(t, H)
    /\ m \in H \/ Mine(t, m) \/ \A h \in H : Rank(h) < Rank(m)

Allowed(t, H, m) == Reachable(t, H, m) /\ OwnOnly(t, H \cup {m})

-----------------------------------------------------------------------------
(* Sequences of waits that keep the order.                                 *)

LEMMA WaitFields ==
    \A w \in Waits : w.wants \in Mutexes /\ w.has \subseteq Mutexes /\ w.try \in BOOLEAN
                    /\ w.skip \in Nat
BY DEF Waits

LEMMA FineEmpty == ASSUME NEW t, NEW H PROVE Fine(t, H, <<>>)
BY DEF Fine, Nested

LEMMA FineConcat ==
    ASSUME NEW t, NEW H, NEW p, NEW q, Fine(t, H, p), Fine(t, H, q)
    PROVE  Fine(t, H, p \o q)
<1> DEFINE r == p \o q
<1>1. p \in Seq(Waits) /\ q \in Seq(Waits) /\ r \in Seq(Waits) /\ Len(r) = Len(p) + Len(q)
      /\ Len(p) \in Nat /\ Len(q) \in Nat
  BY DEF Fine
<1>2. \A i \in 1..Len(r) : r[i] = IF i <= Len(p) THEN p[i] ELSE q[i - Len(p)]
  BY <1>1
<1> HIDE DEF r
<1>3. \A i \in 1..Len(r) : i > Len(p) => i - Len(p) \in 1..Len(q)
  BY <1>1
<1>4. \A i \in 1..Len(p) : p[i] \in Waits /\ p[i].skip \in Nat
  BY <1>1, WaitFields, ElementOfSeq
<1>5. \A i \in 1..Len(q) : q[i] \in Waits /\ q[i].skip \in Nat
  BY <1>1, WaitFields, ElementOfSeq
<1>6. Len(q) > 0 => r[Len(p) + 1].has = {}
  <2> SUFFICES ASSUME Len(q) > 0
               PROVE  r[Len(p) + 1].has = {}
    OBVIOUS
  <2>1. Len(p) + 1 \in 1..Len(r) /\ ~(Len(p) + 1 <= Len(p)) /\ Len(p) + 1 - Len(p) = 1
    BY <1>1
  <2>2. r[Len(p) + 1] = q[1]
    BY <1>2, <2>1
  <2>3. q # <<>>
    BY <1>1
  <2> QED
    BY <2>2, <2>3 DEF Fine
<1>7. Nested(r)
  <2>1. ASSUME NEW i \in 1..Len(r) PROVE i + r[i].skip <= Len(r)
    <3>1. CASE i <= Len(p)
      <4>1. i \in 1..Len(p) /\ r[i] = p[i]
        BY <1>1, <1>2, <3>1
      <4>2. i + p[i].skip <= Len(p)
        BY <4>1 DEF Fine, Nested
      <4>3. PICK k \in Nat : k = p[i].skip
        BY <1>4, <4>1
      <4>4. r[i].skip = k /\ i + k <= Len(p)
        BY <4>1, <4>2, <4>3
      <4> HIDE <4>1, <4>2, <4>3
      <4> QED
        BY <1>1, <4>4
    <3>2. CASE i > Len(p)
      <4>1. i - Len(p) + q[i - Len(p)].skip <= Len(q)
        BY <1>3, <3>2 DEF Fine, Nested
      <4>2. r[i] = q[i - Len(p)] /\ q[i - Len(p)].skip \in Nat
        BY <1>2, <1>3, <1>5, <3>2
      <4>3. PICK k \in Nat : k = q[i - Len(p)].skip
        BY <4>2
      <4>4. r[i].skip = k /\ i - Len(p) + k <= Len(q)
        BY <4>1, <4>2, <4>3
      <4> HIDE <4>1, <4>2, <4>3
      <4> QED
        BY <1>1, <4>4
    <3> QED
      BY <1>1, <3>1, <3>2
  <2>2. ASSUME NEW i \in 1..Len(r), i < Len(r)
        PROVE  r[i + 1].has \subseteq r[i].has \cup {r[i].wants}
    <3>1. CASE i < Len(p)
      BY <1>1, <1>2, <3>1, SMTT(30) DEF Fine, Nested
    <3>2. CASE i = Len(p)
      BY <1>1, <1>6, <2>2, <3>2
    <3>3. CASE i > Len(p)
      <4> DEFINE j == i - Len(p)
      <4>1. j \in 1..Len(q) /\ j < Len(q) /\ i + 1 - Len(p) = j + 1 /\ i + 1 \in 1..Len(r)
        BY <1>1, <2>2, <3>3
      <4>2. q[j + 1].has \subseteq q[j].has \cup {q[j].wants}
        BY <4>1 DEF Fine, Nested
      <4>3. r[i] = q[j] /\ r[i + 1] = q[j + 1]
        BY <1>1, <1>2, <3>3, <4>1, SMTT(30)
      <4> QED
        BY <4>2, <4>3
    <3> QED
      BY <1>1, <3>1, <3>2, <3>3
  <2>3. ASSUME NEW i \in 1..Len(r), r[i].try, i + r[i].skip < Len(r)
        PROVE  r[i + 1 + r[i].skip].has \subseteq r[i].has
    <3>1. CASE i <= Len(p)
      <4>0. PICK k \in Nat : k = i + p[i].skip
        BY <1>4, <3>1
      <4>1. r[i] = p[i] /\ k <= Len(p) /\ k < Len(r) /\ i + 1 + r[i].skip = k + 1
        BY <1>1, <1>2, <1>4, <2>3, <3>1, <4>0, SMTT(30) DEF Fine, Nested
      <4>2. CASE k = Len(p)
        <5>1. r[k + 1].has = {}
          BY <1>1, <1>6, <4>1, <4>2
        <5> QED
          BY <4>1, <5>1
      <4>3. CASE k < Len(p)
        <5>1. p[k + 1].has \subseteq p[i].has
          <6>1. i + 1 + p[i].skip = k + 1
            BY <4>1
          <6>2. p[i + 1 + p[i].skip].has \subseteq p[i].has
            BY <1>1, <2>3, <3>1, <4>0, <4>1, <4>3, SMTT(30) DEF Fine, Nested
          <6> QED
            BY <6>1, <6>2
        <5>2. r[k + 1] = p[k + 1]
          BY <1>1, <1>2, <4>1, <4>3, SMTT(30)
        <5> QED
          BY <4>1, <5>1, <5>2
      <4> QED
        BY <4>1, <4>2, <4>3
    <3>2. CASE i > Len(p)
      <4>a. PICK j \in 1..Len(q) : j = i - Len(p)
        BY <1>3, <3>2
      <4>b. i \in Int /\ j \in Int
        BY <1>1
      <4>1. r[i] = q[j]
        BY <1>1, <1>2, <3>2, <4>a
      <4>0. q[j].skip \in Nat /\ r[i].skip = q[j].skip
        BY <1>5, <4>1
      <4>2. j + q[j].skip < Len(q) /\ q[j].try
        <5>1. PICK k \in Nat : k = q[j].skip
          BY <4>0
        <5>2. i + k < Len(p) + Len(q)
          BY <1>1, <2>3, <4>0, <5>1
        <5>3. j + k < Len(q)
          BY <1>1, <4>a, <4>b, <5>2
        <5> QED
          BY <2>3, <4>1, <5>1, <5>3
      <4>3. q[j + 1 + q[j].skip].has \subseteq q[j].has
        BY <4>1, <4>2 DEF Fine, Nested
      <4>4. r[i + 1 + r[i].skip] = q[j + 1 + q[j].skip]
        <5>1. PICK k \in Nat : k = q[j].skip
          BY <4>0
        <5>2. i + 1 + k \in 1..Len(r) /\ i + 1 + k > Len(p) /\ i + 1 + k - Len(p) = j + 1 + k
          <6>1. j + k < Len(q)
            BY <4>2, <5>1
          <6> QED
            BY <1>1, <3>2, <4>a, <4>b, <6>1
        <5>3. r[i + 1 + k] = q[j + 1 + k]
          BY <1>2, <5>2
        <5> QED
          BY <4>0, <5>1, <5>3
      <4> QED
        BY <4>1, <4>3, <4>4
    <3> QED
      BY <1>1, <3>1, <3>2
  <2> QED
    BY <2>1, <2>2, <2>3 DEF Nested
<1>8. r # <<>> => r[1].has = {}
  BY <1>1, <1>2 DEF Fine
<1>9. \A i \in 1..Len(r) : Ordered(t, H, r[i])
  <2> SUFFICES ASSUME NEW i \in 1..Len(r) PROVE Ordered(t, H, r[i])
    OBVIOUS
  <2>1. CASE i <= Len(p)
    <3>1. i \in 1..Len(p) /\ r[i] = p[i]
      BY <1>1, <1>2, <2>1
    <3> QED
      BY <3>1 DEF Fine
  <2>2. CASE i > Len(p)
    <3>1. i - Len(p) \in 1..Len(q) /\ r[i] = q[i - Len(p)]
      BY <1>1, <1>2, <1>3, <2>2
    <3> QED
      BY <3>1 DEF Fine
  <2> QED
    BY <1>1, <2>1, <2>2
<1>10. Fine(t, H, r)
  BY <1>1, <1>7, <1>8, <1>9 DEF Fine
<1> QED
  BY <1>10 DEF r

\* What is known of the waits r that are left to a task that holds m.
Inside(t, H, m, r) ==
    /\ r \in Seq(Waits) /\ Nested(r)
    /\ r # <<>> => r[1].has = {m}
    /\ \A i \in 1..Len(r) : Ordered(t, H, r[i])

LEMMA WhileFine ==
    ASSUME NEW t, NEW H, NEW m \in Mutexes, NEW G, G = H \cup {m}, NEW q, Fine(t, G, q),
           NEW r, r = While(m, q)
    PROVE  Inside(t, H, m, r) /\ Len(r) = Len(q)
<1>1. q \in Seq(Waits) /\ Len(q) \in Nat /\ DOMAIN q = 1..Len(q)
  BY DEF Fine
<1>2. \A i \in 1..Len(q) : q[i] \in Waits
  BY <1>1, ElementOfSeq
<1>3. \A i \in 1..Len(q) : r[i] = [q[i] EXCEPT !.has = @ \cup {m}]
  BY <1>1 DEF While
<1>4. ASSUME NEW w \in Waits
      PROVE  LET v == [w EXCEPT !.has = @ \cup {m}] IN
             /\ v \in Waits /\ v.has = w.has \cup {m}
             /\ v.wants = w.wants /\ v.try = w.try /\ v.skip = w.skip
  BY DEF Waits
<1>5. \A i \in 1..Len(q) : /\ r[i] \in Waits /\ r[i].has = q[i].has \cup {m}
                           /\ r[i].wants = q[i].wants /\ r[i].try = q[i].try
                           /\ r[i].skip = q[i].skip
  <2> SUFFICES ASSUME NEW i \in 1..Len(q)
               PROVE  /\ r[i] \in Waits /\ r[i].has = q[i].has \cup {m}
                      /\ r[i].wants = q[i].wants /\ r[i].try = q[i].try
                      /\ r[i].skip = q[i].skip
    OBVIOUS
  <2>1. PICK w \in Waits : w = q[i]
    BY <1>2
  <2>2. PICK v : v = [w EXCEPT !.has = @ \cup {m}]
    OBVIOUS
  <2>3. r[i] = v
    BY <1>3, <2>1, <2>2
  <2>4. v \in Waits /\ v.has = w.has \cup {m} /\ v.wants = w.wants /\ v.try = w.try /\ v.skip = w.skip
    BY <1>4, <2>2
  <2> QED
    BY <2>1, <2>3, <2>4
<1>6. r \in Seq(Waits) /\ Len(r) = Len(q)
  <2>1. r = [i \in 1..Len(q) |-> r[i]]
    BY <1>1 DEF While
  <2> QED
    BY <1>1, <1>5, <2>1
<1>7. Nested(r)
  <2>1. \A i \in 1..Len(q) : q[i].skip \in Nat
    BY <1>2, WaitFields
  <2>2. \A i \in 1..Len(r) : i + r[i].skip <= Len(r)
    BY <1>5, <1>6 DEF Fine, Nested
  <2>3. ASSUME NEW i \in 1..Len(r), i < Len(r) PROVE r[i + 1].has \subseteq r[i].has \cup {r[i].wants}
    <3>1. i + 1 \in 1..Len(q) /\ i \in 1..Len(q)
      BY <1>1, <1>6, <2>3
    <3>2. q[i + 1].has \subseteq q[i].has \cup {q[i].wants}
      BY <1>6, <2>3 DEF Fine, Nested
    <3> QED
      BY <1>5, <3>1, <3>2
  <2>4. ASSUME NEW i \in 1..Len(r), r[i].try, i + r[i].skip < Len(r)
        PROVE  r[i + 1 + r[i].skip].has \subseteq r[i].has
    <3>1. PICK k \in Nat : k = q[i].skip
      BY <1>6, <2>1
    <3>2. r[i].skip = k /\ q[i].try /\ i + k < Len(q)
      BY <1>5, <1>6, <2>4, <3>1
    <3>3. i + 1 + k \in 1..Len(q) /\ i \in 1..Len(q)
      BY <1>1, <1>6, <3>2
    <3>4. q[i + 1 + k].has \subseteq q[i].has
      BY <1>6, <3>1, <3>2 DEF Fine, Nested
    <3> QED
      BY <1>5, <3>2, <3>3, <3>4
  <2> QED
    BY <2>2, <2>3, <2>4 DEF Nested
<1>8. r # <<>> => r[1].has = {m}
  BY <1>1, <1>5, <1>6 DEF Fine
<1>9. ASSUME NEW i \in 1..Len(q) PROVE Ordered(t, H, r[i])
  <2>1. q[i].has \cup (H \cup {m}) = r[i].has \cup H
    BY <1>5
  <2>2. Ordered(t, G, q[i])
    BY DEF Fine
  <2> QED
    BY <1>5, <2>1, <2>2 DEF Ordered
<1> QED
  BY <1>1, <1>6, <1>7, <1>8, <1>9 DEF Inside

\* Waiting for m, by Lock or TryLock, and then for q.
LEMMA ConsFine ==
    ASSUME NEW t, NEW H, NEW m \in Mutexes, OwnOnly(t, H), NEW try \in BOOLEAN, NEW skip,
           NEW q \in Seq(Waits), Nested(q), q # <<>> => q[1].has \subseteq {m},
           \A i \in 1..Len(q) : Ordered(t, H, q[i]),
           \/ try /\ skip = Len(q)
           \/ ~try /\ skip = 0 /\ (m \in H \/ Mine(t, m) \/ \A h \in H : Rank(h) < Rank(m))
    PROVE  Fine(t, H, Wait(m, try, skip) \o q)
<1> DEFINE w == [wants |-> m, has |-> {}, try |-> try, skip |-> skip]
           r == <<w>> \o q
<1>0. Len(q) \in Nat /\ skip \in Nat /\ skip <= Len(q)
  OBVIOUS
<1>1. w \in Waits /\ w.wants = m /\ w.has = {} /\ w.try = try /\ w.skip = skip
  BY <1>0 DEF Waits
<1> HIDE DEF w
<1>2. r \in Seq(Waits) /\ Len(r) = 1 + Len(q) /\ r # <<>> /\ r[1] = w
      /\ \A i \in 2..Len(r) : r[i] = q[i - 1]
  BY <1>1
<1>2a. \A i \in 1..Len(q) : r[i + 1] = q[i]
  BY <1>1
<1> HIDE DEF r
<1>3. \A i \in 1..Len(q) : q[i] \in Waits /\ q[i].skip \in Nat
  BY WaitFields, ElementOfSeq
<1>4. \A i \in 1..Len(r) : i # 1 => i - 1 \in 1..Len(q) /\ i \in 2..Len(r) /\ i \in Nat
  BY <1>0, <1>2
<1>5. Nested(r)
  <2>1. ASSUME NEW i \in 1..Len(r) PROVE i + r[i].skip <= Len(r)
    <3>1. CASE i = 1
      BY <1>0, <1>1, <1>2, <3>1
    <3>2. CASE i # 1
      <4>1. PICK k \in Nat : k = q[i - 1].skip
        BY <1>3, <1>4, <3>2
      <4>2. i - 1 + k <= Len(q)
        BY <1>4, <3>2, <4>1 DEF Nested
      <4>3. r[i].skip = k
        BY <1>2, <1>4, <3>2, <4>1
      <4> QED
        BY <1>0, <1>2, <4>2, <4>3
    <3> QED
      BY <3>1, <3>2
  <2>2. ASSUME NEW i \in 1..Len(r), i < Len(r) PROVE r[i + 1].has \subseteq r[i].has \cup {r[i].wants}
    <3>1. i \in Nat /\ i + 1 \in 2..Len(r) /\ i + 1 - 1 = i
      BY <1>0, <1>2, <2>2
    <3>2. r[i + 1] = q[i]
      <4>1. i \in 1..Len(q)
        BY <1>0, <1>2, <2>2, <3>1
      <4> QED
        BY <1>2a, <4>1
    <3>3. CASE i = 1
      <4>1. q # <<>> /\ q[1].has \subseteq {m}
        BY <1>2, <2>2, <3>3
      <4> QED
        BY <1>1, <1>2, <3>2, <3>3, <4>1
    <3>4. CASE i # 1
      <4>1. PICK j \in 1..Len(q) : j = i - 1
        BY <1>4, <3>4
      <4>2. j + 1 = i /\ j < Len(q)
        BY <1>0, <1>2, <2>2, <3>1, <4>1
      <4>3. q[j + 1].has \subseteq q[j].has \cup {q[j].wants}
        BY <4>2 DEF Nested
      <4>4. r[i] = q[j]
        BY <1>2, <1>4, <3>4, <4>1
      <4> QED
        BY <3>2, <4>2, <4>3, <4>4
    <3> QED
      BY <3>3, <3>4
  <2>3. ASSUME NEW i \in 1..Len(r), r[i].try, i + r[i].skip < Len(r)
        PROVE  r[i + 1 + r[i].skip].has \subseteq r[i].has
    <3>1. CASE i = 1
      <4>1. r[i] = w /\ 1 + skip < Len(r)
        BY <1>1, <1>2, <2>3, <3>1
      <4>2. skip = 0 /\ Len(q) > 0
        BY <1>0, <1>2, <4>1
      <4>3. try
        BY <1>1, <2>3, <4>1
      <4>4. FALSE
        BY <1>0, <4>2, <4>3
      <4> QED
        BY <4>4
    <3>2. CASE i # 1
      <4>1. PICK j \in 1..Len(q) : j = i - 1
        BY <1>4, <3>2
      <4>2. PICK k \in Nat : k = q[j].skip
        BY <1>3
      <4>3. r[i] = q[j] /\ i \in Nat
        BY <1>2, <1>4, <3>2, <4>1
      <4>4. j + k < Len(q) /\ q[j].try
        <5>1. i + k < 1 + Len(q)
          BY <1>2, <2>3, <4>2, <4>3
        <5>2. j + k < Len(q)
          BY <1>0, <4>1, <4>3, <5>1
        <5> QED
          BY <2>3, <4>3, <5>2
      <4>5. q[j + 1 + k].has \subseteq q[j].has
        BY <4>2, <4>4 DEF Nested
      <4>6. j + 1 + k \in 1..Len(q) /\ i + 1 + k = (j + 1 + k) + 1
        BY <1>0, <4>1, <4>3, <4>4
      <4>7. r[i + 1 + k] = q[j + 1 + k]
        <5>1. PICK n \in 1..Len(q) : n = j + 1 + k /\ i + 1 + k = n + 1
          BY <4>6
        <5>2. r[n + 1] = q[n]
          BY <1>2a
        <5> QED
          BY <5>1, <5>2, Zenon
      <4> QED
        BY <4>2, <4>3, <4>5, <4>7
    <3> QED
      BY <3>1, <3>2
  <2> QED
    BY <2>1, <2>2, <2>3 DEF Nested
<1>6. ASSUME NEW i \in 1..Len(r) PROVE Ordered(t, H, r[i])
  <2>1. CASE i = 1
    <3>1. w.has \cup H = H
      BY <1>1
    <3> QED
      BY <1>1, <1>2, <2>1, <3>1 DEF Ordered
  <2>2. CASE i # 1
    BY <1>2, <1>4, <2>2
  <2> QED
    BY <2>1, <2>2
<1>7. Fine(t, H, r)
  BY <1>1, <1>2, <1>5, <1>6 DEF Fine
<1> QED
  BY <1>7 DEF r, w, Wait

LEMMA FineHold ==
    ASSUME NEW t, NEW H, NEW m, Allowed(t, H, m), NEW q, Fine(t, H \cup {m}, q)
    PROVE  Fine(t, H, Hold(m, q))
<1>1. m \in Mutexes /\ OwnOnly(t, H)
  BY DEF Allowed, Reachable
<1>2. PICK G : G = H \cup {m} /\ Fine(t, G, q)
  OBVIOUS
<1>3. PICK r : r = While(m, q)
  OBVIOUS
<1>4. Inside(t, H, m, r)
  BY <1>1, <1>2, <1>3, WhileFine
<1>5. Fine(t, H, Wait(m, FALSE, 0) \o r)
  BY <1>1, <1>4, ConsFine DEF Allowed, Reachable, Inside
<1> QED
  BY <1>3, <1>5 DEF Hold

LEMMA FineTouch ==
    ASSUME NEW t, NEW H, NEW m, Reachable(t, H, m)
    PROVE  Fine(t, H, Touch(m))
<1>1. While(m, <<>>) = <<>>
  BY DEF While
<1>2. PICK q : q = <<>>
  OBVIOUS
<1>2a. q \in Seq(Waits) /\ Len(q) = 0
  BY <1>2
<1>2b. Nested(q)
  BY <1>2 DEF Nested
<1>3. \A i \in 1..Len(q) : Ordered(t, H, q[i])
  BY <1>2a
<1>4. Fine(t, H, Wait(m, FALSE, 0) \o q)
  BY <1>2, <1>2a, <1>2b, <1>3, ConsFine DEF Reachable
<1> QED
  BY <1>1, <1>2, <1>4 DEF Touch, Hold

LEMMA FineAttempt ==
    ASSUME NEW t, NEW H, NEW m \in Mutexes, OwnOnly(t, H), NEW q, Fine(t, H \cup {m}, q)
    PROVE  Fine(t, H, Attempt(m, q))
<1>1. PICK G : G = H \cup {m} /\ Fine(t, G, q)
  OBVIOUS
<1>2. PICK r : r = While(m, q)
  OBVIOUS
<1>3. Inside(t, H, m, r) /\ Len(r) = Len(q)
  BY <1>1, <1>2, WhileFine
<1>4. Fine(t, H, Wait(m, TRUE, Len(r)) \o r)
  BY <1>3, ConsFine DEF Inside
<1> QED
  BY <1>2, <1>3, <1>4 DEF Attempt

LEMMA FineOrLater ==
    ASSUME NEW t, NEW H, NEW m \in Mutexes, OwnOnly(t, H), NEW q, Fine(t, H, q)
    PROVE  Fine(t, H, OrLater(m, q))
<1>1. /\ q \in Seq(Waits) /\ Nested(q)
      /\ q # <<>> => q[1].has \subseteq {m}
      /\ \A i \in 1..Len(q) : Ordered(t, H, q[i])
  BY DEF Fine
<1> QED
  BY <1>1, ConsFine DEF OrLater

\* One after the other.
LEMMA FineFlatten ==
    ASSUME NEW t, NEW H, NEW n \in Nat, NEW F, F = [s \in 1..n |-> F[s]],
           \A s \in 1..n : Fine(t, H, F[s])
    PROVE  Fine(t, H, FlattenSeq(F))
<1>1. F \in Seq(Seq(Waits)) /\ Len(F) = n
  <2>1. \A s \in 1..n : F[s] \in Seq(Waits)
    BY DEF Fine
  <2> QED
    BY <2>1
<1>2. PICK f \in [0..n -> Seq(Waits)] :
         /\ f[0] = <<>> /\ FlattenSeq(F) = f[n]
         /\ \A i \in 1..n : f[i] = f[i - 1] \o F[i]
  <2>1. \E f \in [0..Len(F) -> Seq(Waits)] :
           /\ f[0] = <<>> /\ FlattenSeq(F) = f[Len(F)]
           /\ \A i \in 1..Len(F) : f[i] = f[i - 1] \o F[i]
    BY <1>1, FlattenSteps, ZenonT(30)
  <2> QED
    BY <1>1, <2>1
<1> DEFINE P == {i \in Nat : i <= n => Fine(t, H, f[i])}
<1>3. 0 \in P
  BY <1>2, FineEmpty
<1>4. ASSUME NEW i \in Nat, i \in P PROVE i + 1 \in P
  <2> SUFFICES ASSUME i + 1 <= n PROVE Fine(t, H, f[i + 1])
    OBVIOUS
  <2>1. Fine(t, H, f[i]) /\ Fine(t, H, F[i + 1]) /\ i + 1 \in 1..n /\ i + 1 - 1 = i
    BY <1>4
  <2>2. f[i + 1] = f[i] \o F[i + 1]
    <3>1. PICK j \in 1..n : j = i + 1 /\ j - 1 = i
      BY <2>1
    <3>2. f[j] = f[j - 1] \o F[j]
      BY <1>2
    <3> QED
      BY <3>1, <3>2
  <2> QED
    BY <2>1, <2>2, FineConcat
<1>5. n \in P
  <2> HIDE DEF P
  <2> QED
    BY <1>3, <1>4, NumberInduction
<1> QED
  BY <1>2, <1>5

LEMMA FineStreams ==
    ASSUME NEW t, NEW H, NEW F, F = [s \in 1..NumStreams |-> F[s]],
           \A s \in 1..NumStreams : Fine(t, H, F[s])
    PROVE  Fine(t, H, FlattenSeq(F))
BY FineFlatten, LocksAssumption

\* SetToSeq lists the viewers.
LEMMA ViewersListed ==
    /\ Cardinality(Viewers) \in Nat
    /\ \A i \in 1..Cardinality(Viewers) : SetToSeq(Viewers)[i] \in Viewers
<1>1. IsFiniteSet(Viewers)
  BY LocksAssumption, FS_Subset DEF Peers
<1>2. Cardinality(Viewers) \in Nat /\ ExistsBijection(1..Cardinality(Viewers), Viewers)
  BY <1>1, FS_CardinalityType
<1>3. PICK f : f \in Bijection(1..Cardinality(Viewers), Viewers)
  BY <1>2 DEF ExistsBijection
<1>4. f \in [1..Cardinality(Viewers) -> Viewers] /\ IsInjective(f)
  BY <1>3 DEF Bijection, Injection, IsInjective
<1>5. SetToSeq(Viewers) \in [1..Cardinality(Viewers) -> Viewers]
  BY <1>4 DEF SetToSeq
<1> QED
  BY <1>2, <1>5

LEMMA HoldType ==
    ASSUME NEW m \in Mutexes, NEW q \in Seq(Waits)
    PROVE  Hold(m, q) \in Seq(Waits)
<1> DEFINE r == While(m, q)
<1>1. Len(q) \in Nat /\ r = [i \in 1..Len(q) |-> [q[i] EXCEPT !.has = @ \cup {m}]]
  BY DEF While
<1>2. \A i \in 1..Len(q) : q[i] \in Waits
  BY ElementOfSeq
<1>3. \A w \in Waits : [w EXCEPT !.has = @ \cup {m}] \in Waits
  BY DEF Waits
<1>4. r \in Seq(Waits)
  <2> HIDE DEF r
  <2> QED
    BY <1>1, <1>2, <1>3
<1>5. Wait(m, FALSE, 0) \in Seq(Waits)
  <2>1. [wants |-> m, has |-> {}, try |-> FALSE, skip |-> 0] \in Waits
    BY DEF Waits
  <2> QED
    BY <2>1 DEF Wait
<1> HIDE DEF r
<1>6. PICK w \in Seq(Waits) : w = Wait(m, FALSE, 0)
  BY <1>5
<1>7. w \o r \in Seq(Waits)
  BY <1>4
<1> QED
  BY <1>6, <1>7 DEF Hold, r

Under(H, k) == \A h \in H : Rank(h) \in Nat /\ Rank(h) < k

Buckets(k) == {Bucket(s) : s \in 1..k}

\* The buckets of all streams, below which nothing is held that comes after one.
LEMMA FineBuckets ==
    ASSUME NEW t, NEW H, OwnOnly(t, H), Under(H, 5),
           NEW body, Fine(t, H \cup Buckets(NumStreams), body)
    PROVE  Fine(t, H, HoldBuckets(body))
<1> DEFINE N == NumStreams
           D == 1..N
           Y == Seq(Waits)
           c == [s \in SUBSET D |-> Min(s)]
           g == [xy \in D \X Y |-> Hold(Bucket(xy[1]), xy[2])]
<1>0. N \in Nat
  BY LocksAssumption
<1>1. \A s \in SUBSET D : s # {} => Min(s) \in s /\ \A x \in s : Min(s) <= x
  <2> SUFFICES ASSUME NEW s \in SUBSET D, s # {} PROVE Min(s) \in s /\ \A x \in s : Min(s) <= x
    OBVIOUS
  <2>1. \E x \in s : \A y \in s : x <= y
    <3>1. s \subseteq Nat
      OBVIOUS
    <3> QED
      BY <3>1, LeastNumber
  <2> QED
    BY <2>1 DEF Min
<1>2. \A x \in D, y \in Y : g[<<x, y>>] = Hold(Bucket(x), y) /\ g[<<x, y>>] \in Y
  <2> SUFFICES ASSUME NEW x \in D, NEW y \in Y PROVE Hold(Bucket(x), y) \in Y
    OBVIOUS
  <2> QED
    BY AllMutexes, HoldType
<1>3. body \in Y
  BY DEF Fine
<1> HIDE DEF Y
<1>4. \E f : Recursion(f, D, Y, body, c, g)
  <2>1. IsFiniteSet(D)
    BY <1>0, FS_Interval
  <2>2. \A s \in SUBSET D : s # {} => c[s] \in s
    BY <1>1
  <2>3. PICK gg : gg = g /\ \A xy \in D \X Y : gg[xy] \in Y
    <3>1. \A xy \in D \X Y : g[xy] \in Y
      <4> SUFFICES ASSUME NEW xy \in D \X Y PROVE Hold(Bucket(xy[1]), xy[2]) \in Y
        OBVIOUS
      <4>1. xy[1] \in D /\ xy[2] \in Y
        OBVIOUS
      <4>2. Bucket(xy[1]) \in Mutexes
        BY <4>1, AllMutexes
      <4> QED
        BY <4>1, <4>2, HoldType DEF Y
    <3> HIDE DEF g
    <3> QED
      BY <3>1
  <2>4. PICK DD, cc : DD = D /\ cc = c
    OBVIOUS
  <2> HIDE DEF D, c, g
  <2>5. IsFiniteSet(DD)
    BY <2>1, <2>4
  <2>6. \A s \in SUBSET DD : s # {} => cc[s] \in s
    BY <2>2, <2>4
  <2>7. \A xy \in DD \X Y : gg[xy] \in Y
    BY <2>3, <2>4
  <2>8. \E f : Recursion(f, DD, Y, body, cc, gg)
    <3> HIDE <2>1, <2>2, <2>3, <2>4
    <3> QED
      BY <1>3, <2>5, <2>6, <2>7, FoldExists
  <2> QED
    BY <2>3, <2>4, <2>8
<1> DEFINE B == [s \in 1..NumStreams |-> Bucket(s)]
           Raw(f, s) == IF s = {} THEN body ELSE Hold(B[Min(s)], f[s \ {Min(s)}])
           Rec(f, s) == IF s = {} THEN body ELSE Hold(Bucket(Min(s)), f[s \ {Min(s)}])
           iter == CHOOSE f : f = [s \in SUBSET DOMAIN B |-> Raw(f, s)]
<1>5. iter = [s \in SUBSET D |-> Rec(iter, s)]
  <2>1. PICK f \in [SUBSET D -> Y] :
           f = [s \in SUBSET D |-> IF s = {} THEN body ELSE g[<<c[s], f[s \ {c[s]}]>>]]
    BY <1>4 DEF Recursion
  <2>2. ASSUME NEW s \in SUBSET D PROVE f[s] = Rec(f, s)
    <3>1. CASE s = {}
      BY <2>1, <3>1
    <3>2. CASE s # {}
      <4>1. c[s] = Min(s) /\ Min(s) \in D /\ f[s \ {Min(s)}] \in Y
        BY <1>1, <2>1, <3>2
      <4>2. f[s] = g[<<Min(s), f[s \ {Min(s)}]>>]
        <5> HIDE DEF g, c
        <5> QED
          BY <2>1, <3>2, <4>1
      <4>3. f[s] = Hold(Bucket(Min(s)), f[s \ {Min(s)}])
        <5> HIDE DEF g
        <5> QED
          BY <1>2, <4>1, <4>2
      <4> QED
        BY <3>2, <4>3
    <3> QED
      BY <3>1, <3>2
  <2>3. \A h : \A s \in SUBSET D : Raw(h, s) = Rec(h, s)
    <3>1. \A s \in SUBSET D : s # {} => B[Min(s)] = Bucket(Min(s))
      BY <1>1
    <3> HIDE DEF B
    <3> QED
      BY <3>1
  <2>4. DOMAIN B = D
    OBVIOUS
  <2> HIDE DEF B
  <2>5. f = [s \in SUBSET DOMAIN B |-> Raw(f, s)]
    <3> HIDE DEF Rec, Raw
    <3> QED
      BY <2>1, <2>2, <2>3, <2>4
  <2>6. iter = [s \in SUBSET DOMAIN B |-> Raw(iter, s)]
    <3> HIDE DEF Raw
    <3> QED
      BY <2>5
  <2> HIDE DEF Rec, Raw, iter
  <2> QED
    BY <2>3, <2>4, <2>6
<1>6. HoldBuckets(body) = iter[D]
  BY DEF HoldBuckets, FoldRight, MapThenFoldSet
<1> HIDE DEF iter
<1> DEFINE P == {i \in Nat : i <= N => Fine(t, H \cup Buckets(N - i), iter[(N - i + 1)..N])}
<1>7. 0 \in P
  <2>1. (N - 0 + 1)..N = {} /\ N - 0 = N
    BY <1>0
  <2>2. iter[{}] = body
    BY <1>5
  <2>3. Fine(t, H \cup Buckets(N - 0), iter[(N - 0 + 1)..N])
    BY <2>1, <2>2
  <2> QED
    BY <2>3
<1>8. ASSUME NEW i \in Nat, i \in P PROVE i + 1 \in P
  <2> SUFFICES ASSUME i + 1 <= N
               PROVE  Fine(t, H \cup Buckets(N - (i + 1)), iter[(N - (i + 1) + 1)..N])
    OBVIOUS
  <2>1. PICK k \in 1..N : k = N - i
    BY <1>0
  <2>2. N - (i + 1) = k - 1 /\ k - 1 + 1 = k /\ k - 1 \in Nat
    BY <1>0, <2>1
  <2>3. Fine(t, H \cup Buckets(k), iter[(k + 1)..N])
    BY <1>0, <1>8, <2>1
  <2>4. Min(k..N) = k
    <3>0. k \in Nat /\ 1 <= k /\ k <= N /\ N \in Nat
      BY <1>0, <2>1
    <3>1. k..N \in SUBSET D /\ k \in k..N /\ k..N # {}
      BY <3>0
    <3>2. Min(k..N) \in k..N /\ Min(k..N) <= k
      BY <1>1, <3>1
    <3> QED
      BY <1>0, <3>2
  <2>5. iter[k..N] = Hold(Bucket(k), iter[(k + 1)..N])
    <3>1. (k..N) \ {k} = (k + 1)..N /\ k..N # {} /\ k..N \in SUBSET D
      BY <1>0
    <3> QED
      BY <1>5, <2>4, <3>1
  <2>6. (H \cup Buckets(k - 1)) \cup {Bucket(k)} = H \cup Buckets(k)
    <3>1. 1..k = 1..(k - 1) \cup {k}
      OBVIOUS
    <3> QED
      BY <3>1 DEF Buckets
  <2>7. Allowed(t, H \cup Buckets(k - 1), Bucket(k))
    <3>1. ASSUME NEW h \in H \cup Buckets(k - 1) PROVE Rank(h) < Rank(Bucket(k))
      <4>1. CASE h \in H
        <5>1. Rank(h) \in Nat /\ Rank(h) < 5 /\ Rank(Bucket(k)) = 4 + k
          BY <4>1, Ranks DEF Under
        <5> QED
          BY <1>0, <5>1
      <4>2. ASSUME NEW s \in 1..(k - 1), h = Bucket(s) PROVE Rank(h) < Rank(Bucket(k))
        BY <1>0, <4>2, Ranks
      <4> QED
        BY <4>1, <4>2 DEF Buckets
    <3>2. OwnOnly(t, (H \cup Buckets(k - 1)) \cup {Bucket(k)})
      BY DEF OwnOnly, Buckets, Bucket, Attributes
    <3> QED
      BY <3>1, <3>2, AllMutexes DEF Allowed, Reachable, OwnOnly
  <2>8. Fine(t, H \cup Buckets(k - 1), Hold(Bucket(k), iter[(k + 1)..N]))
    BY <2>3, <2>6, <2>7, FineHold
  <2> QED
    BY <2>2, <2>5, <2>8
<1>9. N \in P
  <2> HIDE DEF P, N
  <2> QED
    BY <1>0, <1>7, <1>8, NumberInduction
<1>10. N - N = 0 /\ Buckets(0) = {} /\ N - N + 1 = 1
  BY <1>0 DEF Buckets
<1>11. Fine(t, H \cup {}, iter[1..N])
  <2>1. Fine(t, H \cup Buckets(N - N), iter[(N - N + 1)..N])
    BY <1>0, <1>9
  <2> HIDE DEF N
  <2> QED
    BY <1>10, <2>1
<1> QED
  BY <1>6, <1>11
-----------------------------------------------------------------------------
(* The handlers.                                                           *)

\* Task t, while it holds H, may go on to mutexes of rank k and above.
Safe(t, H, k) == OwnOnly(t, H) /\ Under(H, k)

\* The attributes of client c may be waited for, above rank k.
Own(t, c, k) == \/ c \in Viewers /\ k <= NumStreams + 6
                \/ c \in Broadcasters /\ t = <<"connection", c>>
                \/ c \in Broadcasters /\ k <= 3

LEMMA SafeUp ==
    ASSUME NEW t, NEW H, NEW k \in Int, Safe(t, H, k), NEW j \in Int, k <= j
    PROVE  Safe(t, H, j)
BY DEF Safe, Under

LEMMA SafeReach ==
    ASSUME NEW t, NEW H, NEW k \in Int, Safe(t, H, k), NEW m \in Mutexes, k <= Rank(m)
    PROVE  Reachable(t, H, m)
<1>1. Rank(m) \in Nat
  BY RankBound
<1>2. \A h \in H : Rank(h) \in Nat /\ Rank(h) < k
  BY DEF Safe, Under
<1> QED
  BY <1>1, <1>2 DEF Safe, Reachable

\* The attributes of broadcasters apart, what may be waited for may be held as well.
LEMMA SafeHold ==
    ASSUME NEW t, NEW H, NEW k \in Int, Safe(t, H, k), NEW m \in Mutexes, k <= Rank(m),
           \A b \in Broadcasters : m = Attributes(b) => t = <<"connection", b>>,
           NEW j \in Int, Rank(m) < j
    PROVE  Allowed(t, H, m) /\ Safe(t, H \cup {m}, j)
<1>1. Rank(m) \in Nat
  BY RankBound
<1>2. \A h \in H : Rank(h) \in Nat /\ Rank(h) < k
  BY DEF Safe, Under
<1>3. OwnOnly(t, H \cup {m})
  BY DEF OwnOnly, Safe
<1>4. Reachable(t, H, m)
  BY SafeReach
<1> QED
  BY <1>1, <1>2, <1>3, <1>4 DEF Safe, Under, Allowed

LEMMA SafeShared ==
    ASSUME NEW t, NEW H, NEW k \in Int, Safe(t, H, k), NEW m \in Mutexes, k <= Rank(m),
           m[1] # "attributes", NEW j \in Int, Rank(m) < j
    PROVE  Allowed(t, H, m) /\ Safe(t, H \cup {m}, j)
<1>1. \A b \in Broadcasters : m # Attributes(b)
  BY DEF Attributes
<1> QED
  BY <1>1, SafeHold

LEMMA Kinds ==
    /\ \A c : RtspMutex(c)[1] # "attributes" /\ SessionMutex(c)[1] # "attributes"
    /\ \A c : OutputMutex(c)[1] # "attributes" /\ PointerMutex(c)[1] # "attributes"
    /\ \A s : Bucket(s)[1] # "attributes" /\ Demuxer(s)[1] # "attributes"
    /\ SessionMap[1] # "attributes" /\ PrefsMutex[1] # "attributes" /\ Pool[1] # "attributes"
    /\ RTCPDemuxer[1] # "attributes" /\ ServerMutex[1] # "attributes" /\ RTPMap[1] # "attributes"
BY DEF RtspMutex, SessionMutex, OutputMutex, PointerMutex, Bucket, Demuxer, SessionMap,
   PrefsMutex, Pool, RTCPDemuxer, ServerMutex, RTPMap

\* What is safe while one more mutex is held, for each kind of mutex.
LEMMA SafeWithin ==
    ASSUME NEW t, NEW H
    PROVE  /\ \A c \in Peers :
              /\ Safe(t, H, 0) => Allowed(t, H, RtspMutex(c)) /\ Safe(t, H \cup {RtspMutex(c)}, 1)
              /\ Safe(t, H, 1) => Allowed(t, H, SessionMutex(c)) /\ Safe(t, H \cup {SessionMutex(c)}, 2)
              /\ Safe(t, H, NumStreams + 5) =>
                    Allowed(t, H, OutputMutex(c)) /\ Safe(t, H \cup {OutputMutex(c)}, NumStreams + 6)
              /\ Safe(t, H, NumStreams + 7) =>
                    Allowed(t, H, PointerMutex(c)) /\ Safe(t, H \cup {PointerMutex(c)}, NumStreams + 8)
           /\ \A s \in 1..NumStreams :
              /\ Safe(t, H, 4) => Allowed(t, H, Demuxer(s)) /\ Safe(t, H \cup {Demuxer(s)}, 5)
              /\ Safe(t, H, 5) => Allowed(t, H, Bucket(s)) /\ Safe(t, H \cup {Bucket(s)}, NumStreams + 5)
           /\ Safe(t, H, 2) => Allowed(t, H, SessionMap) /\ Safe(t, H \cup {SessionMap}, 3)
           /\ Safe(t, H, NumStreams + 9) => Allowed(t, H, Pool) /\ Safe(t, H \cup {Pool}, NumStreams + 10)
           /\ Safe(t, H, NumStreams + 10) =>
                 Allowed(t, H, RTCPDemuxer) /\ Safe(t, H \cup {RTCPDemuxer}, NumStreams + 11)
           /\ Safe(t, H, NumStreams + 11) =>
                 Allowed(t, H, ServerMutex) /\ Safe(t, H \cup {ServerMutex}, NumStreams + 12)
<1>0. NumStreams \in Nat
  BY LocksAssumption
<1>1. \A m \in Mutexes, k \in Int, j \in Int :
         m[1] # "attributes" /\ k <= Rank(m) /\ Rank(m) < j /\ Safe(t, H, k)
            => Allowed(t, H, m) /\ Safe(t, H \cup {m}, j)
  BY SafeShared
<1>2. ASSUME NEW c \in Peers
      PROVE  /\ Safe(t, H, 0) => Allowed(t, H, RtspMutex(c)) /\ Safe(t, H \cup {RtspMutex(c)}, 1)
             /\ Safe(t, H, 1) => Allowed(t, H, SessionMutex(c)) /\ Safe(t, H \cup {SessionMutex(c)}, 2)
             /\ Safe(t, H, NumStreams + 5) => Allowed(t, H, OutputMutex(c)) /\ Safe(t, H \cup {OutputMutex(c)}, NumStreams + 6)
             /\ Safe(t, H, NumStreams + 7) => Allowed(t, H, PointerMutex(c)) /\ Safe(t, H \cup {PointerMutex(c)}, NumStreams + 8)
  <2>1. Safe(t, H, 0) => Allowed(t, H, RtspMutex(c)) /\ Safe(t, H \cup {RtspMutex(c)}, 1)
    <3>1. /\ RtspMutex(c) \in Mutexes /\ RtspMutex(c)[1] # "attributes" /\ 0 \in Int /\ 1 \in Int
          /\ 0 <= Rank(RtspMutex(c)) /\ Rank(RtspMutex(c)) < 1
      BY <1>0, AllMutexes, Kinds, Ranks
    <3> QED
      BY <1>1, <3>1, Zenon
  <2>2. Safe(t, H, 1) => Allowed(t, H, SessionMutex(c)) /\ Safe(t, H \cup {SessionMutex(c)}, 2)
    <3>1. /\ SessionMutex(c) \in Mutexes /\ SessionMutex(c)[1] # "attributes" /\ 1 \in Int /\ 2 \in Int
          /\ 1 <= Rank(SessionMutex(c)) /\ Rank(SessionMutex(c)) < 2
      BY <1>0, AllMutexes, Kinds, Ranks
    <3> QED
      BY <1>1, <3>1, Zenon
  <2>3. Safe(t, H, NumStreams + 5) => Allowed(t, H, OutputMutex(c)) /\ Safe(t, H \cup {OutputMutex(c)}, NumStreams + 6)
    <3>1. /\ OutputMutex(c) \in Mutexes /\ OutputMutex(c)[1] # "attributes" /\ NumStreams + 5 \in Int /\ NumStreams + 6 \in Int
          /\ NumStreams + 5 <= Rank(OutputMutex(c)) /\ Rank(OutputMutex(c)) < NumStreams + 6
      BY <1>0, AllMutexes, Kinds, Ranks
    <3> QED
      BY <1>1, <3>1, Zenon
  <2>4. Safe(t, H, NumStreams + 7) => Allowed(t, H, PointerMutex(c)) /\ Safe(t, H \cup {PointerMutex(c)}, NumStreams + 8)
    <3>1. /\ PointerMutex(c) \in Mutexes /\ PointerMutex(c)[1] # "attributes" /\ NumStreams + 7 \in Int /\ NumStreams + 8 \in Int
          /\ NumStreams + 7 <= Rank(PointerMutex(c)) /\ Rank(PointerMutex(c)) < NumStreams + 8
      BY <1>0, AllMutexes, Kinds, Ranks
    <3> QED
      BY <1>1, <3>1, Zenon
  <2> QED
    BY <2>1, <2>2, <2>3, <2>4
<1>3. ASSUME NEW s \in 1..NumStreams
      PROVE  /\ Safe(t, H, 4) => Allowed(t, H, Demuxer(s)) /\ Safe(t, H \cup {Demuxer(s)}, 5)
             /\ Safe(t, H, 5) => Allowed(t, H, Bucket(s)) /\ Safe(t, H \cup {Bucket(s)}, NumStreams + 5)
  <2>1. Safe(t, H, 4) => Allowed(t, H, Demuxer(s)) /\ Safe(t, H \cup {Demuxer(s)}, 5)
    <3>1. /\ Demuxer(s) \in Mutexes /\ Demuxer(s)[1] # "attributes" /\ 4 \in Int /\ 5 \in Int
          /\ 4 <= Rank(Demuxer(s)) /\ Rank(Demuxer(s)) < 5
      BY <1>0, AllMutexes, Kinds, Ranks
    <3> QED
      BY <1>1, <3>1, Zenon
  <2>2. Safe(t, H, 5) => Allowed(t, H, Bucket(s)) /\ Safe(t, H \cup {Bucket(s)}, NumStreams + 5)
    <3>1. /\ Bucket(s) \in Mutexes /\ Bucket(s)[1] # "attributes" /\ 5 \in Int /\ NumStreams + 5 \in Int
          /\ 5 <= Rank(Bucket(s)) /\ Rank(Bucket(s)) < NumStreams + 5
      BY <1>0, AllMutexes, Kinds, Ranks
    <3> QED
      BY <1>1, <3>1, Zenon
  <2> QED
    BY <2>1, <2>2
<1>4. /\ Safe(t, H, 2) => Allowed(t, H, SessionMap) /\ Safe(t, H \cup {SessionMap}, 3)
      /\ Safe(t, H, NumStreams + 9) => Allowed(t, H, Pool) /\ Safe(t, H \cup {Pool}, NumStreams + 10)
      /\ Safe(t, H, NumStreams + 10) => Allowed(t, H, RTCPDemuxer) /\ Safe(t, H \cup {RTCPDemuxer}, NumStreams + 11)
      /\ Safe(t, H, NumStreams + 11) => Allowed(t, H, ServerMutex) /\ Safe(t, H \cup {ServerMutex}, NumStreams + 12)
  <2>1. Safe(t, H, 2) => Allowed(t, H, SessionMap) /\ Safe(t, H \cup {SessionMap}, 3)
    <3>1. /\ SessionMap \in Mutexes /\ SessionMap[1] # "attributes" /\ 2 \in Int /\ 3 \in Int
          /\ 2 <= Rank(SessionMap) /\ Rank(SessionMap) < 3
      BY <1>0, AllMutexes, Kinds, Ranks
    <3> QED
      BY <1>1, <3>1, Zenon
  <2>2. Safe(t, H, NumStreams + 9) => Allowed(t, H, Pool) /\ Safe(t, H \cup {Pool}, NumStreams + 10)
    <3>1. /\ Pool \in Mutexes /\ Pool[1] # "attributes" /\ NumStreams + 9 \in Int /\ NumStreams + 10 \in Int
          /\ NumStreams + 9 <= Rank(Pool) /\ Rank(Pool) < NumStreams + 10
      BY <1>0, AllMutexes, Kinds, Ranks
    <3> QED
      BY <1>1, <3>1, Zenon
  <2>3. Safe(t, H, NumStreams + 10) => Allowed(t, H, RTCPDemuxer) /\ Safe(t, H \cup {RTCPDemuxer}, NumStreams + 11)
    <3>1. /\ RTCPDemuxer \in Mutexes /\ RTCPDemuxer[1] # "attributes" /\ NumStreams + 10 \in Int /\ NumStreams + 11 \in Int
          /\ NumStreams + 10 <= Rank(RTCPDemuxer) /\ Rank(RTCPDemuxer) < NumStreams + 11
      BY <1>0, AllMutexes, Kinds, Ranks
    <3> QED
      BY <1>1, <3>1, Zenon
  <2>4. Safe(t, H, NumStreams + 11) => Allowed(t, H, ServerMutex) /\ Safe(t, H \cup {ServerMutex}, NumStreams + 12)
    <3>1. /\ ServerMutex \in Mutexes /\ ServerMutex[1] # "attributes" /\ NumStreams + 11 \in Int /\ NumStreams + 12 \in Int
          /\ NumStreams + 11 <= Rank(ServerMutex) /\ Rank(ServerMutex) < NumStreams + 12
      BY <1>0, AllMutexes, Kinds, Ranks
    <3> QED
      BY <1>1, <3>1, Zenon
  <2> QED
    BY <2>1, <2>2, <2>3, <2>4
<1> QED
  BY <1>2, <1>3, <1>4

LEMMA TouchSafe ==
    ASSUME NEW t, NEW H, NEW k \in Int, Safe(t, H, k), NEW m \in Mutexes, k <= Rank(m)
    PROVE  Fine(t, H, Touch(m))
BY SafeReach, FineTouch

LEMMA TouchAttributes ==
    ASSUME NEW t, NEW H, NEW k \in Int, Safe(t, H, k), NEW c \in Peers, Own(t, c, k)
    PROVE  Fine(t, H, Touch(Attributes(c)))
<1>1. Attributes(c) \in Mutexes
  BY AllMutexes
<1>2. CASE c \in Viewers /\ k <= NumStreams + 6
  BY <1>1, <1>2, Ranks, TouchSafe
<1>3. CASE c \in Broadcasters /\ t = <<"connection", c>>
  BY <1>1, <1>3, FineTouch DEF Reachable, Mine, Safe
<1>4. CASE c \in Broadcasters /\ k <= 3
  <2>1. Rank(Attributes(c)) \in {3, NumStreams + 6}
    BY Ranks
  <2> QED
    BY <1>1, <1>4, <2>1, LocksAssumption, TouchSafe
<1> QED
  BY <1>2, <1>3, <1>4 DEF Own

LEMMA TeardownFine ==
    ASSUME NEW t, NEW H, Safe(t, H, NumStreams + 7), NEW c \in Peers
    PROVE  Fine(t, H, Teardown(c))
<1>1. PointerMutex(c) \in Mutexes /\ Rank(PointerMutex(c)) = NumStreams + 7
  BY AllMutexes, Ranks
<1> QED
  BY <1>1, TouchSafe, LocksAssumption DEF Teardown

LEMMA RTCPFine ==
    ASSUME NEW t, NEW H, OwnOnly(t, H), NEW c \in Peers
    PROVE  Fine(t, H, LockedRTCPPacket(c))
BY AllMutexes, FineAttempt, FineEmpty DEF LockedRTCPPacket

LEMMA TearDownAllFine ==
    ASSUME NEW t, NEW H, Safe(t, H, 5)
    PROVE  Fine(t, H, TearDownAllOutputs)
<1> DEFINE V == [i \in 1..Cardinality(Viewers) |->
                    Touch(Attributes(SetToSeq(Viewers)[i])) \o Teardown(SetToSeq(Viewers)[i])]
           F == [s \in 1..NumStreams |-> Hold(Bucket(s), FlattenSeq(V))]
<1>0. NumStreams \in Nat
  BY LocksAssumption
<1>1. ASSUME NEW s \in 1..NumStreams PROVE Fine(t, H, Hold(Bucket(s), FlattenSeq(V)))
  <2>1. PICK G : G = H \cup {Bucket(s)} /\ Allowed(t, H, Bucket(s)) /\ Safe(t, G, NumStreams + 5)
    BY SafeWithin
  <2>2. ASSUME NEW i \in 1..Cardinality(Viewers) PROVE Fine(t, G, V[i])
    <3>1. PICK c \in Viewers : c = SetToSeq(Viewers)[i]
      BY ViewersListed
    <3>2. Fine(t, G, Touch(Attributes(c)))
      BY <1>0, <2>1, TouchAttributes DEF Own, Peers
    <3>3. Fine(t, G, Teardown(c))
      <4>1. Safe(t, G, NumStreams + 7)
        BY <1>0, <2>1, SafeUp
      <4> QED
        BY <4>1, TeardownFine DEF Peers
    <3> QED
      BY <3>1, <3>2, <3>3, FineConcat
  <2>3. Fine(t, G, FlattenSeq(V))
    <3>1. V = [i \in 1..Cardinality(Viewers) |-> V[i]]
      OBVIOUS
    <3> HIDE DEF V
    <3> QED
      BY <2>2, <3>1, ViewersListed, FineFlatten
  <2> HIDE DEF V
  <2> QED
    BY <2>1, <2>3, FineHold
<1>2. Fine(t, H, FlattenSeq(F))
  <2>1. F = [s \in 1..NumStreams |-> F[s]] /\ \A s \in 1..NumStreams : Fine(t, H, F[s])
    BY <1>1
  <2> HIDE DEF F
  <2> QED
    BY <2>1, FineStreams
<1> QED
  BY <1>2 DEF TearDownAllOutputs, EachStream, EachViewer

LEMMA RemoveOutputFine ==
    ASSUME NEW t, NEW H, Safe(t, H, 5)
    PROVE  Fine(t, H, RemoveOutput)
<1> DEFINE F == [s \in 1..NumStreams |-> Touch(Bucket(s)) \o Touch(Bucket(s))]
<1>0. NumStreams \in Nat
  BY LocksAssumption
<1>1. ASSUME NEW s \in 1..NumStreams PROVE Fine(t, H, Touch(Bucket(s)) \o Touch(Bucket(s)))
  <2>1. Bucket(s) \in Mutexes /\ Rank(Bucket(s)) = 4 + s /\ 5 <= 4 + s
    BY <1>0, AllMutexes, Ranks
  <2> QED
    BY <1>0, <2>1, TouchSafe, FineConcat
<1>2. F = [s \in 1..NumStreams |-> F[s]] /\ \A s \in 1..NumStreams : Fine(t, H, F[s])
  BY <1>1
<1>3. Fine(t, H, FlattenSeq(F))
  <2> HIDE DEF F
  <2> QED
    BY <1>2, FineStreams
<1> QED
  BY <1>3 DEF RemoveOutput, EachStream

LEMMA DemuxersFine ==
    ASSUME NEW t, NEW H, Safe(t, H, 4)
    PROVE  Fine(t, H, EachStream(LAMBDA s : Touch(Demuxer(s))))
<1> DEFINE F == [s \in 1..NumStreams |-> Touch(Demuxer(s))]
<1>0. NumStreams \in Nat
  BY LocksAssumption
<1>1. ASSUME NEW s \in 1..NumStreams PROVE Fine(t, H, Touch(Demuxer(s)))
  BY <1>0, AllMutexes, Ranks, TouchSafe
<1>2. F = [s \in 1..NumStreams |-> F[s]] /\ \A s \in 1..NumStreams : Fine(t, H, F[s])
  BY <1>1
<1>3. Fine(t, H, FlattenSeq(F))
  <2> HIDE DEF F
  <2> QED
    BY <1>2, FineStreams
<1> QED
  BY <1>3 DEF EachStream

LEMMA SetupStreamFine ==
    ASSUME NEW t, NEW H, Safe(t, H, NumStreams + 6), NEW transport
    PROVE  Fine(t, H, SetupStream(transport)) /\ Fine(t, H, SendSetupResponse(transport))
<1>0. NumStreams \in Nat
  BY LocksAssumption
<1>1. Fine(t, H, Touch(PrefsMutex)) /\ Fine(t, H, Touch(RTCPDemuxer))
  BY <1>0, AllMutexes, Ranks, TouchSafe
<1>2. Fine(t, H, Hold(Pool, Touch(RTCPDemuxer)))
  <2>1. PICK G : G = H \cup {Pool} /\ Allowed(t, H, Pool) /\ Safe(t, G, NumStreams + 10)
    <3>1. Safe(t, H, NumStreams + 9)
      BY <1>0, SafeUp
    <3> QED
      BY <3>1, SafeWithin
  <2>2. Fine(t, G, Touch(RTCPDemuxer))
    BY <1>0, <2>1, AllMutexes, Ranks, TouchSafe
  <2> QED
    BY <2>1, <2>2, FineHold
<1>3. Fine(t, H, <<>>)
  BY FineEmpty
<1>4. Fine(t, H, Hold(Pool, Touch(RTCPDemuxer)) \o Touch(RTCPDemuxer))
  BY <1>1, <1>2, FineConcat
<1>5. Fine(t, H, IF transport = "RUDP" THEN Touch(PrefsMutex) ELSE <<>>)
  BY <1>1, <1>3
<1>6. Fine(t, H, IF transport = "TCP" THEN <<>> ELSE Hold(Pool, Touch(RTCPDemuxer)) \o Touch(RTCPDemuxer))
  BY <1>3, <1>4
<1>7. Fine(t, H, SetupStream(transport))
  BY <1>5, <1>6, FineConcat DEF SetupStream
<1> QED
  BY <1>1, <1>3, <1>7 DEF SendSetupResponse

LEMMA BucketsSafe ==
    ASSUME NEW t, NEW H, Safe(t, H, 5)
    PROVE  Safe(t, H \cup Buckets(NumStreams), NumStreams + 5)
<1>0. NumStreams \in Nat
  BY LocksAssumption
<1>1. OwnOnly(t, H \cup Buckets(NumStreams))
  BY DEF Safe, OwnOnly, Buckets, Bucket, Attributes
<1>2. \A s \in 1..NumStreams : Rank(Bucket(s)) \in Nat /\ Rank(Bucket(s)) < NumStreams + 5
  BY <1>0, Ranks
<1>3. \A h \in H : Rank(h) \in Nat /\ Rank(h) < NumStreams + 5
  BY <1>0 DEF Safe, Under
<1>4. Under(H \cup Buckets(NumStreams), NumStreams + 5)
  BY <1>2, <1>3 DEF Buckets, Under
<1> QED
  BY <1>1, <1>4 DEF Safe

LEMMA AddStreamFine ==
    ASSUME NEW c \in Peers, NEW t, t = <<"connection", c>>, NEW H, Safe(t, H, 5), NEW transport
    PROVE  Fine(t, H, AddRTPStream(c, transport))
<1>0. NumStreams \in Nat
  BY LocksAssumption
<1>1. PICK G : G = H \cup Buckets(NumStreams) /\ Safe(t, G, NumStreams + 5)
  BY BucketsSafe
<1>2. Safe(t, G, NumStreams + 6)
  BY <1>0, <1>1, SafeUp
<1>3. Own(t, c, NumStreams + 6)
  BY <1>0 DEF Own, Peers
<1>4. Fine(t, G, SetupStream(transport)) /\ Fine(t, G, Touch(Attributes(c)))
  BY <1>0, <1>2, <1>3, SetupStreamFine, TouchAttributes
<1>5. Fine(t, G, SetupStream(transport) \o Touch(Attributes(c)))
  BY <1>4, FineConcat
<1> QED
  BY <1>1, <1>5, FineBuckets DEF AddRTPStream, Safe

\* What a connection does for its client once it has the reflector's mutex.
Handled(t, q) == \A H : Safe(t, H, 3) /\ SessionMap \in H => Fine(t, H, q)

LEMMA HandledAttributes ==
    ASSUME NEW c \in Peers, NEW t, t = <<"connection", c>>
    PROVE  Handled(t, Touch(Attributes(c)))
<1>1. Own(t, c, 3)
  BY LocksAssumption DEF Own, Peers
<1> QED
  BY <1>1, TouchAttributes DEF Handled

LEMMA HandledBoth ==
    ASSUME NEW t, NEW p, NEW q, Handled(t, p), Handled(t, q)
    PROVE  Handled(t, p \o q)
BY FineConcat DEF Handled

LEMMA HandledParts ==
    ASSUME NEW c \in Peers, NEW t, t = <<"connection", c>>
    PROVE  /\ Handled(t, <<>>) /\ Handled(t, Teardown(c)) /\ Handled(t, RemoveOutput)
           /\ Handled(t, Touch(PrefsMutex)) /\ Handled(t, Touch(ServerMutex))
           /\ Handled(t, HoldBuckets(<<>>)) /\ Handled(t, EachStream(LAMBDA s : Touch(Demuxer(s))))
           /\ \A tr : Handled(t, AddRTPStream(c, tr)) /\ Handled(t, SendSetupResponse(tr))
<1>0. NumStreams \in Nat
  BY LocksAssumption
<1> SUFFICES ASSUME NEW H, Safe(t, H, 3)
             PROVE  /\ Fine(t, H, <<>>) /\ Fine(t, H, Teardown(c)) /\ Fine(t, H, RemoveOutput)
                    /\ Fine(t, H, Touch(PrefsMutex)) /\ Fine(t, H, Touch(ServerMutex))
                    /\ Fine(t, H, HoldBuckets(<<>>))
                    /\ Fine(t, H, EachStream(LAMBDA s : Touch(Demuxer(s))))
                    /\ \A tr : Fine(t, H, AddRTPStream(c, tr)) /\ Fine(t, H, SendSetupResponse(tr))
  BY DEF Handled
<1>1. Safe(t, H, 4) /\ Safe(t, H, 5) /\ Safe(t, H, NumStreams + 6) /\ Safe(t, H, NumStreams + 7)
  BY <1>0, SafeUp
<1>2. Fine(t, H, HoldBuckets(<<>>))
  <2>1. OwnOnly(t, H) /\ Under(H, 5)
    BY <1>1 DEF Safe
  <2> QED
    BY <2>1, FineEmpty, FineBuckets
<1>3. Fine(t, H, Touch(PrefsMutex)) /\ Fine(t, H, Touch(ServerMutex))
  BY <1>0, <1>1, AllMutexes, Ranks, TouchSafe
<1>4. Fine(t, H, EachStream(LAMBDA s : Touch(Demuxer(s))))
  BY <1>1, DemuxersFine
<1>5. \A tr : Fine(t, H, AddRTPStream(c, tr)) /\ Fine(t, H, SendSetupResponse(tr))
  BY <1>1, AddStreamFine, SetupStreamFine
<1>6. Fine(t, H, <<>>) /\ Fine(t, H, Teardown(c)) /\ Fine(t, H, RemoveOutput)
  BY <1>1, FineEmpty, TeardownFine, RemoveOutputFine
<1> QED
  BY <1>2, <1>3, <1>4, <1>5, <1>6

LEMMA HandlingsFine ==
    ASSUME NEW c \in Peers, NEW t, t = <<"connection", c>>
    PROVE  /\ Handled(t, Describe(c)) /\ Handled(t, Record(c))
           /\ \A info \in BOOLEAN : Handled(t, Play(c, info))
           /\ \A tr : Handled(t, SetupToWatch(c, tr)) /\ Handled(t, SetupToPush(c, tr))
<1>0. NumStreams \in Nat
  BY LocksAssumption
<1>1. Handled(t, Touch(Attributes(c)))
  BY HandledAttributes
<1>2. Handled(t, Describe(c))
  BY <1>1, HandledBoth, HandledParts DEF Describe
<1>3. Handled(t, Record(c))
  BY <1>1, HandledBoth DEF Record
<1>4. ASSUME NEW info \in BOOLEAN PROVE Handled(t, Play(c, info))
  <2>1. Handled(t, IF info THEN HoldBuckets(<<>>) ELSE <<>>)
    BY HandledParts
  <2> QED
    BY <1>1, <2>1, HandledBoth, HandledParts DEF Play
<1>5. ASSUME NEW tr PROVE Handled(t, SetupToWatch(c, tr))
  <2>1. SetupToWatch(c, tr) = RemoveOutput \o Touch(Attributes(c)) \o AddRTPStream(c, tr)
                                 \o Touch(Attributes(c)) \o SendSetupResponse(tr)
    BY DEF SetupToWatch, RemoveOutput, EachStream
  <2> QED
    BY <1>1, <2>1, HandledBoth, HandledParts
<1>6. ASSUME NEW tr PROVE Handled(t, SetupToPush(c, tr))
  <2>1. Handled(t, Hold(SessionMap, EachStream(LAMBDA s : Touch(Demuxer(s)))))
    <3> DEFINE q == EachStream(LAMBDA s : Touch(Demuxer(s)))
    <3>1. Handled(t, q)
      BY HandledParts
    <3> HIDE DEF q
    <3> SUFFICES ASSUME NEW H, Safe(t, H, 3), SessionMap \in H
                 PROVE  Fine(t, H, Hold(SessionMap, q))
      BY DEF Handled, q
    <3>2. H \cup {SessionMap} = H /\ Allowed(t, H, SessionMap)
      BY AllMutexes DEF Safe, Allowed, Reachable
    <3>3. Fine(t, H \cup {SessionMap}, q)
      BY <3>1, <3>2 DEF Handled
    <3> QED
      BY <3>2, <3>3, FineHold
  <2> QED
    BY <1>1, <2>1, HandledBoth, HandledParts DEF SetupToPush
<1> QED
  BY <1>2, <1>3, <1>4, <1>5, <1>6

LEMMA NothingHeld == ASSUME NEW t, NEW k PROVE Safe(t, {}, k)
BY DEF Safe, OwnOnly, Under

LEMMA RequestFine ==
    ASSUME NEW c \in Peers, NEW t, t = <<"connection", c>>, NEW handling, Handled(t, handling)
    PROVE  Fine(t, {}, Request(c, handling)) /\ Fine(t, {}, FirstRequest(c, handling))
<1>0. NumStreams \in Nat
  BY LocksAssumption
<1>1. PICK G : G = {} \cup {RtspMutex(c)} /\ Allowed(t, {}, RtspMutex(c)) /\ Safe(t, G, 1)
  BY NothingHeld, SafeWithin
<1>2. PICK K : K = G \cup {SessionMutex(c)} /\ Allowed(t, G, SessionMutex(c)) /\ Safe(t, K, 2)
  BY <1>1, SafeWithin
<1>3. PICK L : L = K \cup {SessionMap} /\ Allowed(t, K, SessionMap) /\ Safe(t, L, 3)
  BY <1>2, SafeWithin
<1>4. Fine(t, K, Hold(SessionMap, handling))
  BY <1>3, FineHold DEF Handled
<1>5. Fine(t, G, Hold(SessionMutex(c), Hold(SessionMap, handling)))
  BY <1>2, <1>4, FineHold
<1>6. Fine(t, G, Touch(RTPMap)) /\ Fine(t, G, Touch(SessionMutex(c)))
  BY <1>0, <1>1, AllMutexes, Ranks, TouchSafe
<1>7. Fine(t, K, Touch(RTPMap) \o Touch(ServerMutex))
  <2>1. Fine(t, K, Touch(RTPMap)) /\ Fine(t, K, Touch(ServerMutex))
    BY <1>0, <1>2, AllMutexes, Ranks, TouchSafe
  <2> QED
    BY <2>1, FineConcat
<1>8. Fine(t, G, Hold(SessionMutex(c), Touch(RTPMap) \o Touch(ServerMutex)))
  BY <1>2, <1>7, FineHold
<1>9. Fine(t, G, Touch(Attributes(c)))
  <2>1. Own(t, c, 1)
    BY <1>0 DEF Own, Peers
  <2> QED
    BY <1>1, <2>1, TouchAttributes
<1>10. Fine(t, {}, Request(c, handling))
  <2>1. Fine(t, G, Touch(RTPMap) \o Touch(Attributes(c))
                      \o Hold(SessionMutex(c), Hold(SessionMap, handling))
                      \o Touch(SessionMutex(c)) \o Touch(RTPMap))
    BY <1>5, <1>6, <1>9, FineConcat
  <2> QED
    BY <1>1, <2>1, FineHold DEF Request
<1>11. Fine(t, {}, FirstRequest(c, handling))
  <2>1. Fine(t, G, Touch(RTPMap) \o Hold(SessionMutex(c), Touch(RTPMap) \o Touch(ServerMutex))
                      \o Touch(RTPMap) \o Touch(Attributes(c))
                      \o Hold(SessionMutex(c), Hold(SessionMap, handling))
                      \o Touch(SessionMutex(c)) \o Touch(RTPMap))
    BY <1>5, <1>6, <1>8, <1>9, FineConcat
  <2> QED
    BY <1>1, <2>1, FineHold DEF FirstRequest
<1> QED
  BY <1>10, <1>11

LEMMA PacketFine ==
    ASSUME NEW c \in Peers, NEW t, t = <<"connection", c>>, NEW handling,
           NEW G, G = {RtspMutex(c), Attributes(c)}, Fine(t, G, handling)
    PROVE  Fine(t, {}, HandleIncomingDataPacket(c, handling))
<1>0. NumStreams \in Nat
  BY LocksAssumption
<1>1. PICK K : K = {} \cup {RtspMutex(c)} /\ Allowed(t, {}, RtspMutex(c)) /\ Safe(t, K, 1)
  BY NothingHeld, SafeWithin
<1>2. Allowed(t, K, Attributes(c))
  <2>1. Attributes(c) \in Mutexes
    BY AllMutexes
  <2>2. Rank(Attributes(c)) \in {3, NumStreams + 6} /\ Rank(RtspMutex(c)) = 0
    BY Ranks
  <2>3. OwnOnly(t, K) /\ OwnOnly(t, K \cup {Attributes(c)})
    BY <1>1 DEF OwnOnly, RtspMutex, Attributes
  <2> QED
    BY <1>0, <1>1, <2>1, <2>2, <2>3 DEF Allowed, Reachable
<1>3. K \cup {Attributes(c)} = G
  BY <1>1
<1>4. Fine(t, K, Hold(Attributes(c), handling))
  BY <1>2, <1>3, FineHold
<1>5. Fine(t, K, Touch(RTPMap))
  BY <1>0, <1>1, AllMutexes, Ranks, TouchSafe
<1>6. Fine(t, K, Touch(RTPMap) \o Hold(Attributes(c), handling) \o Touch(RTPMap))
  BY <1>4, <1>5, FineConcat
<1> QED
  BY <1>1, <1>6, FineHold DEF HandleIncomingDataPacket

LEMMA ConnectionFine ==
    ASSUME OrderAssumption, NEW c \in Peers, NEW q \in ConnectionRuns(c)
    PROVE  Fine(<<"connection", c>>, {}, q)
<1> DEFINE t == <<"connection", c>>
           G == {RtspMutex(c), Attributes(c)}
<1>0. NumStreams \in Nat
  BY LocksAssumption
<1>1. Handled(t, Teardown(c)) /\ Handled(t, Describe(c)) /\ Handled(t, Record(c))
      /\ (\A info \in BOOLEAN : Handled(t, Play(c, info)))
      /\ (\A tr : Handled(t, SetupToWatch(c, tr)) /\ Handled(t, SetupToPush(c, tr)))
  BY HandledParts, HandlingsFine
<1>2. Fine(t, {}, Dying(c))
  <2>0. Safe(t, {}, 0) /\ Safe(t, {}, NumStreams + 7)
    BY NothingHeld
  <2>1. Fine(t, {}, Touch(RTPMap)) /\ Fine(t, {}, Teardown(c))
    BY <1>0, <2>0, AllMutexes, Ranks, TouchSafe, TeardownFine
  <2> QED
    BY <2>1, FineConcat DEF Dying
<1>3. OwnOnly(t, G) /\ Fine(t, G, LockedRTCPPacket(c))
  <2>1. OwnOnly(t, G)
    BY DEF OwnOnly, RtspMutex, Attributes
  <2> QED
    BY <2>1, RTCPFine
<1>4. Fine(t, {}, HandleIncomingDataPacket(c, LockedRTCPPacket(c)))
  BY <1>3, PacketFine
<1>5. ASSUME c \in Broadcasters, NEW s \in 1..NumStreams
      PROVE  Fine(t, {}, HandleIncomingDataPacket(c, LockedRTCPPacket(c) \o PushPacket(s)))
  <2>1. c \in Peers \ Viewers
    BY <1>5 DEF OrderAssumption
  <2>2. Rank(RtspMutex(c)) = 0 /\ Rank(Attributes(c)) = 3
    BY <2>1, Ranks
  <2>3. Safe(t, G, 4)
    BY <1>3, <2>2 DEF Safe, Under
  <2>4. Fine(t, G, Touch(Demuxer(s)))
    BY <2>3, AllMutexes, Ranks, TouchSafe
  <2>5. Fine(t, G, LockedRTCPPacket(c) \o PushPacket(s))
    BY <1>3, <2>4, FineConcat DEF PushPacket
  <2> QED
    BY <2>5, PacketFine
<1> HIDE DEF t
<1>6. \A h : Handled(t, h) => Fine(t, {}, Request(c, h)) /\ Fine(t, {}, FirstRequest(c, h))
  BY RequestFine DEF t
<1>7. Fine(t, {}, q)
  BY <1>1, <1>2, <1>4, <1>5, <1>6 DEF ConnectionRuns
<1> QED
  BY <1>7 DEF t

LEMMA SessionFine ==
    ASSUME OrderAssumption, NEW c \in Peers, NEW q \in SessionRuns(c)
    PROVE  Fine(<<"client", c>>, {}, q)
<1> DEFINE t == <<"client", c>>
<1>0. NumStreams \in Nat
  BY LocksAssumption
<1>1. PICK G : G = {} \cup {SessionMap} /\ Allowed(t, {}, SessionMap) /\ Safe(t, G, 3)
  BY NothingHeld, SafeWithin
<1>2. Safe(t, G, 4) /\ Safe(t, G, 5)
  BY <1>1, SafeUp
<1>3. Fine(t, G, Touch(Attributes(c)))
  <2>1. Own(t, c, 3)
    BY <1>0 DEF Own, Peers
  <2> QED
    BY <1>1, <2>1, TouchAttributes
<1>4. ASSUME NEW kill \in BOOLEAN PROVE Fine(t, {}, CloseBroadcast(c, kill))
  <2>1. Fine(t, G, EachStream(LAMBDA s : Touch(Demuxer(s))))
    BY <1>2, DemuxersFine
  <2>2. Fine(t, G, IF kill THEN TearDownAllOutputs ELSE <<>>)
    BY <1>2, TearDownAllFine, FineEmpty
  <2>3. Fine(t, G, Touch(Attributes(c)) \o EachStream(LAMBDA s : Touch(Demuxer(s)))
                      \o IF kill THEN TearDownAllOutputs ELSE <<>>)
    BY <1>3, <2>1, <2>2, FineConcat
  <2> QED
    BY <1>1, <2>3, FineHold DEF CloseBroadcast, DestroySession
<1>5. Fine(t, {}, CloseWatching(c))
  <2>1. Fine(t, G, RemoveOutput \o Touch(Attributes(c)))
    BY <1>2, <1>3, RemoveOutputFine, FineConcat
  <2> QED
    BY <1>1, <2>1, FineHold DEF CloseWatching, DestroySession
<1>6. Fine(t, {}, DeleteSession)
  <2>0. Safe(t, {}, 0)
    BY NothingHeld
  <2>1. Fine(t, {}, Touch(RTCPDemuxer)) /\ Fine(t, {}, Touch(Pool)) /\ Fine(t, {}, Touch(ServerMutex))
    BY <1>0, <2>0, AllMutexes, Ranks, TouchSafe
  <2> QED
    BY <2>1, FineConcat DEF DeleteSession
<1>7. ASSUME NEW ending, Fine(t, {}, ending) PROVE Fine(t, {}, OrLater(RTPMap, ending \o DeleteSession))
  <2>1. Fine(t, {}, ending \o DeleteSession)
    BY <1>6, <1>7, FineConcat
  <2>2. RTPMap \in Mutexes /\ OwnOnly(t, {})
    BY AllMutexes DEF OwnOnly
  <2> QED
    BY <2>1, <2>2, FineOrLater
<1> HIDE DEF t
<1>8. Fine(t, {}, q)
  BY <1>4, <1>5, <1>7 DEF SessionRuns
<1> QED
  BY <1>8 DEF t

LEMMA SocketFine ==
    ASSUME NEW s \in 1..NumStreams, NEW t
    PROVE  Fine(t, {}, SocketRun(s))
<1>0. NumStreams \in Nat
  BY LocksAssumption
<1>1. PICK G : G = {} \cup {Demuxer(s)} /\ Allowed(t, {}, Demuxer(s)) /\ Safe(t, G, 5)
  BY NothingHeld, SafeWithin
<1>2. PICK K : K = G \cup {Bucket(s)} /\ Allowed(t, G, Bucket(s)) /\ Safe(t, K, NumStreams + 5)
  BY <1>1, SafeWithin
<1>3. ASSUME NEW c \in Viewers PROVE Fine(t, K, Hold(OutputMutex(c), Write(c)))
  <2>0. c \in Peers
    BY DEF Peers
  <2>1. PICK L : L = K \cup {OutputMutex(c)} /\ Allowed(t, K, OutputMutex(c)) /\ Safe(t, L, NumStreams + 6)
    BY <1>2, <2>0, SafeWithin
  <2>2. PICK M : M = L \cup {SessionMutex(c)}
    OBVIOUS
  <2>3. Safe(t, M, NumStreams + 7)
    <3>1. Rank(SessionMutex(c)) = 1
      BY <2>0, Ranks
    <3>2. OwnOnly(t, M)
      BY <2>1, <2>2 DEF Safe, OwnOnly, SessionMutex, Attributes
    <3>3. \A h \in L : Rank(h) \in Nat /\ Rank(h) < NumStreams + 7
      BY <1>0, <2>1 DEF Safe, Under
    <3> QED
      BY <1>0, <2>2, <3>1, <3>2, <3>3 DEF Safe, Under
  <2>4. PICK O : O = M \cup {PointerMutex(c)} /\ Allowed(t, M, PointerMutex(c)) /\ OwnOnly(t, O)
    BY <2>0, <2>3, SafeWithin DEF Safe
  <2>5. Fine(t, O, Attempt(RtspMutex(c), <<>>))
    BY <2>0, <2>4, AllMutexes, FineAttempt, FineEmpty
  <2>6. Fine(t, M, InterleavedWrite(c))
    BY <2>4, <2>5, FineHold DEF InterleavedWrite
  <2>7. Fine(t, L, Write(c))
    BY <2>0, <2>1, <2>2, <2>6, AllMutexes, FineAttempt DEF Write, Safe
  <2> QED
    BY <2>1, <2>7, FineHold
<1> DEFINE V == [i \in 1..Cardinality(Viewers) |->
                    Hold(OutputMutex(SetToSeq(Viewers)[i]), Write(SetToSeq(Viewers)[i]))]
<1>4. Fine(t, K, FlattenSeq(V))
  <2>1. V = [i \in 1..Cardinality(Viewers) |-> V[i]]
        /\ \A i \in 1..Cardinality(Viewers) : Fine(t, K, V[i])
    BY <1>3, ViewersListed
  <2> HIDE DEF V
  <2> QED
    BY <2>1, ViewersListed, FineFlatten
<1>5. Fine(t, G, Hold(Bucket(s), FlattenSeq(V)))
  <2> HIDE DEF V
  <2> QED
    BY <1>2, <1>4, FineHold
<1>6. Fine(t, G, Touch(Bucket(s))) /\ Fine(t, G, Touch(Demuxer(s)))
  <2>1. Fine(t, G, Touch(Bucket(s)))
    BY <1>0, <1>1, AllMutexes, Ranks, TouchSafe
  <2>2. Reachable(t, G, Demuxer(s))
    BY <1>1, AllMutexes DEF Reachable, Safe
  <2> QED
    BY <2>1, <2>2, FineTouch
<1>7. Fine(t, G, Touch(Demuxer(s)) \o ReflectPackets(s))
  BY <1>5, <1>6, FineConcat DEF ReflectPackets, EachViewer
<1> QED
  BY <1>1, <1>7, FineHold DEF SocketRun

LEMMA OthersFine ==
    ASSUME NEW t
    PROVE  Fine(t, {}, StatisticsRun) /\ \A c \in Viewers : Fine(t, {}, RTCPRun(c))
<1>0. NumStreams \in Nat
  BY LocksAssumption
<1>1. Fine(t, {}, StatisticsRun)
  <2>1. PICK G : G = {} \cup {ServerMutex} /\ Allowed(t, {}, ServerMutex) /\ Safe(t, G, NumStreams + 12)
    BY NothingHeld, SafeWithin
  <2>2. Fine(t, G, Touch(RTPMap))
    BY <1>0, <2>1, AllMutexes, Ranks, TouchSafe
  <2> QED
    BY <2>1, <2>2, FineHold DEF StatisticsRun
<1>2. ASSUME NEW c \in Viewers PROVE Fine(t, {}, RTCPRun(c))
  <2>1. PICK G : G = {} \cup {Pool} /\ Allowed(t, {}, Pool) /\ Safe(t, G, NumStreams + 10)
    BY NothingHeld, SafeWithin
  <2>2. PICK K : K = G \cup {RTCPDemuxer} /\ Allowed(t, G, RTCPDemuxer) /\ OwnOnly(t, K)
    BY <2>1, SafeWithin DEF Safe
  <2>3. Fine(t, K, LockedRTCPPacket(c))
    BY <2>2, RTCPFine DEF Peers
  <2>4. Fine(t, G, Hold(RTCPDemuxer, LockedRTCPPacket(c)))
    BY <2>2, <2>3, FineHold
  <2> QED
    BY <2>1, <2>4, FineHold DEF RTCPRun
<1> QED
  BY <1>1, <1>2

\* Every run of a task takes the mutexes in order.
LEMMA RunsFine ==
    ASSUME OrderAssumption, NEW t \in Tasks, NEW q \in Runs(t)
    PROVE  Fine(t, {}, q)
<1>1. ASSUME NEW c \in Peers, t = <<"connection", c>> PROVE Fine(t, {}, q)
  <2>1. q \in ConnectionRuns(c)
    BY <1>1 DEF Runs
  <2> QED
    BY <1>1, <2>1, ConnectionFine
<1>2. ASSUME NEW c \in Peers, t = <<"client", c>> PROVE Fine(t, {}, q)
  <2>1. q \in SessionRuns(c)
    BY <1>2 DEF Runs
  <2> QED
    BY <1>2, <2>1, SessionFine
<1>3. ASSUME NEW s \in 1..NumStreams, t = <<"socket", s>> PROVE Fine(t, {}, q)
  <2>1. q = SocketRun(s)
    BY <1>3 DEF Runs
  <2> QED
    BY <2>1, SocketFine
<1>4. CASE t = <<"rtcp">>
  <2>1. q \in {RTCPRun(c) : c \in Viewers}
    BY <1>4 DEF Runs
  <2> QED
    BY <2>1, OthersFine
<1>5. CASE t = <<"statistics">>
  <2>1. q = StatisticsRun
    BY <1>5 DEF Runs
  <2> QED
    BY <2>1, OthersFine
<1> QED
  BY <1>1, <1>2, <1>3, <1>4, <1>5 DEF Tasks, Of, OrderAssumption

-----------------------------------------------------------------------------
(* The invariant.                                                          *)

\* What a task still has before it.
Left(t, q) ==
    /\ q \in Seq(Waits) /\ Nested(q)
    /\ \A i \in 1..Len(q) : Ordered(t, {}, q[i])

\* The waits r start where q has its wait k.
Starts(r, q, k) == r # <<>> => k \in 1..Len(q) /\ r[1] = q[k]

LEMMA LeftSuffix ==
    ASSUME NEW t, NEW q, Left(t, q), NEW k \in Nat \ {0}, NEW r, r = SubSeq(q, k, Len(q))
    PROVE  Left(t, r) /\ Starts(r, q, k)
<1>1. q \in Seq(Waits) /\ Len(q) \in Nat
  BY DEF Left
<1>2. \A i \in 1..Len(q) : q[i] \in Waits /\ q[i].skip \in Nat
  BY <1>1, ElementOfSeq, WaitFields
<1>3. CASE k > Len(q)
  <2>1. r = <<>>
    BY <1>1, <1>3
  <2>2. Nested(r) /\ Len(r) = 0 /\ r \in Seq(Waits)
    BY <2>1 DEF Nested
  <2> QED
    BY <2>1, <2>2 DEF Left, Starts
<1>4. CASE k <= Len(q)
  <2>1. r \in Seq(Waits) /\ Len(r) = Len(q) - k + 1
    BY <1>1, <1>4
  <2>2. \A i \in 1..Len(r) : r[i] = q[i + k - 1]
    BY <1>1, <1>4
  <2>3. ASSUME NEW i \in 1..Len(r), NEW j \in 1..Len(q), j = i + k - 1 PROVE r[i] = q[j]
    BY <2>2, <2>3
  <2>4. \A i \in 1..Len(r) : i + k - 1 \in 1..Len(q)
    BY <1>1, <1>4, <2>1
  <2> HIDE <2>2
  <2>5. ASSUME NEW i \in 1..Len(r) PROVE i + r[i].skip <= Len(r)
    <3>1. PICK j \in 1..Len(q) : j = i + k - 1
      BY <2>4
    <3>2. PICK n \in Nat : n = q[j].skip
      BY <1>2
    <3>3. j + n <= Len(q)
      BY <3>2 DEF Left, Nested
    <3>4. r[i].skip = n
      BY <2>3, <3>1, <3>2
    <3> QED
      BY <1>1, <2>1, <3>1, <3>3, <3>4
  <2>6. ASSUME NEW i \in 1..Len(r), i < Len(r) PROVE r[i + 1].has \subseteq r[i].has \cup {r[i].wants}
    <3>1. PICK j \in 1..Len(q) : j = i + k - 1
      BY <2>4
    <3>2. j < Len(q) /\ j + 1 \in 1..Len(q) /\ i + 1 \in 1..Len(r) /\ j + 1 = (i + 1) + k - 1
      BY <1>1, <2>1, <2>6, <3>1
    <3>3. q[j + 1].has \subseteq q[j].has \cup {q[j].wants}
      BY <3>2 DEF Left, Nested
    <3>4. r[i] = q[j] /\ r[i + 1] = q[j + 1]
      BY <2>3, <3>1, <3>2
    <3> QED
      BY <3>3, <3>4
  <2>7. ASSUME NEW i \in 1..Len(r), r[i].try, i + r[i].skip < Len(r)
        PROVE  r[i + 1 + r[i].skip].has \subseteq r[i].has
    <3>1. PICK j \in 1..Len(q) : j = i + k - 1
      BY <2>4
    <3>2. PICK n \in Nat : n = q[j].skip
      BY <1>2
    <3>3. r[i] = q[j] /\ i + n < Len(r)
      BY <2>3, <2>7, <3>1, <3>2
    <3>4. j + n < Len(q) /\ j + 1 + n \in 1..Len(q) /\ i + 1 + n \in 1..Len(r)
          /\ j + 1 + n = (i + 1 + n) + k - 1
      BY <1>1, <2>1, <3>1, <3>3
    <3>5. q[j + 1 + n].has \subseteq q[j].has
      BY <2>7, <3>2, <3>3, <3>4 DEF Left, Nested
    <3>6. r[i + 1 + n] = q[j + 1 + n]
      BY <2>3, <3>4
    <3> QED
      BY <3>2, <3>3, <3>5, <3>6
  <2>8. Nested(r)
    BY <2>5, <2>6, <2>7 DEF Nested
  <2>9. \A i \in 1..Len(r) : Ordered(t, {}, r[i])
    BY <2>3, <2>4 DEF Left
  <2>10. r # <<>> => k \in 1..Len(q) /\ r[1] = q[k]
    <3>1. 1 \in 1..Len(r) /\ k \in 1..Len(q) /\ k = 1 + k - 1
      BY <1>1, <1>4, <2>1
    <3> QED
      BY <2>3, <3>1
  <2> QED
    BY <2>1, <2>8, <2>9, <2>10 DEF Left, Starts
<1> QED
  BY <1>1, <1>3, <1>4

\* The mutexes held before the waits q.
HeldBefore(q) == IF q = <<>> THEN {} ELSE Head(q).has

\* What task t goes on to keeps the invariant if it holds nothing another task holds.
LEMMA StepKeeps ==
    ASSUME LockInv, NEW t \in Tasks, NEW q, Left(t, q), todo' = [todo EXCEPT ![t] = q],
           \A u \in Tasks : u # t => HeldBefore(q) \cap Held(u) = {}
    PROVE  LockInv'
<1>1. todo' \in [Tasks -> Seq(Waits)]
  BY DEF LockInv, Left
<1>2. \A u \in Tasks : todo'[u] = IF u = t THEN q ELSE todo[u]
  BY DEF LockInv
<1>3. \A u \in Tasks : Nested(todo'[u])
  BY <1>2 DEF LockInv, Left
<1>4. \A u \in Tasks : \A i \in 1..Len(todo'[u]) : Ordered(u, {}, todo'[u][i])
  BY <1>2 DEF LockInv, Left
<1>5. ASSUME NEW u \in Tasks PROVE Held(u)' = IF u = t THEN HeldBefore(q) ELSE Held(u)
  BY <1>2 DEF Held, HeldBefore, Next1
<1>6. OneHolder'
  <2> SUFFICES ASSUME NEW u \in Tasks, NEW v \in Tasks, u # v PROVE Held(u)' \cap Held(v)' = {}
    BY DEF OneHolder
  <2>1. Held(u)' = IF u = t THEN HeldBefore(q) ELSE Held(u)
    BY <1>5
  <2>2. Held(v)' = IF v = t THEN HeldBefore(q) ELSE Held(v)
    BY <1>5
  <2> QED
    BY <2>1, <2>2 DEF LockInv, OneHolder
<1> QED
  BY <1>1, <1>3, <1>4, <1>6 DEF LockInv

LEMMA LockInvInit == LockInit => LockInv
<1> SUFFICES ASSUME LockInit PROVE LockInv
  OBVIOUS
<1>1. \A t \in Tasks : todo[t] = <<>> /\ Held(t) = {}
  BY DEF LockInit, Held
<1>2. todo \in [Tasks -> Seq(Waits)]
  BY DEF LockInit
<1>3. Nested(<<>>) /\ Len(<<>>) = 0
  BY DEF Nested
<1> QED
  BY <1>1, <1>2, <1>3 DEF LockInv, OneHolder

LEMMA LockInvNext ==
    ASSUME OrderAssumption, LockInv, [LockNext]_lockVars
    PROVE  LockInv'
<1>1. \A t \in Tasks : Left(t, todo[t]) /\ todo[t] \in Seq(Waits)
  BY DEF LockInv, Left
<1>2. ASSUME NEW t \in Tasks, Begin(t) PROVE LockInv'
  <2>1. PICK q \in Runs(t) : todo' = [todo EXCEPT ![t] = q]
    BY <1>2 DEF Begin
  <2>2. Fine(t, {}, q)
    BY RunsFine
  <2>3. Left(t, q) /\ HeldBefore(q) = {}
    BY <2>2 DEF Left, Fine, HeldBefore
  <2> QED
    BY <2>1, <2>3, StepKeeps
<1>3. ASSUME NEW t \in Tasks, t \in Running PROVE todo[t] # <<>> /\ 1 \in 1..Len(todo[t])
             /\ Next1(t) = todo[t][1] /\ Held(t) = todo[t][1].has
  <2>1. todo[t] # <<>> /\ todo[t] \in Seq(Waits)
    BY <1>1, <1>3 DEF Running
  <2> QED
    BY <2>1 DEF Held, Next1
<1>4. ASSUME NEW t \in Tasks, Acquire(t) PROVE LockInv'
  <2>0. t \in Running /\ Free(t, Next1(t).wants)
    BY <1>4 DEF Acquire
  <2>1. PICK q : q = SubSeq(todo[t], 2, Len(todo[t])) /\ q = Tail(todo[t])
    <3>1. todo[t] \in Seq(Waits) /\ todo[t] # <<>>
      BY <1>1, <1>3, <2>0
    <3> QED
      BY <3>1, TailIsSubSeq
  <2>2. Left(t, q) /\ (q # <<>> => 2 \in 1..Len(todo[t]) /\ q[1] = todo[t][2])
    <3>1. PICK p : p = todo[t] /\ Left(t, p)
      BY <1>1
    <3>2. PICK k \in Nat \ {0} : k = 2
      OBVIOUS
    <3>3. q = SubSeq(p, k, Len(p))
      BY <2>1, <3>1, <3>2
    <3>4. Left(t, q) /\ Starts(q, p, k)
      BY <3>1, <3>3, LeftSuffix
    <3> QED
      BY <3>1, <3>2, <3>4 DEF Starts
  <2>3. HeldBefore(q) \subseteq Held(t) \cup {Next1(t).wants}
    <3>1. CASE q = <<>>
      BY <3>1 DEF HeldBefore
    <3>2. CASE q # <<>>
      <4>1. 1 < Len(todo[t]) /\ 1 \in 1..Len(todo[t]) /\ 1 + 1 = 2
        BY <1>1, <2>2, <3>2
      <4>2. todo[t][2].has \subseteq todo[t][1].has \cup {todo[t][1].wants}
        BY <1>1, <4>1 DEF Left, Nested
      <4>3. Head(q) = todo[t][2]
        BY <2>2, <3>2 DEF Left
      <4> QED
        BY <1>3, <2>0, <3>2, <4>2, <4>3 DEF HeldBefore
    <3> QED
      BY <3>1, <3>2
  <2>4. ASSUME NEW u \in Tasks, u # t PROVE HeldBefore(q) \cap Held(u) = {}
    <3>1. Next1(t).wants \notin Held(u)
      BY <2>0, <2>4 DEF Free, Holders, Running, Held
    <3> QED
      BY <2>3, <2>4, <3>1 DEF LockInv, OneHolder
  <2>5. todo' = [todo EXCEPT ![t] = q]
    BY <1>4, <2>1 DEF Acquire
  <2> QED
    BY <2>2, <2>4, <2>5, StepKeeps
<1>5. ASSUME NEW t \in Tasks, GiveUpLock(t) PROVE LockInv'
  <2>0. t \in Running /\ Next1(t).try
    BY <1>5 DEF GiveUpLock
  <2>1. PICK k \in Nat : k = todo[t][1].skip
    BY <1>1, <1>3, <2>0, ElementOfSeq, WaitFields
  <2>2. PICK q : q = SubSeq(todo[t], 2 + k, Len(todo[t]))
    OBVIOUS
  <2>3. Left(t, q) /\ (q # <<>> => 2 + k \in 1..Len(todo[t]) /\ q[1] = todo[t][2 + k])
    <3>1. PICK n \in Nat \ {0} : n = 2 + k
      OBVIOUS
    <3>2. PICK p : p = todo[t] /\ Left(t, p)
      BY <1>1
    <3>3. q = SubSeq(p, n, Len(p))
      BY <2>2, <3>1, <3>2
    <3>4. Left(t, q) /\ Starts(q, p, n)
      BY <3>2, <3>3, LeftSuffix
    <3> QED
      BY <3>1, <3>2, <3>4 DEF Starts
  <2>4. HeldBefore(q) \subseteq Held(t)
    <3>1. CASE q = <<>>
      BY <3>1 DEF HeldBefore
    <3>2. CASE q # <<>>
      <4>1. 1 + k < Len(todo[t]) /\ 1 \in 1..Len(todo[t]) /\ 1 + 1 + k = 2 + k
        BY <1>1, <1>3, <2>0, <2>3, <3>2
      <4>2. todo[t][1].try
        BY <1>3, <2>0
      <4>3. todo[t][1 + 1 + k].has \subseteq todo[t][1].has
        BY <1>1, <2>1, <4>1, <4>2 DEF Left, Nested
      <4>4. Head(q) = todo[t][2 + k]
        BY <2>3, <3>2 DEF Left
      <4> QED
        BY <1>3, <2>0, <3>2, <4>1, <4>3, <4>4 DEF HeldBefore
    <3> QED
      BY <3>1, <3>2
  <2>5. ASSUME NEW u \in Tasks, u # t PROVE HeldBefore(q) \cap Held(u) = {}
    BY <2>4, <2>5 DEF LockInv, OneHolder
  <2>6. todo' = [todo EXCEPT ![t] = q]
    BY <1>3, <1>5, <2>0, <2>1, <2>2 DEF GiveUpLock
  <2> QED
    BY <2>3, <2>5, <2>6, StepKeeps
<1>6. CASE UNCHANGED lockVars
  BY <1>6 DEF LockInv, OneHolder, Held, Next1
<1> QED
  BY <1>2, <1>4, <1>5, <1>6 DEF LockNext

\* The task that waits for the mutex of the greatest rank waits for nothing of the others.
LEMMA LockInvImplies == LockInv => NoDeadlock
<1> SUFFICES ASSUME LockInv, NEW S \in (SUBSET Running) \ {{}}
             PROVE  \E t \in S : Next1(t).try \/ Holders(Next1(t).wants) \cap S \subseteq {t}
  BY DEF NoDeadlock
<1> S \subseteq Running /\ S # {}
  OBVIOUS
<1> SUFFICES ASSUME \A t \in S : ~Next1(t).try /\ ~(Holders(Next1(t).wants) \cap S \subseteq {t})
             PROVE  FALSE
  OBVIOUS
<1>1. ASSUME NEW t \in S
      PROVE  /\ t \in Tasks /\ Next1(t) \in Waits /\ Held(t) = Next1(t).has
             /\ Ordered(t, {}, Next1(t))
  <2>1. t \in Tasks /\ todo[t] # <<>> /\ todo[t] \in Seq(Waits)
    BY DEF Running, LockInv
  <2>2. 1 \in 1..Len(todo[t]) /\ Next1(t) = todo[t][1]
    BY <2>1 DEF Next1
  <2>3. todo[t][1] \in Waits
    BY <2>1, <2>2, ElementOfSeq
  <2> QED
    BY <2>1, <2>2, <2>3 DEF Held, LockInv
<1>2. \A t \in S : Rank(Next1(t).wants) \in Nat /\ Rank(Next1(t).wants) <= NumStreams + 12
  BY <1>1, WaitFields, RankBound
<1>3. PICK t \in S : \A u \in S : Rank(Next1(u).wants) <= Rank(Next1(t).wants)
  <2> DEFINE R == {Rank(Next1(u).wants) : u \in S}
  <2>1. R \subseteq Nat /\ R # {} /\ \A n \in R : n <= NumStreams + 12
    BY <1>2
  <2>2. \E n \in R : \A k \in R : k <= n
    <3>1. PICK b \in Nat : b = NumStreams + 12
      BY LocksAssumption
    <3> HIDE DEF R
    <3>2. \A n \in R : n <= b
      BY <2>1, <3>1
    <3> QED
      BY <2>1, <3>2, GreatestNumber
  <2> QED
    BY <2>2
<1>4. PICK u \in S : u # t /\ Next1(t).wants \in Held(u)
  BY DEF Holders
<1>5. PICK v \in S : v # u /\ Next1(u).wants \in Held(v)
  BY DEF Holders
<1>6. Next1(u).wants \notin Held(u)
  BY <1>1, <1>5 DEF LockInv, OneHolder
<1>7. ~Mine(u, Next1(u).wants)
  <2> SUFFICES ASSUME NEW b \in Broadcasters, u = <<"connection", b>>, Next1(u).wants = Attributes(b)
               PROVE  FALSE
    BY DEF Mine
  <2>1. OwnOnly(v, Held(v))
    BY <1>1 DEF Ordered
  <2> QED
    BY <1>5, <2>1 DEF OwnOnly
<1>8. \A m \in Held(u) : Rank(m) < Rank(Next1(u).wants)
  BY <1>1, <1>6, <1>7 DEF Ordered
<1>9. Rank(Next1(t).wants) < Rank(Next1(u).wants)
  BY <1>4, <1>8
<1> QED
  BY <1>2, <1>3, <1>9

\* For any number of streams, viewers, broadcasters and task threads, no tasks of a server
\* whose preferences are not reread wait for each other, if no client both watches and
\* broadcasts: RTSPSession::Run, RTPSession::Run, ReflectorSocket::Run, RTCPTask::Run and
\* RTPStatsUpdaterTask::Run with every call they make.
THEOREM NoTasksWaitForEachOther ==
    ASSUME OrderAssumption
    PROVE  LockSpec => []NoDeadlock
<1>1. LockInit => LockInv
  BY LockInvInit
<1>2. LockInv /\ [LockNext]_lockVars => LockInv'
  BY LockInvNext
<1>3. LockInv => NoDeadlock
  BY LockInvImplies
<1> QED
  BY <1>1, <1>2, <1>3, PTL DEF LockSpec

=============================================================================
