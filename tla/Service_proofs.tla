---------------------------- MODULE Service_proofs ----------------------------
(***************************************************************************)
(* Theorems about the parts of the service: the output of a connection,    *)
(* HTTP tunnels, the requests that are cut from a stream, the error log    *)
(* and the listeners.                                                      *)
(*                                                                         *)
(* StreamWhole is not inductive.  What carries it is that the output ends  *)
(* behind a whole response or packet, or inside the response that is being *)
(* written; that inside one the session mutex is held, and then no packet  *)
(* gets in; and that a response is done when the request leaves its roles. *)
(* Sending any number of units from the front keeps that.                  *)
(*                                                                         *)
(* TunnelFindable and DonorKept are not inductive either.  What carries    *)
(* both is that a session about to bind has joined the one that is         *)
(* registered, and that no second session joins while the reference is     *)
(* out: so nothing moves the registration between the two steps, and the   *)
(* half that goes on is the one that keeps or takes over the place in the  *)
(* map.                                                                    *)
(*                                                                         *)
(* RequestsInOrder needs to know where the stream is while no request is   *)
(* whole, and which part of an encoded group is left; RepeatsCounted, that *)
(* the message that is counted is the last one that is read in the log;    *)
(* AsConfigured, that no two listeners that live are at one place.         *)
(***************************************************************************)
EXTENDS RequestStream, RtspConnection, HttpTunnel, ServerControl, ErrorLog, DataLemmas,
        SequenceTheorems

\* The units of q continue a stream whose last unit was x, and the last unit then.
Continues(x, q) == \A i \in 1..Len(q) : Joined(IF i = 1 THEN x ELSE q[i - 1], q[i])
LastUnit(x, q)  == IF q = <<>> THEN x ELSE q[Len(q)]

\* A stream ends inside a response while that is written, else behind a whole one or packet.
EndsAt(x, n) == IF n = 1 THEN x = <<"response", 1>> ELSE x[2] = 2

\* A response is begun and not finished only while a module other than of the last role is
\* called; and then no packet gets in.
Locked ==
    /\ conn \in {"serving", "sending", "cleaning"} => held
    /\ conn \in {"reading", "sending", "cleaning"} => put # 1
    /\ conn = "serving" /\ role = Post => put = 2

-----------------------------------------------------------------------------

LEMMA Lesser ==
    ASSUME NEW a \in Nat, NEW b \in Nat
    PROVE  Min({a, b}) \in Nat /\ Min({a, b}) = IF a <= b THEN a ELSE b
<1> DEFINE P(x) == x \in {a, b} /\ \A y \in {a, b} : x <= y
<1>1. \E x : P(x)
  <2>1. CASE a <= b
    BY <2>1
  <2>2. CASE ~(a <= b)
    BY <2>2
  <2> QED
    BY <2>1, <2>2
<1>2. P(CHOOSE x : P(x))
  <2> HIDE DEF P
  <2> QED
    BY <1>1
<1>3. Min({a, b}) = CHOOSE x : P(x)
  BY DEF Min
<1> QED
  BY <1>2, <1>3

Both(x, r, e, q) == r \in Seq(Units) /\ Continues(x, r) /\ LastUnit(x, r) = LastUnit(e, q)

\* What comes after q continues with the last unit of q.
LEMMA ContinuesBoth ==
    ASSUME NEW x \in Units, NEW p \in Seq(Units), NEW q \in Seq(Units), NEW e, e = LastUnit(x, p),
           Continues(x, p), Continues(e, q), NEW r, r = p \o q
    PROVE  Both(x, r, e, q)
<1>1. /\ r \in Seq(Units) /\ Len(p) \in Nat /\ Len(q) \in Nat /\ Len(r) = Len(p) + Len(q)
      /\ \A i \in 1..Len(r) : r[i] = IF i <= Len(p) THEN p[i] ELSE q[i - Len(p)]
  OBVIOUS
<1>2. ASSUME NEW i \in 1..Len(r) PROVE Joined(IF i = 1 THEN x ELSE r[i - 1], r[i])
  <2>1. CASE i <= Len(p)
    <3>1. r[i] = p[i] /\ (i # 1 => r[i - 1] = p[i - 1]) /\ i \in 1..Len(p)
      BY <1>1, <2>1
    <3>2. Joined(IF i = 1 THEN x ELSE p[i - 1], p[i])
      BY <3>1 DEF Continues
    <3> QED
      BY <3>1, <3>2
  <2>2. CASE i = Len(p) + 1
    <3>1. r[i] = q[1] /\ 1 \in 1..Len(q) /\ i - 1 = Len(p)
      BY <1>1, <2>2
    <3>2. (IF i = 1 THEN x ELSE r[i - 1]) = e
      <4>1. CASE i = 1
        BY <1>1, <2>2, <4>1 DEF LastUnit
      <4>2. CASE i # 1
        BY <1>1, <2>2, <3>1, <4>2 DEF LastUnit
      <4> QED
        BY <4>1, <4>2
    <3>3. Joined(e, q[1])
      BY <3>1 DEF Continues
    <3> QED
      BY <3>1, <3>2, <3>3
  <2>3. CASE i > Len(p) + 1
    <3>0. PICK j : j = i - Len(p)
      OBVIOUS
    <3>1. j \in 1..Len(q) /\ j # 1 /\ j - 1 = i - 1 - Len(p) /\ i # 1 /\ i - 1 \in 1..Len(r)
      BY <1>1, <2>3, <3>0
    <3>2. r[i] = q[j] /\ r[i - 1] = q[j - 1]
      BY <1>1, <2>3, <3>0, <3>1
    <3>3. Joined(q[j - 1], q[j])
      BY <3>1 DEF Continues
    <3>4. (IF i = 1 THEN x ELSE r[i - 1]) = q[j - 1]
      BY <3>1, <3>2
    <3> QED
      BY ONLY <3>2, <3>3, <3>4
  <2>4. i <= Len(p) \/ i = Len(p) + 1 \/ i > Len(p) + 1
    BY <1>1
  <2> QED
    BY ONLY <2>1, <2>2, <2>3, <2>4
<1>3. LastUnit(x, r) = LastUnit(e, q)
  <2>1. CASE q = <<>>
    BY <1>1, <2>1 DEF LastUnit
  <2>2. CASE q # <<>>
    <3>1. Len(q) > 0 /\ Len(r) > Len(p) /\ Len(r) - Len(p) = Len(q) /\ r # <<>> /\ Len(r) \in 1..Len(r)
      BY <1>1, <2>2
    <3>2. r[Len(r)] = q[Len(q)]
      BY <1>1, <3>1
    <3> QED
      BY <2>2, <3>1, <3>2 DEF LastUnit
  <2> QED
    BY <2>1, <2>2
<1> QED
  BY <1>1, <1>2, <1>3 DEF Continues, Both

Rest(x, q, y, r) ==
    y \in Units /\ r \in Seq(Units) /\ Continues(y, r) /\ LastUnit(y, r) = LastUnit(x, q)

\* What is left of q behind its first n units.
Behind(r, q, n) == \A k \in 1..(Len(q) - n) : r[k] = q[k + n]

\* The unit that is behind the first n of them follows the one before it.
LEMMA RestJoined ==
    ASSUME NEW x, NEW q, Continues(x, q), Len(q) \in Nat, NEW n \in 0..Len(q),
           NEW y, y = (IF n = 0 THEN x ELSE q[n]), NEW r, Behind(r, q, n), NEW i \in 1..(Len(q) - n)
    PROVE  Joined(IF i = 1 THEN y ELSE r[i - 1], r[i])
<1>0. PICK N \in Nat : N = Len(q)
  OBVIOUS
<1>1. PICK j \in 1..N : j = i + n
  BY <1>0
<1>2. r[i] = q[j]
  BY <1>0, <1>1 DEF Behind
<1>3. Joined(IF j = 1 THEN x ELSE q[j - 1], q[j])
  BY <1>0 DEF Continues
<1>4. CASE i = 1
  <2>1. j = n + 1 /\ (j = 1 <=> n = 0) /\ j - 1 = n
    BY <1>0, <1>1, <1>4
  <2>2. y = IF j = 1 THEN x ELSE q[j - 1]
    BY <2>1
  <2> QED
    BY <1>2, <1>3, <1>4, <2>2
<1>5. CASE i # 1
  <2>1. i - 1 \in 1..(Len(q) - n) /\ (i - 1) + n = j - 1 /\ j # 1
    BY <1>0, <1>1, <1>5
  <2>2. r[i - 1] = q[(i - 1) + n]
    BY <2>1 DEF Behind
  <2> QED
    BY <1>2, <1>3, <1>5, <2>1, <2>2
<1> QED
  BY <1>4, <1>5

\* What is left behind the first n units continues with the n-th.
LEMMA ContinuesRest ==
    ASSUME NEW x \in Units, NEW q \in Seq(Units), Continues(x, q), NEW n \in 0..Len(q),
           NEW y, y = (IF n = 0 THEN x ELSE q[n]), NEW r, r = SubSeq(q, n + 1, Len(q))
    PROVE  Rest(x, q, y, r)
<1>1. /\ Len(q) \in Nat /\ n \in Nat /\ r \in Seq(Units) /\ Len(r) = Len(q) - n
      /\ \A i \in 1..Len(r) : r[i] = q[i + n]
  OBVIOUS
<1>2. y \in Units
  BY <1>1, ElementOfSeq
<1>3. ASSUME NEW i \in 1..Len(r) PROVE Joined(IF i = 1 THEN y ELSE r[i - 1], r[i])
  <2>1. Behind(r, q, n)
    BY <1>1 DEF Behind
  <2>2. i \in 1..(Len(q) - n) /\ Len(q) \in Nat
    BY <1>1
  <2> QED
    BY <2>1, <2>2, RestJoined
<1>4. LastUnit(y, r) = LastUnit(x, q)
  <2>1. CASE n = Len(q)
    BY <1>1, <2>1 DEF LastUnit
  <2>2. CASE n # Len(q)
    <3>1. Len(r) \in 1..Len(r) /\ Len(r) + n = Len(q)
      BY <1>1, <2>2
    <3>2. Len(r) # 0 /\ Len(q) # 0
      BY <1>1, <2>2, <3>1
    <3>3. r # <<>> /\ q # <<>>
      <4>1. Len(<<>>) = 0
        OBVIOUS
      <4> QED
        BY <3>2, <4>1, Zenon
    <3> QED
      BY <1>1, <3>1, <3>3 DEF LastUnit
  <2> QED
    BY <2>1, <2>2
<1> QED
  BY <1>1, <1>2, <1>3, <1>4 DEF Continues, Rest

\* The part of the invariant that is about the output, when n units of a response are written.
Whole(x, q, n) == x \in Units /\ q \in Seq(Units) /\ Continues(x, q) /\ EndsAt(LastUnit(x, q), n)

LEMMA EndType ==
    ASSUME NEW x \in Units, NEW q \in Seq(Units)
    PROVE  LastUnit(x, q) \in Units
BY ElementOfSeq DEF LastUnit

\* Sending keeps the output whole.
LEMMA DeliverWhole ==
    ASSUME owed \in Seq(Units), NEW accepted \in Seq(Units), NEW q, q = owed \o accepted,
           NEW w, Whole(last, q, w), NEW n \in 0..Len(q), Deliver(n, accepted)
    PROVE  Whole(last', owed', w) /\ owed' = SubSeq(q, n + 1, Len(q))
<1>1. q \in Seq(Units) /\ Len(q) \in Nat /\ Len(q) = Len(owed) + Len(accepted)
  OBVIOUS
<1>2. last' = (IF n = 0 THEN last ELSE q[n]) /\ owed' = SubSeq(q, n + 1, Len(q))
  <2>1. Min({n, Len(q)}) = n
    BY <1>1, Lesser
  <2> QED
    BY <1>1, <2>1 DEF Deliver
<1>3. PICK y : y = (IF n = 0 THEN last ELSE q[n])
  OBVIOUS
<1>4. PICK r : r = SubSeq(q, n + 1, Len(q))
  OBVIOUS
<1>5. last \in Units /\ Continues(last, q) /\ EndsAt(LastUnit(last, q), w)
  BY DEF Whole
<1>6. Rest(last, q, y, r)
  BY <1>1, <1>3, <1>4, <1>5, ContinuesRest
<1> QED
  BY <1>2, <1>3, <1>4, <1>5, <1>6 DEF Whole, Rest

\* Two units that continue the output, and one of a response or both.
LEMMA Single ==
    ASSUME NEW x, NEW u, NEW q, q = <<u>>, Joined(x, u)
    PROVE  Continues(x, q) /\ LastUnit(x, q) = u
<1>1. Len(q) = 1 /\ q[1] = u /\ q # <<>>
  OBVIOUS
<1> QED
  BY <1>1 DEF Continues, LastUnit

LEMMA Pair ==
    ASSUME NEW x, NEW u, NEW v, NEW q, q = <<u, v>>, Joined(x, u), Joined(u, v)
    PROVE  Continues(x, q) /\ LastUnit(x, q) = v
<1>1. Len(q) = 2 /\ q[1] = u /\ q[2] = v /\ q # <<>>
  OBVIOUS
<1> QED
  BY <1>1 DEF Continues, LastUnit

\* The units of a response from the one after the w-th to the n-th.
Response(w, n) == [i \in 1..(n - w) |-> <<"response", w + i>>]

LEMMA ResponseWhole ==
    ASSUME NEW x \in Units, NEW w \in 0..2, EndsAt(x, w), NEW n \in w..2, NEW q, q = Response(w, n)
    PROVE  q \in Seq(Units) /\ Continues(x, q) /\ EndsAt(LastUnit(x, q), n)
<1>1. CASE n = w
  <2>1. q = <<>>
    BY <1>1 DEF Response
  <2> QED
    BY <1>1, <2>1 DEF Continues, LastUnit
<1>2. CASE n = w + 1
  <2>1. q = <<<<"response", n>>>>
    BY <1>2 DEF Response
  <2>2. Joined(x, <<"response", n>>)
    BY <1>2 DEF Joined, Follows, EndsAt
  <2>3. q \in Seq(Units)
    <3>1. n \in {1, 2}
      BY <1>2
    <3>2. <<"response", n>> \in Units
      BY <3>1 DEF Units
    <3> QED
      BY <2>1, <3>2
  <2> QED
    BY <1>2, <2>1, <2>2, <2>3, Single DEF EndsAt
<1>3. CASE n = 2 /\ w = 0
  <2>1. q = <<<<"response", 1>>, <<"response", 2>>>>
    BY <1>3 DEF Response
  <2>2. Joined(x, <<"response", 1>>) /\ Joined(<<"response", 1>>, <<"response", 2>>)
    BY <1>3 DEF Joined, Follows, EndsAt
  <2>3. q \in Seq(Units)
    BY <2>1 DEF Units
  <2> QED
    BY <1>3, <2>1, <2>2, <2>3, Pair, SMTT(30) DEF EndsAt
<1> QED
  BY <1>1, <1>2, <1>3

-----------------------------------------------------------------------------

\* The two parts of the invariant: the output, and the rest.
Output == buf = owed /\ Whole(last, owed, put)

Control ==
    /\ conn \in {"reading", "serving", "sending", "cleaning", "gone"}
    /\ role \in Role /\ mod \in Nat
    /\ {waits, running, checks, signal, kill, live, connected, peer, held, keep} \subseteq BOOLEAN
    /\ asked \in {"none", "input", "output"}
    /\ pending \in Kinds \cup {"none"} /\ body \in {"none", "due", "here"}
    /\ put \in 0..2 /\ room \in 0..MaxRoom
    /\ Locked

ConnInv == Output /\ Control

LEMMA ConnStart == ConnInit => ConnInv
<1> SUFFICES ASSUME ConnInit PROVE Output /\ Control
  BY DEF ConnInv
<1>1. MaxRoom \in Nat \ {0} /\ 1 \in Role
  BY ConnectionAssumption DEF Role, Roles
<1>2. <<"response", 2>> \in Units /\ Len(<<>>) = 0 /\ <<>> \in Seq(Units)
  BY DEF Units
<1>3. Control
  <2>1. {waits, running, checks, signal, kill, live, connected, peer, held, keep} \subseteq BOOLEAN
    BY DEF ConnInit
  <2>2. Locked
    BY DEF ConnInit, Locked
  <2>3. mod \in Nat /\ put \in 0..2 /\ room \in 0..MaxRoom /\ role \in Role
    BY <1>1 DEF ConnInit
  <2> QED
    BY <2>1, <2>2, <2>3 DEF ConnInit, Control
<1>4. Output
  BY <1>2 DEF ConnInit, Output, Whole, Continues, EndsAt, LastUnit
<1> QED
  BY <1>3, <1>4

LEMMA OutputSame ==
    ASSUME Output, UNCHANGED <<buf, owed, last, put>>
    PROVE  Output'
BY DEF Output, Whole, Continues, EndsAt, LastUnit, Joined, Follows

\* Output is whole again while no response is begun, whatever put counts.
LEMMA OutputNext ==
    ASSUME Output, UNCHANGED <<buf, owed, last>>, put # 1, put' # 1
    PROVE  Output'
BY DEF Output, Whole, Continues, EndsAt, LastUnit, Joined, Follows

LEMMA PutOutput ==
    ASSUME Output, put \in 0..2, NEW n \in put..2, Put(n)
    PROVE  Output' /\ put' = n
<1> DEFINE q == Response(put, n)
<1>1. buf' = buf \o q /\ owed' = owed \o q /\ put' = n /\ last' = last
  BY DEF Put, Response
<1>2. last \in Units /\ owed \in Seq(Units) /\ Continues(last, owed) /\ EndsAt(LastUnit(last, owed), put)
  BY DEF Output, Whole
<1>3. PICK e \in Units : e = LastUnit(last, owed)
  BY <1>2, EndType
<1>4. q \in Seq(Units) /\ Continues(e, q) /\ EndsAt(LastUnit(e, q), n)
  BY <1>2, <1>3, ResponseWhole
<1> HIDE DEF q
<1>5. PICK r : r = owed \o q
  OBVIOUS
<1>6. Both(last, r, e, q)
  BY <1>2, <1>3, <1>4, <1>5, ContinuesBoth
<1>7. buf' = owed' /\ owed' = r
  BY <1>1, <1>5 DEF Output
<1> QED
  BY <1>1, <1>2, <1>4, <1>6, <1>7 DEF Output, Whole, Both

LEMMA WriteStep == ASSUME ConnInv, InterleavedWrite PROVE ConnInv'
<1> DEFINE packet == <<<<"packet", 1>>, <<"packet", 2>>>>
           n      == Min({room, Len(buf) + 2})
<1>1. Output /\ Control
  BY DEF ConnInv
<1>2. /\ last \in Units /\ owed \in Seq(Units) /\ Continues(last, owed) /\ EndsAt(LastUnit(last, owed), put)
      /\ buf = owed /\ Len(owed) \in Nat /\ room \in Nat
  BY <1>1, ConnectionAssumption DEF Output, Whole, Control
<1>3. n \in Nat /\ n <= room /\ n <= Len(buf) + 2
  <2>1. Len(buf) + 2 \in Nat
    BY <1>2
  <2> QED
    BY <1>2, <2>1, Lesser
<1>4. put # 1 /\ put' = put /\ LastUnit(last, owed)[2] = 2
  BY <1>1, <1>2 DEF InterleavedWrite, MayWrite, Control, Locked, EndsAt
<1> HIDE DEF n
<1>5. Output'
  <2>1. CASE n <= Len(buf)
    <3>1. Deliver(n, <<>>) /\ buf' = Unsent(<<>>, n)
      BY <2>1 DEF InterleavedWrite, n
    <3>2. PICK q : q = owed \o <<>> /\ q = owed
      BY <1>2
    <3>3. <<>> \in Seq(Units) /\ n \in 0..Len(q) /\ Whole(last, q, put)
      BY <1>2, <1>3, <2>1, <3>2 DEF Whole
    <3>4. Whole(last', owed', put) /\ owed' = SubSeq(q, n + 1, Len(q))
      BY <1>2, <3>1, <3>2, <3>3, DeliverWhole
    <3>5. buf' = owed'
      <4>1. buf \o <<>> = q /\ Len(buf) + Len(<<>>) = Len(q)
        BY <1>2, <3>2
      <4> QED
        BY <3>1, <3>4, <4>1 DEF Unsent
    <3> QED
      BY <1>4, <3>4, <3>5 DEF Output
  <2>2. CASE ~(n <= Len(buf))
    <3>1. Deliver(n, packet) /\ buf' = Unsent(packet, n)
      BY <2>2 DEF InterleavedWrite, n
    <3>2. packet \in Seq(Units) /\ Len(packet) = 2
      BY DEF Units
    <3>3. PICK e \in Units : e = LastUnit(last, owed)
      BY <1>2, EndType
    <3>4. Continues(e, packet) /\ LastUnit(e, packet) = <<"packet", 2>>
      <4>1. Joined(e, <<"packet", 1>>) /\ Joined(<<"packet", 1>>, <<"packet", 2>>)
        BY <1>4, <3>3 DEF Joined, Follows
      <4> QED
        BY <4>1, Pair
    <3> HIDE DEF packet
    <3>5. PICK q : q = owed \o packet
      OBVIOUS
    <3>6. Both(last, q, e, packet)
      BY <1>2, <3>2, <3>3, <3>4, <3>5, ContinuesBoth
    <3>7. Whole(last, q, put) /\ n \in 0..Len(q) /\ Len(q) = Len(owed) + Len(packet)
      <4>1. EndsAt(<<"packet", 2>>, put)
        BY <1>4 DEF EndsAt
      <4>2. Whole(last, q, put)
        BY <1>2, <3>4, <3>6, <4>1 DEF Whole, Both
      <4>3. Len(q) = Len(owed) + Len(packet)
        <5>1. owed \in Seq(Units) /\ packet \in Seq(Units)
          BY <1>2, <3>2
        <5> QED
          BY <3>5, <5>1, LenProperties, ConcatProperties
      <4>4. Len(q) = Len(buf) + 2 /\ Len(buf) \in Nat
        BY <1>2, <3>2, <4>3
      <4>5. n \in 0..Len(q)
        BY <1>3, <4>4
      <4> QED
        BY <4>2, <4>3, <4>5
    <3>8. Whole(last', owed', put) /\ owed' = SubSeq(q, n + 1, Len(q))
      BY <1>2, <3>1, <3>2, <3>5, <3>7, DeliverWhole
    <3>9. buf' = owed'
      BY <1>2, <3>1, <3>5, <3>7, <3>8 DEF Unsent
    <3> QED
      BY <1>4, <3>8, <3>9 DEF Output
  <2> QED
    BY <2>1, <2>2
<1>6. room' = room - n
  BY DEF InterleavedWrite, Deliver, n
<1>7. Control'
  <2>1. room' \in 0..MaxRoom
    <3>1. room \in 0..MaxRoom /\ MaxRoom \in Nat
      BY <1>1, ConnectionAssumption DEF Control
    <3> QED
      BY <1>3, <1>6, <3>1
  <2>2. UNCHANGED <<conn, callVars, taskVars, live, connected, inVars, held, keep, put>>
    BY DEF InterleavedWrite
  <2> QED
    BY <1>1, <2>1, <2>2 DEF Control, Locked, callVars, taskVars, inVars
<1> QED
  BY <1>5, <1>7 DEF ConnInv

LEMMA FlushStep == ASSUME ConnInv, Flush PROVE ConnInv'
<1> DEFINE n == IF peer THEN Min({room, Len(buf)}) ELSE 0
<1>1. Output /\ Control
  BY DEF ConnInv
<1>2. /\ last \in Units /\ owed \in Seq(Units) /\ Whole(last, owed, put)
      /\ buf = owed /\ Len(owed) \in Nat /\ room \in 0..MaxRoom /\ MaxRoom \in Nat
  BY <1>1, ConnectionAssumption DEF Output, Whole, Control
<1>3. n \in Nat /\ n <= room /\ n <= Len(buf)
  <2>1. Len(buf) \in Nat /\ room \in Nat
    BY <1>2
  <2>2. Min({room, Len(buf)}) \in Nat /\ Min({room, Len(buf)}) <= room
        /\ Min({room, Len(buf)}) <= Len(buf)
    BY <2>1, Lesser
  <2> QED
    BY <2>1, <2>2
<1>4. /\ Deliver(n, <<>>) /\ buf' = Unsent(<<>>, n) /\ put' = put
      /\ conn = "sending" /\ conn' \in {"sending", "cleaning"} /\ asked' \in {asked, "output"}
      /\ running' \in {running, FALSE} /\ checks' \in {checks, FALSE}
      /\ connected' \in BOOLEAN
  BY DEF Flush, At, FallThrough, Return, Writable
<1>5. UNCHANGED <<signal, kill, callVars, live, inVars, held, keep, put>>
  BY DEF Flush
<1> HIDE DEF n
<1>6. Output'
  <2>1. PICK q : q = owed \o <<>> /\ q = owed
    BY <1>2
  <2>2. <<>> \in Seq(Units) /\ n \in 0..Len(q) /\ Whole(last, q, put)
    BY <1>2, <1>3, <2>1
  <2>3. Whole(last', owed', put) /\ owed' = SubSeq(q, n + 1, Len(q))
    BY <1>2, <1>4, <2>1, <2>2, DeliverWhole
  <2>4. buf' = owed'
    <3>1. buf \o <<>> = q /\ Len(buf) + Len(<<>>) = Len(q)
      BY <1>2, <2>1
    <3> QED
      BY <1>4, <2>3, <3>1 DEF Unsent
  <2> QED
    BY <1>4, <2>3, <2>4 DEF Output
<1>7. Control'
  <2>1. room' \in 0..MaxRoom
    <3>1. room' = room - n
      BY <1>4 DEF Deliver
    <3> QED
      BY <1>2, <1>3, <3>1
  <2>2. Locked'
    BY <1>1, <1>4, <1>5 DEF Control, Locked, callVars
  <2> QED
    BY <1>1, <1>4, <1>5, <2>1, <2>2, ZenonT(30) DEF Control, callVars, inVars
<1> QED
  BY <1>6, <1>7 DEF ConnInv

LEMMA DispatchStep == ASSUME ConnInv, ModuleReturns \/ ModuleWaits PROVE ConnInv'
<1>1. Output /\ Control
  BY DEF ConnInv
<1>2. Dispatch
  BY DEF ModuleReturns, ModuleWaits
<1>3. conn = "serving" /\ held /\ put \in 0..2 /\ (role = Post => put = 2)
  BY <1>1, <1>2 DEF Dispatch, At, Control, Locked
<1>4. PICK n \in put..2 : Put(n) /\ (role = Post => n = 2)
  BY <1>2, <1>3 DEF Dispatch
<1>5. Output' /\ put' = n
  BY <1>1, <1>3, <1>4, PutOutput
<1>6. put' \in 0..2 /\ room' = room
  BY <1>3, <1>4, <1>5 DEF Put
<1>7. UNCHANGED <<conn, role, signal, kill, connected, peer, pending, held, keep>>
  BY <1>2 DEF Dispatch
<1>8. live' \in BOOLEAN /\ body' \in {"none", "due", "here"}
  BY <1>1, <1>2 DEF Dispatch, Control
<1>9. /\ mod' \in Nat /\ waits' \in BOOLEAN
      /\ running' \in BOOLEAN /\ checks' \in BOOLEAN /\ asked' \in {"none", "input", "output"}
  <2>1. mod + 1 \in Nat
    BY <1>1 DEF Control
  <2>2. CASE ModuleReturns
    BY <1>1, <2>1, <2>2 DEF ModuleReturns, FallThrough, Control
  <2>3. CASE ModuleWaits
    <3>1. running' = FALSE /\ checks' = FALSE /\ asked' = "none"
      BY <2>3 DEF ModuleWaits, Return
    <3>2. (mod' = 0 /\ waits' = FALSE) \/ (mod' = mod /\ waits' = (role # Request))
      BY <2>3 DEF ModuleWaits
    <3>3. waits' \in BOOLEAN
      BY <3>2, Zenon
    <3>4. mod' \in Nat
      BY <1>1, <3>2 DEF Control
    <3> QED
      BY <3>1, <3>3, <3>4
  <2> QED
    BY <2>2, <2>3
<1>10. Locked'
  BY <1>3, <1>4, <1>5, <1>7 DEF Locked
<1>11. Control'
  BY <1>1, <1>6, <1>7, <1>8, <1>9, <1>10 DEF Control
<1> QED
  BY <1>5, <1>11 DEF ConnInv

LEMMA EndRoleStep == ASSUME ConnInv, EndRole PROVE ConnInv'
<1>1. Output /\ Control
  BY DEF ConnInv
<1>2. /\ conn = "serving" /\ held /\ put \in 0..2 /\ role \in Role /\ mod' = 0 /\ waits' = FALSE
      /\ role = Post => put = 2
  BY <1>1 DEF EndRole, At, Control, Locked
<1>3. UNCHANGED <<signal, kill, connected, inVars, held, keep>>
  BY DEF EndRole
<1>4. /\ running' \in BOOLEAN /\ checks' \in BOOLEAN /\ asked' \in {"none", "input", "output"}
  BY <1>1 DEF EndRole, FallThrough, Break, Control
<1>5. \/ /\ role = Post /\ live' = keep /\ conn' = "sending" /\ UNCHANGED <<role, put, outVars>>
      \/ role' = Post /\ Put(2) /\ UNCHANGED <<conn, live>>
      \/ /\ role < Request /\ put = 0 /\ role' \in {role + 1, Preprocess}
         /\ UNCHANGED <<conn, live, put, outVars>>
  BY DEF EndRole
<1>6. Role = 1..7 /\ Post = 7 /\ Request = 6 /\ Preprocess = 5
  BY DEF Role, Roles, Post, Request, Preprocess
<1>7. CASE role = Post /\ live' = keep /\ conn' = "sending" /\ UNCHANGED <<role, put, outVars>>
  <2>1. Output'
    BY <1>1, <1>7, OutputSame DEF outVars
  <2>2. Locked'
    BY <1>2, <1>3, <1>7 DEF Locked
  <2>3. Control'
    BY <1>1, <1>2, <1>3, <1>4, <1>7, <2>2 DEF Control, inVars, outVars
  <2> QED
    BY <2>1, <2>3 DEF ConnInv
<1>8. CASE role' = Post /\ Put(2) /\ UNCHANGED <<conn, live>>
  <2>1. Output' /\ put' = 2 /\ room' = room
    <3>1. 2 \in put..2
      BY <1>2
    <3> QED
      BY <1>1, <1>2, <1>8, <3>1, PutOutput DEF Put
  <2>2. Locked'
    BY <1>2, <1>3, <1>8, <2>1 DEF Locked
  <2>3. role' \in Role /\ conn' = conn /\ live' = live /\ 2 \in 0..2
    BY <1>6, <1>8
  <2>4. Control'
    BY <1>1, <1>2, <1>3, <1>4, <2>1, <2>2, <2>3 DEF Control, inVars
  <2> QED
    BY <2>1, <2>4 DEF ConnInv
<1>9. CASE /\ role < Request /\ put = 0 /\ role' \in {role + 1, Preprocess}
           /\ UNCHANGED <<conn, live, put, outVars>>
  <2>1. Output'
    BY <1>1, <1>9, OutputSame DEF outVars
  <2>2. role' \in Role /\ role' # Post
    BY <1>2, <1>6, <1>9
  <2>3. Locked'
    BY <1>2, <1>3, <1>9, <2>2 DEF Locked
  <2>4. Control'
    BY <1>1, <1>2, <1>3, <1>4, <1>9, <2>2, <2>3 DEF Control, inVars, outVars
  <2> QED
    BY <2>1, <2>4 DEF ConnInv
<1> QED
  BY <1>5, <1>7, <1>8, <1>9

LEMMA ReadStep == ASSUME ConnInv, Read PROVE ConnInv'
<1>1. Output /\ Control
  BY DEF ConnInv
<1>2. conn = "reading" /\ put # 1 /\ UNCHANGED <<signal, kill, live>>
  BY <1>1 DEF Read, At, Control, Locked
<1>3. 1 \in Role /\ Post \in Role /\ Post # 1
  BY DEF Role, Roles, Post
<1>4. CASE pending = "none"
  <2>1. /\ UNCHANGED <<conn, callVars, inVars, held, keep, put, outVars>>
        /\ connected' \in BOOLEAN /\ running' \in BOOLEAN /\ checks' \in BOOLEAN
        /\ asked' \in {"none", "input", "output"}
    BY <1>1, <1>4 DEF Read, Return, Break, Control
  <2>2. Output'
    BY <1>1, <2>1, OutputSame DEF outVars
  <2>3. Control'
    BY <1>1, <1>2, <2>1 DEF Control, Locked, callVars, inVars, outVars
  <2> QED
    BY <2>2, <2>3 DEF ConnInv
<1>5. CASE pending # "none"
  <2>1. /\ pending' = "none" /\ held' = TRUE /\ mod' = 0 /\ waits' = FALSE
        /\ UNCHANGED <<peer, connected>>
        /\ running' \in BOOLEAN /\ checks' \in BOOLEAN /\ asked' \in {"none", "input", "output"}
        /\ body' \in {"none", "due"} /\ keep' \in BOOLEAN
    BY <1>1, <1>5 DEF Read, FallThrough, Break, Control
  <2>2. \/ conn' \in {"serving", "cleaning"} /\ role' = 1 /\ put' = 0 /\ UNCHANGED outVars
        \/ /\ conn' = "serving" /\ role' = Post /\ put' = 2 /\ UNCHANGED <<room, last>>
           /\ buf' = buf \o <<<<"response", 1>>, <<"response", 2>>>>
           /\ owed' = owed \o <<<<"response", 1>>, <<"response", 2>>>>
    BY <1>5 DEF Read
  <2>3. Output'
    <3>1. CASE put' = 0 /\ UNCHANGED outVars
      <4>1. put' # 1 /\ UNCHANGED <<buf, owed, last>>
        BY <3>1 DEF outVars
      <4> QED
        BY <1>1, <1>2, <4>1, OutputNext
    <3>2. CASE /\ put' = 2 /\ UNCHANGED <<room, last>>
               /\ buf' = buf \o <<<<"response", 1>>, <<"response", 2>>>>
               /\ owed' = owed \o <<<<"response", 1>>, <<"response", 2>>>>
      <4> DEFINE q == <<<<"response", 1>>, <<"response", 2>>>>
      <4>1. last \in Units /\ owed \in Seq(Units) /\ Continues(last, owed) /\ EndsAt(LastUnit(last, owed), put)
            /\ buf = owed
        BY <1>1 DEF Output, Whole
      <4>2. PICK e \in Units : e = LastUnit(last, owed)
        BY <4>1, EndType
      <4>3. q \in Seq(Units)
        BY DEF Units
      <4>4. Continues(e, q) /\ LastUnit(e, q) = <<"response", 2>>
        <5>1. Joined(e, <<"response", 1>>) /\ Joined(<<"response", 1>>, <<"response", 2>>)
          BY <1>2, <4>1, <4>2 DEF Joined, Follows, EndsAt
        <5> QED
          BY <5>1, Pair
      <4> HIDE DEF q
      <4>5. PICK r : r = owed \o q
        OBVIOUS
      <4>6. Both(last, r, e, q)
        BY <4>1, <4>2, <4>3, <4>4, <4>5, ContinuesBoth
      <4>7. EndsAt(<<"response", 2>>, put')
        BY <3>2 DEF EndsAt
      <4>8. owed' = r /\ buf' = r /\ last' = last
        BY <3>2, <4>1, <4>5 DEF q
      <4> QED
        BY <4>1, <4>4, <4>6, <4>7, <4>8 DEF Output, Whole, Both
    <3> QED
      BY <2>2, <3>1, <3>2
  <2>4. Locked'
    BY <1>3, <2>1, <2>2 DEF Locked
  <2>5. put' \in 0..2 /\ role' \in Role /\ room' = room /\ conn' \in {"serving", "cleaning"}
    BY <1>3, <2>2 DEF outVars
  <2>6. Control'
    BY <1>1, <1>2, <2>1, <2>4, <2>5 DEF Control
  <2> QED
    BY <2>3, <2>6 DEF ConnInv
<1> QED
  BY <1>4, <1>5

\* The steps that neither write nor send.
Quiet ==
    \/ StartRun \/ Loop \/ Die \/ Clean \/ ModuleSignals \/ SocketReady \/ Kill
    \/ ClientSends \/ ClientSendsBody \/ ClientReads \/ ClientLeaves \/ UNCHANGED connVars

LEMMA QuietStep == ASSUME ConnInv, Quiet PROVE ConnInv'
<1>1. Output /\ Control
  BY DEF ConnInv
<1>2. UNCHANGED <<buf, owed, last, put, callVars, keep>>
  BY DEF Quiet, StartRun, Loop, Die, Clean, ModuleSignals, SocketReady, Kill, ClientSends,
         ClientSendsBody, ClientReads, ClientLeaves, connVars, outVars
<1>3. Output'
  BY <1>1, <1>2, OutputSame
<1>4. /\ running' \in {running, TRUE, FALSE} /\ checks' \in {checks, TRUE, FALSE}
      /\ signal' \in {signal, TRUE, FALSE} /\ kill' \in {kill, TRUE, FALSE}
      /\ asked' \in {asked, "none", "input"}
  BY DEF Quiet, StartRun, Loop, Die, Clean, ModuleSignals, SocketReady, Kill, ClientSends,
         ClientSendsBody, ClientReads, ClientLeaves, connVars, taskVars, Return, Break
<1>5. live' \in BOOLEAN /\ connected' \in BOOLEAN
  BY <1>1 DEF Quiet, StartRun, Loop, Die, Clean, ModuleSignals, SocketReady, Kill, ClientSends,
         ClientSendsBody, ClientReads, ClientLeaves, connVars, Control
<1>6. /\ peer' \in {peer, FALSE} /\ pending' \in Kinds \cup {pending}
      /\ body' \in {body, "none", "here"}
  BY DEF Quiet, StartRun, Loop, Die, Clean, ModuleSignals, SocketReady, Kill, ClientSends,
         ClientSendsBody, ClientReads, ClientLeaves, connVars, inVars
<1>7. room' \in 0..MaxRoom
  <2>1. room \in 0..MaxRoom /\ MaxRoom \in Nat
    BY <1>1, ConnectionAssumption DEF Control
  <2>2. room' = room \/ room' \in (room + 1)..MaxRoom
    BY DEF Quiet, StartRun, Loop, Die, Clean, ModuleSignals, SocketReady, Kill, ClientSends,
           ClientSendsBody, ClientReads, ClientLeaves, connVars, outVars
  <2> QED
    BY <2>1, <2>2
<1>8. \/ UNCHANGED <<conn, held>>
      \/ conn' = "gone" /\ held' = FALSE
      \/ conn = "cleaning" /\ conn' = "reading" /\ held' = FALSE
  BY DEF Quiet, StartRun, Loop, Die, Clean, ModuleSignals, SocketReady, Kill, ClientSends,
         ClientSendsBody, ClientReads, ClientLeaves, connVars, At
<1>9. conn' \in {"reading", "serving", "sending", "cleaning", "gone"} /\ held' \in BOOLEAN
  BY <1>1, <1>8 DEF Control
<1>10. Locked'
  BY <1>1, <1>2, <1>8 DEF Control, Locked, callVars
<1>11. {waits, running, checks, signal, kill, live, connected, peer, held, keep}' \subseteq BOOLEAN
  BY <1>1, <1>2, <1>4, <1>5, <1>6, <1>9 DEF Control, callVars
<1>12. asked' \in {"none", "input", "output"}
  BY <1>1, <1>4 DEF Control
<1>13. pending' \in Kinds \cup {"none"} /\ body' \in {"none", "due", "here"}
  BY <1>1, <1>6 DEF Control
<1>14. role' \in Role /\ mod' \in Nat /\ put' \in 0..2
  BY <1>1, <1>2 DEF Control, callVars
<1>15. Control'
  BY <1>7, <1>9, <1>10, <1>11, <1>12, <1>13, <1>14 DEF Control
<1> QED
  BY <1>3, <1>15 DEF ConnInv

LEMMA ConnStep == ASSUME ConnInv, [ConnNext]_connVars PROVE ConnInv'
<1>1. CASE InterleavedWrite
  BY <1>1, WriteStep
<1>2. CASE Read
  BY <1>2, ReadStep
<1>3. CASE ModuleReturns \/ ModuleWaits
  BY <1>3, DispatchStep
<1>4. CASE EndRole
  BY <1>4, EndRoleStep
<1>5. CASE Flush
  BY <1>5, FlushStep
<1>6. CASE Quiet
  BY <1>6, QuietStep
<1> QED
  BY <1>1, <1>2, <1>3, <1>4, <1>5, <1>6 DEF ConnNext, RunStep, Quiet

LEMMA ConnInvariant == ConnSpec => []ConnInv
<1>1. ConnInv /\ [ConnNext]_connVars => ConnInv'
  BY ConnStep
<1> QED
  BY <1>1, ConnStart, PTL DEF ConnSpec

LEMMA OutputTyped == ASSUME ConnInv PROVE ConnTypeOK
BY DEF ConnInv, Output, Whole, Control, ConnTypeOK

LEMMA OutputWhole == ASSUME ConnInv PROVE StreamWhole
<1> DEFINE s == <<last>> \o owed
<1>1. buf = owed /\ last \in Units /\ owed \in Seq(Units) /\ Continues(last, owed)
  BY DEF ConnInv, Output, Whole
<1>2. /\ Len(s) = Len(owed) + 1 /\ Len(owed) \in Nat
      /\ \A i \in 1..Len(s) : s[i] = IF i = 1 THEN last ELSE owed[i - 1]
  BY <1>1
<1> HIDE DEF s
<1>3. ASSUME NEW i \in 1..(Len(s) - 1) PROVE Joined(s[i], s[i + 1])
  <2>1. i \in 1..Len(owed) /\ i \in 1..Len(s)
    BY <1>2
  <2>2. PICK j \in 1..Len(s) : j = i + 1 /\ j # 1 /\ j - 1 = i
    BY <1>2
  <2>3. s[j] = owed[i] /\ s[i] = IF i = 1 THEN last ELSE owed[i - 1]
    BY <1>2, <2>1, <2>2
  <2>4. Joined(IF i = 1 THEN last ELSE owed[i - 1], owed[i])
    BY <1>1, <2>1 DEF Continues
  <2> QED
    BY <2>2, <2>3, <2>4
<1> QED
  BY <1>1, <1>3 DEF StreamWhole, s

\* Each response and each accepted packet reaches the client once, whole and in order: while
\* a response is begun and not finished the session mutex is held, and a packet that finds it
\* held is refused (RTSPSession::Run and InterleavedWrite).
THEOREM ClientGetsWholeUnits == ConnSpec => []StreamWhole
BY ConnInvariant, OutputWhole, PTL

-----------------------------------------------------------------------------
(* HTTP tunnels. *)

Serving == {"reading", "have", "serving"}

\* A session that was parsed has a method.
Parsed == \A s \in Halves : pc[s] # "first" => method[s] \in {"get", "post"}

\* The registered session has been registered and is not destroyed.
EntryAlive == entry # Nobody => pc[entry] \notin {"first", "register", "bind", "gone"}

\* A session about to bind has joined the registered one, its other half.
Joins(s) == /\ entry # Nobody /\ other[s] = entry
            /\ refs[entry] > 0 /\ method[s] # method[entry]
AllJoined == \A s \in Halves : pc[s] = "bind" => Joins(s)
OneJoins == \A s, t \in Halves : pc[s] = "bind" /\ pc[t] = "bind" => s = t

\* Requests come in over a GET session, and the one that is registered.
Serves == \A s \in Halves : pc[s] \in Serving => entry = s /\ method[s] = "get"

TunnelInv ==
    TunnelTypeOK /\ Parsed /\ EntryAlive /\ AllJoined /\ OneJoins /\ Serves

Pcs == {"first", "register", "bind", "waiting", "reading", "have", "serving", "bound",
        "dying", "gone"}

-----------------------------------------------------------------------------

LEMMA TunnelStart == TunnelInit => TunnelInv
    BY TunnelAssumption
    DEF TunnelInit, TunnelInv, TunnelTypeOK, Parsed, EntryAlive, AllJoined, OneJoins, Serves, Serving

\* The types that the steps need.
LEMMA Types ==
    ASSUME TunnelTypeOK
    PROVE  /\ pc \in [Halves -> Pcs]
           /\ method \in [Halves -> {"none", "get", "post"}]
           /\ entry \in Halves \cup {Nobody} /\ refs \in [Halves -> Nat]
           /\ other \in [Halves -> Halves \cup {Nobody}]
           /\ input \in [Halves -> Halves \cup {Nobody}]
           /\ reader \in [Halves -> Halves \cup {Nobody}]
           /\ whole \in [Halves -> BOOLEAN]
    BY DEF TunnelTypeOK, Pcs

LEMMA TypesBack ==
    ASSUME /\ pc \in [Halves -> Pcs]
           /\ method \in [Halves -> {"none", "get", "post"}]
           /\ entry \in Halves \cup {Nobody} /\ refs \in [Halves -> Nat]
           /\ other \in [Halves -> Halves \cup {Nobody}]
           /\ input \in [Halves -> Halves \cup {Nobody}]
           /\ reader \in [Halves -> Halves \cup {Nobody}]
           /\ whole \in [Halves -> BOOLEAN]
    PROVE  TunnelTypeOK
    BY DEF TunnelTypeOK, Pcs

-----------------------------------------------------------------------------
(* The steps that change who is registered or who joins. *)

LEMMA PreFilterStep ==
    ASSUME TunnelInv, NEW s \in Halves, NEW m \in {"get", "post"}, PreFilter(s, m)
    PROVE  TunnelInv'
<1>1. TunnelTypeOK'
    BY Types DEF PreFilter, Goto, TunnelInv, TunnelTypeOK
<1>2. /\ pc' = [pc EXCEPT ![s] = "register"] /\ method' = [method EXCEPT ![s] = m]
      /\ pc[s] = "first" /\ UNCHANGED <<entry, refs, other>>
    BY DEF PreFilter, Goto
<1>3. entry # s
    BY <1>2, TunnelAssumption DEF TunnelInv, EntryAlive
<1>4. Parsed' /\ EntryAlive' /\ OneJoins' /\ Serves'
    BY <1>2, <1>3, Types DEF TunnelInv, Parsed, EntryAlive, OneJoins, Serves, Serving
<1>5. AllJoined'
    BY <1>2, <1>3, Types DEF TunnelInv, AllJoined, Joins
<1> QED
    BY <1>1, <1>4, <1>5 DEF TunnelInv

LEMMA RegisterStep ==
    ASSUME TunnelInv, NEW s \in Halves, RegisterRTSPSession(s)
    PROVE  TunnelInv'
<1>1. /\ pc[s] = "register" /\ UNCHANGED <<method, input, reader, whole>>
      /\ TunnelTypeOK /\ method[s] \in {"get", "post"}
    BY DEF RegisterRTSPSession, TunnelInv, Parsed
<1>2. CASE entry = Nobody /\ entry' = s /\ Goto(s, "waiting") /\ UNCHANGED <<refs, other>>
    <2>1. pc' = [pc EXCEPT ![s] = "waiting"] /\ entry' = s
        BY <1>2 DEF Goto
    <2>2. TunnelTypeOK'
        BY <1>1, <1>2, <2>1, Types DEF TunnelTypeOK
    <2>3. \A t \in Halves : pc[t] # "bind" /\ pc[t] \notin Serving
        BY <1>2, TunnelAssumption DEF TunnelInv, AllJoined, Joins, Serves
    <2>4. AllJoined' /\ OneJoins' /\ Serves'
        BY <2>1, <2>3, <1>1, Types DEF AllJoined, OneJoins, Serves, Serving
    <2>5. Parsed' /\ EntryAlive'
        BY <2>1, <1>1, Types DEF TunnelInv, Parsed, EntryAlive
    <2> QED
        BY <2>2, <2>4, <2>5 DEF TunnelInv
<1>3. CASE entry # Nobody /\ Goto(s, "dying") /\ UNCHANGED <<entry, refs, other>>
    <2>1. pc' = [pc EXCEPT ![s] = "dying"]
        BY <1>3 DEF Goto
    <2>2. TunnelTypeOK'
        BY <1>1, <1>3, <2>1, Types DEF TunnelTypeOK
    <2>3. AllJoined' /\ OneJoins' /\ Serves'
        BY <2>1, <1>3, <1>1, Types DEF TunnelInv, AllJoined, Joins, OneJoins, Serves, Serving
    <2>4. Parsed' /\ EntryAlive'
        BY <2>1, <1>3, <1>1, Types DEF TunnelInv, Parsed, EntryAlive
    <2> QED
        BY <2>2, <2>3, <2>4 DEF TunnelInv
<1>4. CASE /\ entry # Nobody /\ CanJoin(s) /\ Goto(s, "bind") /\ UNCHANGED entry
           /\ other' = [other EXCEPT ![s] = entry] /\ refs' = Resolved(s)
    <2>1. /\ pc' = [pc EXCEPT ![s] = "bind"] /\ entry' = entry
          /\ other' = [other EXCEPT ![s] = entry] /\ refs' = [refs EXCEPT ![entry] = @ + 1]
          /\ refs[entry] = 0 /\ method[entry] # method[s] /\ entry \in Halves
        BY <1>1, <1>4, Types DEF Goto, Resolved, CanJoin
    <2>2. TunnelTypeOK'
        <3>1. pc' \in [Halves -> Pcs]
            BY <1>1, <2>1, Types DEF Pcs
        <3>2. refs' \in [Halves -> Nat] /\ other' \in [Halves -> Halves \cup {Nobody}]
            BY <1>1, <2>1, Types
        <3>3. UNCHANGED <<method, entry, input, reader, whole>>
            BY <1>1, <2>1
        <3> QED
            BY <1>1, <3>1, <3>2, <3>3, Types DEF TunnelTypeOK, Pcs
    <2>3. \A t \in Halves : pc[t] # "bind"
        BY <2>1 DEF TunnelInv, AllJoined, Joins
    <2>4. OneJoins' /\ Serves' /\ Parsed' /\ EntryAlive'
        BY <2>1, <2>3, <1>1, Types
        DEF TunnelInv, OneJoins, Serves, Serving, Parsed, EntryAlive
    <2>5. AllJoined'
        <3>1. SUFFICES ASSUME NEW t \in Halves, pc'[t] = "bind" PROVE Joins(t)'
            BY DEF AllJoined
        <3>2. t = s
            BY <2>1, <2>3, <3>1, <1>1, Types
        <3>3. other'[s] = entry' /\ refs'[entry'] > 0 /\ method'[s] # method'[entry']
            BY <2>1, <1>1, Types
        <3> QED
            BY <1>4, <2>1, <3>2, <3>3 DEF Joins
    <2> QED
        BY <2>2, <2>4, <2>5 DEF TunnelInv
<1> QED
    BY <1>2, <1>3, <1>4 DEF RegisterRTSPSession

\* The halves become one: whichever came first, the GET session is registered in the end.
LEMMA BindStep ==
    ASSUME TunnelInv, NEW s \in Halves, Bind(s)
    PROVE  TunnelInv'
<1> DEFINE o     == other[s]
           get   == IF method[s] = "get" THEN s ELSE o
           donor == IF method[s] = "get" THEN o ELSE s
<1>1. /\ pc[s] = "bind" /\ o = entry /\ entry \in Halves /\ refs[entry] > 0
      /\ method[s] # method[entry] /\ TunnelTypeOK
    BY Types DEF Bind, TunnelInv, AllJoined, Joins
<1>2. /\ pc[entry] \notin {"first", "register", "bind", "gone"} /\ entry # s
      /\ method[s] \in {"get", "post"} /\ method[entry] \in {"get", "post"}
    BY <1>1, TunnelAssumption DEF TunnelInv, EntryAlive, Parsed
<1>3. /\ refs' = [refs EXCEPT ![entry] = @ - 1] /\ other' = [other EXCEPT ![s] = Nobody]
      /\ UNCHANGED <<method, reader>>
    BY <1>1 DEF Bind
<1>4. refs' \in [Halves -> Nat] /\ other' \in [Halves -> Halves \cup {Nobody}]
    BY <1>1, <1>3, Types
<1>5. \A t \in Halves : pc[t] = "bind" => t = s
    BY <1>1 DEF TunnelInv, OneJoins
<1>6. \A t \in Halves : pc[t] \in Serving => t = entry /\ method[entry] = "get"
    BY DEF TunnelInv, Serves
<1>7. CASE Goto(s, "dying") /\ UNCHANGED <<entry, input, whole>>
    <2>1. pc' = [pc EXCEPT ![s] = "dying"] /\ entry' = entry
        BY <1>7 DEF Goto
    <2>2. pc' \in [Halves -> Pcs]
        BY <1>1, <2>1, Types DEF Pcs
    <2>3. TunnelTypeOK'
        BY <1>1, <1>3, <1>4, <1>7, <2>2, Types DEF TunnelTypeOK, Pcs
    <2>4. AllJoined' /\ OneJoins'
        BY <2>1, <1>1, <1>5, Types DEF AllJoined, OneJoins
    <2>5. Serves' /\ Parsed' /\ EntryAlive'
        BY <2>1, <1>1, <1>2, <1>3, Types DEF TunnelInv, Serves, Serving, Parsed, EntryAlive
    <2> QED
        BY <2>3, <2>4, <2>5 DEF TunnelInv
<1>8. CASE /\ input' = [input EXCEPT ![get] = input[donor], ![donor] = Nobody]
           /\ whole' = [whole EXCEPT ![get] = FALSE]
           /\ entry' = Swapped(s)
           /\ pc' = [pc EXCEPT ![get] = IF get = s \/ @ = "waiting" THEN "reading" ELSE @,
                               ![donor] = IF donor = s \/ @ = "waiting" THEN "bound" ELSE @]
    <2>1. get \in Halves /\ donor \in Halves /\ get # donor /\ entry' = get
          /\ {get, donor} = {s, entry}
        BY <1>1, <1>2, <1>8 DEF Swapped
    <2>2. method[get] = "get" /\ method[donor] # "get"
        BY <1>1, <1>2
    <2>3. /\ pc'[get] = "reading" \/ (get = entry /\ pc'[get] = pc[get])
          /\ pc'[donor] = "bound" \/ (donor = entry /\ pc'[donor] = pc[donor]
                                      /\ pc[donor] # "waiting")
        BY <1>1, <1>2, <1>8, <2>1, Types
    <2>4. \A t \in Halves : t # get /\ t # donor => pc'[t] = pc[t]
        BY <1>1, <1>8, <2>1, Types
    <2>5. pc' \in [Halves -> Pcs]
        <3> HIDE DEF get, donor
        <3> QED
            BY <1>1, <1>8, <2>1, Types DEF Pcs
    <2>6. TunnelTypeOK'
        <3>1. input' \in [Halves -> Halves \cup {Nobody}] /\ whole' \in [Halves -> BOOLEAN]
            <4> HIDE DEF get, donor
            <4> QED
                BY <1>1, <1>8, <2>1, Types
        <3>2. entry' \in Halves \cup {Nobody}
            BY <2>1
        <3> HIDE DEF get, donor
        <3> QED
            BY <1>1, <1>3, <1>4, <2>5, <3>1, <3>2, Types DEF TunnelTypeOK, Pcs
    <2> HIDE DEF get, donor
    <2>7. \A t \in Halves : pc'[t] # "bind"
        BY <1>2, <1>5, <2>1, <2>3, <2>4
    <2>8. AllJoined' /\ OneJoins'
        BY <2>7 DEF AllJoined, OneJoins
    <2>9. \A t \in Halves : pc'[t] \in Serving => t = get
        <3>1. ASSUME NEW t \in Halves, pc'[t] \in Serving, t # get PROVE FALSE
            <4>1. CASE t = donor
                <5>1. donor = entry /\ pc[entry] \in Serving
                    BY <2>3, <3>1, <4>1 DEF Serving
                <5> QED
                    BY <5>1, <1>1, <1>6, <2>2
            <4>2. CASE t # donor
                BY <1>6, <2>1, <2>4, <3>1, <4>2
            <4> QED
                BY <4>1, <4>2
        <3> QED
            BY <3>1
    <2>10. Serves'
        BY <2>1, <2>2, <2>9, <1>3 DEF Serves
    <2>11. EntryAlive'
        BY <1>2, <2>1, <2>3 DEF EntryAlive
    <2>12. Parsed'
        <3>1. SUFFICES ASSUME NEW t \in Halves, pc'[t] # "first"
                       PROVE  method'[t] \in {"get", "post"}
            BY DEF Parsed
        <3>2. CASE t \in {get, donor}
            BY <1>2, <1>3, <2>1, <3>2
        <3>3. CASE t \notin {get, donor}
            BY <1>3, <2>4, <3>1, <3>3 DEF TunnelInv, Parsed
        <3> QED
            BY <3>2, <3>3
    <2> QED
        BY <2>6, <2>8, <2>10, <2>11, <2>12 DEF TunnelInv
<1> QED
    BY <1>7, <1>8 DEF Bind

LEMMA DestroyStep ==
    ASSUME TunnelInv, NEW s \in Halves, Destroy(s)
    PROVE  TunnelInv'
<1>1. /\ pc[s] = "dying" /\ refs[s] = 0 /\ pc' = [pc EXCEPT ![s] = "gone"]
      /\ entry' = IF entry = s THEN Nobody ELSE entry
      /\ UNCHANGED <<method, refs, other, reader, whole>> /\ TunnelTypeOK
      /\ input' = [input EXCEPT ![s] = Nobody]
    BY DEF Destroy, Unused, Goto, TunnelInv
<1>2. pc' \in [Halves -> Pcs] /\ input' \in [Halves -> Halves \cup {Nobody}]
    BY <1>1, Types DEF Pcs
<1>3. TunnelTypeOK'
    BY <1>1, <1>2, Types DEF TunnelTypeOK, Pcs
<1>4. \A t \in Halves : pc[t] = "bind" => entry # s
    BY <1>1 DEF TunnelInv, AllJoined, Joins
<1>5. AllJoined' /\ OneJoins'
    BY <1>1, <1>4, Types DEF TunnelInv, AllJoined, Joins, OneJoins
<1>6. Serves' /\ Parsed' /\ EntryAlive'
    BY <1>1, Types DEF TunnelInv, Serves, Serving, Parsed, EntryAlive
<1> QED
    BY <1>3, <1>5, <1>6 DEF TunnelInv

-----------------------------------------------------------------------------

\* A step of one session that leaves the map and the references alone and neither joins nor
\* starts to serve.
LEMMA LocalStep ==
    ASSUME TunnelInv, NEW s \in Halves, NEW p \in Pcs \ {"first", "register", "bind", "gone"},
           pc[s] \notin {"first", "register", "bind", "gone"},
           p \in Serving => pc[s] \in Serving,
           pc' = [pc EXCEPT ![s] = p], UNCHANGED <<method, entry, refs, other>>,
           TunnelTypeOK'
    PROVE  TunnelInv'
<1>1. AllJoined' /\ OneJoins'
    BY Types DEF TunnelInv, AllJoined, Joins, OneJoins
<1>2. Serves' /\ Parsed' /\ EntryAlive'
    BY Types DEF TunnelInv, Serves, Serving, Parsed, EntryAlive
<1> QED
    BY <1>1, <1>2 DEF TunnelInv

LEMMA TunnelStep == TunnelInv /\ [TunnelNext]_tunnelVars => TunnelInv'
<1> SUFFICES ASSUME TunnelInv, [TunnelNext]_tunnelVars
             PROVE  TunnelInv'
    OBVIOUS
<1>0. TunnelTypeOK
    BY DEF TunnelInv
<1>1. ASSUME NEW s \in Halves, PreFilter(s, "get") \/ PreFilter(s, "post")
      PROVE  TunnelInv'
    BY <1>1, PreFilterStep
<1>2. ASSUME NEW s \in Halves, RegisterRTSPSession(s)
      PROVE  TunnelInv'
    BY <1>2, RegisterStep
<1>3. ASSUME NEW s \in Halves, Bind(s)
      PROVE  TunnelInv'
    BY <1>3, BindStep
<1>4. ASSUME NEW s \in Halves, ReadARequest(s)
      PROVE  TunnelInv'
    <2>1. pc' \in [Halves -> Pcs] /\ whole' \in [Halves -> BOOLEAN]
        BY <1>0, <1>4, Types DEF ReadARequest, Goto, Pcs
    <2>2. TunnelTypeOK'
        BY <1>0, <1>4, <2>1, Types DEF ReadARequest, TunnelTypeOK, Pcs
    <2> QED
        BY <1>4, <2>2, LocalStep DEF ReadARequest, Goto, Pcs, Serving
<1>5. ASSUME NEW s \in Halves, LockDown(s)
      PROVE  TunnelInv'
    <2>1. pc' \in [Halves -> Pcs] /\ reader' \in [Halves -> Halves \cup {Nobody}]
        BY <1>0, <1>5, Types DEF LockDown, Goto, Pcs
    <2>2. TunnelTypeOK'
        BY <1>0, <1>5, <2>1, Types DEF LockDown, TunnelTypeOK, Pcs
    <2> QED
        BY <1>5, <2>2, LocalStep DEF LockDown, Goto, Pcs, Serving
<1>6. ASSUME NEW s \in Halves, CleanupRequest(s)
      PROVE  TunnelInv'
    <2>1. pc' \in [Halves -> Pcs] /\ reader' \in [Halves -> Halves \cup {Nobody}]
        BY <1>0, <1>6, Types DEF CleanupRequest, Goto, Pcs
    <2>2. TunnelTypeOK'
        BY <1>0, <1>6, <2>1, Types DEF CleanupRequest, TunnelTypeOK, Pcs
    <2> QED
        BY <1>6, <2>2, LocalStep DEF CleanupRequest, Goto, Pcs, Serving
<1>7. ASSUME NEW s \in Halves, InputLost(s)
      PROVE  TunnelInv'
    <2>1. input' \in [Halves -> Halves \cup {Nobody}]
          /\ UNCHANGED <<pc, method, entry, refs, other, reader, whole>>
        BY <1>0, <1>7, Types DEF InputLost
    <2>2. TunnelTypeOK'
        BY <1>0, <2>1, Types DEF TunnelTypeOK, Pcs
    <2> QED
        BY <2>1, <2>2 DEF TunnelInv, Parsed, EntryAlive, AllJoined, Joins, OneJoins, Serves
<1>8. ASSUME NEW s \in Halves, EndRun(s)
      PROVE  TunnelInv'
    <2>1. pc' \in [Halves -> Pcs] /\ reader' \in [Halves -> Halves \cup {Nobody}]
        BY <1>0, <1>8, Types DEF EndRun, Goto, Pcs
    <2>2. TunnelTypeOK'
        BY <1>0, <1>8, <2>1, Types DEF EndRun, TunnelTypeOK, Pcs
    <2> QED
        BY <1>8, <2>2, LocalStep DEF EndRun, Goto, Pcs, Serving
<1>9. ASSUME NEW s \in Halves, Destroy(s)
      PROVE  TunnelInv'
    BY <1>9, DestroyStep
<1>10. CASE UNCHANGED tunnelVars
    BY <1>10 DEF tunnelVars, TunnelInv, TunnelTypeOK, Parsed, EntryAlive, AllJoined, Joins,
                 OneJoins, Serves
<1> QED
    BY <1>1, <1>2, <1>3, <1>4, <1>5, <1>6, <1>7, <1>8, <1>9, <1>10 DEF TunnelNext

\* A tunnel that serves requests is registered, so that the next POST of the client finds
\* it, whichever half came first (RegisterRTSPSessionIntoHTTPProxyTunnelMap,
\* PreFilterForHTTPProxyTunnel).
THEOREM TunnelStaysFindable == TunnelSpec => []TunnelFindable
<1>1. TunnelInv => TunnelFindable
    BY DEF TunnelInv, Serves, Serving, TunnelFindable
<1> QED
    BY <1>1, TunnelStart, TunnelStep, PTL DEF TunnelSpec

\* The session that is about to be robbed of its socket is not destroyed
\* (PreFilterForHTTPProxyTunnel, ~RTSPSession).
THEOREM DonorStaysAlive == TunnelSpec => []DonorKept
<1>1. TunnelInv => DonorKept
    BY DEF TunnelInv, AllJoined, Joins, EntryAlive, DonorKept
<1> QED
    BY <1>1, TunnelStart, TunnelStep, PTL DEF TunnelSpec
-----------------------------------------------------------------------------

\* Two halves that bind are different sessions, so that the socket changes hands.
LEMMA InputStep == TunnelInv /\ OneReader /\ [TunnelNext]_tunnelVars => OneReader'
<1> SUFFICES ASSUME TunnelInv, OneReader, [TunnelNext]_tunnelVars
             PROVE  OneReader'
    OBVIOUS
<1>0. TunnelTypeOK
    BY DEF TunnelInv
<1>1. CASE UNCHANGED input
    BY <1>1 DEF OneReader
<1>2. ASSUME NEW s \in Halves, input' = [input EXCEPT ![s] = Nobody]
      PROVE  OneReader'
    BY <1>0, <1>2, Types DEF OneReader
<1>3. ASSUME NEW s \in Halves, Bind(s)
      PROVE  OneReader'
    <2>1. other[s] \in Halves /\ other[s] # s
        BY <1>3, <1>0, Types, TunnelAssumption DEF Bind, TunnelInv, AllJoined, Joins
    <2>2. ASSUME NEW get \in Halves, NEW donor \in Halves, get # donor,
                 input' = [input EXCEPT ![get] = input[donor], ![donor] = Nobody]
          PROVE  OneReader'
        BY <1>0, <2>2, Types DEF OneReader
    <2>3. CASE UNCHANGED input
        BY <1>1, <2>3
    <2>4. CASE method[s] = "get" /\ ~UNCHANGED input
        BY <1>3, <2>1, <2>2, <2>4 DEF Bind
    <2>5. CASE method[s] # "get" /\ ~UNCHANGED input
        BY <1>3, <2>1, <2>2, <2>5 DEF Bind
    <2> QED
        BY <2>3, <2>4, <2>5
<1> QED
    BY <1>1, <1>2, <1>3
    DEF TunnelNext, PreFilter, RegisterRTSPSession, ReadARequest, LockDown, CleanupRequest,
        InputLost, EndRun, Destroy, tunnelVars

\* Whatever becomes of the two halves, no two sessions read from the same connection
\* (SnarfInputSocket, ~RTSPSession).
THEOREM OneReaderPerConnection == TunnelSpec => []OneReader
<1>1. TunnelInit => OneReader
    BY DEF TunnelInit, OneReader
<1> QED
    BY <1>1, InputStep, TunnelStart, TunnelStep, PTL DEF TunnelSpec

-----------------------------------------------------------------------------
(* Requests come in order.                                                 *)

\* What the k-th message adds to the place where it begins.
SizeOf(k) == Script[k].head + Script[k].body

LEMMA ScriptTypes ==
    /\ Len(Script) \in Nat
    /\ \A k \in 1..Len(Script) : Script[k].head \in Nat \ {0} /\ Script[k].body \in Nat
<1> DEFINE R == [head : Nat \ {0}, body : Nat]
<1>1. Script \in Seq(R)
  BY StreamAssumption
<1>2. \A k \in 1..Len(Script) : Script[k] \in R
  <2> HIDE DEF R
  <2> QED
    BY <1>1
<1> QED
  BY <1>1, <1>2

LEMMA Begins ==
    /\ \A k \in 1..(Len(Script) + 1) : Begin(k) \in Nat
    /\ Begin(1) = 0
    /\ \A k \in 1..Len(Script) : Begin(k + 1) = Begin(k) + Script[k].head + Script[k].body
<1> DEFINE N == Len(Script)
           Rec(i, g) == IF i = 0 THEN 0 ELSE g[i - 1] + Script[i].head + Script[i].body
           Is(g) == g = [i \in 0..N |-> Rec(i, g)]
           step == [p \in (1..N) \X Nat |-> p[2] + Script[p[1]].head + Script[p[1]].body]
<1>1. step \in [(1..N) \X Nat -> Nat]
  <2> SUFFICES ASSUME NEW p \in (1..N) \X Nat
               PROVE  p[2] + Script[p[1]].head + Script[p[1]].body \in Nat
    OBVIOUS
  <2> QED
    BY ScriptTypes
<1>2. \E h : Stepwise(h, N, Nat, 0, step)
  <2>1. N \in Nat /\ 0 \in Nat
    BY ScriptTypes
  <2> HIDE DEF step, N
  <2> QED
    BY <1>1, <2>1, StepsExist
<1>3. PICK h \in [0..N -> Nat] : h = [i \in 0..N |-> IF i = 0 THEN 0 ELSE step[<<i, h[i - 1]>>]]
  <2> HIDE DEF step, N
  <2> QED
    BY <1>2 DEF Stepwise
<1>4. Is(h)
  <2>1. ASSUME NEW i \in 0..N, i # 0
        PROVE  step[<<i, h[i - 1]>>] = h[i - 1] + Script[i].head + Script[i].body
    <3>1. N \in Nat /\ i \in 1..N
      BY <2>1, ScriptTypes
    <3>2. i - 1 \in 0..N
      BY <3>1
    <3>3. h[i - 1] \in Nat
      <4> HIDE DEF N, step
      <4> QED
        BY <3>2
    <3> QED
      BY <3>1, <3>3
  <2> HIDE DEF step, N
  <2> QED
    BY <1>3, <2>1
<1>5. PICK g : g = CHOOSE k : Is(k)
  OBVIOUS
<1>6. Is(g)
  <2> HIDE DEF Is
  <2> QED
    BY <1>4, <1>5
<1>7. \A k : Begin(k) = g[k - 1]
  BY <1>5 DEF Begin
<1>8. \A i \in 0..N : g[i] = Rec(i, g)
  <2> HIDE DEF N
  <2> QED
    BY <1>6
<1>9. \A i \in 0..N : g[i] \in Nat
  <2> DEFINE P == {n \in Nat : n <= N => g[n] \in Nat}
  <2>1. 0 \in P
    BY <1>8
  <2>2. ASSUME NEW n \in Nat, n \in P PROVE n + 1 \in P
    <3> SUFFICES ASSUME n + 1 <= N PROVE g[n + 1] \in Nat
      OBVIOUS
    <3>1. g[n] \in Nat /\ n + 1 \in 0..N /\ n + 1 \in 1..N
      BY <2>2, ScriptTypes
    <3>2. g[n + 1] = g[n] + Script[n + 1].head + Script[n + 1].body
      BY <3>1, <1>8
    <3> QED
      BY <3>1, <3>2, ScriptTypes
  <2> HIDE DEF P
  <2>3. \A n \in Nat : n \in P
    BY <2>1, <2>2, NumberInduction
  <2> QED
    BY <2>3, ScriptTypes DEF P
<1>10. ASSUME NEW k \in 1..N
       PROVE  Begin(k + 1) = Begin(k) + Script[k].head + Script[k].body
  <2>1. k \in 0..N /\ k # 0 /\ (k + 1) - 1 = k
    BY ScriptTypes
  <2> QED
    BY <2>1, <1>7, <1>8
<1>11. \A k \in 1..(N + 1) : k - 1 \in 0..N
  BY ScriptTypes
<1>12. Begin(1) = 0
  <2>1. 0 \in 0..N
    BY ScriptTypes
  <2> QED
    BY <2>1, <1>7, <1>8
<1> QED
  BY <1>7, <1>9, <1>10, <1>11, <1>12

\* Whole groups in what was there and what comes.
AddsGroups(t, n, g) ==
    /\ (t + n) \div g = (t \div g) + (((t % g) + n) \div g)
    /\ (t + n) % g = ((t % g) + n) % g

LEMMA Groups ==
    ASSUME NEW t \in Nat, NEW n \in Nat, NEW g \in Nat \ {0}
    PROVE  AddsGroups(t, n, g)
<1> DEFINE q == t \div g
           r == t % g
           p == (r + n) \div g
           u == (r + n) % g
<1>1. t = g * q + r /\ q \in Nat /\ r \in 0..(g - 1)
  OBVIOUS
<1>2. r + n = g * p + u /\ p \in Nat /\ u \in 0..(g - 1)
  BY <1>1
<1>3. t + n = g * (q + p) + u /\ q + p \in Nat
  <2> HIDE DEF q, r, p, u
  <2> QED
    BY <1>1, <1>2
<1>4. ASSUME NEW a \in Nat, NEW v \in 0..(g - 1), NEW x \in Nat, x = g * a + v
      PROVE  x \div g = a /\ x % g = v
  BY <1>4
<1> HIDE DEF q, r, p, u
<1>5. (t + n) \div g = q + p /\ (t + n) % g = u
  BY <1>2, <1>3, <1>4
<1> QED
  BY <1>5 DEF q, r, p, u, AddsGroups

-----------------------------------------------------------------------------

\* The types that the places need.
PlaceTypes ==
    /\ {start, len, retreat, retreatRead, encoded, taken, origin, unread, posts} \subseteq Nat
    /\ message \in 1..(Len(Script) + 1) /\ {complete, busy, gone, raw, rebound} \subseteq BOOLEAN

\* A request that is served is a whole one; a whole one is not empty.
ServedWhole ==
    /\ busy => complete /\ message <= Len(Script) /\ unread <= Script[message].body
    /\ complete => len > 0

\* What is encoded and not decoded yet is what is left of whole groups.
GroupsLeft == encoded = IF Decode THEN taken % Group ELSE 0

\* Nothing put back was read of a request that is not whole, and what comes next begins it.
NextBegins ==
    ~complete => /\ retreatRead = 0
                 /\ len = 0 => Frontier = Expected

StreamInv ==
    PlaceTypes /\ (Open => ServedWhole /\ GroupsLeft /\ (~rebound => InOrder /\ NextBegins))

LEMMA GroupTypes == Group \in Nat \ {0} /\ Plain \in Nat \ {0} /\ BufferSize \in Nat \ {0}
BY StreamAssumption

LEMMA DecodedType == ASSUME PlaceTypes, NEW n \in Nat PROVE Decoded(n) \in Nat
<1>1. (n \div Group) * Plain \in Nat
  <2>1. n \div Group \in Nat
    BY GroupTypes
  <2> QED
    BY <2>1, GroupTypes
<1> QED
  BY <1>1 DEF Decoded

LEMMA ExpectedType ==
    ASSUME PlaceTypes
    PROVE  /\ ~busy => Expected = Begin(message)
           /\ busy /\ message <= Len(Script) /\ unread <= Script[message].body
                => Expected = Begin(message) + Script[message].head
                                  + (Script[message].body - unread)
           /\ Begin(message) \in Nat
BY Begins DEF Expected, PlaceTypes

LEMMA RequestStart == RequestInit => StreamInv
<1> SUFFICES ASSUME RequestInit PROVE StreamInv
  OBVIOUS
<1>1. 1 \in 1..(Len(Script) + 1)
  BY ScriptTypes
<1>2. PlaceTypes
  <2>1. {start, len, retreat, retreatRead, encoded, taken, origin, unread, posts} \subseteq Nat
    BY DEF RequestInit
  <2>2. message = 1 /\ {complete, busy, gone, raw, rebound} \subseteq BOOLEAN
    BY DEF RequestInit
  <2> QED
    BY <1>1, <2>1, <2>2 DEF PlaceTypes
<1>3. ServedWhole /\ GroupsLeft
  BY DEF RequestInit, ServedWhole, GroupsLeft, Decode
<1>4. Frontier = 0 /\ Expected = 0
  BY Begins DEF RequestInit, Frontier, Decoded, Decode, Expected
<1> QED
  BY <1>2, <1>3, <1>4 DEF RequestInit, StreamInv, InOrder, NextBegins

\* Whatever was decoded, what comes is decoded behind it.
LEMMA FrontierMoves ==
    ASSUME PlaceTypes, GroupsLeft, NEW n \in Nat, taken' = taken + n, UNCHANGED <<origin, posts>>
    PROVE  /\ Frontier' = Frontier + Decoded(encoded + n)
           /\ Frontier \in Nat /\ Decoded(encoded + n) \in Nat
<1>1. taken \in Nat /\ origin \in Nat /\ encoded \in Nat
  BY DEF PlaceTypes
<1>2. Decoded(taken) \in Nat /\ Decoded(encoded + n) \in Nat
  BY <1>1, DecodedType
<1>3. Decoded(taken + n) = Decoded(taken) + Decoded(encoded + n)
  <2>1. CASE ~Decode
    BY <1>1, <2>1 DEF Decoded, GroupsLeft
  <2>2. CASE Decode
    <3>0. encoded = taken % Group
      BY <2>2 DEF GroupsLeft
    <3>1. (taken + n) \div Group = (taken \div Group) + ((encoded + n) \div Group)
      <4>1. AddsGroups(taken, n, Group)
        BY <1>1, GroupTypes, Groups
      <4> QED
        BY <3>0, <4>1 DEF AddsGroups
    <3> DEFINE x == taken \div Group
               y == (encoded + n) \div Group
    <3>2. x \in Nat /\ y \in Nat
      BY <1>1, GroupTypes
    <3>3. Decoded(taken + n) = (x + y) * Plain /\ Decoded(taken) = x * Plain
             /\ Decoded(encoded + n) = y * Plain
      BY <2>2, <3>1 DEF Decoded
    <3> HIDE DEF x, y
    <3> QED
      BY <3>2, <3>3, GroupTypes
  <2> QED
    BY <2>1, <2>2
<1>4. Decoded(taken)' = Decoded(taken + n)
  BY DEF Decoded, Decode
<1> QED
  BY <1>1, <1>2, <1>3, <1>4 DEF Frontier

LEMMA ParseTypes ==
    ASSUME PlaceTypes, ~busy, UNCHANGED message, NEW n \in Nat, NEW used, Parse(n, used)
    PROVE  /\ len' \in Nat /\ retreat' \in Nat /\ unread' \in Nat
           /\ {complete', busy', gone'} \subseteq BOOLEAN
           /\ Open' => ServedWhole'
<1> DEFINE h == Script[message].head
           b == Script[message].body
<1>0. message \in 1..(Len(Script) + 1) /\ unread \in Nat /\ busy = FALSE /\ gone \in BOOLEAN
  BY DEF PlaceTypes
<1>1. CASE message <= Len(Script) /\ n >= Script[message].head
  <2>1. h \in Nat \ {0} /\ b \in Nat
    BY <1>0, <1>1, ScriptTypes
  <2>2. /\ complete' = TRUE /\ busy' = TRUE /\ len' = h
        /\ retreat' = n - h /\ unread' = b /\ gone' = gone
    BY <1>1 DEF Parse
  <2>3. ServedWhole'
    BY <1>0, <1>1, <2>1, <2>2 DEF ServedWhole, h, b
  <2>4. n >= h
    BY <1>1
  <2> HIDE DEF h, b
  <2> QED
    BY <1>0, <2>1, <2>2, <2>3, <2>4
<1>2. CASE ~(message <= Len(Script) /\ n >= Script[message].head)
  <2>1. /\ len' = n /\ retreat' = 0 /\ gone' = (used = BufferSize - 1) /\ complete' = gone'
        /\ UNCHANGED <<busy, unread>>
    BY <1>2 DEF Parse
  <2>2. Open' => ServedWhole'
    BY <1>0, <2>1 DEF Open, ServedWhole
  <2> QED
    BY <1>0, <2>1, <2>2
<1> QED
  BY <1>1, <1>2

\* The end of an iteration, when n bytes that follow each other are in the buffer.
LEMMA ParseInOrder ==
    ASSUME PlaceTypes, ~busy, UNCHANGED message, NEW n \in Nat, NEW used, Parse(n, used),
           start' \in Nat, retreatRead' = 0, Frontier' \in Nat,
           n > 0 => start' = Begin(message) /\ start' + n = Frontier',
           n = 0 => Frontier' = Begin(message)
    PROVE  /\ len' \in Nat /\ retreat' \in Nat /\ unread' \in Nat
           /\ {complete', busy', gone'} \subseteq BOOLEAN
           /\ Open' => ServedWhole' /\ InOrder' /\ NextBegins'
<1> DEFINE h == Script[message].head
           b == Script[message].body
<1>0. Begin(message) \in Nat /\ message \in 1..(Len(Script) + 1)
  BY Begins DEF PlaceTypes
<1> SUFFICES ASSUME Open' PROVE InOrder' /\ NextBegins'
  BY ParseTypes
<1>1. CASE message <= Len(Script) /\ n >= Script[message].head
  <2>1. h \in Nat \ {0} /\ b \in Nat
    BY <1>0, <1>1, ScriptTypes
  <2>2. complete' = TRUE /\ busy' = TRUE /\ len' = h /\ retreat' = n - h /\ unread' = b
    BY <1>1 DEF Parse
  <2>3. Expected' = Begin(message) + h + (b - b)
    BY <2>2 DEF Expected, Begin
  <2>4. n >= h
    BY <1>1
  <2> HIDE DEF h, b
  <2>5. n > 0
    BY <2>1, <2>4
  <2> QED
    BY <1>0, <2>1, <2>2, <2>3, <2>4, <2>5 DEF InOrder, NextBegins
<1>2. CASE ~(message <= Len(Script) /\ n >= Script[message].head)
  <2>1. len' = n /\ complete' = gone' /\ busy' = busy
    BY <1>2 DEF Parse
  <2>2. ~complete' /\ ~busy'
    BY <2>1 DEF Open
  <2>3. Expected' = Begin(message)
    BY <2>2 DEF Expected, Begin
  <2> QED
    BY <2>1, <2>2, <2>3 DEF InOrder, NextBegins
<1> QED
  BY <1>1, <1>2

LEMMA InvParts ==
    ASSUME StreamInv, Open
    PROVE  /\ PlaceTypes /\ ServedWhole /\ GroupsLeft
           /\ ~rebound => InOrder /\ NextBegins
BY DEF StreamInv

LEMMA AdvanceKeeps == ASSUME StreamInv, Advance PROVE StreamInv'
<1>1. PlaceTypes /\ ServedWhole /\ GroupsLeft /\ (~rebound => InOrder /\ NextBegins)
  BY InvParts DEF Advance
<1>2. /\ Open /\ complete /\ ~busy /\ retreatRead' = 0
      /\ start' = IF retreat > 0 /\ len > 0 THEN PutBack(len) ELSE start
      /\ cur' = retreat + encoded
      /\ UNCHANGED <<encoded, taken, origin, posts, message, raw, rebound>>
  BY DEF Advance
<1>3. GroupsLeft' /\ Frontier' = Frontier /\ Begin(message)' = Begin(message)
  BY <1>1, <1>2 DEF GroupsLeft, Decode, Frontier, Decoded, Begin
<1>4. Frontier \in Nat /\ Begin(message) \in Nat /\ Expected = Begin(message)
  <2>1. taken \in Nat /\ origin \in Nat
    BY <1>1 DEF PlaceTypes
  <2>2. Frontier \in Nat
    BY <1>1, <2>1, DecodedType DEF Frontier
  <2>3. Begin(message) \in Nat /\ Expected = Begin(message)
    BY <1>1, <1>2, ExpectedType
  <2> QED
    BY <2>2, <2>3
<1>5. start' \in Nat /\ cur' \in Nat
  BY <1>1, <1>2, SMTT(30) DEF PlaceTypes, PutBack
<1>6. ASSUME /\ len' \in Nat /\ retreat' \in Nat /\ unread' \in Nat
             /\ {complete', busy', gone'} \subseteq BOOLEAN
      PROVE  PlaceTypes'
  BY <1>1, <1>2, <1>5, <1>6 DEF PlaceTypes
<1>7. CASE retreat > 0
  <2>1. Parse(retreat, cur') /\ retreat \in Nat
    BY <1>1, <1>7 DEF Advance, PlaceTypes
  <2>2. CASE rebound
    <3>1. /\ len' \in Nat /\ retreat' \in Nat /\ unread' \in Nat
          /\ {complete', busy', gone'} \subseteq BOOLEAN
          /\ Open' => ServedWhole'
      BY <1>1, <1>2, <2>1, ParseTypes
    <3> QED
      BY <1>2, <1>3, <1>6, <2>2, <3>1 DEF StreamInv
  <2>3. CASE ~rebound
    <3>1. start' = Begin(message) /\ start' + retreat = Frontier'
      BY <1>1, <1>2, <1>3, <1>4, <1>7, <2>3 DEF InOrder, ServedWhole, PutBack
    <3>2. /\ len' \in Nat /\ retreat' \in Nat /\ unread' \in Nat
          /\ {complete', busy', gone'} \subseteq BOOLEAN
          /\ Open' => ServedWhole' /\ InOrder' /\ NextBegins'
      BY <1>1, <1>2, <1>3, <1>4, <1>5, <1>7, <2>1, <3>1, ParseInOrder
    <3> QED
      BY <1>3, <1>6, <3>2 DEF StreamInv
  <2> QED
    BY <2>2, <2>3
<1>8. CASE ~(retreat > 0)
  <2>1. complete' = FALSE /\ len' = 0 /\ UNCHANGED <<retreat, unread, busy, gone>>
    BY <1>8 DEF Advance
  <2>2. PlaceTypes'
    BY <1>1, <1>6, <2>1 DEF PlaceTypes
  <2>3. Expected' = Expected /\ ServedWhole'
    BY <1>2, <1>3, <1>4, <2>1 DEF Expected, ServedWhole
  <2>4. ~rebound' => InOrder' /\ NextBegins'
    <3>1. ~rebound => Frontier = Expected
      BY <1>1, <1>2, <1>4, <1>8, SMTT(30) DEF InOrder, PlaceTypes
    <3> QED
      BY <1>2, <1>3, <2>1, <2>3, <3>1 DEF InOrder, NextBegins
  <2> QED
    BY <1>3, <2>2, <2>3, <2>4 DEF StreamInv
<1> QED
  BY <1>7, <1>8

LEMMA FillKeeps == ASSUME StreamInv, NEW n \in 1..BufferSize, Fill(n) PROVE StreamInv'
<1>1. PlaceTypes /\ ServedWhole /\ GroupsLeft /\ (~rebound => InOrder /\ NextBegins)
  BY InvParts DEF Fill
<1>2. /\ Open /\ ~complete /\ taken' = taken + n /\ cur' = cur + n
      /\ encoded' = IF Decode THEN (encoded + n) % Group ELSE encoded
      /\ start' = IF len = 0 THEN Frontier ELSE start
      /\ Parse(len + Decoded(encoded + n), cur')
      /\ UNCHANGED <<retreatRead, origin, posts, message, raw, rebound>>
  BY DEF Fill
<1>3. ~busy /\ n \in Nat
  BY <1>1, <1>2, GroupTypes DEF ServedWhole
<1> DEFINE d == Decoded(encoded + n)
<1>4. Frontier' = Frontier + d /\ Frontier \in Nat /\ d \in Nat
  BY <1>1, <1>2, <1>3, FrontierMoves
<1>5. GroupsLeft' /\ taken' \in Nat /\ encoded' \in Nat
  <2>0. taken \in Nat /\ encoded \in Nat
    BY <1>1 DEF PlaceTypes
  <2>1. CASE ~Decode
    BY <1>1, <1>2, <1>3, <2>0, <2>1 DEF GroupsLeft, Decode
  <2>2. CASE Decode
    <3>1. encoded = taken % Group /\ encoded' = (encoded + n) % Group /\ Decode'
      BY <1>1, <1>2, <2>2 DEF GroupsLeft, Decode
    <3>2. (taken + n) % Group = ((taken % Group) + n) % Group
      <4>1. AddsGroups(taken, n, Group)
        BY <1>3, <2>0, GroupTypes, Groups
      <4> QED
        BY <4>1 DEF AddsGroups
    <3>3. encoded' = taken' % Group
      BY <1>2, <3>1, <3>2
    <3>4. encoded' \in Nat
      BY <1>3, <2>0, <3>1, GroupTypes
    <3> QED
      BY <1>2, <1>3, <2>0, <3>1, <3>3, <3>4 DEF GroupsLeft
  <2> QED
    BY <2>1, <2>2
<1>6. Begin(message)' = Begin(message) /\ Begin(message) \in Nat /\ Expected = Begin(message)
  BY <1>1, <1>2, <1>3, ExpectedType DEF Begin
<1>11. Parse(len + d, cur')
  BY <1>2
<1> HIDE DEF d
<1>7. start' \in Nat /\ len \in Nat /\ len + d \in Nat
  <2>1. start \in Nat /\ len \in Nat
    BY <1>1 DEF PlaceTypes
  <2> QED
    BY <1>2, <1>4, <2>1
<1>8. ASSUME /\ len' \in Nat /\ retreat' \in Nat /\ unread' \in Nat
             /\ {complete', busy', gone'} \subseteq BOOLEAN
      PROVE  PlaceTypes'
  BY <1>1, <1>2, <1>5, <1>7, <1>8 DEF PlaceTypes
<1>9. CASE rebound
  <2>1. /\ len' \in Nat /\ retreat' \in Nat /\ unread' \in Nat
        /\ {complete', busy', gone'} \subseteq BOOLEAN
        /\ Open' => ServedWhole'
    BY <1>1, <1>2, <1>3, <1>7, <1>11, ParseTypes
  <2> QED
    BY <1>2, <1>5, <1>8, <1>9, <2>1 DEF StreamInv
<1>10. CASE ~rebound
  <2>1. InOrder /\ NextBegins
    BY <1>1, <1>10
  <2>2. retreatRead' = 0 /\ (len > 0 => start = Begin(message) /\ start + len = Frontier)
           /\ (len = 0 => Frontier = Begin(message))
    BY <1>2, <1>6, <2>1 DEF InOrder, NextBegins
  <2>3. len + d > 0 => start' = Begin(message) /\ start' + (len + d) = Frontier'
    <3>1. CASE len = 0
      BY <1>2, <1>4, <2>2, <3>1
    <3>2. CASE len > 0
      <4>1. start' = start /\ start \in Nat
        BY <1>1, <1>2, <3>2 DEF PlaceTypes
      <4> QED
        BY <1>4, <1>7, <2>2, <3>2, <4>1
    <3> QED
      BY <1>7, <3>1, <3>2
  <2>4. len + d = 0 => Frontier' = Begin(message)
    BY <1>4, <1>7, <2>2
  <2>5. Frontier' \in Nat
    BY <1>4
  <2>6. /\ len' \in Nat /\ retreat' \in Nat /\ unread' \in Nat
        /\ {complete', busy', gone'} \subseteq BOOLEAN
        /\ Open' => ServedWhole' /\ InOrder' /\ NextBegins'
    BY <1>1, <1>2, <1>3, <1>7, <1>11, <2>2, <2>3, <2>4, <2>5, ParseInOrder
  <2> QED
    BY <1>5, <1>8, <2>6 DEF StreamInv
<1> QED
  BY <1>9, <1>10

LEMMA SmallerOfTwo ==
    ASSUME NEW a \in Int, NEW b \in Int
    PROVE  Min({a, b}) = IF a <= b THEN a ELSE b
<1> DEFINE Is(x) == x \in {a, b} /\ \A y \in {a, b} : x <= y
<1>1. Is(IF a <= b THEN a ELSE b)
  OBVIOUS
<1>2. PICK z : z = CHOOSE x : Is(x)
  OBVIOUS
<1>3. Is(z)
  <2> HIDE DEF Is
  <2> QED
    BY <1>1, <1>2
<1>4. Min({a, b}) = z
  BY <1>2 DEF Min
<1> QED
  BY <1>3, <1>4

LEMMA ArrivingType == ASSUME PlaceTypes PROVE Arriving \in Int
<1>1. End \in Nat /\ origin \in Nat /\ taken \in Nat
  BY Begins, ScriptTypes, SMTT(30) DEF End, PlaceTypes
<1>2. (End - origin) \div Plain \in Int
  BY <1>1, GroupTypes
<1>3. ((End - origin) \div Plain) * Group \in Int
  BY <1>2, GroupTypes
<1> QED
  BY <1>1, <1>3 DEF Arriving

LEMMA ReadKeeps ==
    ASSUME StreamInv, NEW want \in Nat, NEW m \in Nat, ReadBody(want, m)
    PROVE  StreamInv'
<1>1. PlaceTypes /\ ServedWhole /\ GroupsLeft /\ (~rebound => InOrder /\ NextBegins)
  BY InvParts DEF ReadBody
<1>2. PICK back : back = Min({retreat, want})
  OBVIOUS
<1>0. m <= Min({want - back, Arriving}) /\ raw' = (Decode /\ m > 0)
  BY <1>2 DEF ReadBody
<1>3. /\ Open /\ busy /\ want <= unread
      /\ retreat' = retreat - back /\ retreatRead' = retreatRead + back
      /\ taken' = taken + m /\ unread' = unread - (back + m)
      /\ UNCHANGED <<start, len, complete, cur, encoded, origin, posts, message, busy, gone, rebound>>
  BY <1>2 DEF ReadBody
<1>4. /\ retreat \in Nat /\ retreatRead \in Nat /\ taken \in Nat /\ unread \in Nat
      /\ origin \in Nat /\ start \in Nat /\ len \in Nat /\ message \in 1..(Len(Script) + 1)
  BY <1>1 DEF PlaceTypes
<1>5. back \in Nat /\ back <= retreat /\ back <= want /\ (back < retreat => back = want)
  BY <1>2, <1>4, SmallerOfTwo
<1>6. m <= want - back
  <2>1. Arriving \in Int /\ want - back \in Int
    BY <1>1, <1>5, ArrivingType
  <2> QED
    BY <1>0, <2>1, SmallerOfTwo
<1>7. PlaceTypes'
  <2>1. retreat' \in Nat /\ retreatRead' \in Nat /\ taken' \in Nat /\ unread' \in Nat
    BY <1>3, <1>4, <1>5, <1>6
  <2>2. raw' \in BOOLEAN
    BY <1>0
  <2> QED
    BY <1>1, <1>3, <2>1, <2>2 DEF PlaceTypes
<1> SUFFICES ASSUME Open' PROVE ServedWhole' /\ GroupsLeft' /\ (~rebound' => InOrder' /\ NextBegins')
  BY <1>7 DEF StreamInv
<1>8. complete /\ message <= Len(Script) /\ unread <= Script[message].body /\ len > 0
  BY <1>1, <1>3 DEF ServedWhole
<1>9. Script[message].head \in Nat /\ Script[message].body \in Nat
  BY <1>4, <1>8, ScriptTypes
<1>10. ServedWhole'
  BY <1>3, <1>4, <1>5, <1>6, <1>8, <1>9 DEF ServedWhole
<1>11. Decode => m = 0
  <2>1. ~raw'
    BY DEF Open
  <2>2. ~(Decode /\ m > 0)
    BY <1>0, <2>1, Zenon
  <2> QED
    BY <2>2
<1>12. GroupsLeft' /\ Frontier' = Frontier + m /\ Frontier \in Nat
  <2>1. CASE Decode
    <3>1. taken' = taken /\ m = 0
      BY <1>3, <1>4, <1>11, <2>1
    <3>2. Decoded(taken) \in Nat
      BY <1>1, <1>4, DecodedType
    <3> QED
      BY <1>1, <1>3, <1>4, <3>1, <3>2, SMTT(30) DEF GroupsLeft, Frontier, Decoded, Decode
  <2>2. CASE ~Decode
    BY <1>1, <1>3, <1>4, <2>2 DEF GroupsLeft, Frontier, Decoded, Decode
  <2> QED
    BY <2>1, <2>2
<1>13. ~rebound' => InOrder' /\ NextBegins'
  <2> SUFFICES ASSUME ~rebound PROVE InOrder' /\ NextBegins'
    BY <1>3
  <2>1. /\ retreat > 0 => start + len + retreatRead = Expected
        /\ Expected + retreat = Frontier
    BY <1>1, <1>8 DEF InOrder
  <2>2. PICK e \in Nat, b \in Nat : e = Begin(message) + Script[message].head
                                          /\ b = Script[message].body
    BY <1>1, <1>9, ExpectedType
  <2>3. Expected = e + (b - unread) /\ Expected' = e + (b - unread') /\ unread <= b
    BY <1>3, <1>8, <2>2 DEF Expected, Begin
  <2>6. Expected \in Nat /\ Expected' = Expected + back + m
    BY <1>3, <1>4, <1>5, <2>3
  <2>4. retreat' > 0 => start' + len' + retreatRead' = Expected'
    <3>1. retreat' > 0 => back = want /\ m = 0 /\ retreat > 0
      BY <1>3, <1>4, <1>5, <1>6
    <3> QED
      BY <1>3, <1>4, <1>5, <2>1, <2>6, <3>1
  <2>5. Expected' + retreat' = Frontier'
    BY <1>3, <1>4, <1>5, <1>12, <2>1, <2>6
  <2> QED
    BY <1>3, <1>8, <2>4, <2>5 DEF InOrder, NextBegins
<1> QED
  BY <1>10, <1>12, <1>13

LEMMA CleanKeeps == ASSUME StreamInv, CleanUp PROVE StreamInv'
<1>1. PlaceTypes /\ ServedWhole /\ GroupsLeft /\ (~rebound => InOrder /\ NextBegins)
  BY InvParts DEF CleanUp
<1>2. /\ Open /\ busy /\ unread = 0 /\ busy' = FALSE /\ message' = message + 1
      /\ UNCHANGED <<start, len, complete, retreat, retreatRead, cur, encoded, taken, origin,
                      posts, unread, gone, raw, rebound>>
  BY DEF CleanUp
<1>3. complete /\ message \in 1..Len(Script) /\ len > 0
  BY <1>1, <1>2, ScriptTypes DEF ServedWhole, PlaceTypes
<1>4. PlaceTypes'
  <2>1. message' \in 1..(Len(Script) + 1)
    BY <1>2, <1>3, ScriptTypes
  <2> QED
    BY <1>1, <1>2, <2>1 DEF PlaceTypes
<1>5. Expected' = Expected
  <2>1. Expected' = Begin(message + 1)
    BY <1>2 DEF Expected, Begin
  <2>2. Begin(message + 1) = Begin(message) + Script[message].head + Script[message].body
    BY <1>3, Begins
  <2>3. Expected = Begin(message) + Script[message].head + (Script[message].body - 0)
    BY <1>2 DEF Expected
  <2>4. Begin(message) \in Nat /\ Script[message].head \in Nat /\ Script[message].body \in Nat
    BY <1>1, <1>3, ExpectedType, ScriptTypes
  <2> QED
    BY <2>1, <2>2, <2>3, <2>4
<1>6. ServedWhole' /\ GroupsLeft' /\ Frontier' = Frontier
  BY <1>1, <1>2, <1>3 DEF ServedWhole, GroupsLeft, Frontier, Decoded, Decode
<1>7. ~rebound' => InOrder' /\ NextBegins'
  BY <1>1, <1>2, <1>3, <1>5, <1>6 DEF InOrder, NextBegins
<1> QED
  BY <1>4, <1>6, <1>7 DEF StreamInv

LEMMA SnarfKeeps == ASSUME StreamInv, NEW n \in Nat, SnarfRetreat(n) PROVE StreamInv'
<1>1. PlaceTypes /\ ServedWhole /\ GroupsLeft /\ (~rebound => InOrder /\ NextBegins)
  BY InvParts DEF SnarfRetreat
<1>2. /\ Open /\ ~busy /\ posts' = posts + 1 /\ origin' = Begin(message) /\ taken' = 0
      /\ retreat' = n /\ complete' = FALSE /\ encoded' = 0 /\ cur' = 0 /\ len' = 0
      /\ rebound' = (rebound \/ retreatRead > 0)
      /\ UNCHANGED <<start, retreatRead, message, unread, busy, gone, raw>>
  BY DEF SnarfRetreat
<1>3. Begin(message) \in Nat /\ posts \in Nat /\ rebound \in BOOLEAN /\ retreatRead \in Nat
  BY <1>1, ExpectedType DEF PlaceTypes
<1>4. PlaceTypes'
  <2>1. {posts', origin', taken', retreat', encoded', len'} \subseteq Nat
    BY <1>2, <1>3
  <2>2. {complete', rebound'} \subseteq BOOLEAN
    BY <1>2
  <2> QED
    BY <1>1, <1>2, <2>1, <2>2 DEF PlaceTypes
<1>5. ServedWhole'
  BY <1>2 DEF ServedWhole
<1>6. Decode' /\ GroupsLeft' /\ Decoded(taken)' = 0
  <2>1. Decode'
    BY <1>2, <1>3 DEF Decode
  <2>2. 0 % Group = 0 /\ (0 \div Group) * Plain = 0
    BY GroupTypes
  <2> QED
    BY <1>2, <2>1, <2>2 DEF GroupsLeft, Decoded
<1>7. Frontier' = Begin(message) /\ Expected' = Begin(message)
  BY <1>2, <1>3, <1>6 DEF Frontier, Expected, Begin
<1>8. ~rebound' => retreatRead' = 0
  <2>1. ~rebound' => ~(retreatRead > 0)
    BY <1>2, Zenon
  <2> QED
    BY <1>2, <1>3, <2>1
<1> QED
  BY <1>2, <1>4, <1>5, <1>6, <1>7, <1>8 DEF StreamInv, InOrder, NextBegins

LEMMA RequestStep == StreamInv /\ [RequestNext]_requestVars => StreamInv'
<1> SUFFICES ASSUME StreamInv, [RequestNext]_requestVars PROVE StreamInv'
  OBVIOUS
<1>1. CASE Advance
  BY <1>1, AdvanceKeeps
<1>2. CASE CleanUp
  BY <1>2, CleanKeeps
<1>3. ASSUME NEW n \in 1..BufferSize, Fill(n) PROVE StreamInv'
  BY <1>3, FillKeeps
<1>4. ASSUME NEW want \in 1..Max({1, unread}), NEW m \in 0..BufferSize, ReadBody(want, m)
      PROVE  StreamInv'
  <2>1. want \in Nat /\ m \in Nat
    BY GroupTypes
  <2> QED
    BY <1>4, <2>1, ReadKeeps
<1>5. ASSUME NEW n \in 0..BufferSize, SnarfRetreat(n) PROVE StreamInv'
  <2>1. n \in Nat
    BY GroupTypes
  <2> QED
    BY <1>5, <2>1, SnarfKeeps
<1>6. CASE UNCHANGED requestVars
  BY <1>6 DEF requestVars, StreamInv, PlaceTypes, Open, ServedWhole, GroupsLeft, Decode, InOrder,
     NextBegins, Frontier, Decoded, Expected, Begin
<1> QED
  BY <1>1, <1>2, <1>3, <1>4, <1>5, <1>6 DEF RequestNext

\* For any messages, buffer and encoding, and any number of POST connections: the bytes of
\* requests and bodies are taken in their order, none twice and none left out, as long as no
\* POST is bound after put back bytes of a body were read (ReadRequest, Read, SnarfRetreat).
THEOREM RequestsComeInOrder == RequestSpec => []RequestsInOrder
<1>1. StreamInv => RequestsInOrder
  BY DEF StreamInv, RequestsInOrder
<1> QED
  BY <1>1, RequestStart, RequestStep, PTL DEF RequestSpec

-----------------------------------------------------------------------------
(* What the error log tells.                                               *)

Lines == {Mark} \cup {Line(m) : m \in Messages} \cup {Repeat(n) : n \in 1..MaxMessages}

\* What the next line adds to what was read.
Reads(seen, l) ==
    CASE l.kind = "mark"    -> seen
      [] l.kind = "message" -> Append(seen, l.text)
      [] OTHER -> seen \o [j \in 1..l.times |-> Last(seen)]

\* Times messages m.
Often(n, m) == [i \in 1..n |-> m]

Texts == Messages \cup {Last(<<>>)}

LEMMA ReadsType ==
    ASSUME NEW seen \in Seq(Texts), NEW l \in Lines
    PROVE  Reads(seen, l) \in Seq(Texts)
<1>1. Last(seen) \in Texts
  <2>1. CASE seen = <<>>
    BY <2>1 DEF Texts
  <2>2. CASE seen # <<>>
    BY <2>2 DEF Last
  <2> QED
    BY <2>1, <2>2
<1>2. CASE l = Mark
  BY <1>2 DEF Mark, Reads
<1>3. ASSUME NEW m \in Messages, l = Line(m) PROVE Reads(seen, l) \in Seq(Texts)
  <2>1. l.kind = "message" /\ l.text = m
    BY <1>3 DEF Line
  <2>2. m \in Texts
    BY DEF Texts
  <2>3. Reads(seen, l) = Append(seen, m)
    BY <2>1 DEF Reads
  <2> QED
    BY <2>2, <2>3
<1>4. ASSUME NEW n \in 1..MaxMessages, l = Repeat(n) PROVE Reads(seen, l) \in Seq(Texts)
  <2>1. l.kind = "repeat" /\ l.times = n /\ n \in Nat
    BY <1>4, ErrorAssumption DEF Repeat
  <2>2. Reads(seen, l) = seen \o [j \in 1..n |-> Last(seen)]
    BY <2>1 DEF Reads
  <2>3. [j \in 1..n |-> Last(seen)] \in Seq(Texts)
    BY <1>1, <2>1
  <2> QED
    BY <2>2, <2>3
<1> QED
  BY <1>2, <1>3, <1>4 DEF Lines

\* The log read back is that of all lines but the last, and what the last adds.
LEMMA ReadBackSteps ==
    ASSUME NEW ls \in Seq(Lines)
    PROVE  \E h \in [0..Len(ls) -> Seq(Texts)] :
              /\ h[0] = <<>> /\ ReadBack(ls) = h[Len(ls)]
              /\ \A i \in 1..Len(ls) : h[i] = Reads(h[i - 1], ls[i])
<1> DEFINE N == Len(ls)
           Y == Seq(Texts)
           Rec(i, g) == IF i = 0 THEN <<>> ELSE Reads(g[i - 1], ls[i])
           Is(g) == g = [i \in 0..N |-> Rec(i, g)]
           step == [p \in (1..N) \X Y |-> Reads(p[2], ls[p[1]])]
<1>0. N \in Nat /\ <<>> \in Y
  OBVIOUS
<1>1. step \in [(1..N) \X Y -> Y]
  <2>1. ASSUME NEW p \in (1..N) \X Y PROVE Reads(p[2], ls[p[1]]) \in Y
    <3>1. ls[p[1]] \in Lines /\ p[2] \in Seq(Texts)
      OBVIOUS
    <3> QED
      BY <3>1, ReadsType
  <2> QED
    BY <2>1
<1>2. \E h : Stepwise(h, N, Y, <<>>, step)
  <2> HIDE DEF step, N, Y
  <2> QED
    BY <1>0, <1>1, StepsExist
<1>3. PICK h \in [0..N -> Y] : h = [i \in 0..N |-> IF i = 0 THEN <<>> ELSE step[<<i, h[i - 1]>>]]
  <2> HIDE DEF step, N, Y
  <2> QED
    BY <1>2 DEF Stepwise
<1>4. Is(h)
  <2>1. ASSUME NEW i \in 0..N, i # 0
        PROVE  step[<<i, h[i - 1]>>] = Reads(h[i - 1], ls[i])
    <3>1. i \in 1..N /\ h[i - 1] \in Y
      BY <2>1, <1>0
    <3> HIDE DEF Y, N
    <3> QED
      BY <3>1
  <2> HIDE DEF step, N, Y
  <2> QED
    BY <1>3, <2>1
<1>5. PICK g : g = CHOOSE k : Is(k)
  OBVIOUS
<1>6. Is(g)
  <2> HIDE DEF Is
  <2> QED
    BY <1>4, <1>5
<1>7. ReadBack(ls) = g[N]
  BY <1>5 DEF ReadBack, Reads
<1>8. \A i \in 0..N : g[i] = Rec(i, g)
  <2> HIDE DEF N
  <2> QED
    BY <1>6
<1>9. \A i \in 0..N : g[i] \in Y
  <2> DEFINE P == {n \in Nat : n <= N => g[n] \in Y}
  <2>1. 0 \in P
    <3>1. g[0] = <<>>
      BY <1>0, <1>8
    <3> QED
      BY <1>0, <3>1
  <2>2. ASSUME NEW n \in Nat, n \in P PROVE n + 1 \in P
    <3> SUFFICES ASSUME n + 1 <= N PROVE g[n + 1] \in Y
      OBVIOUS
    <3>1. g[n] \in Y /\ n + 1 \in 0..N /\ n + 1 \in 1..N
      BY <2>2, <1>0
    <3>2. g[n + 1] = Reads(g[n], ls[n + 1])
      BY <3>1, <1>8
    <3> QED
      BY <3>1, <3>2, ReadsType
  <2> HIDE DEF P
  <2>3. \A n \in Nat : n \in P
    BY <2>1, <2>2, NumberInduction
  <2> QED
    BY <2>3, <1>0 DEF P
<1>10. g \in [0..N -> Y]
  <2> HIDE DEF N, Y, Rec
  <2> QED
    BY <1>6, <1>9
<1>11. g[0] = <<>> /\ \A i \in 1..N : g[i] = Reads(g[i - 1], ls[i])
  BY <1>0, <1>8
<1> QED
  BY <1>7, <1>10, <1>11

\* Two such functions agree as far as the lines do.
LEMMA ReadBackAppend ==
    ASSUME NEW ls \in Seq(Lines), NEW l \in Lines
    PROVE  /\ ReadBack(Append(ls, l)) = Reads(ReadBack(ls), l)
           /\ ReadBack(ls) \in Seq(Texts)
<1> DEFINE N == Len(ls)
           bs == Append(ls, l)
<1>0. N \in Nat /\ bs \in Seq(Lines) /\ Len(bs) = N + 1 /\ bs[N + 1] = l
         /\ \A i \in 1..N : bs[i] = ls[i]
  OBVIOUS
<1>1. PICK h \in [0..N -> Seq(Texts)] :
         /\ h[0] = <<>> /\ ReadBack(ls) = h[N]
         /\ \A i \in 1..N : h[i] = Reads(h[i - 1], ls[i])
  BY ReadBackSteps
<1> HIDE DEF bs
<1>2. PICK k \in [0..(N + 1) -> Seq(Texts)] :
         /\ k[0] = <<>> /\ ReadBack(bs) = k[N + 1]
         /\ \A i \in 1..(N + 1) : k[i] = Reads(k[i - 1], bs[i])
  <2>1. bs \in Seq(Lines) /\ Len(bs) = N + 1
    BY <1>0
  <2> HIDE DEF N
  <2> QED
    BY <2>1, ReadBackSteps
<1>3. \A i \in 0..N : h[i] = k[i]
  <2> DEFINE P == {n \in Nat : n <= N => h[n] = k[n]}
  <2>1. 0 \in P
    BY <1>1, <1>2
  <2>2. ASSUME NEW n \in Nat, n \in P PROVE n + 1 \in P
    <3> SUFFICES ASSUME n + 1 <= N PROVE h[n + 1] = k[n + 1]
      OBVIOUS
    <3>1. h[n] = k[n] /\ n + 1 \in 1..N /\ n + 1 \in 1..(N + 1) /\ (n + 1) - 1 = n
      BY <2>2, <1>0
    <3>2. h[n + 1] = Reads(h[n], ls[n + 1]) /\ k[n + 1] = Reads(k[n], bs[n + 1])
      BY <3>1, <1>1, <1>2
    <3> QED
      BY <1>0, <3>1, <3>2
  <2> HIDE DEF P
  <2>3. \A n \in Nat : n \in P
    BY <2>1, <2>2, NumberInduction
  <2> QED
    BY <2>3, <1>0 DEF P
<1>4. k[N + 1] = Reads(k[N], l) /\ k[N] = h[N]
  <2>1. N + 1 \in 1..(N + 1) /\ (N + 1) - 1 = N /\ N \in 0..N
    BY <1>0
  <2> QED
    BY <1>0, <1>2, <1>3, <2>1
<1> QED
  BY <1>0, <1>1, <1>2, <1>4 DEF bs

LEMMA ReadBackType == ASSUME NEW ls \in Seq(Lines) PROVE ReadBack(ls) \in Seq(Texts)
<1>1. Mark \in Lines
  BY DEF Lines
<1> QED
  BY <1>1, ReadBackAppend

LEMMA ReadBackStart == ReadBack(<<>>) = <<>> /\ ReadBack(<<Mark>>) = <<>>
<1>1. <<>> \in Seq(Lines) /\ Mark \in Lines /\ <<Mark>> = Append(<<>>, Mark)
  BY DEF Lines
<1>2. ReadBack(<<>>) = <<>>
  <2>1. PICK h \in [0..Len(<<>>) -> Seq(Texts)] : h[0] = <<>> /\ ReadBack(<<>>) = h[Len(<<>>)]
    BY <1>1, ReadBackSteps
  <2> QED
    BY <2>1
<1>3. ReadBack(<<Mark>>) = Reads(<<>>, Mark)
  BY <1>1, <1>2, ReadBackAppend
<1> QED
  BY <1>2, <1>3 DEF Reads, Mark

\* What the three kinds of lines add.
LEMMA ReadLines ==
    ASSUME NEW ls \in Seq(Lines)
    PROVE  /\ ReadBack(Append(ls, Mark)) = ReadBack(ls)
           /\ \A m \in Messages : ReadBack(Append(ls, Line(m))) = Append(ReadBack(ls), m)
           /\ \A n \in 1..MaxMessages :
                 ReadBack(Append(ls, Repeat(n))) = ReadBack(ls) \o Often(n, Last(ReadBack(ls)))
<1>1. ReadBack(Append(ls, Mark)) = ReadBack(ls)
  <2>1. Mark \in Lines /\ Mark.kind = "mark"
    BY DEF Lines, Mark
  <2> QED
    BY <2>1, ReadBackAppend DEF Reads
<1>2. ASSUME NEW m \in Messages PROVE ReadBack(Append(ls, Line(m))) = Append(ReadBack(ls), m)
  <2>1. Line(m) \in Lines
    BY DEF Lines
  <2>2. Line(m).kind = "message" /\ Line(m).text = m
    BY DEF Line
  <2> QED
    BY <2>1, <2>2, ReadBackAppend DEF Reads
<1>3. ASSUME NEW n \in 1..MaxMessages
      PROVE  ReadBack(Append(ls, Repeat(n))) = ReadBack(ls) \o Often(n, Last(ReadBack(ls)))
  <2>1. Repeat(n) \in Lines
    BY DEF Lines
  <2>2. Repeat(n).kind = "repeat" /\ Repeat(n).times = n
    BY DEF Repeat
  <2> QED
    BY <2>1, <2>2, ReadBackAppend DEF Reads, Often
<1> QED
  BY <1>1, <1>2, <1>3

\* The last message that was read is the one that is counted.
CountTypes ==
    /\ lines \in Seq(Lines) /\ received \in Seq(Messages) /\ Len(received) <= MaxMessages
    /\ repeats \in Nat /\ repeats <= Len(received) /\ lost \in BOOLEAN
    /\ lastMessage \in Messages \cup {NoMessage} /\ (lastMessage = NoMessage => repeats = 0)

LastRead == lastMessage # NoMessage => ReadBack(lines) # <<>> /\ Last(ReadBack(lines)) = lastMessage

CountInv == CountTypes /\ (~lost => RepeatsCounted /\ LastRead)

LEMMA RepeatsAre == ~lost => (RepeatsCounted <=> ReadBack(lines) \o Often(repeats, lastMessage) = received)
BY DEF RepeatsCounted, Often

\* What is read depends on the lines alone.
LEMMA ReadBackSame == ASSUME UNCHANGED lines PROVE ReadBack(lines)' = ReadBack(lines)
BY DEF ReadBack

LEMMA CountSame ==
    ASSUME CountInv, UNCHANGED <<lines, received, repeats, lastMessage, lost>>
    PROVE  CountInv'
<1>1. ReadBack(lines)' = ReadBack(lines)
  BY ReadBackSame
<1>2. CountTypes'
  BY DEF CountInv, CountTypes
<1>3. ~lost' => RepeatsCounted' /\ LastRead'
  BY <1>1 DEF CountInv, RepeatsCounted, LastRead
<1> QED
  BY <1>2, <1>3 DEF CountInv

LEMMA ErrorStart == ErrorInit => CountInv
<1> SUFFICES ASSUME ErrorInit PROVE CountInv
  OBVIOUS
<1>1. lines \in Seq(Lines) /\ ReadBack(lines) = <<>>
  <2>1. <<>> \in Seq(Lines) /\ <<Mark>> \in Seq(Lines)
    BY DEF Lines
  <2> QED
    BY <2>1, ReadBackStart DEF ErrorInit
<1>2. received = <<>> /\ repeats = 0 /\ lost = FALSE /\ lastMessage = NoMessage
  BY DEF ErrorInit
<1>3. CountTypes
  <2>1. MaxMessages \in Nat /\ received \in Seq(Messages) /\ Len(received) = 0
    BY <1>2, ErrorAssumption
  <2>2. Len(received) <= MaxMessages /\ repeats \in Nat /\ repeats <= Len(received)
    BY <1>2, <2>1
  <2>3. lost \in BOOLEAN /\ lastMessage \in Messages \cup {NoMessage}
    BY <1>2
  <2> QED
    BY <1>1, <1>2, <2>1, <2>2, <2>3 DEF CountTypes
<1>4. Often(0, lastMessage) = <<>>
  BY DEF Often
<1> QED
  BY <1>1, <1>2, <1>3, <1>4, RepeatsAre DEF CountInv, LastRead

LEMMA OftenMore ==
    ASSUME NEW n \in Nat, NEW m \in Messages, NEW q \in Seq(Texts)
    PROVE  q \o Often(n + 1, m) = Append(q \o Often(n, m), m)
<1> DEFINE t == Often(n, m)
<1>1. m \in Texts /\ t \in Seq(Texts) /\ Len(t) = n /\ \A i \in 1..n : t[i] = m
  BY DEF Often, Texts
<1> HIDE DEF t
<1>2. Often(n + 1, m) = Append(t, m)
  <2>1. /\ Often(n + 1, m) \in Seq(Texts) /\ Len(Often(n + 1, m)) = n + 1
        /\ \A i \in 1..(n + 1) : Often(n + 1, m)[i] = m
    BY <1>1 DEF Often
  <2>2. /\ Append(t, m) \in Seq(Texts) /\ Len(Append(t, m)) = n + 1
        /\ \A i \in 1..n : Append(t, m)[i] = t[i]
        /\ Append(t, m)[n + 1] = m
    BY <1>1, AppendProperties
  <2>3. ASSUME NEW i \in 1..(n + 1) PROVE Append(t, m)[i] = m
    <3>1. CASE i = n + 1
      BY <2>2, <3>1
    <3>2. CASE i # n + 1
      <4>1. i \in 1..n
        BY <3>2
      <4> QED
        BY <1>1, <2>2, <4>1
    <3> QED
      BY <3>1, <3>2
  <2> QED
    BY <2>1, <2>2, <2>3, SeqEqual
<1>3. Append(t, m) = t \o <<m>> /\ Append(q \o t, m) = (q \o t) \o <<m>> /\ <<m>> \in Seq(Texts)
  <2>1. q \o t \in Seq(Texts)
    BY <1>1, ConcatProperties
  <2> QED
    BY <1>1, <2>1, AppendIsConcat
<1>4. (q \o t) \o <<m>> = q \o (t \o <<m>>)
  <2>1. t \in Seq(Texts) /\ <<m>> \in Seq(Texts)
    BY <1>1, <1>3
  <2> QED
    BY <2>1, ConcatAssociative
<1> QED
  BY <1>2, <1>3, <1>4 DEF t

LEMMA DuplicateKeeps ==
    ASSUME CountInv, NEW m \in Messages, Len(received) < MaxMessages,
           received' = Append(received, m), Duplicate(m)
    PROVE  CountInv'
<1>1. m = lastMessage /\ repeats' = repeats + 1 /\ UNCHANGED <<lastMessage, lines, lost>>
  BY DEF Duplicate
<1>2. CountTypes'
  BY <1>1, ErrorAssumption DEF CountInv, CountTypes
<1>3. ~lost' => RepeatsCounted' /\ LastRead'
  <2> SUFFICES ASSUME ~lost PROVE RepeatsCounted' /\ LastRead'
    BY <1>1
  <2>1. ReadBack(lines) \o Often(repeats, lastMessage) = received /\ LastRead
    BY RepeatsAre DEF CountInv
  <2>2. ReadBack(lines) \in Seq(Texts)
    BY ReadBackType DEF CountInv, CountTypes
  <2>3. ReadBack(lines) \o Often(repeats + 1, m) = Append(received, m)
    BY <1>1, <2>1, <2>2, OftenMore DEF CountInv, CountTypes
  <2>4. ReadBack(lines)' = ReadBack(lines)
    BY <1>1, ReadBackSame
  <2>5. LastRead'
    BY <1>1, <2>1, <2>4 DEF LastRead
  <2>6. RepeatsCounted'
    <3>1. ReadBack(lines)' \o Often(repeats', lastMessage') = received'
      BY <1>1, <2>3, <2>4
    <3> QED
      BY <3>1 DEF RepeatsCounted, Often
  <2> QED
    BY <2>5, <2>6
<1> QED
  BY <1>2, <1>3 DEF CountInv

LEMMA DifferentKeeps ==
    ASSUME CountInv, NEW m \in Messages, Len(received) < MaxMessages,
           received' = Append(received, m), Different(m)
    PROVE  CountInv'
<1> USE ErrorAssumption
<1>1. CASE ~logging
  <2>1. /\ lastMessage' = (IF repeats > 0 THEN lastMessage ELSE m) /\ lost' = TRUE
        /\ UNCHANGED <<repeats, lines>>
    BY <1>1 DEF Different
  <2>2. CountTypes'
    BY <2>1 DEF CountInv, CountTypes
  <2> QED
    BY <2>1, <2>2 DEF CountInv
<1>2. CASE logging
  <2>1. /\ lines' = lines \o (IF repeats > 0 THEN <<Repeat(repeats)>> ELSE <<>>) \o <<Line(m)>>
        /\ lastMessage' = m /\ repeats' = 0 /\ lost' = lost
    BY <1>2 DEF Different, CountWritten
  <2> DEFINE ls == IF repeats > 0 THEN Append(lines, Repeat(repeats)) ELSE lines
  <2>2. CountTypes
    BY DEF CountInv
  <2>3. repeats > 0 => repeats \in 1..MaxMessages
    BY <2>2 DEF CountTypes
  <2>4. ls \in Seq(Lines) /\ Line(m) \in Lines /\ lines' = Append(ls, Line(m))
    <3>1. lines \in Seq(Lines)
      BY <2>2 DEF CountTypes
    <3>2. Line(m) \in Lines /\ (repeats > 0 => Repeat(repeats) \in Lines)
      BY <2>3 DEF Lines
    <3> HIDE DEF Lines
    <3>3. CASE repeats > 0
      <4> PICK r \in Lines : r = Repeat(repeats)
        BY <3>2, <3>3
      <4> PICK l \in Lines : l = Line(m)
        BY <3>2
      <4>1. lines' = lines \o <<r>> \o <<l>> /\ ls = Append(lines, r)
        BY <2>1, <3>3
      <4> QED
        BY <3>1, <4>1
    <3>4. CASE ~(repeats > 0)
      <4> PICK l \in Lines : l = Line(m)
        BY <3>2
      <4>1. lines' = lines \o <<>> \o <<l>> /\ ls = lines
        BY <2>1, <3>4
      <4> QED
        BY <3>1, <4>1
    <3> QED
      BY <3>3, <3>4
  <2>5. CountTypes'
    <3>1. lines' \in Seq(Lines)
      <4> HIDE DEF ls
      <4> QED
        BY <2>4
    <3> QED
      BY <2>1, <2>2, <3>1 DEF CountTypes
  <2> SUFFICES ASSUME ~lost PROVE RepeatsCounted' /\ LastRead'
    BY <2>1, <2>5 DEF CountInv
  <2>6. ReadBack(lines) \o Often(repeats, lastMessage) = received /\ LastRead
    BY RepeatsAre DEF CountInv
  <2>7. ReadBack(ls) = received
    <3>1. CASE repeats > 0
      <4>1. ReadBack(ls) = ReadBack(lines) \o Often(repeats, Last(ReadBack(lines)))
        BY <2>2, <2>3, <3>1, ReadLines DEF CountTypes
      <4>2. Last(ReadBack(lines)) = lastMessage
        BY <2>2, <2>6, <3>1 DEF CountTypes, LastRead
      <4> QED
        BY <2>6, <4>1, <4>2
    <3>2. CASE ~(repeats > 0)
      <4>1. repeats = 0 /\ ReadBack(lines) \in Seq(Texts)
        BY <2>2, <3>2, ReadBackType DEF CountTypes
      <4>2. Often(0, lastMessage) = <<>>
        BY DEF Often
      <4> QED
        BY <2>6, <3>2, <4>1, <4>2
    <3> QED
      BY <3>1, <3>2
  <2> HIDE DEF ls
  <2>8. ReadBack(lines') = received'
    BY <2>4, <2>7, ReadLines
  <2>9. received' \in Seq(Messages) /\ received' # <<>> /\ Last(received') = m
    <3>1. received \in Seq(Messages)
      BY <2>2 DEF CountTypes
    <3> QED
      BY <3>1 DEF Last
  <2>10. LastRead'
    <3>1. ReadBack(lines)' = received'
      BY <2>8 DEF ReadBack
    <3> QED
      BY <2>1, <2>9, <3>1 DEF LastRead
  <2>11. RepeatsCounted'
    <3>1. ReadBack(lines)' = received'
      BY <2>8 DEF ReadBack
    <3>2. [i \in 1..repeats |-> lastMessage]' = <<>>
      BY <2>1
    <3>3. received' \o <<>> = received'
      BY <2>9
    <3>4. ReadBack(lines)' \o [i \in 1..repeats |-> lastMessage]' = received'
      BY <3>1, <3>2, <3>3, Zenon
    <3> QED
      BY <3>4, Zenon DEF RepeatsCounted
  <2> QED
    BY <2>10, <2>11
<1> QED
  BY <1>1, <1>2

LEMMA MarkKeeps == ASSUME CountInv, NEW up, WriteMark(up) PROVE CountInv'
<1>1. /\ lines' = (IF errorLog THEN Append(lines, Mark) ELSE lines)
      /\ UNCHANGED <<lastMessage, repeats, received, lost>>
  BY DEF WriteMark
<1>2. CountTypes
  BY DEF CountInv
<1>3. ReadBack(lines') = ReadBack(lines) /\ lines' \in Seq(Lines)
  <2>1. lines \in Seq(Lines) /\ Mark \in Lines
    BY <1>2 DEF CountTypes, Lines
  <2> QED
    BY <1>1, <2>1, ReadLines
<1>4. CountTypes'
  BY <1>1, <1>2, <1>3, SMTT(30) DEF CountTypes
<1>5. ReadBack(lines)' = ReadBack(lines)
  BY <1>3
<1> QED
  BY <1>1, <1>4, <1>5 DEF CountInv, LastRead, RepeatsCounted

LEMMA ErrorStep == CountInv /\ [ErrorNext]_errorVars => CountInv'
<1> SUFFICES ASSUME CountInv, [ErrorNext]_errorVars PROVE CountInv'
  OBVIOUS
<1>1. ASSUME NEW m \in Messages, NEW level \in Levels, LogError(m, level) PROVE CountInv'
  BY <1>1, DuplicateKeeps, DifferentKeeps DEF LogError
<1>2. CASE WriteShutdownMessage \/ WriteStartupMessage
  BY <1>2, MarkKeeps DEF WriteShutdownMessage, WriteStartupMessage
<1>3. ASSUME NEW on \in BOOLEAN, NEW level \in Levels, RereadErrorPrefs(on, level) PROVE CountInv'
  BY <1>3, CountSame DEF RereadErrorPrefs
<1>4. CASE UNCHANGED errorVars
  BY <1>4, CountSame DEF errorVars
<1> QED
  BY <1>1, <1>2, <1>3, <1>4 DEF ErrorNext

\* For any messages and levels: every message that was not too verbose is told by the log and
\* the count, in its order and as often as it came, if none is lost to a log that was off
\* (LogError, CheckErrorLogState, WriteStartupMessage, WriteShutdownMessage).
THEOREM MessagesCounted == ErrorSpec => []RepeatsCounted
<1>1. CountInv => RepeatsCounted
  BY DEF CountInv, RepeatsCounted
<1> QED
  BY <1>1, ErrorStart, ErrorStep, PTL DEF ErrorSpec

-----------------------------------------------------------------------------
(* The listeners.                                                          *)

\* The listeners at a place, in the array l, when k are the sockets; the first that is chosen.
ListedAt(p)  == {i \in 1..Len(fListeners) : sock[fListeners[i]].place = p}
TheOneAt(p)  == fListeners[CHOOSE j \in ListedAt(p) : TRUE]
ListedPlaces == {sock[fListeners[i]].place : i \in 1..Len(fListeners)}

LiveSockets == {s \in Sockets : sock[s].life \in {"bound", "listening"}}

SocketRecords == [life : {"none", "bound", "listening", "dying"}, place : Places]

ListInv ==
    /\ setting \in Settings /\ fListeners \in Seq(Sockets)
    /\ sock \in [Sockets -> SocketRecords]
    /\ LiveSockets = Range(fListeners)
    /\ {sock[s].place : s \in LiveSockets} = sought \ refused
    /\ \A s, t \in LiveSockets : sock[s].place = sock[t].place => s = t

LEMMA ListTypes ==
    ASSUME ListInv
    PROVE  /\ Len(fListeners) \in Nat
           /\ \A i \in 1..Len(fListeners) : fListeners[i] \in LiveSockets
           /\ \A s \in LiveSockets : \E i \in 1..Len(fListeners) : fListeners[i] = s
<1>1. fListeners \in Seq(Sockets) /\ LiveSockets = Range(fListeners)
  BY DEF ListInv
<1>2. DOMAIN fListeners = 1..Len(fListeners) /\ Len(fListeners) \in Nat
  BY <1>1
<1> QED
  BY <1>1, <1>2 DEF Range

LEMMA OneAt ==
    ASSUME ListInv, NEW p \in ListedPlaces
    PROVE  TheOneAt(p) \in LiveSockets /\ sock[TheOneAt(p)].place = p /\ ListedAt(p) # {}
<1>1. ListedAt(p) # {}
  BY DEF ListedPlaces, ListedAt
<1>2. PICK j : j = CHOOSE i \in ListedAt(p) : TRUE
  OBVIOUS
<1>3. j \in ListedAt(p)
  BY <1>1, <1>2
<1>4. TheOneAt(p) = fListeners[j]
  BY <1>2 DEF TheOneAt
<1> QED
  BY <1>1, <1>3, <1>4, ListTypes DEF ListedAt

LEMMA NotListed == ASSUME NEW p, p \notin ListedPlaces PROVE ListedAt(p) = {}
BY DEF ListedPlaces, ListedAt

LEMMA AppendRange ==
    ASSUME NEW S, NEW q \in Seq(S), NEW x \in S
    PROVE  Range(Append(q, x)) = Range(q) \cup {x}
<1>1. Len(Append(q, x)) = Len(q) + 1 /\ DOMAIN Append(q, x) = 1..(Len(q) + 1)
         /\ DOMAIN q = 1..Len(q) /\ Len(q) \in Nat
  OBVIOUS
<1>2. \A i \in 1..(Len(q) + 1) : Append(q, x)[i] = IF i = Len(q) + 1 THEN x ELSE q[i]
  OBVIOUS
<1>3. ASSUME NEW y \in Range(Append(q, x)) PROVE y \in Range(q) \cup {x}
  <2>1. PICK i \in 1..(Len(q) + 1) : y = Append(q, x)[i]
    BY <1>1 DEF Range
  <2>2. i # Len(q) + 1 => i \in 1..Len(q)
    BY <1>1
  <2> QED
    BY <1>1, <1>2, <2>1, <2>2 DEF Range
<1>4. ASSUME NEW y \in Range(q) \cup {x} PROVE y \in Range(Append(q, x))
  <2>1. CASE y = x
    <3>1. Len(q) + 1 \in 1..(Len(q) + 1)
      BY <1>1
    <3> QED
      BY <1>1, <1>2, <2>1, <3>1 DEF Range
  <2>2. CASE y \in Range(q)
    <3>1. PICK i \in 1..Len(q) : y = q[i]
      BY <1>1, <2>2 DEF Range
    <3>2. i \in 1..(Len(q) + 1) /\ i # Len(q) + 1
      BY <1>1
    <3> QED
      BY <1>1, <1>2, <3>1, <3>2 DEF Range
  <2> QED
    BY <2>1, <2>2
<1> QED
  BY <1>3, <1>4

LEMMA ConcatRange ==
    ASSUME NEW S, NEW q \in Seq(S), NEW r \in Seq(S)
    PROVE  Range(q \o r) = Range(q) \cup Range(r)
<1>1. /\ Len(q \o r) = Len(q) + Len(r) /\ DOMAIN (q \o r) = 1..(Len(q) + Len(r))
      /\ DOMAIN q = 1..Len(q) /\ DOMAIN r = 1..Len(r) /\ Len(q) \in Nat /\ Len(r) \in Nat
  OBVIOUS
<1>2. /\ \A i \in 1..Len(q) : (q \o r)[i] = q[i]
      /\ \A i \in 1..Len(r) : (q \o r)[Len(q) + i] = r[i]
  OBVIOUS
<1>3. ASSUME NEW y \in Range(q \o r) PROVE y \in Range(q) \cup Range(r)
  <2>1. PICK i \in 1..(Len(q) + Len(r)) : y = (q \o r)[i]
    BY <1>1 DEF Range
  <2>2. CASE i <= Len(q)
    <3>1. i \in 1..Len(q)
      BY <1>1, <2>2
    <3> QED
      BY <1>1, <1>2, <2>1, <3>1 DEF Range
  <2>3. CASE ~(i <= Len(q))
    <3>1. i - Len(q) \in 1..Len(r) /\ i = Len(q) + (i - Len(q))
      BY <1>1, <2>3
    <3>2. y = r[i - Len(q)]
      BY <1>2, <2>1, <3>1
    <3> QED
      BY <1>1, <3>1, <3>2 DEF Range
  <2> QED
    BY <2>2, <2>3
<1>4. ASSUME NEW y \in Range(q) PROVE y \in Range(q \o r)
  <2>1. PICK i \in 1..Len(q) : y = q[i]
    BY <1>1 DEF Range
  <2>2. i \in 1..(Len(q) + Len(r))
    BY <1>1
  <2> QED
    BY <1>1, <1>2, <2>1, <2>2 DEF Range
<1>5. ASSUME NEW y \in Range(r) PROVE y \in Range(q \o r)
  <2>1. PICK i \in 1..Len(r) : y = r[i]
    BY <1>1 DEF Range
  <2>2. Len(q) + i \in 1..(Len(q) + Len(r))
    BY <1>1
  <2> QED
    BY <1>1, <1>2, <2>1, <2>2 DEF Range
<1> QED
  BY <1>3, <1>4, <1>5

\* The listeners that are kept are those at the places of w.
LEMMA KeptAre ==
    ASSUME ListInv, NEW w \in Seq(Places)
    PROVE  /\ Kept(w) \in Seq(Sockets)
           /\ Range(Kept(w)) = {TheOneAt(p) : p \in Range(w) \cap ListedPlaces}
<1> DEFINE N == Len(w)
           Y == Seq(Sockets)
           Further(x, p) == IF ListedAt(p) = {} THEN x ELSE Append(x, TheOneAt(p))
           Rec(i, g) == IF i = 0 THEN <<>> ELSE Further(g[i - 1], w[i])
           Is(g) == g = [i \in 0..N |-> Rec(i, g)]
           step == [p \in (1..N) \X Y |-> Further(p[2], w[p[1]])]
<1>0. N \in Nat /\ <<>> \in Y
  OBVIOUS
<1>13. ASSUME NEW x \in Y, NEW p PROVE Further(x, p) \in Y
  <2>1. CASE p \in ListedPlaces
    <3>1. TheOneAt(p) \in Sockets
      BY <2>1, OneAt DEF LiveSockets
    <3> QED
      BY <3>1
  <2>2. CASE p \notin ListedPlaces
    BY <2>2, NotListed
  <2> QED
    BY <2>1, <2>2
<1>1. step \in [(1..N) \X Y -> Y]
  <2>1. ASSUME NEW p \in (1..N) \X Y PROVE Further(p[2], w[p[1]]) \in Y
    <3> HIDE DEF Further, Y
    <3> QED
      BY <1>13
  <2> HIDE DEF Further, Y
  <2> QED
    BY <2>1
<1>2. \E h : Stepwise(h, N, Y, <<>>, step)
  <2> HIDE DEF step, N, Y
  <2> QED
    BY <1>0, <1>1, StepsExist
<1>3. PICK h \in [0..N -> Y] : h = [i \in 0..N |-> IF i = 0 THEN <<>> ELSE step[<<i, h[i - 1]>>]]
  <2> HIDE DEF step, N, Y
  <2> QED
    BY <1>2 DEF Stepwise
<1>4. Is(h)
  <2>1. ASSUME NEW i \in 0..N, i # 0
        PROVE  step[<<i, h[i - 1]>>] = Further(h[i - 1], w[i])
    <3>1. i \in 1..N /\ h[i - 1] \in Y
      BY <2>1, <1>0
    <3> HIDE DEF Y, N, Further
    <3> QED
      BY <3>1
  <2> HIDE DEF step, N, Y, Further
  <2> QED
    BY <1>3, <2>1
<1>5. PICK g : g = CHOOSE k : Is(k)
  OBVIOUS
<1>6. Is(g)
  <2> HIDE DEF Is
  <2> QED
    BY <1>4, <1>5
<1>7. Kept(w) = g[N]
  BY <1>5 DEF Kept, ListedAt, TheOneAt
<1>8. \A i \in 0..N : g[i] = Rec(i, g)
  <2> HIDE DEF N, Further
  <2> QED
    BY <1>6
<1> DEFINE K(n) == {TheOneAt(p) : p \in {w[i] : i \in 1..n} \cap ListedPlaces}
           P == {n \in Nat : n <= N => g[n] \in Y /\ Range(g[n]) = K(n)}
<1>9. 0 \in P
  <2>1. g[0] = <<>>
    BY <1>0, <1>8
  <2>2. K(0) = {} /\ Range(<<>>) = {}
    BY DEF Range
  <2> HIDE DEF K
  <2> QED
    BY <1>0, <2>1, <2>2
<1>10. ASSUME NEW n \in Nat, n \in P PROVE n + 1 \in P
  <2> SUFFICES ASSUME n + 1 <= N PROVE g[n + 1] \in Y /\ Range(g[n + 1]) = K(n + 1)
    OBVIOUS
  <2>1. g[n] \in Y /\ Range(g[n]) = K(n) /\ n + 1 \in 0..N /\ n + 1 \in 1..N /\ (n + 1) - 1 = n
    BY <1>10, <1>0
  <2>2. g[n + 1] = Further(g[n], w[n + 1])
    <3> HIDE DEF Further
    <3> QED
      BY <2>1, <1>8
  <2>3. {w[i] : i \in 1..(n + 1)} = {w[i] : i \in 1..n} \cup {w[n + 1]}
    <3>1. 1..(n + 1) = (1..n) \cup {n + 1}
      OBVIOUS
    <3> QED
      BY <3>1
  <2>4. CASE w[n + 1] \in ListedPlaces
    <3>1. TheOneAt(w[n + 1]) \in Sockets /\ ListedAt(w[n + 1]) # {}
      BY <2>4, OneAt DEF LiveSockets
    <3>2. g[n + 1] = Append(g[n], TheOneAt(w[n + 1]))
      BY <2>2, <3>1
    <3>3. K(n + 1) = K(n) \cup {TheOneAt(w[n + 1])}
      BY <2>3, <2>4
    <3>4. Range(Append(g[n], TheOneAt(w[n + 1]))) = Range(g[n]) \cup {TheOneAt(w[n + 1])}
      <4> HIDE DEF K, P
      <4> QED
        BY <2>1, <3>1, AppendRange
    <3> HIDE DEF K
    <3> QED
      BY <2>1, <3>1, <3>2, <3>3, <3>4
  <2>5. CASE w[n + 1] \notin ListedPlaces
    <3>1. g[n + 1] = g[n]
      BY <2>2, <2>5, NotListed
    <3>2. K(n + 1) = K(n)
      BY <2>3, <2>5
    <3> HIDE DEF K
    <3> QED
      BY <2>1, <3>1, <3>2
  <2> QED
    BY <2>4, <2>5
<1>11. N \in P
  <2> HIDE DEF P
  <2> QED
    BY <1>0, <1>9, <1>10, NumberInduction
<1>12. Range(w) = {w[i] : i \in 1..N}
  BY DEF Range
<1> QED
  BY <1>0, <1>7, <1>11, <1>12

\* What a finite set becomes as a sequence.
LEMMA AsSequence ==
    ASSUME NEW S, IsFiniteSet(S)
    PROVE  SetToSeq(S) \in Seq(S) /\ Range(SetToSeq(S)) = S
<1> DEFINE n == Cardinality(S)
<1>1. n \in Nat
  BY FS_CardinalityType
<1>2. \E f : f \in [1..n -> S] /\ IsInjective(f)
  <2>1. ExistsBijection(1..n, S)
    BY FS_NatBijection, FS_CardinalityType
  <2>2. PICK f : f \in Bijection(1..n, S)
    BY <2>1 DEF ExistsBijection
  <2>3. f \in [1..n -> S] /\ \A a, b \in 1..n : f[a] = f[b] => a = b
    BY <2>2 DEF Bijection, Injection, IsInjective
  <2> HIDE DEF n
  <2> QED
    BY <2>3 DEF IsInjective
<1>3. PICK f : f = SetToSeq(S)
  OBVIOUS
<1>4. f \in [1..n -> S] /\ IsInjective(f)
  BY <1>2, <1>3 DEF SetToSeq
<1>5. f \in Injection(1..n, S)
  <2> HIDE DEF n
  <2> QED
    BY <1>4 DEF IsInjective, Injection
<1>6. f \in Surjection(1..n, S)
  <2>1. IsFiniteSet(1..n) /\ Cardinality(1..n) = n
    BY <1>1, FS_Interval
  <2> QED
    BY <1>5, <2>1, FS_Injection
<1>7. Range(f) = S
  <2> HIDE DEF n
  <2> QED
    BY <1>4, <1>6 DEF Surjection, Range
<1>8. f \in Seq(S)
  <2> HIDE DEF n
  <2> QED
    BY <1>1, <1>4
<1> QED
  BY <1>3, <1>7, <1>8

LEMMA RangeFinite == ASSUME NEW S, NEW w \in Seq(S) PROVE IsFiniteSet(Range(w))
<1>1. IsFiniteSet(1..Len(w)) /\ DOMAIN w = 1..Len(w)
  BY FS_Interval
<1>2. w \in Surjection(1..Len(w), Range(w))
  BY <1>1 DEF Surjection, Range
<1> QED
  BY <1>1, <1>2, FS_Surjection

\* The sockets after CreateListeners, when f makes those of the places that are created.
Made(f, created, dropped, life) ==
    [s \in Sockets |->
        IF \E p \in created : f[p] = s
        THEN [life  |-> life, place |-> CHOOSE p \in created : f[p] = s]
        ELSE IF s \in dropped THEN [sock[s] EXCEPT !.life = "dying"]
        ELSE sock[s]]

LEMMA CreatedAre ==
    ASSUME ListInv, NEW w \in Seq(Places), NEW now \in BOOLEAN, CreateListeners(w, now)
    PROVE  \E f, order, new :
              LET created == Needed(w) \ Held
                  free    == {s \in Sockets : sock[s].life = "none"} IN
              /\ f \in [created -> free] /\ IsInjective(f)
              /\ order \in Seq(created) /\ Range(order) = created
              /\ new = Kept(w) \o [i \in 1..Len(order) |-> f[order[i]]]
              /\ sock' = Made(f, created, Dropped(new), IF now THEN "listening" ELSE "bound")
              /\ fListeners' = new
<1> DEFINE created == Needed(w) \ Held
           free    == {s \in Sockets : sock[s].life = "none"}
           order   == SetToSeq(created)
<1>1. IsFiniteSet(created)
  <2>1. created \subseteq Range(w)
    BY DEF Needed
  <2> QED
    BY <2>1, RangeFinite, FS_Subset
<1>2. order \in Seq(created) /\ Range(order) = created
  BY <1>1, AsSequence
<1>3. PICK f : f = CHOOSE g \in [created -> free] : IsInjective(g)
  OBVIOUS
<1>4. \E g \in [created -> free] : IsInjective(g)
  BY DEF CreateListeners
<1>5. f \in [created -> free] /\ IsInjective(f)
  <2> HIDE DEF created, free
  <2> QED
    BY <1>3, <1>4
<1>6. PICK new : new = Kept(w) \o [i \in 1..Len(order) |-> f[order[i]]]
  OBVIOUS
<1>7. /\ sock' = Made(f, created, Dropped(new), IF now THEN "listening" ELSE "bound")
      /\ fListeners' = new
  BY <1>3, <1>6 DEF CreateListeners, Made
<1> QED
  BY <1>2, <1>5, <1>6, <1>7

LEMMA CreateKeeps ==
    ASSUME ListInv, NEW w \in Seq(Places), NEW now \in BOOLEAN, CreateListeners(w, now)
    PROVE  ListInv'
<1> DEFINE created == Needed(w) \ Held
           free    == {s \in Sockets : sock[s].life = "none"}
           life    == IF now THEN "listening" ELSE "bound"
           kept    == {TheOneAt(p) : p \in Range(w) \cap ListedPlaces}
<1>1. PICK f, order, new :
         /\ f \in [created -> free] /\ IsInjective(f)
         /\ order \in Seq(created) /\ Range(order) = created
         /\ new = Kept(w) \o [i \in 1..Len(order) |-> f[order[i]]]
         /\ sock' = Made(f, created, Dropped(new), life)
         /\ fListeners' = new
  BY CreatedAre
<1>2. sought' = Range(w) /\ refused' = Needed(w) \cap Held /\ setting' = setting
  BY DEF CreateListeners
<1> DEFINE made == {f[p] : p \in created}
<1>3. Needed(w) = Range(w) \ ListedPlaces /\ Range(w) \subseteq Places
  <2>1. Range(w) \subseteq Places
    BY DEF Range
  <2> QED
    BY <2>1 DEF Needed, ListedPlaces
<1>4. /\ Kept(w) \in Seq(Sockets) /\ Range(Kept(w)) = kept
      /\ kept \subseteq LiveSockets /\ \A p \in Range(w) \cap ListedPlaces : sock[TheOneAt(p)].place = p
  BY KeptAre, OneAt
<1>5. /\ made \subseteq free /\ free \subseteq Sockets /\ free \cap LiveSockets = {}
      /\ \A p, q \in created : f[p] = f[q] => p = q
  <2>1. \A p, q \in created : f[p] = f[q] => p = q
    <3> HIDE DEF created, free
    <3> QED
      BY <1>1 DEF IsInjective
  <2>2. made \subseteq free
    <3> HIDE DEF created, free
    <3> QED
      BY <1>1
  <2> QED
    BY <2>1, <2>2 DEF LiveSockets
<1> DEFINE extra == [i \in 1..Len(order) |-> f[order[i]]]
<1>6. extra \in Seq(Sockets) /\ Range(extra) = made
  <2>1. Len(order) \in Nat /\ DOMAIN order = 1..Len(order) /\ \A i \in 1..Len(order) : order[i] \in created
    <3> HIDE DEF created
    <3> QED
      BY <1>1
  <2>2. \A p \in created : f[p] \in Sockets
    <3> HIDE DEF created
    <3> QED
      BY <1>5
  <2>3. extra \in Seq(Sockets)
    <3> HIDE DEF created
    <3> QED
      BY <2>1, <2>2
  <2>4. Range(extra) = made
    <3>1. DOMAIN extra = 1..Len(order)
      OBVIOUS
    <3>2. \A p \in created : \E i \in 1..Len(order) : order[i] = p
      <4> HIDE DEF created
      <4> QED
        BY <1>1, <2>1 DEF Range
    <3> HIDE DEF created
    <3> QED
      BY <2>1, <3>1, <3>2 DEF Range
  <2> QED
    BY <2>3, <2>4
<1>19. new = Kept(w) \o extra
  BY <1>1
<1> HIDE DEF extra, kept, made
<1>7. new \in Seq(Sockets) /\ Range(new) = kept \cup made
  BY <1>4, <1>6, <1>19, ConcatRange
<1>8. Dropped(new) = LiveSockets \ (kept \cup made)
  BY <1>7 DEF Dropped, ListInv
<1> HIDE DEF created, free, life, kept, made
<1>9. ASSUME NEW p \in created
      PROVE  /\ f[p] \in Sockets /\ sock'[f[p]] \in SocketRecords
             /\ sock'[f[p]].life = life /\ sock'[f[p]].place = p
  <2>1. f[p] \in Sockets
    BY <1>5 DEF made
  <2>2. (CHOOSE q \in created : f[q] = f[p]) = p
    BY <1>5
  <2>3. sock'[f[p]] = [life |-> life, place |-> p]
    BY <1>1, <2>1, <2>2 DEF Made
  <2>4. p \in Places /\ life \in {"bound", "listening"}
    BY <1>3 DEF created, life
  <2> QED
    BY <2>1, <2>3, <2>4 DEF SocketRecords
<1>10. ASSUME NEW s \in Sockets, s \notin made
       PROVE  sock'[s] = IF s \in LiveSockets \ kept THEN [sock[s] EXCEPT !.life = "dying"] ELSE sock[s]
  <2>1. ~\E p \in created : f[p] = s
    BY <1>10 DEF made
  <2> QED
    BY <1>1, <1>8, <1>10, <2>1 DEF Made
<1>11. sock \in [Sockets -> SocketRecords] /\ created \subseteq Places /\ life \in {"bound", "listening"}
  BY <1>3 DEF ListInv, created, life
<1>12. sock' \in [Sockets -> SocketRecords]
  <2>1. sock' = [s \in Sockets |-> sock'[s]]
    BY <1>1 DEF Made
  <2>2. ASSUME NEW s \in Sockets PROVE sock'[s] \in SocketRecords
    <3>1. CASE s \in made
      <4>1. PICK p \in created : s = f[p]
        BY <3>1 DEF made
      <4> QED
        BY <1>9, <1>11, <4>1 DEF SocketRecords
    <3>2. CASE s \notin made
      <4>1. sock[s] \in SocketRecords
        BY <1>11
      <4>2. [sock[s] EXCEPT !.life = "dying"] \in SocketRecords
        BY <4>1 DEF SocketRecords
      <4> QED
        BY <1>10, <3>2, <4>1, <4>2
    <3> QED
      BY <3>1, <3>2
  <2> QED
    BY <2>1, <2>2
<1>13. LiveSockets' = kept \cup made
  <2>1. ASSUME NEW s \in Sockets, s \in made PROVE sock'[s].life \in {"bound", "listening"}
    <3>1. PICK p \in created : s = f[p]
      BY <2>1 DEF made
    <3> QED
      BY <1>9, <1>11, <3>1
  <2>2. ASSUME NEW s \in Sockets, s \notin made
        PROVE  sock'[s].life \in {"bound", "listening"} <=> s \in kept
    <3>1. sock[s] \in SocketRecords
      BY <1>11
    <3>2. CASE s \in LiveSockets \ kept
      <4>1. sock'[s].life = "dying"
        BY <1>10, <2>2, <3>1, <3>2 DEF SocketRecords
      <4> QED
        BY <3>2, <4>1
    <3>3. CASE s \notin LiveSockets \ kept
      <4>1. sock'[s] = sock[s]
        BY <1>10, <2>2, <3>3
      <4> QED
        BY <1>4, <3>3, <4>1 DEF LiveSockets
    <3> QED
      BY <3>2, <3>3
  <2>3. kept \subseteq Sockets /\ made \subseteq Sockets
    BY <1>4, <1>5 DEF LiveSockets
  <2> QED
    BY <2>1, <2>2, <2>3 DEF LiveSockets
<1>14. ASSUME NEW s \in kept PROVE s \in Sockets /\ s \notin made /\ sock'[s] = sock[s]
  <2>1. s \in Sockets /\ s \notin made
    BY <1>4, <1>5 DEF LiveSockets
  <2> QED
    BY <1>10, <2>1
<1>15. {sock[s].place : s \in LiveSockets}' = sought' \ refused'
  <2>1. ASSUME NEW p, \E s \in kept \cup made : sock'[s].place = p PROVE p \in sought' \ refused'
    <3>1. PICK s \in kept \cup made : sock'[s].place = p
      BY <2>1
    <3>2. CASE s \in kept
      <4>1. PICK q \in Range(w) \cap ListedPlaces : s = TheOneAt(q)
        BY <3>2 DEF kept
      <4>2. p = q
        BY <1>4, <1>14, <3>1, <3>2, <4>1
      <4> QED
        BY <1>2, <1>3, <4>1, <4>2
    <3>3. CASE s \in made
      <4>1. PICK q \in created : s = f[q]
        BY <3>3 DEF made
      <4>2. p = q
        BY <1>9, <3>1, <4>1
      <4> QED
        BY <1>2, <1>3, <4>2 DEF created
    <3> QED
      BY <3>2, <3>3
  <2>2. ASSUME NEW p \in sought' \ refused' PROVE \E s \in kept \cup made : sock'[s].place = p
    <3>1. CASE p \in ListedPlaces
      <4>1. TheOneAt(p) \in kept /\ sock[TheOneAt(p)].place = p
        BY <1>2, <1>4, <3>1 DEF kept
      <4> QED
        BY <1>14, <4>1
    <3>2. CASE p \notin ListedPlaces
      <4>1. p \in created
        BY <1>2, <1>3, <3>2 DEF created
      <4>2. f[p] \in made
        BY <4>1 DEF made
      <4> QED
        BY <1>9, <4>1, <4>2
    <3> QED
      BY <3>1, <3>2
  <2> QED
    BY <1>13, <2>1, <2>2
<1>16. ASSUME NEW s \in kept \cup made, NEW t \in kept \cup made, sock'[s].place = sock'[t].place
       PROVE  s = t
  <2>1. ASSUME NEW u \in made PROVE sock'[u].place \notin ListedPlaces
    <3>1. PICK p \in created : u = f[p]
      BY DEF made
    <3> QED
      BY <1>3, <1>9, <3>1 DEF created
  <2>2. ASSUME NEW u \in kept PROVE sock'[u].place \in ListedPlaces
    <3>1. PICK q \in Range(w) \cap ListedPlaces : u = TheOneAt(q)
      BY DEF kept
    <3> QED
      BY <1>4, <1>14, <3>1
  <2>3. CASE s \in kept /\ t \in kept
    <3>1. s \in LiveSockets /\ t \in LiveSockets /\ sock[s].place = sock[t].place
      BY <1>4, <1>14, <1>16, <2>3
    <3> QED
      BY <3>1 DEF ListInv
  <2>4. CASE s \in made /\ t \in made
    <3>1. PICK p \in created : s = f[p]
      BY <2>4 DEF made
    <3>2. PICK q \in created : t = f[q]
      BY <2>4 DEF made
    <3> QED
      BY <1>9, <1>16, <3>1, <3>2
  <2> QED
    BY <1>16, <2>1, <2>2, <2>3, <2>4
<1>17. setting' \in Settings /\ fListeners' \in Seq(Sockets) /\ LiveSockets' = Range(fListeners')
  BY <1>1, <1>2, <1>7, <1>13 DEF ListInv
<1>18. \A s, t \in LiveSockets' : sock'[s].place = sock'[t].place => s = t
  BY <1>13, <1>16
<1> QED
  BY <1>12, <1>15, <1>17, <1>18 DEF ListInv

LEMMA NoSocketType == Places # {} => NoSocket \in SocketRecords /\ NoSocket.life = "none"
BY DEF NoSocket, SocketRecords

\* Steps after which the same sockets live at the same places.
LEMMA SameListeners ==
    ASSUME ListInv, setting' \in Settings, UNCHANGED <<fListeners, sought, refused>>,
           sock' \in [Sockets -> SocketRecords],
           \A s \in Sockets : sock'[s].life \in {"bound", "listening"} <=> s \in LiveSockets,
           \A s \in LiveSockets : sock'[s].place = sock[s].place
    PROVE  ListInv'
<1>1. LiveSockets' = LiveSockets
  BY DEF LiveSockets
<1>2. {sock[s].place : s \in LiveSockets}' = {sock[s].place : s \in LiveSockets}
  BY <1>1
<1> QED
  BY <1>1, <1>2 DEF ListInv

LEMMA StartKeeps == ASSUME ListInv, StartListening PROVE ListInv'
<1>1. /\ sock' = [s \in Sockets |-> IF s \in LiveSockets
                                    THEN [sock[s] EXCEPT !.life = "listening"] ELSE sock[s]]
      /\ UNCHANGED <<setting, fListeners, sought, refused>>
  BY DEF StartListening, ListInv
<1>2. ASSUME NEW s \in Sockets
      PROVE  /\ sock'[s] \in SocketRecords /\ sock'[s].place = sock[s].place
             /\ sock'[s].life \in {"bound", "listening"} <=> s \in LiveSockets
  <2>1. sock[s] \in SocketRecords
    BY DEF ListInv
  <2>2. CASE s \in LiveSockets
    <3>1. sock'[s] = [sock[s] EXCEPT !.life = "listening"]
      BY <1>1, <2>2
    <3> QED
      BY <2>1, <2>2, <3>1 DEF SocketRecords
  <2>3. CASE s \notin LiveSockets
    BY <1>1, <2>1, <2>3 DEF LiveSockets
  <2> QED
    BY <2>2, <2>3
<1>3. sock' \in [Sockets -> SocketRecords]
  <2>1. sock' = [s \in Sockets |-> sock'[s]]
    BY <1>1
  <2> QED
    BY <1>2, <2>1
<1>4. LiveSockets \subseteq Sockets /\ setting' \in Settings
  BY <1>1 DEF ListInv, LiveSockets
<1> QED
  BY <1>1, <1>2, <1>3, <1>4, SameListeners

LEMMA DiesKeeps == ASSUME ListInv, NEW x \in Sockets, ListenerDies(x) PROVE ListInv'
<1>1. /\ sock[x].life = "dying" /\ sock' = [sock EXCEPT ![x] = NoSocket]
      /\ UNCHANGED <<setting, fListeners, sought, refused>>
  BY DEF ListenerDies
<1>2. sock \in [Sockets -> SocketRecords] /\ setting \in Settings
  BY DEF ListInv
<1>3. sock[x] \in SocketRecords /\ Places # {}
  BY <1>2 DEF SocketRecords
<1>4. NoSocket \in SocketRecords /\ NoSocket.life = "none"
  BY <1>3, NoSocketType
<1>5. sock' \in [Sockets -> SocketRecords] /\ x \notin LiveSockets
  BY <1>1, <1>2, <1>4 DEF LiveSockets
<1>6. ASSUME NEW s \in Sockets
      PROVE  /\ sock'[s].life \in {"bound", "listening"} <=> s \in LiveSockets
             /\ s \in LiveSockets => sock'[s].place = sock[s].place
  <2>1. CASE s = x
    BY <1>1, <1>2, <1>4, <1>5, <2>1
  <2>2. CASE s # x
    BY <1>1, <1>2, <2>2 DEF LiveSockets
  <2> QED
    BY <2>1, <2>2
<1>7. LiveSockets \subseteq Sockets
  BY DEF LiveSockets
<1> QED
  BY <1>1, <1>2, <1>5, <1>6, <1>7, SameListeners

\* The rest leaves the listeners alone.
LEMMA UnchangedKeeps ==
    ASSUME ListInv, setting' \in Settings, UNCHANGED <<sock, fListeners, sought, refused>>
    PROVE  ListInv'
<1>1. LiveSockets' = LiveSockets
  BY DEF LiveSockets
<1> QED
  BY <1>1 DEF ListInv

\* A process that has no listeners.
LEMMA ClosedInv ==
    ASSUME setting \in Settings, sock = [s \in Sockets |-> NoSocket], fListeners = <<>>,
           sought = {}, refused = {}
    PROVE  ListInv
<1>1. ASSUME NEW s \in Sockets PROVE sock[s] \in SocketRecords /\ sock[s].life = "none"
  BY NoSocketType, ListenerAssumption
<1>2. sock \in [Sockets -> SocketRecords] /\ LiveSockets = {}
  BY <1>1 DEF LiveSockets
<1>3. Range(fListeners) = {} /\ fListeners \in Seq(Sockets)
  BY DEF Range
<1> QED
  BY <1>2, <1>3 DEF ListInv

LEMMA CloseKeeps == ASSUME ListInv, CloseListeners PROVE ListInv'
<1>1. ASSUME NEW s \in Sockets PROVE NoSocket \in SocketRecords /\ NoSocket.life = "none"
  BY NoSocketType, ListenerAssumption
<1>2. sock' = [s \in Sockets |-> NoSocket] /\ fListeners' = <<>> /\ sought' = {} /\ refused' = {}
         /\ setting' = setting
  BY DEF CloseListeners
<1>3. sock' \in [Sockets -> SocketRecords] /\ LiveSockets' = {}
  BY <1>1, <1>2 DEF LiveSockets
<1>4. Range(fListeners') = {} /\ fListeners' \in Seq(Sockets)
  BY <1>2 DEF Range
<1> QED
  BY <1>2, <1>3, <1>4 DEF ListInv

LEMMA ControlStart == ControlInit => ListInv
BY ClosedInv DEF ControlInit, ListenerInit

LEMMA OpenKeeps == ASSUME ListInv, OpenListeners \/ RereadListeners PROVE ListInv'
<1>1. setting \in Seq(Places) /\ Override \in Seq(Places)
  BY ListenerAssumption DEF ListInv
<1>2. CASE OpenListeners
  <2>1. (IF Override # <<>> THEN Override ELSE setting) \in Seq(Places)
    BY <1>1
  <2> QED
    BY <1>2, <2>1, CreateKeeps DEF OpenListeners
<1>3. CASE RereadListeners
  BY <1>1, <1>3, CreateKeeps DEF RereadListeners
<1> QED
  BY <1>2, <1>3

LEMMA ControlStep == ListInv /\ [ControlNext]_controlVars => ListInv'
<1> SUFFICES ASSUME ListInv, [ControlNext]_controlVars PROVE ListInv'
  OBVIOUS
<1>1. ASSUME UNCHANGED listenerVars PROVE ListInv'
  <2>1. setting' \in Settings
    BY <1>1 DEF ListInv, listenerVars
  <2> QED
    BY <1>1, <2>1, UnchangedKeeps DEF listenerVars
<1>2. ASSUME NEW how, NEW status, Ends(how, status) PROVE ListInv'
  BY <1>2, CloseKeeps DEF Ends
<1>3. CASE Fork \/ RecordChild \/ WaitReturns \/ NoRestart \/ Detach \/ CreateServer
  BY <1>1, <1>3 DEF Fork, RecordChild, WaitReturns, NoRestart, Detach, CreateServer
<1>4. CASE Initialize
  BY <1>2, <1>4, OpenKeeps DEF Initialize
<1>5. CASE StartServing
  BY <1>2, <1>5, StartKeeps DEF StartServing
<1>6. CASE RereadTask
  BY <1>1, <1>6, OpenKeeps DEF RereadTask
<1>7. CASE DoIdle
  BY <1>1, <1>2, <1>7 DEF DoIdle
<1>8. CASE ChildCrashes
  BY <1>2, <1>8 DEF ChildCrashes
<1>9. ASSUME NEW sig \in Signals, Send(sig) \/ ParentCatches(sig) PROVE ListInv'
  BY <1>1, <1>9 DEF Send, ParentCatches
<1>10. ASSUME NEW sig \in Signals, ChildCatches(sig) PROVE ListInv'
  BY <1>1, <1>2, <1>10 DEF ChildCatches
<1>11. CASE Outside
  <2>1. ASSUME NEW s \in Sockets, ListenerDies(s) PROVE ListInv'
    BY <2>1, DiesKeeps
  <2>2. ASSUME NEW w \in Settings, EditSetting(w) PROVE ListInv'
    BY <2>2, UnchangedKeeps DEF EditSetting
  <2>3. ASSUME NEW p \in Places, OtherProgram(p) PROVE ListInv'
    <3>1. setting' \in Settings /\ UNCHANGED <<sock, fListeners, sought, refused>>
      BY <2>3 DEF OtherProgram, ListInv
    <3> QED
      BY <3>1, UnchangedKeeps
  <2> QED
    BY <1>11, <2>1, <2>2, <2>3 DEF Outside
<1>12. CASE UNCHANGED controlVars
  BY <1>1, <1>12 DEF controlVars
<1> QED
  BY <1>3, <1>4, <1>5, <1>6, <1>7, <1>8, <1>9, <1>10, <1>11, <1>12 DEF ControlNext

\* For any places and settings, whatever the two processes, their signals and other programs do:
\* the server listens where its preferences said when they were last read, unless the place was
\* held by somebody, once at each place, and nowhere else (CreateListeners).
THEOREM ListensAsConfigured == ControlSpec => []AsConfigured
<1>1. ListInv => AsConfigured
  <2> SUFFICES ASSUME ListInv
               PROVE  Cardinality(LiveSockets) = Cardinality(sought \ refused)
    BY DEF AsConfigured, LiveSockets, ListInv
  <2>1. IsFiniteSet(LiveSockets)
    BY RangeFinite DEF ListInv
  <2> DEFINE at == [s \in LiveSockets |-> sock[s].place]
  <2>2. at \in Bijection(LiveSockets, sought \ refused)
    BY DEF ListInv, Bijection, Injection, IsInjective, Surjection
  <2>3. ExistsBijection(LiveSockets, sought \ refused)
    BY <2>2 DEF ExistsBijection
  <2> QED
    BY <2>1, <2>3, FS_Bijection
<1> QED
  BY <1>1, ControlStart, ControlStep, PTL DEF ControlSpec

=============================================================================
