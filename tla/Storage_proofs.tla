---------------------------- MODULE Storage_proofs ----------------------------
(***************************************************************************)
(* Theorems about what the server stores: the attributes of a dictionary,  *)
(* the access log, and the preferences.                                    *)
(*                                                                         *)
(* ValuesKept and MemoryKept need the whole shape of the memory: whether   *)
(* the values are in the block or in blocks of their own that it points    *)
(* to, each to another, and that nothing else is in use.                   *)
(*                                                                         *)
(* LogWhole needs that every file has a name, unless the last number of a  *)
(* day was used up; that what an object has open is a file; that an entry  *)
(* went into one file when it was written, or a file was made for it then; *)
(* and that what the files hold is older than the next entry, so that the  *)
(* file to which it is appended stays in order.                            *)
(*                                                                         *)
(* FileFollowsValues and RereadFollowsFile need that there is one entry in *)
(* the map for a name and a type, with those that were removed, and one    *)
(* that is in use for a name; that the count of the map is that of the     *)
(* entries in use, so that every one of them is seen when the missing ones *)
(* are removed; and that an element is once in a file.                     *)
(***************************************************************************)
EXTENDS AttributeStore, RollingLog, Preferences, DataLemmas, SequenceTheorems

-----------------------------------------------------------------------------
(* The attribute in memory.                                               *)

CellValues == Contents \cup Blocks \cup {Nothing}
SlotRecords == [num : 0..MaxValues, ptr : Blocks \cup {External, Nothing}, len : Nat, alloc : Nat,
                internal : BOOLEAN]
Heaps    == UNION {[D -> Cells] : D \in SUBSET (Blocks \cup {External})}
Memories == [slot : SlotRecords, heap : Heaps, stray : BOOLEAN]

LEMMA StoreConstants ==
    /\ MaxValues \in Nat \ {0} /\ FirstPointers \in Nat /\ FirstPointers >= 2 /\ Supplied \in Nat
    /\ \A v \in Contents : Size[v] \in Nat \ {0}
    /\ External \notin Blocks /\ Nothing \notin Blocks /\ External # Nothing
    /\ External \notin Contents /\ Nothing \notin Contents
BY StoreAssumption

LEMMA HeapParts ==
    ASSUME NEW h \in Heaps
    PROVE  /\ DOMAIN h \subseteq Blocks \cup {External}
           /\ \A b \in DOMAIN h : h[b] \in Cells
           /\ h = [b \in DOMAIN h |-> h[b]]
<1>1. PICK D \in SUBSET (Blocks \cup {External}) : h \in [D -> Cells]
  BY DEF Heaps
<1> QED
  BY <1>1

LEMMA HeapWhole ==
    ASSUME NEW D, D \subseteq Blocks \cup {External}, NEW h, h = [b \in D |-> h[b]],
           \A b \in D : h[b] \in Cells
    PROVE  h \in Heaps
<1>1. h \in [D -> Cells]
  BY Zenon
<1> QED
  BY <1>1 DEF Heaps

LEMMA NewBlockType == NewBlock \in Cells
BY DEF NewBlock, Cells

LEMMA MemoryParts ==
    ASSUME NEW m \in Memories
    PROVE  /\ m.slot \in SlotRecords /\ m.heap \in Heaps /\ m.stray \in BOOLEAN
           /\ m.slot.num \in 0..MaxValues /\ m.slot.ptr \in Blocks \cup {External, Nothing}
           /\ m.slot.len \in Nat /\ m.slot.alloc \in Nat /\ m.slot.internal \in BOOLEAN
BY DEF Memories, SlotRecords

\* What the operations on blocks do.
LEMMA NewIs ==
    ASSUME NEW m \in Memories, NEW b \in Blocks, NEW cells \in Cells, NEW r, r = New(m, b, cells)
    PROVE  /\ r \in Memories /\ r.slot = m.slot /\ r.stray = m.stray
           /\ DOMAIN r.heap = DOMAIN m.heap \cup {b} /\ r.heap[b] = cells
           /\ \A x \in DOMAIN m.heap : x # b => r.heap[x] = m.heap[x]
<1> DEFINE h == [x \in DOMAIN m.heap \cup {b} |-> IF x = b THEN cells ELSE m.heap[x]]
<1>1. r = [m EXCEPT !.heap = h]
  BY DEF New
<1>2. h \in Heaps
  <2>1. DOMAIN m.heap \subseteq Blocks \cup {External} /\ \A x \in DOMAIN m.heap : m.heap[x] \in Cells
    BY MemoryParts, HeapParts
  <2>2. h = [x \in DOMAIN m.heap \cup {b} |-> h[x]] /\ \A x \in DOMAIN m.heap \cup {b} : h[x] \in Cells
    BY <2>1
  <2> HIDE DEF h
  <2> QED
    BY <2>1, <2>2, HeapWhole
<1>3. r \in Memories /\ r.slot = m.slot /\ r.stray = m.stray /\ r.heap = h
  <2> HIDE DEF h
  <2> QED
    BY <1>1, <1>2 DEF Memories
<1> QED
  BY <1>3

LEMMA DeleteIs ==
    ASSUME NEW m \in Memories, NEW b \in DOMAIN m.heap, b # External, NEW r, r = Delete(m, b)
    PROVE  /\ r \in Memories /\ r.slot = m.slot /\ r.stray = m.stray
           /\ DOMAIN r.heap = DOMAIN m.heap \ {b}
           /\ \A x \in DOMAIN m.heap : x # b => r.heap[x] = m.heap[x]
<1> DEFINE D == DOMAIN m.heap \ {b}
           h == [x \in D |-> m.heap[x]]
<1>1. r = [m EXCEPT !.heap = h, !.stray = m.stray \/ b \notin DOMAIN m.heap \ {External}]
  BY DEF Delete, Restrict
<1>2. h \in Heaps
  <2>1. D \subseteq Blocks \cup {External} /\ \A x \in D : m.heap[x] \in Cells
    BY MemoryParts, HeapParts
  <2>2. h = [x \in D |-> h[x]] /\ \A x \in D : h[x] \in Cells
    BY <2>1
  <2> HIDE DEF h, D
  <2> QED
    BY <2>1, <2>2, HeapWhole
<1>3. (m.stray \/ b \notin DOMAIN m.heap \ {External}) = m.stray
  BY MemoryParts
<1>4. r \in Memories /\ r.slot = m.slot /\ r.stray = m.stray /\ r.heap = h
  <2> HIDE DEF h
  <2> QED
    BY <1>1, <1>2, <1>3 DEF Memories
<1> QED
  BY <1>4

LEMMA SetCellIs ==
    ASSUME NEW m \in Memories, NEW k \in 1..MaxValues, NEW x \in CellValues,
           m.slot.ptr \in DOMAIN m.heap, NEW r, r = SetCell(m, k, x)
    PROVE  /\ r \in Memories /\ r.slot = m.slot /\ r.stray = m.stray
           /\ DOMAIN r.heap = DOMAIN m.heap /\ r.heap[m.slot.ptr][k] = x
           /\ \A b \in DOMAIN m.heap : b # m.slot.ptr => r.heap[b] = m.heap[b]
           /\ \A j \in 1..MaxValues : j # k => r.heap[m.slot.ptr][j] = m.heap[m.slot.ptr][j]
<1> DEFINE p == m.slot.ptr
           D == DOMAIN m.heap
           h == [b \in D |-> IF b = p THEN [m.heap[b] EXCEPT ![k] = x] ELSE m.heap[b]]
<1>1. r = [m EXCEPT !.heap = h]
  BY DEF SetCell
<1>2. \A b \in D : m.heap[b] \in [1..MaxValues -> CellValues]
  BY MemoryParts, HeapParts DEF Cells, CellValues
<1>3. [m.heap[p] EXCEPT ![k] = x] \in [1..MaxValues -> CellValues]
  BY <1>2
<1>4. h \in Heaps
  <2>1. h = [b \in D |-> h[b]] /\ \A b \in D : h[b] \in Cells
    BY <1>2, <1>3 DEF Cells, CellValues
  <2>2. D \subseteq Blocks \cup {External}
    BY MemoryParts, HeapParts
  <2> HIDE DEF h, D
  <2> QED
    BY <2>1, <2>2, HeapWhole
<1>5. r \in Memories /\ r.slot = m.slot /\ r.stray = m.stray /\ r.heap = h
  <2> HIDE DEF h
  <2> QED
    BY <1>1, <1>4 DEF Memories
<1>6. r.heap[p][k] = x /\ \A j \in 1..MaxValues : j # k => r.heap[p][j] = m.heap[p][j]
  BY <1>2, <1>5
<1> QED
  BY <1>5, <1>6

-----------------------------------------------------------------------------
(* What the attribute looks like in memory. *)

ValuesOf(kd) == IF kd = "object" THEN Blocks ELSE Contents

Piece(m, k) == m.heap[m.slot.ptr][k]

\* The values lie in the block itself.
Flat(kd, m, q) ==
    /\ m \in Memories /\ q \in Seq(Contents) /\ ~m.stray /\ m.slot.num = Len(q)
    /\ DOMAIN m.heap = {External, m.slot.ptr} \ {Nothing}
    /\ m.slot.internal <=> m.slot.ptr \in Blocks
    /\ m.slot.ptr = Nothing => m.slot.alloc = 0 /\ Len(q) = 0
    /\ m.slot.len # 0 <=> Len(q) > 0
    /\ kd = "fixed" => m.slot.len <= m.slot.alloc
    /\ \A k \in 1..Len(q) : Piece(m, k) = q[k]

\* The block is an array of pointers to blocks of their own; the blocks X are not in it yet.
Listed(kd, m, q, X) ==
    /\ m \in Memories /\ q \in Seq(ValuesOf(kd)) /\ ~m.stray /\ m.slot.num = Len(q)
    /\ m.slot.ptr \in Blocks \cup {Nothing}
    /\ m.slot.internal <=> m.slot.ptr # Nothing
    /\ m.slot.ptr = Nothing => m.slot.alloc = 0 /\ Len(q) = 0
    /\ m.slot.len # 0 <=> Len(q) > 0
    /\ X \subseteq Blocks /\ m.slot.ptr \notin X
    /\ DOMAIN m.heap = ({External, m.slot.ptr} \ {Nothing}) \cup {Piece(m, k) : k \in 1..Len(q)} \cup X
    /\ \A k \in 1..Len(q) : Piece(m, k) \in Blocks /\ Piece(m, k) # m.slot.ptr /\ Piece(m, k) \notin X
    /\ \A j, k \in 1..Len(q) : Piece(m, j) = Piece(m, k) => j = k
    /\ \A k \in 1..Len(q) : q[k] = IF kd = "string" THEN m.heap[Piece(m, k)][1] ELSE Piece(m, k)

AreListed(kd, q) == kd = "object" \/ (kd = "string" /\ Len(q) > 1)

Rep(kd, m, q) == IF AreListed(kd, q) THEN Listed(kd, m, q, {}) ELSE Flat(kd, m, q)

-----------------------------------------------------------------------------
(* There is a block that is free. *)

UsesOnly(D, n, c, a, b) == D \subseteq {External, a, b} \cup {c[k] : k \in 1..n}
HasRoom(D)              == \E x \in Blocks : x \notin D

LEMMA Room ==
    ASSUME NEW D, NEW n \in 0..MaxValues, NEW c, NEW a, NEW b, n = MaxValues => a = b,
           UsesOnly(D, n, c, a, b)
    PROVE  HasRoom(D)
<1> DEFINE j == IF a = b THEN n + 1 ELSE n + 2
           f == [k \in 1..j |-> IF k <= n THEN c[k] ELSE IF k = n + 1 THEN a ELSE b]
           S == {f[k] : k \in 1..j}
<1>1. j \in Nat /\ j <= MaxValues + 1 /\ n \in Nat
  BY StoreConstants
<1>0. D \subseteq {External, a, b} \cup {c[k] : k \in 1..n}
  BY DEF UsesOnly
<1>2. D \ {External} \subseteq S
  <2> SUFFICES ASSUME NEW x \in D, x # External
               PROVE  \E k \in 1..j : f[k] = x
    OBVIOUS
  <2>1. CASE \E k \in 1..n : c[k] = x
    BY <2>1, <1>1
  <2>2. CASE x = a
    <3>1. n + 1 \in 1..j /\ f[n + 1] = x
      BY <2>2, <1>1
    <3> QED
      BY <3>1
  <2>3. CASE x = b /\ a # b
    <3>1. n + 2 \in 1..j /\ f[n + 2] = x
      BY <2>3, <1>1
    <3> QED
      BY <3>1
  <2> QED
    BY <1>0, <2>1, <2>2, <2>3
<1>3. IsFiniteSet(S) /\ Cardinality(S) <= j
  <2>1. IsFiniteSet(1..j) /\ Cardinality(1..j) = j
    BY <1>1, FS_Interval
  <2>2. f \in Surjection(1..j, S)
    BY DEF Surjection
  <2> HIDE DEF f, S, j
  <2> QED
    BY <2>1, <2>2, FS_Surjection
<1>4. SUFFICES ASSUME Blocks \subseteq D
               PROVE  FALSE
  BY DEF HasRoom
<1>5. Blocks \subseteq S
  BY <1>2, <1>4, StoreConstants
<1>6. IsFiniteSet(Blocks) /\ Cardinality(Blocks) <= Cardinality(S)
  BY <1>3, <1>5, FS_Subset
<1>7. Cardinality(Blocks) >= MaxValues + 2
  BY <1>6, StoreAssumption
<1>8. Cardinality(Blocks) \in Nat /\ Cardinality(S) \in Nat
  BY <1>3, <1>6, FS_CardinalityType
<1>9. MaxValues \in Nat
  BY StoreConstants
<1>10. Cardinality(Blocks) <= j
  <2> HIDE DEF j, f, S
  <2> QED
    BY <1>1, <1>3, <1>6, <1>8
<1> HIDE DEF j, f, S
<1> QED
  BY <1>1, <1>7, <1>8, <1>9, <1>10

LEMMA RoomOne ==
    ASSUME NEW D, NEW n \in 0..MaxValues, NEW c, NEW a,
           UsesOnly(D, n, c, a, a)
    PROVE  HasRoom(D)
BY Room

LEMMA FreshIs ==
    ASSUME NEW h, HasRoom(DOMAIN h)
    PROVE  Fresh(h) \in Blocks /\ Fresh(h) \notin DOMAIN h
BY DEF Fresh, HasRoom

LEMMA FlatRoom ==
    ASSUME NEW kd, NEW m, NEW q, Flat(kd, m, q)
    PROVE  Fresh(m.heap) \in Blocks /\ Fresh(m.heap) \notin DOMAIN m.heap
<1>1. UsesOnly(DOMAIN m.heap, 0, q, m.slot.ptr, m.slot.ptr)
  BY DEF Flat, UsesOnly
<1>2. 0 \in 0..MaxValues
  BY StoreConstants
<1> QED
  BY <1>1, <1>2, RoomOne, FreshIs

\* At most one block waits.
MayGrow(q, X) == X = {} \/ (Len(q) < MaxValues /\ \E x : X = {x})

LEMMA ListedRoom ==
    ASSUME NEW kd, NEW m, NEW q, NEW X, Listed(kd, m, q, X), MayGrow(q, X)
    PROVE  Fresh(m.heap) \in Blocks /\ Fresh(m.heap) \notin DOMAIN m.heap
<1> DEFINE n == Len(q)
           c == [k \in 1..n |-> Piece(m, k)]
<1>1. n \in 0..MaxValues
  BY MemoryParts DEF Listed
<1>2. DOMAIN m.heap \subseteq {External, m.slot.ptr} \cup {c[k] : k \in 1..n} \cup X
  BY DEF Listed
<1> HIDE DEF n, c
<1>3. CASE X = {}
  <2>1. UsesOnly(DOMAIN m.heap, n, c, m.slot.ptr, m.slot.ptr)
    BY <1>2, <1>3 DEF UsesOnly
  <2>2. HasRoom(DOMAIN m.heap)
    BY <1>1, <2>1, RoomOne
  <2> QED
    BY <2>2, FreshIs
<1>4. CASE n < MaxValues /\ \E x : X = {x}
  <2>1. PICK x : X = {x}
    BY <1>4
  <2>2. UsesOnly(DOMAIN m.heap, n, c, m.slot.ptr, x)
    BY <1>2, <2>1 DEF UsesOnly
  <2>3. n # MaxValues
    BY <1>1, <1>4, StoreConstants
  <2> QED
    BY <1>1, <2>2, <2>3, Room, FreshIs
<1> QED
  BY <1>3, <1>4 DEF n, MayGrow

-----------------------------------------------------------------------------
(* A list grows. *)

\* A new block that is not in the array yet.
WithNew(kd, m, q, s, cells, r) ==
    /\ s \in Blocks /\ s \notin DOMAIN m.heap /\ r.heap[s] = cells /\ Listed(kd, r, q, {s})
    /\ r.slot = m.slot

LEMMA NewListed ==
    ASSUME NEW kd, NEW m, NEW q, Listed(kd, m, q, {}), NEW cells \in Cells,
           NEW s, s = Fresh(m.heap), NEW r, r = New(m, s, cells)
    PROVE  WithNew(kd, m, q, s, cells, r)
<1>1. s \in Blocks /\ s \notin DOMAIN m.heap
  BY ListedRoom DEF MayGrow
<1>2. /\ r \in Memories /\ r.slot = m.slot /\ r.stray = m.stray
      /\ DOMAIN r.heap = DOMAIN m.heap \cup {s} /\ r.heap[s] = cells
      /\ \A x \in DOMAIN m.heap : x # s => r.heap[x] = m.heap[x]
  BY <1>1, NewIs DEF Listed
<1>3. \A k \in 1..Len(q) :
        /\ Piece(r, k) = Piece(m, k) /\ r.heap[Piece(m, k)] = m.heap[Piece(m, k)]
        /\ Piece(m, k) # s
  <2> TAKE k \in 1..Len(q)
  <2>1. m.slot.ptr \in DOMAIN m.heap /\ Piece(m, k) \in DOMAIN m.heap
    BY DEF Listed
  <2> QED
    BY <1>1, <1>2, <2>1 DEF Piece
<1>4. m.slot.ptr # s
  BY <1>1, StoreConstants DEF Listed
<1>5. DOMAIN r.heap = ({External, m.slot.ptr} \ {Nothing}) \cup {Piece(r, k) : k \in 1..Len(q)} \cup {s}
  <2>1. {Piece(r, k) : k \in 1..Len(q)} = {Piece(m, k) : k \in 1..Len(q)}
    BY <1>3
  <2> QED
    BY <1>2, <2>1 DEF Listed
<1>6. Listed(kd, r, q, {s})
  BY <1>1, <1>2, <1>3, <1>4, <1>5 DEF Listed
<1> QED
  BY <1>1, <1>2, <1>6 DEF WithNew

\* What Enlarged does when the block is too small.
LEMMA EnlargedIs ==
    ASSUME NEW m \in Memories, NEW i \in Nat, NEW width \in Nat,
           ~(width * (i + 1) <= m.slot.alloc),
           m.slot.internal => m.slot.ptr \in DOMAIN m.heap /\ m.slot.ptr # External,
           NEW b, b = Fresh(m.heap), b \in Blocks, b \notin DOMAIN m.heap,
           NEW r, r = Enlarged(m, i, width)
    PROVE  /\ r \in Memories /\ r.stray = m.stray /\ r.slot.num = m.slot.num
           /\ r.slot.len = m.slot.len /\ r.slot.ptr = b /\ r.slot.internal
           /\ r.slot.alloc >= width
           /\ DOMAIN r.heap =
                (DOMAIN m.heap \ (IF m.slot.internal THEN {m.slot.ptr} ELSE {})) \cup {b}
           /\ \A x \in DOMAIN r.heap : x # b => r.heap[x] = m.heap[x]
           /\ i > 0 /\ m.slot.ptr \in DOMAIN m.heap => r.heap[b] = m.heap[m.slot.ptr]
<1> DEFINE cells == IF i > 0 THEN CellsOf(m, m.slot.ptr) ELSE NewBlock
           m1 == New(m, b, cells)
           m2 == IF m.slot.internal THEN Delete(m1, m.slot.ptr) ELSE m1
           alloc == IF i = 0 THEN width ELSE 2 * width * (i + 1)
<1>1. r = [m2 EXCEPT !.slot = [@ EXCEPT !.ptr = b, !.internal = TRUE, !.alloc = alloc]]
  BY DEF Enlarged
<1>2. cells \in Cells /\ (i > 0 /\ m.slot.ptr \in DOMAIN m.heap => cells = m.heap[m.slot.ptr])
  BY MemoryParts, HeapParts, NewBlockType DEF CellsOf
<1>3. alloc \in Nat /\ alloc >= width
  <2>1. CASE i = 0
    BY <2>1
  <2>2. CASE i # 0
    <3>1. width * (i + 1) \in Nat /\ 2 * width * (i + 1) = 2 * (width * (i + 1))
      BY Z3
    <3>2. width * (i + 1) = width * i + width /\ width * i \in Nat
      BY Z3
    <3> QED
      BY <2>2, <3>1, <3>2
  <2> QED
    BY <2>1, <2>2
<1> HIDE DEF cells, alloc
<1>4. /\ m1 \in Memories /\ m1.slot = m.slot /\ m1.stray = m.stray
      /\ DOMAIN m1.heap = DOMAIN m.heap \cup {b} /\ m1.heap[b] = cells
      /\ \A x \in DOMAIN m.heap : x # b => m1.heap[x] = m.heap[x]
  BY <1>2, NewIs
<1> HIDE DEF m1
<1>5. /\ m2 \in Memories /\ m2.slot = m.slot /\ m2.stray = m.stray
      /\ DOMAIN m2.heap = (DOMAIN m.heap \ (IF m.slot.internal THEN {m.slot.ptr} ELSE {})) \cup {b}
      /\ m2.heap[b] = cells
      /\ \A x \in DOMAIN m2.heap : x # b => m2.heap[x] = m.heap[x]
  <2>1. CASE ~m.slot.internal
    BY <1>4, <2>1
  <2>2. CASE m.slot.internal
    <3>1. m2 = Delete(m1, m.slot.ptr) /\ m.slot.ptr \in DOMAIN m1.heap /\ m.slot.ptr # External
          /\ m.slot.ptr # b
      BY <1>4, <2>2
    <3>2. /\ m2 \in Memories /\ m2.slot = m1.slot /\ m2.stray = m1.stray
          /\ DOMAIN m2.heap = DOMAIN m1.heap \ {m.slot.ptr}
          /\ \A x \in DOMAIN m1.heap : x # m.slot.ptr => m2.heap[x] = m1.heap[x]
      <4> HIDE DEF m2
      <4> QED
        BY <1>4, <3>1, DeleteIs
    <3> HIDE DEF m2
    <3> QED
      BY <1>4, <2>2, <3>1, <3>2
  <2> QED
    BY <2>1, <2>2
<1> HIDE DEF m2
<1>6. r.heap = m2.heap /\ r.stray = m2.stray
      /\ r.slot = [m.slot EXCEPT !.ptr = b, !.internal = TRUE, !.alloc = alloc]
  BY <1>1, <1>5 DEF Memories
<1>7. r \in Memories /\ r.slot.num = m.slot.num /\ r.slot.len = m.slot.len /\ r.slot.ptr = b
      /\ r.slot.internal /\ r.slot.alloc = alloc
  <2>1. /\ r.slot \in SlotRecords /\ r.slot.num = m.slot.num /\ r.slot.len = m.slot.len
        /\ r.slot.ptr = b /\ r.slot.internal /\ r.slot.alloc = alloc
    BY <1>3, <1>6, MemoryParts DEF SlotRecords
  <2> QED
    BY <1>1, <1>5, <1>6, <2>1 DEF Memories
<1> QED
  BY <1>2, <1>3, <1>5, <1>6, <1>7

\* The old cells are copied, or stay where they are.
Keeps(m, q, i, width) == i > 0 \/ Len(q) = 0 \/ width * (i + 1) <= m.slot.alloc

LEMMA EnlargedListed ==
    ASSUME NEW kd, NEW m, NEW q, NEW X, Listed(kd, m, q, X),
           MayGrow(q, X), NEW i \in Nat, NEW width \in Nat \ {0}, NEW r, r = Enlarged(m, i, width),
           Keeps(m, q, i, width)
    PROVE  /\ Listed(kd, r, q, X) /\ r.slot.ptr \in Blocks /\ \A x \in X : r.heap[x] = m.heap[x]
<1>1. CASE width * (i + 1) <= m.slot.alloc
  <2>1. r = m
    BY <1>1 DEF Enlarged
  <2>2. width * (i + 1) = width * i + width /\ width * i \in Nat
    BY Z3
  <2>3. m.slot.alloc # 0
    BY <1>1, <2>2, MemoryParts DEF Listed
  <2> QED
    BY <2>1, <2>3 DEF Listed
<1>2. CASE ~(width * (i + 1) <= m.slot.alloc)
  <2> DEFINE b == Fresh(m.heap)
             p == m.slot.ptr
  <2>1. b \in Blocks /\ b \notin DOMAIN m.heap
    BY ListedRoom
  <2>2. m \in Memories /\ (m.slot.internal => p \in DOMAIN m.heap /\ p # External)
    BY StoreConstants DEF Listed
  <2> HIDE DEF b
  <2>3. /\ r \in Memories /\ r.stray = m.stray /\ r.slot.num = m.slot.num
        /\ r.slot.len = m.slot.len /\ r.slot.ptr = b /\ r.slot.internal
        /\ DOMAIN r.heap = (DOMAIN m.heap \ (IF m.slot.internal THEN {p} ELSE {})) \cup {b}
        /\ \A x \in DOMAIN r.heap : x # b => r.heap[x] = m.heap[x]
        /\ i > 0 /\ p \in DOMAIN m.heap => r.heap[b] = m.heap[p]
    BY <1>2, <2>1, <2>2, EnlargedIs DEF b
  <2>4. \A k \in 1..Len(q) : Piece(r, k) = Piece(m, k)
    <3> TAKE k \in 1..Len(q)
    <3>1. Len(q) # 0 /\ i > 0 /\ p \in DOMAIN m.heap
      BY <1>2 DEF Listed, Keeps
    <3> QED
      BY <2>3, <3>1 DEF Piece
  <2>5. {Piece(r, k) : k \in 1..Len(q)} = {Piece(m, k) : k \in 1..Len(q)}
    BY <2>4
  <2>6. DOMAIN m.heap \ (IF m.slot.internal THEN {p} ELSE {}) =
            {External} \cup {Piece(m, k) : k \in 1..Len(q)} \cup X
    BY StoreConstants DEF Listed
  <2>7. DOMAIN r.heap = ({External, b} \ {Nothing}) \cup {Piece(r, k) : k \in 1..Len(q)} \cup X
    <3>1. PICK P : P = {Piece(m, k) : k \in 1..Len(q)} /\ P = {Piece(r, k) : k \in 1..Len(q)}
      BY <2>5
    <3>2. {External, b} \ {Nothing} = {External} \cup {b}
      BY <2>1, StoreConstants
    <3>3. DOMAIN r.heap = ({External} \cup P \cup X) \cup {b}
      BY <2>3, <2>6, <3>1
    <3>4. DOMAIN r.heap = ({External, b} \ {Nothing}) \cup P \cup X
      BY <3>2, <3>3
    <3> QED
      BY <3>1, <3>4
  <2>8. \A k \in 1..Len(q) :
            /\ Piece(m, k) # b /\ Piece(m, k) \in DOMAIN r.heap
            /\ r.heap[Piece(m, k)] = m.heap[Piece(m, k)]
    <3> TAKE k \in 1..Len(q)
    <3>1. Piece(m, k) \in DOMAIN m.heap /\ Piece(m, k) \in DOMAIN r.heap
      BY <2>3, <2>6
    <3> QED
      BY <2>1, <2>3, <3>1
  <2>9. \A x \in X : x \in DOMAIN r.heap /\ x # b
    BY <2>1, <2>3, <2>6
  <2>10. \A k \in 1..Len(q) :
            /\ Piece(r, k) \in Blocks /\ Piece(r, k) # b /\ Piece(r, k) \notin X
            /\ q[k] = IF kd = "string" THEN r.heap[Piece(r, k)][1] ELSE Piece(r, k)
    <3> TAKE k \in 1..Len(q)
    <3>1. /\ Piece(m, k) \in Blocks /\ Piece(m, k) \notin X
          /\ q[k] = IF kd = "string" THEN m.heap[Piece(m, k)][1] ELSE Piece(m, k)
      BY DEF Listed
    <3> QED
      BY <2>4, <2>8, <3>1
  <2>11. \A j, k \in 1..Len(q) : Piece(r, j) = Piece(r, k) => j = k
    BY <2>4 DEF Listed
  <2>12. /\ q \in Seq(ValuesOf(kd)) /\ ~r.stray /\ r.slot.num = Len(q) /\ X \subseteq Blocks
         /\ r.slot.len # 0 <=> Len(q) > 0
    BY <2>3 DEF Listed
  <2>13. b # Nothing /\ b \notin X
    BY <2>1, <2>9, StoreConstants
  <2>14. Listed(kd, r, q, X)
    BY <2>1, <2>3, <2>7, <2>10, <2>11, <2>12, <2>13 DEF Listed
  <2> QED
    BY <2>1, <2>3, <2>9, <2>14
<1> QED
  BY <1>1, <1>2

\* The block s, which has the value v, waits for its pointer, which is put behind the others
\* and counted.
Waiting(kd, m, q, s, v) ==
    /\ Listed(kd, m, q, {s}) /\ m.slot.ptr \in Blocks /\ Len(q) < MaxValues
    /\ v \in ValuesOf(kd) /\ v = IF kd = "string" THEN m.heap[s][1] ELSE s
PutBehind(m, q, s, r) ==
    /\ r \in Memories /\ r.stray = m.stray /\ r.slot.num = Len(q) + 1
    /\ r.slot.ptr = m.slot.ptr /\ r.slot.internal = m.slot.internal /\ r.slot.len # 0
    /\ r.heap = SetCell(m, Len(q) + 1, s).heap

LEMMA Appended ==
    ASSUME NEW kd, NEW m, NEW q, NEW s, NEW v, NEW r, Waiting(kd, m, q, s, v), PutBehind(m, q, s, r)
    PROVE  Listed(kd, r, Append(q, v), {})
<1> USE DEF Waiting, PutBehind
<1> DEFINE n == Len(q)
           p == m.slot.ptr
           u == SetCell(m, n + 1, s)
           qq == Append(q, v)
<1>1. n \in Nat /\ n + 1 \in 1..MaxValues /\ q \in Seq(ValuesOf(kd))
  BY StoreConstants DEF Listed
<1>2. s \in CellValues /\ p \in DOMAIN m.heap /\ m \in Memories /\ s # p /\ s \in DOMAIN m.heap
      /\ s \in Blocks
  BY StoreConstants DEF Listed, CellValues
<1>3. /\ DOMAIN r.heap = DOMAIN m.heap /\ r.heap[p][n + 1] = s
      /\ \A b \in DOMAIN m.heap : b # p => r.heap[b] = m.heap[b]
      /\ \A j \in 1..MaxValues : j # n + 1 => r.heap[p][j] = m.heap[p][j]
  <2> HIDE DEF n
  <2>1. /\ DOMAIN u.heap = DOMAIN m.heap /\ u.heap[p][n + 1] = s
        /\ \A b \in DOMAIN m.heap : b # p => u.heap[b] = m.heap[b]
        /\ \A j \in 1..MaxValues : j # n + 1 => u.heap[p][j] = m.heap[p][j]
    BY <1>1, <1>2, SetCellIs
  <2>2. r.heap = u.heap
    BY DEF n
  <2> HIDE DEF u
  <2> QED
    BY <2>1, <2>2
<1>4. qq \in Seq(ValuesOf(kd)) /\ Len(qq) = n + 1 /\ qq[n + 1] = v
      /\ \A k \in 1..n : qq[k] = q[k]
  BY <1>1
<1>5. \A k \in 1..n : Piece(r, k) = Piece(m, k) /\ k \in 1..(n + 1) /\ k # n + 1
  <2> TAKE k \in 1..n
  <2>1. k \in 1..MaxValues /\ k \in 1..(n + 1) /\ k # n + 1
    BY <1>1, StoreConstants
  <2>2. r.heap[p][k] = m.heap[p][k]
    BY <1>3, <2>1
  <2> QED
    BY <2>1, <2>2 DEF Piece
<1>6. Piece(r, n + 1) = s
  BY <1>3 DEF Piece
<1>7. \A k \in 1..(n + 1) : k \in 1..n \/ k = n + 1
  BY <1>1
<1>8. \A k \in 1..n : /\ Piece(m, k) \in Blocks /\ Piece(m, k) # p /\ Piece(m, k) # s
                      /\ Piece(m, k) \in DOMAIN m.heap
                      /\ q[k] = IF kd = "string" THEN m.heap[Piece(m, k)][1] ELSE Piece(m, k)
  BY DEF Listed
<1>9. \A k \in 1..(n + 1) :
         /\ Piece(r, k) \in Blocks /\ Piece(r, k) # p
         /\ qq[k] = IF kd = "string" THEN r.heap[Piece(r, k)][1] ELSE Piece(r, k)
  <2> TAKE k \in 1..(n + 1)
  <2>1. CASE k \in 1..n
    <3>1. r.heap[Piece(m, k)] = m.heap[Piece(m, k)]
      BY <1>3, <1>8, <2>1
    <3> QED
      BY <1>4, <1>5, <1>8, <2>1, <3>1
  <2>2. CASE k = n + 1
    <3>1. r.heap[s] = m.heap[s]
      BY <1>2, <1>3
    <3> QED
      BY <1>2, <1>4, <1>6, <2>2, <3>1
  <2> QED
    BY <1>7, <2>1, <2>2
<1>10. \A j, k \in 1..(n + 1) : Piece(r, j) = Piece(r, k) => j = k
  <2>1. \A j, k \in 1..n : Piece(m, j) = Piece(m, k) => j = k
    BY DEF Listed
  <2> HIDE DEF n
  <2> QED
    BY <1>5, <1>6, <1>7, <1>8, <2>1
<1>11. DOMAIN r.heap = ({External, p} \ {Nothing}) \cup {Piece(r, k) : k \in 1..(n + 1)} \cup {}
  <2>1. DOMAIN m.heap = ({External, p} \ {Nothing}) \cup {Piece(m, k) : k \in 1..n} \cup {s}
    BY DEF Listed
  <2>2. {Piece(r, k) : k \in 1..(n + 1)} = {Piece(m, k) : k \in 1..n} \cup {s}
    <3>1. \A k \in 1..(n + 1) : Piece(r, k) \in {Piece(m, j) : j \in 1..n} \cup {s}
      BY <1>5, <1>6, <1>7
    <3>2. \A j \in 1..n : Piece(m, j) \in {Piece(r, k) : k \in 1..(n + 1)}
      BY <1>5
    <3>3. n + 1 \in 1..(n + 1)
      BY <1>1
    <3>4. s \in {Piece(r, k) : k \in 1..(n + 1)}
      BY <1>6, <3>3
    <3> HIDE DEF n
    <3> QED
      BY <3>1, <3>2, <3>4
  <2> HIDE DEF n, p
  <2> QED
    BY <1>3, <2>1, <2>2
<1>12. p # Nothing /\ ~r.stray /\ r.slot.internal /\ r.slot.ptr = p
  BY StoreConstants DEF Listed
<1> HIDE DEF n, p, qq
<1> QED
  BY <1>1, <1>4, <1>9, <1>10, <1>11, <1>12 DEF Listed, qq, n, p

\* A string takes the place of another.
LEMMA Replaced ==
    ASSUME NEW m, NEW q, Listed("string", m, q, {}), NEW i \in Nat, i < Len(q),
           NEW v \in Contents, NEW r, r = StringPut(m, i, v)
    PROVE  Listed("string", r, [q EXCEPT ![i + 1] = v], {})
<1> DEFINE n == Len(q)
           p == m.slot.ptr
           s == Fresh(m.heap)
           old == Piece(m, i + 1)
           cells == [NewBlock EXCEPT ![1] = v]
           m1 == New(m, s, cells)
           m2 == Delete(m1, old)
           qq == [q EXCEPT ![i + 1] = v]
<1>1. n \in Nat /\ i + 1 \in 1..n /\ q \in Seq(Contents) /\ n \in 0..MaxValues
      /\ m \in Memories /\ ~m.stray /\ m.slot.num = n /\ p \in Blocks
  BY MemoryParts DEF Listed, ValuesOf
<1>2. i + 1 \in 1..MaxValues /\ i < m.slot.num /\ p \in DOMAIN m.heap
  BY <1>1, StoreConstants DEF Listed
<1>3. cells \in Cells /\ cells[1] = v
  BY StoreConstants DEF Cells, NewBlock
<1>4. r = SetCell(m2, i + 1, s)
  BY <1>2 DEF StringPut, CellsOf, Piece
<1> HIDE DEF cells, s
<1>5. s \in Blocks /\ s \notin DOMAIN m.heap
  BY ListedRoom DEF s, MayGrow
<1>6. /\ m1 \in Memories /\ m1.slot = m.slot /\ m1.stray = m.stray
      /\ DOMAIN m1.heap = DOMAIN m.heap \cup {s} /\ m1.heap[s] = cells
      /\ \A x \in DOMAIN m.heap : x # s => m1.heap[x] = m.heap[x]
  BY <1>1, <1>3, <1>5, NewIs
<1> HIDE DEF m1
<1>7. \A k \in 1..n : /\ Piece(m, k) \in Blocks /\ Piece(m, k) # p /\ Piece(m, k) # s
                      /\ Piece(m, k) \in DOMAIN m.heap
                      /\ q[k] = m.heap[Piece(m, k)][1]
  <2>1. \A k \in 1..n : /\ Piece(m, k) \in Blocks /\ Piece(m, k) # p
                        /\ Piece(m, k) \in DOMAIN m.heap
                        /\ q[k] = m.heap[Piece(m, k)][1]
    BY DEF Listed
  <2> QED
    BY <1>5, <2>1
<1>8. old \in Blocks /\ old # p /\ old # s /\ old \in DOMAIN m1.heap /\ old # External
  BY <1>1, <1>6, <1>7, StoreConstants
<1>9. /\ m2 \in Memories /\ m2.slot = m1.slot /\ m2.stray = m1.stray
      /\ DOMAIN m2.heap = DOMAIN m1.heap \ {old}
      /\ \A x \in DOMAIN m1.heap : x # old => m2.heap[x] = m1.heap[x]
  <2> HIDE DEF old
  <2> QED
    BY <1>6, <1>8, DeleteIs
<1> HIDE DEF m2
<1>10. p \in DOMAIN m2.heap /\ p # s /\ s \in DOMAIN m2.heap /\ s \in CellValues
       /\ m2.slot.ptr = p
  BY <1>2, <1>5, <1>6, <1>8, <1>9 DEF CellValues
<1>11. /\ r \in Memories /\ r.slot = m.slot /\ r.stray = m.stray
       /\ DOMAIN r.heap = DOMAIN m2.heap /\ r.heap[p][i + 1] = s
       /\ \A b \in DOMAIN m2.heap : b # p => r.heap[b] = m2.heap[b]
       /\ \A j \in 1..MaxValues : j # i + 1 => r.heap[p][j] = m2.heap[p][j]
  <2>1. /\ r \in Memories /\ r.slot = m2.slot /\ r.stray = m2.stray
        /\ DOMAIN r.heap = DOMAIN m2.heap /\ r.heap[m2.slot.ptr][i + 1] = s
        /\ \A b \in DOMAIN m2.heap : b # m2.slot.ptr => r.heap[b] = m2.heap[b]
        /\ \A j \in 1..MaxValues : j # i + 1 => r.heap[m2.slot.ptr][j] = m2.heap[m2.slot.ptr][j]
    <3>1. /\ m2 \in Memories /\ i + 1 \in 1..MaxValues /\ s \in CellValues
          /\ m2.slot.ptr \in DOMAIN m2.heap /\ r = SetCell(m2, i + 1, s)
      BY <1>2, <1>4, <1>9, <1>10
    <3> QED
      BY ONLY <3>1, SetCellIs
  <2> QED
    BY <1>6, <1>9, <1>10, <2>1
<1>12. Piece(r, i + 1) = s
  BY <1>11 DEF Piece
<1>13. \A k \in 1..n : k # i + 1 => Piece(r, k) = Piece(m, k)
  <2> SUFFICES ASSUME NEW k \in 1..n, k # i + 1
               PROVE  Piece(r, k) = Piece(m, k)
    OBVIOUS
  <2>1. k \in 1..MaxValues
    BY <1>1, StoreConstants
  <2>2. r.heap[p][k] = m2.heap[p][k] /\ m2.heap[p] = m1.heap[p] /\ m1.heap[p] = m.heap[p]
    BY <1>2, <1>6, <1>8, <1>9, <1>10, <1>11, <2>1
  <2> QED
    BY <1>11, <2>2 DEF Piece
<1>14. \A j, k \in 1..n : Piece(m, j) = Piece(m, k) => j = k
  BY DEF Listed
<1>15. \A k \in 1..n : k # i + 1 =>
          /\ Piece(m, k) # old /\ r.heap[Piece(m, k)] = m.heap[Piece(m, k)]
  <2> SUFFICES ASSUME NEW k \in 1..n, k # i + 1
               PROVE  Piece(m, k) # old /\ r.heap[Piece(m, k)] = m.heap[Piece(m, k)]
    OBVIOUS
  <2>1. Piece(m, k) # old
    BY <1>1, <1>14
  <2>2. Piece(m, k) # p /\ Piece(m, k) # s /\ Piece(m, k) \in DOMAIN m.heap
    BY <1>7
  <2> QED
    BY <1>6, <1>9, <1>11, <2>1, <2>2
<1>16. r.heap[s][1] = v
  <2>1. r.heap[s] = m2.heap[s] /\ m2.heap[s] = m1.heap[s]
    BY <1>6, <1>8, <1>9, <1>10, <1>11
  <2> QED
    BY <1>3, <1>6, <2>1
<1>17. qq \in Seq(Contents) /\ Len(qq) = n /\ qq[i + 1] = v
       /\ \A k \in 1..n : k # i + 1 => qq[k] = q[k]
  BY <1>1
<1>18. \A k \in 1..n : /\ Piece(r, k) \in Blocks /\ Piece(r, k) # p
                       /\ qq[k] = r.heap[Piece(r, k)][1]
  <2> TAKE k \in 1..n
  <2>1. CASE k = i + 1
    BY <1>5, <1>10, <1>12, <1>16, <1>17, <2>1
  <2>2. CASE k # i + 1
    BY <1>7, <1>13, <1>15, <1>17, <2>2
  <2> QED
    BY <2>1, <2>2
<1>19. \A j, k \in 1..n : Piece(r, j) = Piece(r, k) => j = k
  BY <1>7, <1>12, <1>13, <1>14
<1>20. DOMAIN r.heap = ({External, p} \ {Nothing}) \cup {Piece(r, k) : k \in 1..n} \cup {}
  <2>1. DOMAIN m.heap = {External, p} \cup {Piece(m, k) : k \in 1..n}
    BY <1>1, StoreConstants DEF Listed
  <2>2. {Piece(r, k) : k \in 1..n} = ({Piece(m, k) : k \in 1..n} \ {old}) \cup {s}
    <3>1. \A k \in 1..n : Piece(r, k) \in ({Piece(m, j) : j \in 1..n} \ {old}) \cup {s}
      BY <1>12, <1>13, <1>15
    <3>2. \A j \in 1..n : Piece(m, j) # old => Piece(m, j) \in {Piece(r, k) : k \in 1..n}
      BY <1>13
    <3>3. s \in {Piece(r, k) : k \in 1..n}
      BY <1>1, <1>12
    <3> HIDE DEF old, n
    <3> QED
      BY <3>1, <3>2, <3>3
  <2>3. DOMAIN r.heap = (DOMAIN m.heap \cup {s}) \ {old}
    BY <1>6, <1>9, <1>11
  <2> HIDE DEF n, p, old
  <2> QED
    BY <1>1, <1>8, <2>1, <2>2, <2>3, StoreConstants
<1>21. r.slot.ptr = p /\ r.slot.num = n /\ ~r.stray /\ r.slot.internal /\ r.slot.len # 0 /\ n > 0
       /\ p # Nothing
  <2>1. m.slot.internal /\ m.slot.len # 0 /\ n > 0 /\ p # Nothing
    BY <1>1, StoreConstants DEF Listed
  <2> QED
    BY <1>1, <1>11, <2>1
<1> HIDE DEF n, p, qq
<1> QED
  BY <1>1, <1>11, <1>17, <1>18, <1>19, <1>20, <1>21 DEF Listed, ValuesOf, qq, n, p

\* The second string: the first is put behind an array.
LEMMA SplitListed ==
    ASSUME NEW m, NEW q, Flat("string", m, q), Len(q) = 1, m.slot.ptr \in Blocks,
           NEW r, r = Split(m)
    PROVE  Listed("string", r, q, {}) /\ r.slot.alloc >= 2
<1> DEFINE p == m.slot.ptr
           first == Fresh(m.heap)
           c1 == m.heap[p]
           ma == New(m, first, c1)
           m1 == Delete(ma, p)
           array == Fresh(m1.heap)
           c2 == [NewBlock EXCEPT ![1] = first]
           m2 == New(m1, array, c2)
<1>1. m \in Memories /\ ~m.stray /\ DOMAIN m.heap = {External, p} /\ p # External /\ p # Nothing
      /\ m.slot.num = 1 /\ q \in Seq(Contents) /\ q[1] = c1[1]
  <2>1. m \in Memories /\ ~m.stray /\ m.slot.num = 1 /\ q \in Seq(Contents)
    BY DEF Flat
  <2>2. DOMAIN m.heap = {External, p} /\ p # External /\ p # Nothing
    BY StoreConstants DEF Flat
  <2>3. q[1] = c1[1]
    <3>1. 1 \in 1..Len(q)
      OBVIOUS
    <3>2. Piece(m, 1) = q[1]
      BY <3>1, SMTT(30) DEF Flat
    <3> QED
      BY <3>2 DEF Piece
  <2> QED
    BY <2>1, <2>2, <2>3
<1>2. r = [m2 EXCEPT !.slot = [@ EXCEPT !.ptr = array, !.len = 1, !.alloc = FirstPointers,
                                        !.internal = TRUE]]
  BY <1>1 DEF Split, CellsOf
<1>3. first \in Blocks /\ first \notin DOMAIN m.heap
  BY FlatRoom
<1>4. c1 \in Cells
  BY <1>1, MemoryParts, HeapParts
<1> HIDE DEF first, c1
<1>5. /\ ma \in Memories /\ ma.slot = m.slot /\ ma.stray = m.stray
      /\ DOMAIN ma.heap = DOMAIN m.heap \cup {first} /\ ma.heap[first] = c1
  BY <1>1, <1>3, <1>4, NewIs
<1> HIDE DEF ma
<1>6. /\ m1 \in Memories /\ m1.slot = m.slot /\ ~m1.stray
      /\ DOMAIN m1.heap = {External, first} /\ m1.heap[first] = c1
  <2>1. p \in DOMAIN ma.heap /\ first # p
    BY <1>1, <1>3, <1>5
  <2>2. /\ m1 \in Memories /\ m1.slot = ma.slot /\ m1.stray = ma.stray
        /\ DOMAIN m1.heap = DOMAIN ma.heap \ {p}
        /\ \A x \in DOMAIN ma.heap : x # p => m1.heap[x] = ma.heap[x]
    BY <1>1, <1>5, <2>1, DeleteIs
  <2> HIDE DEF m1, p
  <2> QED
    BY <1>1, <1>3, <1>5, <2>1, <2>2
<1> HIDE DEF m1
<1>7. array \in Blocks /\ array \notin DOMAIN m1.heap
  <2>1. UsesOnly(DOMAIN m1.heap, 0, q, first, first) /\ 0 \in 0..MaxValues
    BY <1>6, StoreConstants DEF UsesOnly
  <2> QED
    BY <2>1, RoomOne, FreshIs
<1>8. c2 \in Cells /\ c2[1] = first
  BY <1>3, StoreConstants DEF Cells, NewBlock
<1> HIDE DEF array, c2
<1>9. /\ m2 \in Memories /\ m2.slot = m.slot /\ ~m2.stray
      /\ DOMAIN m2.heap = {External, first, array} /\ m2.heap[first] = c1 /\ m2.heap[array] = c2
  <2>1. /\ m2 \in Memories /\ m2.slot = m1.slot /\ m2.stray = m1.stray
        /\ DOMAIN m2.heap = DOMAIN m1.heap \cup {array} /\ m2.heap[array] = c2
        /\ \A x \in DOMAIN m1.heap : x # array => m2.heap[x] = m1.heap[x]
    BY <1>6, <1>7, <1>8, NewIs
  <2>2. first \in DOMAIN m1.heap /\ first # array
    BY <1>6, <1>7
  <2> HIDE DEF m2
  <2> QED
    BY <1>6, <2>1, <2>2
<1> HIDE DEF m2
<1>10. r.heap = m2.heap /\ r.stray = m2.stray /\ r.slot.num = 1 /\ r.slot.ptr = array
       /\ r.slot.len = 1 /\ r.slot.alloc = FirstPointers /\ r.slot.internal
       /\ r.slot \in SlotRecords
  <2>1. r.slot = [m.slot EXCEPT !.ptr = array, !.len = 1, !.alloc = FirstPointers, !.internal = TRUE]
        /\ r.heap = m2.heap /\ r.stray = m2.stray
    BY <1>2, <1>9 DEF Memories
  <2>2. m.slot \in SlotRecords
    BY <1>1, MemoryParts
  <2>3. r.slot.num = 1 /\ r.slot.ptr = array /\ r.slot.len = 1 /\ r.slot.alloc = FirstPointers
        /\ r.slot.internal
    BY <1>1, <2>1, <2>2 DEF SlotRecords
  <2>4. r.slot = [num |-> 1, ptr |-> array, len |-> 1, alloc |-> FirstPointers, internal |-> TRUE]
    BY <1>1, <2>1, <2>2 DEF SlotRecords
  <2>5. r.slot \in SlotRecords
    BY <1>7, <2>4, StoreConstants DEF SlotRecords
  <2> QED
    BY <1>9, <2>1, <2>3, <2>5
<1>11. r \in Memories
  BY <1>2, <1>9, <1>10 DEF Memories
<1>12. Piece(r, 1) = first
  BY <1>8, <1>9, <1>10 DEF Piece
<1>13. DOMAIN r.heap = ({External, array} \ {Nothing}) \cup {Piece(r, k) : k \in 1..1} \cup {}
  BY <1>7, <1>9, <1>10, <1>12, StoreConstants
<1>14. first # array
  BY <1>6, <1>7
<1>15. Listed("string", r, q, {})
  <2>1. \A k \in 1..1 : k = 1
    OBVIOUS
  <2>2. r.heap[first][1] = q[1]
    BY <1>1, <1>9, <1>10
  <2> HIDE DEF p
  <2> QED
    BY <1>1, <1>3, <1>7, <1>9, <1>10, <1>11, <1>12, <1>13, <1>14, <2>1, <2>2, StoreConstants
    DEF Listed, ValuesOf
<1> QED
  BY <1>10, <1>15, StoreConstants

-----------------------------------------------------------------------------
(* Values in the block itself. *)

LEMMA EnlargedFlat ==
    ASSUME NEW kd, NEW m, NEW q, Flat(kd, m, q), NEW i \in Nat, NEW width \in Nat \ {0},
           i > 0 \/ Len(q) <= 1 \/ width <= m.slot.alloc,
           NEW r, r = Enlarged(m, i, width)
    PROVE  /\ r \in Memories /\ ~r.stray /\ r.slot.num = Len(q) /\ r.slot.len = m.slot.len
           /\ r.slot.ptr # Nothing /\ r.slot.alloc >= width
           /\ DOMAIN r.heap = {External, r.slot.ptr}
           /\ r.slot.internal <=> r.slot.ptr \in Blocks
           /\ i > 0 \/ Len(q) > 1 => \A k \in 1..Len(q) : Piece(r, k) = q[k]
<1>1. m \in Memories /\ ~m.stray /\ m.slot.num = Len(q) /\ m.slot.alloc \in Nat
  BY MemoryParts DEF Flat
<1>2. width * (i + 1) = width * i + width /\ width * i \in Nat
  BY Z3
<1>3. CASE width * (i + 1) <= m.slot.alloc
  <2>1. r = m /\ m.slot.alloc # 0 /\ m.slot.alloc >= width
    <3>1. r = m
      BY <1>3 DEF Enlarged
    <3>2. PICK x \in Nat : width * (i + 1) = x + width
      BY <1>2
    <3>3. x + width <= m.slot.alloc
      BY <1>3, <3>2
    <3> QED
      BY <1>1, <3>1, <3>3
  <2> QED
    BY <2>1, StoreConstants DEF Flat
<1>4. CASE ~(width * (i + 1) <= m.slot.alloc)
  <2> DEFINE b == Fresh(m.heap)
             p == m.slot.ptr
  <2>1. b \in Blocks /\ b \notin DOMAIN m.heap
    BY FlatRoom
  <2>2. m.slot.internal => p \in DOMAIN m.heap /\ p # External
    BY StoreConstants DEF Flat
  <2> HIDE DEF b
  <2>3. /\ r \in Memories /\ r.stray = m.stray /\ r.slot.num = m.slot.num
        /\ r.slot.len = m.slot.len /\ r.slot.ptr = b /\ r.slot.internal
        /\ r.slot.alloc >= width
        /\ DOMAIN r.heap = (DOMAIN m.heap \ (IF m.slot.internal THEN {p} ELSE {})) \cup {b}
        /\ i > 0 /\ p \in DOMAIN m.heap => r.heap[b] = m.heap[p]
    BY <1>1, <1>4, <2>1, <2>2, EnlargedIs, SMTT(30) DEF b
  <2>4. DOMAIN r.heap = {External, b}
    <3>1. DOMAIN m.heap = {External, p} \ {Nothing} /\ p \in Blocks \cup {External, Nothing}
          /\ (m.slot.internal <=> p \in Blocks)
      BY <1>1, MemoryParts DEF Flat
    <3> HIDE DEF p
    <3> QED
      BY <2>3, <3>1, StoreConstants
  <2>5. i > 0 \/ Len(q) > 1 => \A k \in 1..Len(q) : Piece(r, k) = q[k]
    <3> SUFFICES ASSUME i > 0 \/ Len(q) > 1, NEW k \in 1..Len(q)
                 PROVE  Piece(r, k) = q[k]
      OBVIOUS
    <3>0. Len(q) \in Nat
      BY DEF Flat
    <3>1. i > 0
      <4> SUFFICES ASSUME i = 0
                   PROVE  FALSE
        OBVIOUS
      <4> QED
        BY <1>1, <1>2, <1>4, <3>0
    <3>2. p \in DOMAIN m.heap
      BY <3>0, StoreConstants DEF Flat
    <3> QED
      BY <2>3, <3>1, <3>2 DEF Flat, Piece
  <2> QED
    BY <1>1, <2>1, <2>3, <2>4, <2>5, StoreConstants
<1> QED
  BY <1>3, <1>4

\* The value is written into its place.
PutAt(q, i, v) == IF i < Len(q) THEN [q EXCEPT ![i + 1] = v] ELSE Append(q, v)

LEMMA PutAtIs ==
    ASSUME NEW S, NEW q \in Seq(S), NEW v \in S, NEW i \in Nat, i <= Len(q)
    PROVE  /\ PutAt(q, i, v) \in Seq(S)
           /\ Len(PutAt(q, i, v)) = IF i >= Len(q) THEN i + 1 ELSE Len(q)
           /\ PutAt(q, i, v)[i + 1] = v
           /\ \A k \in 1..Len(PutAt(q, i, v)) : k # i + 1 => k \in 1..Len(q) /\ PutAt(q, i, v)[k] = q[k]
<1>1. CASE i < Len(q)
  BY <1>1 DEF PutAt
<1>2. CASE ~(i < Len(q))
  BY <1>2 DEF PutAt
<1> QED
  BY <1>1, <1>2

LEMMA WrittenFlat ==
    ASSUME NEW kd, NEW m, NEW q, Flat(kd, m, q), NEW i \in Nat, i <= Len(q), i < MaxValues,
           NEW v \in Contents, i > 0 \/ Len(q) <= 1 \/ Size[v] <= m.slot.alloc,
           NEW e, e = Enlarged(m, i, Size[v]),
           NEW r \in Memories, r.heap = SetCell(e, i + 1, v).heap, r.stray = e.stray,
           r.slot.ptr = e.slot.ptr, r.slot.internal = e.slot.internal,
           r.slot.alloc = e.slot.alloc, r.slot.len = Size[v],
           r.slot.num = IF i >= Len(q) THEN i + 1 ELSE Len(q)
    PROVE  Flat(kd, r, PutAt(q, i, v))
<1> DEFINE p == e.slot.ptr
           qq == PutAt(q, i, v)
<1>1. Size[v] \in Nat \ {0} /\ q \in Seq(Contents) /\ Len(q) \in Nat
  BY StoreConstants DEF Flat
<1>2. /\ e \in Memories /\ ~e.stray /\ p # Nothing /\ e.slot.alloc >= Size[v]
      /\ DOMAIN e.heap = {External, p} /\ (e.slot.internal <=> p \in Blocks)
      /\ i > 0 \/ Len(q) > 1 => \A k \in 1..Len(q) : Piece(e, k) = q[k]
  BY <1>1, EnlargedFlat, SMTT(30)
<1>3. i + 1 \in 1..MaxValues /\ v \in CellValues /\ p \in DOMAIN e.heap
  BY <1>2, StoreConstants, SMTT(30) DEF CellValues
<1>4. /\ DOMAIN r.heap = DOMAIN e.heap /\ r.heap[p][i + 1] = v
      /\ \A j \in 1..MaxValues : j # i + 1 => r.heap[p][j] = e.heap[p][j]
  <2>1. PICK c : c = SetCell(e, i + 1, v)
    OBVIOUS
  <2>2. /\ e \in Memories /\ i + 1 \in 1..MaxValues /\ v \in CellValues
        /\ e.slot.ptr \in DOMAIN e.heap /\ c = SetCell(e, i + 1, v)
    BY <1>2, <1>3, <2>1
  <2>3. /\ DOMAIN c.heap = DOMAIN e.heap /\ c.heap[e.slot.ptr][i + 1] = v
        /\ \A j \in 1..MaxValues : j # i + 1 => c.heap[e.slot.ptr][j] = e.heap[e.slot.ptr][j]
    BY ONLY <2>2, SetCellIs
  <2>4. r.heap = c.heap
    BY <2>1
  <2> QED
    BY ONLY <2>3, <2>4
<1>5. qq \in Seq(Contents) /\ Len(qq) = (IF i >= Len(q) THEN i + 1 ELSE Len(q)) /\ qq[i + 1] = v
      /\ \A k \in 1..Len(qq) : k # i + 1 => k \in 1..Len(q) /\ qq[k] = q[k]
  BY <1>1, PutAtIs
<1>6. r.slot.num \in 0..MaxValues
  BY MemoryParts
<1> HIDE DEF qq
<1>7. \A k \in 1..Len(qq) : Piece(r, k) = qq[k]
  <2> SUFFICES ASSUME NEW k \in 1..Len(qq) PROVE Piece(r, k) = qq[k]
    OBVIOUS
  <2>1. CASE k = i + 1
    BY <1>4, <1>5, <2>1, SMTT(30) DEF Piece
  <2>2. CASE k # i + 1
    <3>1. k \in 1..Len(q) /\ qq[k] = q[k]
      BY <1>5, <2>2
    <3>2. i > 0 \/ Len(q) > 1
      BY <1>1, <2>2, <3>1
    <3>3. k \in 1..MaxValues
      BY <1>1, <1>5, <1>6, <3>1, StoreConstants
    <3> QED
      BY <1>2, <1>4, <2>2, <3>1, <3>2, <3>3, ZenonT(30) DEF Piece
  <2> QED
    BY <2>1, <2>2
<1>8. r.slot.num = Len(qq) /\ Len(qq) > 0
  BY <1>1, <1>5, SMTT(30)
<1>9. DOMAIN r.heap = {External, p} \ {Nothing}
  BY <1>2, <1>4, StoreConstants
<1>10. /\ ~r.stray /\ r.slot.ptr = p /\ p # Nothing
       /\ r.slot.internal <=> p \in Blocks
  BY <1>2
<1>11. r.slot.len # 0 /\ r.slot.len <= r.slot.alloc
  BY <1>1, <1>2
<1> HIDE DEF p
<1> QED
  BY <1>5, <1>7, <1>8, <1>9, <1>10, <1>11 DEF Flat, qq

-----------------------------------------------------------------------------
(* SetValue and CreateObjectValue. *)

WithLen(m, l) == [m EXCEPT !.slot.len = l]

LEMMA LenSet ==
    ASSUME NEW m \in Memories, NEW l \in Nat
    PROVE  /\ WithLen(m, l) \in Memories
           /\ WithLen(m, l).heap = m.heap /\ WithLen(m, l).stray = m.stray
           /\ WithLen(m, l).slot.num = m.slot.num /\ WithLen(m, l).slot.ptr = m.slot.ptr
           /\ WithLen(m, l).slot.len = l
           /\ WithLen(m, l).slot.alloc = m.slot.alloc
           /\ WithLen(m, l).slot.internal = m.slot.internal
<1> DEFINE r == WithLen(m, l)
<1>1. m.slot \in SlotRecords
  BY MemoryParts
<1>2. r.heap = m.heap /\ r.stray = m.stray /\ r.slot = [m.slot EXCEPT !.len = l]
  BY DEF Memories, WithLen
<1>3. r.slot \in SlotRecords /\ r.slot.num = m.slot.num /\ r.slot.ptr = m.slot.ptr /\ r.slot.len = l
      /\ r.slot.alloc = m.slot.alloc /\ r.slot.internal = m.slot.internal
  BY <1>1, <1>2 DEF SlotRecords
<1>4. r \in Memories
  BY <1>2, <1>3 DEF Memories, WithLen
<1> QED
  BY <1>2, <1>3, <1>4

LEMMA NumberedIs ==
    ASSUME NEW m \in Memories, NEW i \in Nat, i < MaxValues, NEW r, r = Numbered(m, i)
    PROVE  /\ r \in Memories /\ r.heap = m.heap /\ r.stray = m.stray
           /\ r.slot.num = IF i >= m.slot.num THEN i + 1 ELSE m.slot.num
           /\ r.slot.ptr = m.slot.ptr /\ r.slot.len = m.slot.len
           /\ r.slot.alloc = m.slot.alloc /\ r.slot.internal = m.slot.internal
           /\ i < m.slot.num => r = m
<1> DEFINE n == IF i >= m.slot.num THEN i + 1 ELSE m.slot.num
<1>1. m.slot \in SlotRecords /\ n \in 0..MaxValues /\ m.slot.num \in Nat
  BY MemoryParts, StoreConstants
<1>2. r = [m EXCEPT !.slot.num = n]
  BY DEF Numbered
<1>3. i < m.slot.num => n = m.slot.num
  BY <1>1
<1> HIDE DEF n
<1>4. r.heap = m.heap /\ r.stray = m.stray /\ r.slot = [m.slot EXCEPT !.num = n]
  BY <1>2 DEF Memories
<1>5. r.slot \in SlotRecords /\ r.slot.num = n /\ r.slot.ptr = m.slot.ptr /\ r.slot.len = m.slot.len
      /\ r.slot.alloc = m.slot.alloc /\ r.slot.internal = m.slot.internal
  BY <1>1, <1>4 DEF SlotRecords
<1>6. r \in Memories
  BY <1>2, <1>4, <1>5 DEF Memories
<1>7. i < m.slot.num => r = m
  <2>1. i < m.slot.num => r.slot = m.slot
    BY <1>1, <1>3, <1>4 DEF SlotRecords
  <2>2. r = [slot |-> r.slot, heap |-> r.heap, stray |-> r.stray]
        /\ m = [slot |-> m.slot, heap |-> m.heap, stray |-> m.stray]
    BY <1>6 DEF Memories
  <2> QED
    BY <1>4, <2>1, <2>2
<1> QED
  BY <1>4, <1>5, <1>6, <1>7 DEF n

\* A value is put into a block that holds values itself.
LEMMA SetFlat ==
    ASSUME kind \in {"string", "fixed"}, NEW m, NEW q, Flat(kind, m, q), NEW i \in Nat,
           i <= Len(q), i < MaxValues, NEW v \in Contents,
           kind = "string" => i = 0 /\ Len(q) <= 1,
           kind = "fixed" /\ (i > 0 \/ Len(q) > 1) /\ m.slot.len # 0 => Size[v] = m.slot.len,
           NEW r, r = Numbered(Stored(Enlarged(m, i, Width(i, v)), i, v), i)
    PROVE  Flat(kind, r, PutAt(q, i, v))
<1> DEFINE e == Enlarged(m, i, Size[v])
           c == SetCell(e, i + 1, v)
<1>0. PICK l \in Nat : l = Size[v]
  BY StoreConstants
<1> DEFINE w == WithLen(c, l)
<1>1. Size[v] \in Nat \ {0} /\ Len(q) \in Nat /\ m.slot.num = Len(q) /\ m.slot.len \in Nat
      /\ m.slot.alloc \in Nat
  BY StoreConstants, MemoryParts DEF Flat
<1>2. Width(i, v) = Size[v]
  BY DEF Width
<1>3. i > 0 \/ Len(q) <= 1 \/ Size[v] <= m.slot.alloc
  BY <1>1 DEF Flat
<1>4. e \in Memories /\ ~e.stray /\ e.slot.num = Len(q) /\ e.slot.ptr # Nothing
      /\ DOMAIN e.heap = {External, e.slot.ptr}
  BY <1>1, <1>3, EnlargedFlat
<1> HIDE DEF e
<1>5. Stored(e, i, v) = w
  BY <1>0, <1>1, <1>4 DEF Stored, WithLen
<1>6. c \in Memories /\ c.slot = e.slot /\ c.stray = e.stray
  <2>1. e.slot.ptr \in DOMAIN e.heap /\ i + 1 \in 1..MaxValues /\ v \in CellValues
    BY <1>4, StoreConstants DEF CellValues
  <2> QED
    BY <1>4, <2>1, SetCellIs
<1> HIDE DEF c
<1>7. /\ w \in Memories /\ w.heap = c.heap /\ w.stray = c.stray
      /\ w.slot.num = c.slot.num /\ w.slot.ptr = c.slot.ptr /\ w.slot.len = l
      /\ w.slot.alloc = c.slot.alloc /\ w.slot.internal = c.slot.internal
  <2>1. w \in Memories
    BY <1>1, <1>6, LenSet, ZenonT(30)
  <2>2. w.heap = c.heap /\ w.stray = c.stray /\ w.slot.num = c.slot.num /\ w.slot.ptr = c.slot.ptr
    BY <1>1, <1>6, LenSet, ZenonT(30)
  <2>3. w.slot.len = l /\ w.slot.alloc = c.slot.alloc /\ w.slot.internal = c.slot.internal
    BY <1>1, <1>6, LenSet, ZenonT(30)
  <2> QED
    BY <2>1, <2>2, <2>3
<1> HIDE DEF w
<1>8. r = Numbered(w, i)
  BY <1>2, <1>5 DEF e
<1>9. /\ r \in Memories /\ r.heap = w.heap /\ r.stray = w.stray
      /\ r.slot.num = IF i >= w.slot.num THEN i + 1 ELSE w.slot.num
      /\ r.slot.ptr = w.slot.ptr /\ r.slot.len = w.slot.len
      /\ r.slot.alloc = w.slot.alloc /\ r.slot.internal = w.slot.internal
  BY <1>7, <1>8, NumberedIs
<1>10. /\ r \in Memories /\ r.heap = SetCell(e, i + 1, v).heap /\ r.stray = e.stray
       /\ r.slot.num = (IF i >= Len(q) THEN i + 1 ELSE Len(q))
       /\ r.slot.ptr = e.slot.ptr /\ r.slot.len = Size[v]
       /\ r.slot.alloc = e.slot.alloc /\ r.slot.internal = e.slot.internal
  BY <1>0, <1>4, <1>6, <1>7, <1>9 DEF c
<1>11. e = Enlarged(m, i, Size[v])
  BY DEF e
<1> QED
  BY <1>3, <1>10, <1>11, WrittenFlat

\* A string is put into, or behind, a list.
LEMMA SetListed ==
    ASSUME kind = "string", NEW m, NEW q, Listed("string", m, q, {}), NEW i \in Nat,
           i <= Len(q), i < MaxValues, NEW v \in Contents,
           i > 0 \/ (Len(q) > 1 /\ Size[v] <= m.slot.alloc),
           NEW r, r = Numbered(Stored(Enlarged(m, i, Width(i, v)), i, v), i)
    PROVE  Listed("string", r, PutAt(q, i, v), {})
<1> DEFINE width == Width(i, v)
           e == Enlarged(m, i, width)
           s == Fresh(e.heap)
           cells == [NewBlock EXCEPT ![1] = v]
           m1 == New(e, s, cells)
           p == StringPut(e, i, v)
<1>1. width \in Nat \ {0} /\ Len(q) \in Nat
      /\ Keeps(m, q, i, width)
  <2>1. Size[v] \in Nat \ {0} /\ Len(q) \in Nat
    BY StoreConstants DEF Listed
  <2>2. CASE i > 0
    BY <2>1, <2>2 DEF Width, Keeps
  <2>3. CASE i = 0
    <3>1. width = Size[v] /\ width * (i + 1) = Size[v]
      BY <2>1, <2>3 DEF Width
    <3> QED
      BY <2>1, <2>3, <3>1 DEF Keeps
  <2> QED
    BY <2>2, <2>3
<1> HIDE DEF width
<1>2. Listed("string", e, q, {}) /\ e.slot.ptr \in Blocks
  BY <1>1, EnlargedListed DEF MayGrow
<1>3. r = Numbered(Stored(e, i, v), i)
  BY DEF width
<1> HIDE DEF e
<1>4. e.slot.num = Len(q) /\ e \in Memories
  BY <1>2 DEF Listed
<1>5. Stored(e, i, v) = p
  BY <1>1, <1>4 DEF Stored
<1>6. CASE i < Len(q)
  <2>1. Listed("string", p, [q EXCEPT ![i + 1] = v], {})
    BY <1>2, <1>6, Replaced
  <2>2. p \in Memories /\ p.slot.num = Len(q)
    <3> HIDE DEF p
    <3> QED
      BY <1>1, <2>1 DEF Listed
  <2>3. r = p
    <3> HIDE DEF p
    <3> QED
      BY <1>3, <1>5, <1>6, <2>2, NumberedIs
  <2> QED
    BY <1>6, <2>1, <2>3 DEF PutAt
<1>7. CASE i = Len(q)
  <2>1. cells \in Cells /\ cells[1] = v
    BY StoreConstants DEF Cells, NewBlock
  <2> HIDE DEF cells
  <2>2. WithNew("string", e, q, s, cells, m1)
    BY <1>2, <2>1, NewListed
  <2>3. p = SetCell(m1, i + 1, s)
    BY <1>4, <1>7 DEF StringPut, cells
  <2> HIDE DEF m1, s
  <2>4. s \in Blocks /\ m1.heap[s] = cells /\ Listed("string", m1, q, {s}) /\ m1.slot = e.slot
    BY <2>2 DEF WithNew
  <2>5. m1 \in Memories /\ m1.slot.ptr \in DOMAIN m1.heap /\ s \in CellValues
        /\ i + 1 \in 1..MaxValues
    BY <1>2, <1>7, <2>4, StoreConstants DEF Listed, CellValues
  <2>6. p \in Memories /\ p.slot = m1.slot /\ p.stray = m1.stray
    BY <2>3, <2>5, SetCellIs
  <2> HIDE DEF p
  <2>7. r = Numbered(p, i)
    BY <1>3, <1>5
  <2>8. /\ r \in Memories /\ r.heap = p.heap /\ r.stray = p.stray
        /\ r.slot.num = (IF i >= p.slot.num THEN i + 1 ELSE p.slot.num)
        /\ r.slot.ptr = p.slot.ptr /\ r.slot.len = p.slot.len
        /\ r.slot.internal = p.slot.internal
    BY <2>6, <2>7, NumberedIs
  <2>9. r.slot.num = Len(q) + 1 /\ r.slot.len # 0
    <3>1. e.slot.len # 0
      BY <1>1, <1>2, <1>7 DEF Listed
    <3> QED
      BY <1>1, <1>4, <1>7, <2>4, <2>6, <2>8, <3>1
  <2>10. v \in ValuesOf("string") /\ v = m1.heap[s][1]
    BY <2>1, <2>4 DEF ValuesOf
  <2>11. /\ r.stray = m1.stray /\ r.slot.ptr = m1.slot.ptr /\ r.slot.internal = m1.slot.internal
         /\ r.heap = SetCell(m1, Len(q) + 1, s).heap /\ m1.slot.ptr \in Blocks
    BY <1>2, <1>7, <2>3, <2>4, <2>6, <2>8
  <2>12. Listed("string", r, Append(q, v), {})
    <3>1. Waiting("string", m1, q, s, v)
      BY <1>7, <2>4, <2>10, <2>11 DEF Waiting
    <3>2. PutBehind(m1, q, s, r)
      BY <2>8, <2>9, <2>11 DEF PutBehind
    <3> QED
      BY <3>1, <3>2, Appended
  <2> QED
    BY <1>1, <1>7, <2>12 DEF PutAt
<1> QED
  BY <1>1, <1>6, <1>7

LEMMA SetRep ==
    ASSUME kind \in {"string", "fixed"}, NEW m0, NEW q, Rep(kind, m0, q), NEW i \in Nat,
           i <= Len(q), i < MaxValues, NEW v \in Contents, i > 0 => m0.slot.ptr # External,
           kind = "fixed" /\ (i > 0 \/ Len(q) > 1) /\ m0.slot.len # 0 => Size[v] = m0.slot.len,
           ~(kind = "string" /\ i = 0 /\ Len(q) > 1 /\ Size[v] > m0.slot.alloc),
           NEW m, m = IF kind = "string" /\ m0.slot.num = 1 /\ i = 1 THEN Split(m0) ELSE m0,
           NEW r, r = Numbered(Stored(Enlarged(m, i, Width(i, v)), i, v), i)
    PROVE  Rep(kind, r, PutAt(q, i, v))
<1>1. Len(q) \in Nat /\ m0 \in Memories /\ m0.slot.num = Len(q) /\ q \in Seq(Contents)
  BY DEF Rep, AreListed, Flat, Listed, ValuesOf
<1>2. Len(PutAt(q, i, v)) = IF i >= Len(q) THEN i + 1 ELSE Len(q)
  BY <1>1, PutAtIs
<1>3. CASE kind = "fixed" \/ (i = 0 /\ Len(q) <= 1)
  <2>1. m = m0 /\ ~AreListed(kind, q) /\ ~AreListed(kind, PutAt(q, i, v))
    BY <1>1, <1>2, <1>3 DEF AreListed
  <2>2. Flat(kind, m, q)
    BY <2>1 DEF Rep
  <2>3. Flat(kind, r, PutAt(q, i, v))
    BY <1>1, <1>3, <2>1, <2>2, SetFlat
  <2> QED
    BY <2>1, <2>3 DEF Rep
<1>4. CASE kind = "string" /\ ~(i = 0 /\ Len(q) <= 1)
  <2>1. AreListed(kind, PutAt(q, i, v))
    BY <1>1, <1>2, <1>4 DEF AreListed
  <2>2. Listed("string", m, q, {}) /\ (i > 0 \/ Size[v] <= m.slot.alloc)
    <3>1. CASE Len(q) = 1
      <4>1. i = 1 /\ m = Split(m0) /\ Flat("string", m0, q)
        BY <1>1, <1>4, <3>1 DEF Rep, AreListed
      <4>2. m0.slot.ptr \in Blocks
        BY <3>1, <4>1, MemoryParts DEF Flat
      <4> QED
        BY <3>1, <4>1, <4>2, SplitListed
    <3>2. CASE Len(q) # 1
      <4>0. Len(q) # 0
        BY <1>1, <1>4
      <4>4. PICK n \in Nat : n = Len(q)
        BY <1>1
      <4>5. n > 1
        BY <3>2, <4>0, <4>4
      <4>1. m0.slot.num # 1 /\ Len(q) > 1
        BY <1>1, <3>2, <4>4, <4>5
      <4>3. m = m0
        BY <4>1
      <4>2. m0.slot.alloc \in Nat /\ Size[v] \in Nat
        BY <1>1, MemoryParts, StoreConstants
      <4> QED
        BY <1>4, <4>1, <4>2, <4>3 DEF Rep, AreListed
    <3> QED
      BY <3>1, <3>2
  <2>3. i > 0 \/ (Len(q) > 1 /\ Size[v] <= m.slot.alloc)
    BY <1>1, <1>4, <2>2
  <2>4. Listed("string", r, PutAt(q, i, v), {})
    BY <1>4, <2>2, <2>3, SetListed
  <2> QED
    BY <1>4, <2>1, <2>4 DEF Rep
<1> QED
  BY <1>3, <1>4

\* An object is put behind the others.
LEMMA RoomForObject ==
    ASSUME NEW q, NEW a, NEW X, NEW d, X = {d}, Listed("object", a, q, X), Len(q) < MaxValues,
           NEW m, m = Enlarged(a, Len(q), 1)
    PROVE  Listed("object", m, q, X) /\ m.slot.ptr \in Blocks
<1>1. PICK i \in Nat : i = Len(q)
  BY DEF Listed
<1>2. PICK width \in Nat \ {0} : width = 1
  OBVIOUS
<1>3. MayGrow(q, X)
  BY DEF MayGrow
<1>4. m = Enlarged(a, i, width) /\ Keeps(a, q, i, width)
  BY <1>1, <1>2 DEF Keeps
<1> QED
  BY <1>3, <1>4, EnlargedListed

LEMMA CreateRep ==
    ASSUME kind = "object", NEW m0, NEW q, Rep(kind, m0, q), Len(q) < MaxValues,
           NEW d, d = Fresh(m0.heap), NEW m, m = Enlarged(New(m0, d, NewBlock), Len(q), 1),
           NEW r, r = Numbered(WithLen(SetCell(m, Len(q) + 1, d), 1), Len(q))
    PROVE  Rep(kind, r, Append(q, d))
<1>a. PICK i \in Nat : i = Len(q)
  BY DEF Rep, AreListed, Listed
<1> DEFINE a == New(m0, d, NewBlock)
           c == SetCell(m, i + 1, d)
<1>1. Listed("object", m0, q, {})
  BY DEF Rep, AreListed
<1>2. WithNew("object", m0, q, d, NewBlock, a)
  BY <1>1, NewBlockType, NewListed
<1>3. d \in Blocks /\ Listed("object", a, q, {d})
  BY <1>2 DEF WithNew
<1> HIDE DEF a
<1>4. Listed("object", m, q, {d}) /\ m.slot.ptr \in Blocks
  <2>1. m = Enlarged(a, Len(q), 1)
    BY DEF a
  <2>2. PICK X : X = {d}
    OBVIOUS
  <2> QED
    BY <1>3, <2>1, <2>2, RoomForObject
<1>5. m \in Memories /\ m.slot.ptr \in DOMAIN m.heap /\ d \in CellValues /\ i + 1 \in 1..MaxValues
      /\ m.slot.num = i
  BY <1>a, <1>3, <1>4, StoreConstants DEF Listed, CellValues
<1>6. c \in Memories /\ c.slot = m.slot /\ c.stray = m.stray
  BY <1>5, SetCellIs
<1> HIDE DEF c
<1>0. PICK l \in Nat : l = 1
  OBVIOUS
<1> DEFINE w == WithLen(c, l)
<1>7. /\ w \in Memories /\ w.heap = c.heap /\ w.stray = c.stray
      /\ w.slot.num = c.slot.num /\ w.slot.ptr = c.slot.ptr /\ w.slot.len = l
      /\ w.slot.internal = c.slot.internal
  BY <1>6, <1>0, LenSet
<1>8. r = Numbered(w, i)
  BY <1>a, <1>0 DEF c
<1> HIDE DEF w
<1>9. /\ r \in Memories /\ r.heap = w.heap /\ r.stray = w.stray
      /\ r.slot.num = (IF i >= w.slot.num THEN i + 1 ELSE w.slot.num)
      /\ r.slot.ptr = w.slot.ptr /\ r.slot.len = w.slot.len
      /\ r.slot.internal = w.slot.internal
  BY <1>a, <1>7, <1>8, NumberedIs
<1>10. /\ r.slot.num = Len(q) + 1 /\ r.slot.len # 0 /\ r.stray = m.stray
       /\ r.slot.ptr = m.slot.ptr /\ r.slot.internal = m.slot.internal
       /\ r.heap = SetCell(m, Len(q) + 1, d).heap
  BY <1>a, <1>0, <1>5, <1>6, <1>7, <1>9 DEF c
<1>11. d \in ValuesOf("object") /\ d = (IF "object" = "string" THEN m.heap[d][1] ELSE d)
  BY <1>3 DEF ValuesOf
<1>12. Listed("object", r, Append(q, d), {})
  <2>1. Waiting("object", m, q, d, d)
    BY <1>4, <1>11 DEF Waiting
  <2>2. PutBehind(m, q, d, r)
    BY <1>9, <1>10 DEF PutBehind
  <2> QED
    BY <2>1, <2>2, Appended
<1> QED
  BY <1>12 DEF Rep, AreListed

-----------------------------------------------------------------------------
(* RemoveValue and SetNumValues. *)

Without(q, i) == SubSeq(q, 1, i) \o SubSeq(q, i + 2, Len(q))

LEMMA WithoutIs ==
    ASSUME NEW S, NEW q \in Seq(S), NEW i \in Nat, i < Len(q)
    PROVE  /\ Without(q, i) \in Seq(S) /\ Len(Without(q, i)) = Len(q) - 1
           /\ \A k \in 1..(Len(q) - 1) :
                 Without(q, i)[k] = IF k <= i THEN q[k] ELSE q[k + 1]
<1> DEFINE a == SubSeq(q, 1, i)
           b == SubSeq(q, i + 2, Len(q))
<1>1. a \in Seq(S) /\ Len(a) = i /\ \A k \in 1..i : a[k] = q[k]
  <2>1. 1 \in 1..(Len(q) + 1) /\ i \in 0..Len(q)
    OBVIOUS
  <2> QED
    BY <2>1, SubSeqProperties
<1>2. b \in Seq(S) /\ Len(b) = Len(q) - 1 - i /\ \A k \in 1..(Len(q) - 1 - i) : b[k] = q[i + 1 + k]
  <2>1. CASE i + 1 = Len(q)
    <3>1. b = <<>>
      BY <2>1
    <3> QED
      BY <2>1, <3>1
  <2>2. CASE i + 1 < Len(q)
    <3>1. i + 2 \in 1..(Len(q) + 1) /\ Len(q) \in (i + 1)..Len(q)
      BY <2>2
    <3>2. b \in Seq(S) /\ Len(b) = Len(q) - (i + 2) + 1
          /\ \A k \in 1..(Len(q) - (i + 2) + 1) : b[k] = q[i + 2 + k - 1]
      BY <2>2, <3>1, SubSeqProperties
    <3> QED
      BY <3>2
  <2> QED
    BY <2>1, <2>2
<1> HIDE DEF a, b
<1>3. Without(q, i) = a \o b
  BY DEF Without, a, b
<1>4. a \o b \in Seq(S) /\ Len(a \o b) = Len(q) - 1
  BY <1>1, <1>2
<1>6. Len(a) = i /\ Len(b) = Len(q) - 1 - i /\ \A k \in 1..(Len(a) + Len(b)) :
         (a \o b)[k] = IF k <= Len(a) THEN a[k] ELSE b[k - Len(a)]
  BY <1>1, <1>2
<1>5. ASSUME NEW k \in 1..(Len(q) - 1)
      PROVE  (a \o b)[k] = IF k <= i THEN q[k] ELSE q[k + 1]
  <2>0. (a \o b)[k] = IF k <= i THEN a[k] ELSE b[k - i]
    BY <1>6
  <2>1. CASE k <= i
    <3>1. k \in 1..i
      BY <2>1
    <3> QED
      BY <1>1, <2>0, <2>1, <3>1
  <2>2. CASE ~(k <= i)
    <3>1. k - i \in 1..(Len(q) - 1 - i) /\ i + 1 + (k - i) = k + 1
      BY <2>2
    <3>2. (a \o b)[k] = b[k - i]
      BY <2>0, <2>2
    <3> QED
      BY <1>2, <2>2, <3>1, <3>2
  <2> QED
    BY <2>1, <2>2
<1> QED
  BY <1>3, <1>4, <1>5

\* The cells behind place i move up, and there is one value less.
Cut(m, m1, i) ==
    LET cells == m.heap[m.slot.ptr]
        m2 == [m1 EXCEPT !.heap = [b \in DOMAIN @ |->
                  IF b # m.slot.ptr THEN @[b]
                  ELSE [k \in 1..MaxValues |->
                           IF k > i /\ k < m.slot.num THEN cells[k + 1] ELSE cells[k]]]]
    IN  [m2 EXCEPT !.slot.num = @ - 1,
                   !.slot.len = IF m.slot.num = 1 THEN 0 ELSE @]

IsCut(m, m1, i, r) ==
    /\ r \in Memories /\ r.stray = m1.stray /\ DOMAIN r.heap = DOMAIN m1.heap
    /\ \A b \in DOMAIN m1.heap : b # m.slot.ptr => r.heap[b] = m1.heap[b]
    /\ \A k \in 1..MaxValues : r.heap[m.slot.ptr][k] =
           IF k > i /\ k < m.slot.num THEN m.heap[m.slot.ptr][k + 1] ELSE m.heap[m.slot.ptr][k]
    /\ r.slot.num = m.slot.num - 1
    /\ r.slot.len = (IF m.slot.num = 1 THEN 0 ELSE m.slot.len)
    /\ r.slot.ptr = m.slot.ptr /\ r.slot.alloc = m.slot.alloc /\ r.slot.internal = m.slot.internal

LEMMA CutIs ==
    ASSUME NEW m \in Memories, NEW m1 \in Memories, m1.slot = m.slot, m.slot.ptr \in DOMAIN m.heap,
           m.slot.ptr \in DOMAIN m1.heap, NEW i \in Nat, i < m.slot.num
    PROVE  IsCut(m, m1, i, Cut(m, m1, i))
<1> DEFINE p == m.slot.ptr
           n == m.slot.num
           cells == m.heap[p]
           new == [k \in 1..MaxValues |-> IF k > i /\ k < n THEN cells[k + 1] ELSE cells[k]]
           h == [b \in DOMAIN m1.heap |-> IF b # p THEN m1.heap[b] ELSE new]
           l == IF n = 1 THEN 0 ELSE m.slot.len
           m2 == [m1 EXCEPT !.heap = h]
           r == [m2 EXCEPT !.slot.num = n - 1, !.slot.len = l]
<1>1. n \in 0..MaxValues /\ n > 0 /\ l \in Nat /\ m.slot \in SlotRecords /\ n - 1 \in 0..MaxValues
  BY MemoryParts, StoreConstants
<1>2. cells \in [1..MaxValues -> CellValues]
  BY MemoryParts, HeapParts DEF Cells, CellValues
<1>3. new \in Cells
  <2>1. \A k \in 1..MaxValues : k < n => k + 1 \in 1..MaxValues
    BY <1>1, StoreConstants
  <2> HIDE DEF cells, n
  <2>2. \A k \in 1..MaxValues : (IF k > i /\ k < n THEN cells[k + 1] ELSE cells[k]) \in CellValues
    BY <1>2, <2>1
  <2>3. new \in [1..MaxValues -> CellValues]
    BY <2>2
  <2> QED
    BY <2>3 DEF Cells, CellValues
<1>4. h \in Heaps
  <2>1. \A b \in DOMAIN m1.heap : m1.heap[b] \in Cells
    BY MemoryParts, HeapParts
  <2>2. DOMAIN m1.heap \subseteq Blocks \cup {External}
    BY MemoryParts, HeapParts
  <2> HIDE DEF new
  <2>3. h = [b \in DOMAIN m1.heap |-> h[b]] /\ \A b \in DOMAIN m1.heap : h[b] \in Cells
    BY <1>3, <2>1
  <2> HIDE DEF h
  <2> QED
    BY <2>2, <2>3, HeapWhole
<1>5. Cut(m, m1, i) = r
  <2>1. m1.slot.num = n /\ m1.slot.len = m.slot.len
    OBVIOUS
  <2> HIDE DEF h
  <2>2. m2.slot = m.slot
    BY DEF Memories
  <2> HIDE DEF m2
  <2>3. Cut(m, m1, i) = [m2 EXCEPT !.slot.num = @ - 1, !.slot.len = IF n = 1 THEN 0 ELSE @]
    BY DEF Cut, m2, h
  <2> QED
    BY <2>2, <2>3
<1>6. /\ DOMAIN h = DOMAIN m1.heap
      /\ \A b \in DOMAIN m1.heap : b # p => h[b] = m1.heap[b]
      /\ \A k \in 1..MaxValues : h[p][k] = IF k > i /\ k < n THEN cells[k + 1] ELSE cells[k]
  OBVIOUS
<1> HIDE DEF h, l, new
<1>7. r.heap = h /\ r.stray = m1.stray /\ r.slot = [[m.slot EXCEPT !.num = n - 1] EXCEPT !.len = l]
  BY <1>4 DEF Memories
<1>8. r.slot \in SlotRecords /\ r.slot.num = n - 1 /\ r.slot.len = l /\ r.slot.ptr = p
      /\ r.slot.alloc = m.slot.alloc /\ r.slot.internal = m.slot.internal
  <2> HIDE DEF n, r
  <2> QED
    BY <1>1, <1>7 DEF SlotRecords, n
<1>9. r \in Memories
  <2>1. m2 \in Memories
    BY <1>4 DEF Memories
  <2>3. r = [m2 EXCEPT !.slot = r.slot]
    BY <2>1 DEF Memories
  <2>4. m2.heap = h /\ m2.stray = m1.stray
    BY DEF Memories
  <2> HIDE DEF r, m2
  <2>2. r = [slot |-> r.slot, heap |-> h, stray |-> m1.stray]
    BY <2>1, <2>3, <2>4 DEF Memories
  <2> QED
    BY <1>4, <1>8, <2>2, MemoryParts DEF Memories
<1> HIDE DEF r
<1> QED
  BY <1>5, <1>6, <1>7, <1>8, <1>9 DEF IsCut, l

LEMMA RemovedIs ==
    ASSUME NEW m \in Memories, m.slot.ptr \in DOMAIN m.heap, NEW i
    PROVE  Removed(m, i) =
               OneLeft(Cut(m, IF Pointers(m) THEN Delete(m, Piece(m, i + 1)) ELSE m, i))
<1>1. CellsOf(m, m.slot.ptr) = m.heap[m.slot.ptr]
  BY DEF CellsOf
<1> QED
  BY <1>1 DEF Removed, Cut, Piece

\* A value is taken out of the block that holds the values itself.
LEMMA RemoveFlat ==
    ASSUME kind \in {"string", "fixed"}, NEW m, NEW q, Flat(kind, m, q), NEW i \in Nat, i < Len(q),
           kind = "string" => Len(q) <= 1
    PROVE  Flat(kind, Removed(m, i), Without(q, i))
<1> DEFINE p == m.slot.ptr
           n == Len(q)
           r == Cut(m, m, i)
           qq == Without(q, i)
<1>1. /\ m \in Memories /\ q \in Seq(Contents) /\ n \in Nat /\ n > 0 /\ m.slot.num = n /\ ~m.stray
      /\ n \in 0..MaxValues /\ p \in DOMAIN m.heap /\ p # Nothing /\ m.slot.len \in Nat
  BY MemoryParts, StoreConstants DEF Flat
<1>2. Removed(m, i) = OneLeft(r)
  <2>1. ~Pointers(m)
    BY <1>1 DEF Pointers
  <2> QED
    BY <1>1, <2>1, RemovedIs
<1>3. IsCut(m, m, i, r)
  BY <1>1, CutIs
<1> HIDE DEF r
<1>4. Removed(m, i) = r
  <2>1. ASSUME kind = "string"
        PROVE  r.slot.num # 1
    <3>0. n <= 1 /\ n \in Nat /\ n > 0
      BY <1>1, <2>1
    <3>1. r.slot.num = m.slot.num - 1
      BY <1>3 DEF IsCut
    <3>3. n = 1
      <4> HIDE DEF n
      <4> QED
        BY <3>0
    <3>2. m.slot.num = 1
      BY <1>1, <3>3
    <3> QED
      BY <3>1, <3>2
  <2> QED
    BY <1>2, <2>1 DEF OneLeft
<1>5. qq \in Seq(Contents) /\ Len(qq) = n - 1
      /\ \A k \in 1..(n - 1) : qq[k] = IF k <= i THEN q[k] ELSE q[k + 1]
  BY <1>1, WithoutIs
<1> HIDE DEF qq
<1>6. \A k \in 1..Len(qq) : Piece(r, k) = qq[k]
  <2> TAKE k \in 1..Len(qq)
  <2>1. k \in 1..(n - 1) /\ k \in 1..n /\ k + 1 \in 1..n /\ k \in 1..MaxValues /\ k < n
    BY <1>1, <1>5, StoreConstants
  <2>2. Piece(r, k) = IF k > i /\ k < n THEN Piece(m, k + 1) ELSE Piece(m, k)
    BY <1>1, <1>3, <2>1 DEF IsCut, Piece
  <2>3. Piece(m, k) = q[k] /\ Piece(m, k + 1) = q[k + 1]
    BY <2>1 DEF Flat
  <2>4. CASE k <= i
    BY <1>5, <2>1, <2>2, <2>3, <2>4
  <2>5. CASE ~(k <= i)
    BY <1>5, <2>1, <2>2, <2>3, <2>5
  <2> QED
    BY <2>4, <2>5
<1>7. /\ r \in Memories /\ ~r.stray /\ r.slot.num = Len(qq) /\ r.slot.ptr = p
      /\ DOMAIN r.heap = {External, p} \ {Nothing}
      /\ r.slot.internal <=> p \in Blocks
  BY <1>1, <1>3, <1>5 DEF IsCut, Flat
<1>8. /\ r.slot.len # 0 <=> Len(qq) > 0
      /\ kind = "fixed" => r.slot.len <= r.slot.alloc
  <2>1. r.slot.len = (IF n = 1 THEN 0 ELSE m.slot.len) /\ r.slot.alloc = m.slot.alloc
        /\ m.slot.alloc \in Nat
    BY <1>1, <1>3, MemoryParts DEF IsCut
  <2>2. m.slot.len # 0 /\ (kind = "fixed" => m.slot.len <= m.slot.alloc)
    BY <1>1 DEF Flat
  <2> QED
    BY <1>1, <1>5, <2>1, <2>2
<1>9. Flat(kind, r, qq)
  <2> HIDE DEF p
  <2> QED
    BY <1>1, <1>5, <1>6, <1>7, <1>8 DEF Flat
<1> QED
  BY <1>4, <1>9 DEF qq

\* A value of a list is deleted, and its pointer taken out of the array.
LEMMA CutListed ==
    ASSUME NEW kd \in {"string", "object"}, NEW m, NEW q, Listed(kd, m, q, {}), NEW i \in Nat,
           i < Len(q), kd = "string" => Len(q) > 1,
           NEW r, r = Cut(m, Delete(m, Piece(m, i + 1)), i)
    PROVE  Listed(kd, r, Without(q, i), {})
<1> DEFINE p == m.slot.ptr
           n == Len(q)
           old == Piece(m, i + 1)
           m1 == Delete(m, old)
           qq == Without(q, i)
           Is(k) == IF k <= i THEN k ELSE k + 1
<1>1. /\ m \in Memories /\ q \in Seq(ValuesOf(kd)) /\ n \in Nat /\ n > 0 /\ m.slot.num = n /\ ~m.stray
      /\ n \in 0..MaxValues /\ p \in Blocks /\ p # Nothing /\ m.slot.len \in Nat /\ m.slot.internal
      /\ m.slot.len # 0 /\ i + 1 \in 1..n
  BY MemoryParts, StoreConstants DEF Listed
<1>2. \A k \in 1..n : /\ Piece(m, k) \in Blocks /\ Piece(m, k) # p /\ Piece(m, k) \in DOMAIN m.heap
                      /\ q[k] = IF kd = "string" THEN m.heap[Piece(m, k)][1] ELSE Piece(m, k)
  BY DEF Listed
<1>3. \A j, k \in 1..n : Piece(m, j) = Piece(m, k) => j = k
  BY DEF Listed
<1>4. DOMAIN m.heap = {External, p} \cup {Piece(m, k) : k \in 1..n}
  BY <1>1, StoreConstants DEF Listed
<1>5. old \in DOMAIN m.heap /\ old # External /\ old # p
  BY <1>1, <1>2, StoreConstants
<1> HIDE DEF old
<1>6. /\ m1 \in Memories /\ m1.slot = m.slot /\ m1.stray = m.stray
      /\ DOMAIN m1.heap = DOMAIN m.heap \ {old}
      /\ \A x \in DOMAIN m.heap : x # old => m1.heap[x] = m.heap[x]
  BY <1>1, <1>5, DeleteIs
<1> HIDE DEF m1
<1>7. IsCut(m, m1, i, r)
  <2>1. p \in DOMAIN m.heap /\ p \in DOMAIN m1.heap
    BY <1>4, <1>5, <1>6
  <2>2. r = Cut(m, m1, i)
    BY DEF m1, old
  <2> QED
    BY <1>1, <1>6, <2>1, <2>2, CutIs
<1>8. qq \in Seq(ValuesOf(kd)) /\ Len(qq) = n - 1 /\ \A k \in 1..(n - 1) : qq[k] = q[Is(k)]
  BY <1>1, WithoutIs
<1> HIDE DEF qq
<1>9. \A k \in 1..(n - 1) : Is(k) \in 1..n /\ Is(k) # i + 1
  BY <1>1
<1>10. \A j, k \in 1..(n - 1) : Is(j) = Is(k) => j = k
  BY <1>1
<1>11. \A k \in 1..n : k # i + 1 => \E j \in 1..(n - 1) : Is(j) = k
  <2> SUFFICES ASSUME NEW k \in 1..n, k # i + 1
               PROVE  \E j \in 1..(n - 1) : Is(j) = k
    OBVIOUS
  <2>1. CASE k <= i
    <3>1. k \in 1..(n - 1) /\ Is(k) = k
      BY <1>1, <2>1
    <3> QED
      BY <3>1
  <2>2. CASE ~(k <= i)
    <3>1. k - 1 \in 1..(n - 1) /\ Is(k - 1) = k
      BY <1>1, <2>2
    <3> QED
      BY <3>1
  <2> QED
    BY <2>1, <2>2
<1>12. \A k \in 1..(n - 1) : Piece(r, k) = Piece(m, Is(k))
  <2> TAKE k \in 1..(n - 1)
  <2>1. k \in 1..MaxValues /\ k < n
    BY <1>1, StoreConstants
  <2>2. Piece(r, k) = IF k > i /\ k < n THEN Piece(m, k + 1) ELSE Piece(m, k)
    <3>1. Piece(m, k) = m.heap[p][k] /\ Piece(m, k + 1) = m.heap[p][k + 1]
      BY Zenon DEF Piece
    <3>2. Piece(r, k) = r.heap[p][k]
      BY <1>7 DEF IsCut, Piece
    <3>3. r.heap[p][k] = IF k > i /\ k < n THEN m.heap[p][k + 1] ELSE m.heap[p][k]
      BY <1>1, <1>7, <2>1 DEF IsCut
    <3> HIDE DEF p, n
    <3> QED
      BY <3>1, <3>2, <3>3
  <2> QED
    BY <2>1, <2>2
<1> HIDE DEF Is
<1>13. \A k \in 1..(n - 1) :
          /\ Piece(m, Is(k)) \in Blocks /\ Piece(m, Is(k)) # p /\ Piece(m, Is(k)) # old
          /\ r.heap[Piece(m, Is(k))] = m.heap[Piece(m, Is(k))]
          /\ qq[k] = IF kd = "string" THEN r.heap[Piece(r, k)][1] ELSE Piece(r, k)
  <2> TAKE k \in 1..(n - 1)
  <2>1. Is(k) \in 1..n /\ Is(k) # i + 1
    BY <1>9
  <2>2. /\ Piece(m, Is(k)) \in Blocks /\ Piece(m, Is(k)) # p /\ Piece(m, Is(k)) \in DOMAIN m.heap
        /\ q[Is(k)] = IF kd = "string" THEN m.heap[Piece(m, Is(k))][1] ELSE Piece(m, Is(k))
    BY <1>2, <2>1
  <2>3. Piece(m, Is(k)) # old
    BY <1>1, <1>3, <2>1 DEF old
  <2>4. r.heap[Piece(m, Is(k))] = m.heap[Piece(m, Is(k))]
    <3>1. Piece(m, Is(k)) \in DOMAIN m1.heap
      BY <1>6, <2>2, <2>3
    <3>2. r.heap[Piece(m, Is(k))] = m1.heap[Piece(m, Is(k))]
      BY <1>7, <2>2, <3>1 DEF IsCut
    <3> QED
      BY <1>6, <2>2, <2>3, <3>2
  <2>5. qq[k] = q[Is(k)] /\ Piece(r, k) = Piece(m, Is(k))
    BY <1>8, <1>12
  <2> QED
    BY <2>2, <2>3, <2>4, <2>5
<1>14. \A j, k \in 1..(n - 1) : Piece(r, j) = Piece(r, k) => j = k
  <2> SUFFICES ASSUME NEW j \in 1..(n - 1), NEW k \in 1..(n - 1), Piece(r, j) = Piece(r, k)
               PROVE  j = k
    OBVIOUS
  <2>1. Is(j) = Is(k)
    BY <1>3, <1>9, <1>12
  <2> QED
    BY <1>10, <2>1
<1>15. {Piece(r, k) : k \in 1..(n - 1)} = {Piece(m, k) : k \in 1..n} \ {old}
  <2>1. \A k \in 1..(n - 1) : Piece(r, k) \in {Piece(m, j) : j \in 1..n} \ {old}
    BY <1>9, <1>12, <1>13
  <2>2. ASSUME NEW k \in 1..n, Piece(m, k) # old
        PROVE  Piece(m, k) \in {Piece(r, j) : j \in 1..(n - 1)}
    <3>1. k # i + 1
      BY <2>2 DEF old
    <3>2. PICK j \in 1..(n - 1) : Is(j) = k
      BY <1>11, <3>1
    <3> QED
      BY <1>12, <3>2
  <2> HIDE DEF n
  <2> QED
    BY <2>1, <2>2
<1>16. DOMAIN r.heap = ({External, p} \ {Nothing}) \cup {Piece(r, k) : k \in 1..(n - 1)} \cup {}
  <2>1. DOMAIN r.heap = DOMAIN m.heap \ {old}
    BY <1>6, <1>7 DEF IsCut
  <2> HIDE DEF p, n
  <2> QED
    BY <1>1, <1>4, <1>5, <1>15, <2>1, StoreConstants
<1>17. /\ r \in Memories /\ ~r.stray /\ r.slot.num = n - 1 /\ r.slot.ptr = p /\ r.slot.internal
       /\ r.slot.len = (IF n = 1 THEN 0 ELSE m.slot.len)
  BY <1>1, <1>6, <1>7 DEF IsCut
<1>18. r.slot.len # 0 <=> n - 1 > 0
  <2>1. n \in Nat /\ n > 0 /\ m.slot.len # 0
    BY <1>1
  <2> HIDE DEF n, p
  <2>2. CASE n = 1
    BY <1>17, <2>2
  <2>3. CASE n # 1
    <3>1. n - 1 > 0
      BY <2>1, <2>3
    <3>2. r.slot.len = m.slot.len
      BY <1>17, <2>3
    <3> QED
      BY <2>1, <3>1, <3>2
  <2> QED
    BY <2>2, <2>3
<1>19. \A k \in 1..(n - 1) : Piece(r, k) \in Blocks /\ Piece(r, k) # p
  BY <1>12, <1>13
<1> HIDE DEF p, n
<1> QED
  BY <1>1, <1>8, <1>13, <1>14, <1>16, <1>17, <1>18, <1>19 DEF Listed, qq, p, n

\* The last string takes the place of the array.
LEMMA OneLeftFlat ==
    ASSUME kind = "string", NEW m, NEW q, Listed("string", m, q, {}), Len(q) = 1
    PROVE  Flat("string", OneLeft(m), q)
<1> DEFINE p == m.slot.ptr
           s == Piece(m, 1)
           length == Size[m.heap[s][1]]
           d == Delete(m, p)
           r == OneLeft(m)
<1>1. /\ m \in Memories /\ q \in Seq(Contents) /\ m.slot.num = 1 /\ ~m.stray /\ m.slot.internal
      /\ p \in Blocks /\ p # External /\ p \in DOMAIN m.heap /\ 1 \in 1..Len(q)
      /\ s \in Blocks /\ s # p /\ s \in DOMAIN m.heap /\ q[1] = m.heap[s][1]
      /\ DOMAIN m.heap = {External, p, s}
  BY StoreConstants DEF Listed, ValuesOf
<1>2. length \in Nat \ {0}
  <2>1. m.heap[s][1] \in Contents
    <3>1. q \in Seq(Contents) /\ 1 \in 1..Len(q)
      BY <1>1
    <3>2. q[1] \in Contents
      BY ONLY <3>1, ElementOfSeq
    <3>3. q[1] = m.heap[s][1]
      BY <1>1
    <3> QED
      BY ONLY <3>2, <3>3
  <2> QED
    BY <2>1, StoreConstants
<1>3. r = [d EXCEPT !.slot = [@ EXCEPT !.ptr = s, !.len = length, !.alloc = length]]
  BY <1>1 DEF OneLeft, CellsOf, Piece
<1> HIDE DEF s, length, r
<1>4. /\ d \in Memories /\ d.slot = m.slot /\ ~d.stray /\ DOMAIN d.heap = {External, s}
      /\ d.heap[s] = m.heap[s]
  <2>1. /\ d \in Memories /\ d.slot = m.slot /\ d.stray = m.stray
        /\ DOMAIN d.heap = DOMAIN m.heap \ {p}
        /\ \A x \in DOMAIN m.heap : x # p => d.heap[x] = m.heap[x]
    BY <1>1, DeleteIs
  <2> HIDE DEF d, p
  <2> QED
    BY <1>1, <2>1
<1> HIDE DEF d
<1>5. r.heap = d.heap /\ r.stray = d.stray
      /\ r.slot = [m.slot EXCEPT !.ptr = s, !.len = length, !.alloc = length]
  BY <1>3, <1>4 DEF Memories
<1>6. r.slot \in SlotRecords /\ r.slot.num = 1 /\ r.slot.ptr = s /\ r.slot.len = length
      /\ r.slot.alloc = length /\ r.slot.internal
  <2>1. m.slot \in SlotRecords
    BY <1>1, MemoryParts
  <2> HIDE DEF p
  <2> QED
    BY <1>1, <1>2, <1>5, <2>1 DEF SlotRecords
<1>7. r \in Memories
  BY <1>3, <1>4, <1>5, <1>6 DEF Memories
<1>8. Piece(r, 1) = q[1]
  BY <1>1, <1>4, <1>5, <1>6 DEF Piece
<1>9. \A k \in 1..1 : k = 1
  OBVIOUS
<1>10. DOMAIN r.heap = {External, s} \ {Nothing} /\ s # Nothing
  BY <1>1, <1>4, <1>5, StoreConstants
<1>11. Flat("string", r, q)
  <2> HIDE DEF p
  <2> QED
    BY <1>1, <1>2, <1>4, <1>5, <1>6, <1>7, <1>8, <1>9, <1>10 DEF Flat
<1> QED
  BY <1>11 DEF r

LEMMA RemoveRep ==
    ASSUME kind \in {"string", "fixed", "object"}, NEW m, NEW q, Rep(kind, m, q), NEW i \in Nat,
           i < Len(q)
    PROVE  Rep(kind, Removed(m, i), Without(q, i))
<1> DEFINE qq == Without(q, i)
<1>1. m \in Memories /\ q \in Seq(ValuesOf(kind)) /\ Len(q) \in Nat /\ m.slot.num = Len(q)
  BY DEF Rep, Flat, Listed, AreListed, ValuesOf
<1>2. qq \in Seq(ValuesOf(kind)) /\ Len(qq) = Len(q) - 1
  BY <1>1, WithoutIs
<1> HIDE DEF qq
<1>3. CASE ~AreListed(kind, q)
  <2>1. Flat(kind, m, q) /\ kind \in {"string", "fixed"} /\ (kind = "string" => Len(q) <= 1)
    BY <1>1, <1>3 DEF Rep, AreListed
  <2>2. Flat(kind, Removed(m, i), qq)
    BY <2>1, RemoveFlat DEF qq
  <2>3. ~AreListed(kind, qq)
    BY <1>1, <1>2, <1>3, <2>1 DEF AreListed
  <2> QED
    BY <2>2, <2>3 DEF Rep, qq
<1>4. CASE AreListed(kind, q)
  <2> DEFINE r == Cut(m, Delete(m, Piece(m, i + 1)), i)
  <2>1. Listed(kind, m, q, {}) /\ kind \in {"string", "object"} /\ (kind = "string" => Len(q) > 1)
    BY <1>4 DEF Rep, AreListed
  <2>2. Listed(kind, r, qq, {})
    BY <2>1, CutListed DEF qq
  <2>3. Removed(m, i) = OneLeft(r)
    <3>1. Pointers(m) /\ m.slot.ptr \in DOMAIN m.heap
      BY <1>1, <2>1 DEF Pointers, Listed
    <3> QED
      BY <1>1, <3>1, RemovedIs
  <2> HIDE DEF r
  <2>4. r.slot.num = Len(qq)
    BY <2>2 DEF Listed
  <2>5. CASE kind = "string" /\ Len(qq) = 1
    <3>1. Flat("string", OneLeft(r), qq)
      BY <2>2, <2>5, OneLeftFlat
    <3> QED
      BY <2>3, <2>5, <3>1 DEF Rep, AreListed, qq
  <2>6. CASE ~(kind = "string" /\ Len(qq) = 1)
    <3>1. OneLeft(r) = r
      BY <2>4, <2>6 DEF OneLeft
    <3>2. AreListed(kind, qq)
      BY <1>1, <1>2, <2>1, <2>6 DEF AreListed
    <3> QED
      BY <2>2, <2>3, <3>1, <3>2 DEF Rep, qq
  <2> QED
    BY <2>5, <2>6
<1> QED
  BY <1>3, <1>4

LEMMA FirstValues ==
    ASSUME NEW S, NEW q \in Seq(S), NEW n \in 0..Len(q)
    PROVE  SubSeq(q, 1, n) \in Seq(S) /\ Len(SubSeq(q, 1, n)) = n
           /\ \A k \in 1..n : SubSeq(q, 1, n)[k] = q[k]
<1>1. 1 \in 1..(Len(q) + 1)
  OBVIOUS
<1> QED
  BY <1>1, SubSeqProperties

LEMMA RemoveLast ==
    ASSUME kind \in {"string", "object"}, NEW q \in Seq(ValuesOf(kind)), NEW j \in Nat, j < Len(q),
           NEW m, Rep(kind, m, SubSeq(q, 1, j + 1))
    PROVE  Rep(kind, Removed(m, j), SubSeq(q, 1, j))
<1> DEFINE a == SubSeq(q, 1, j + 1)
           b == SubSeq(q, 1, j)
<1>1. a \in Seq(ValuesOf(kind)) /\ Len(a) = j + 1 /\ \A k \in 1..(j + 1) : a[k] = q[k]
  <2>1. j + 1 \in 0..Len(q)
    OBVIOUS
  <2> QED
    BY <2>1, FirstValues
<1>2. b \in Seq(ValuesOf(kind)) /\ Len(b) = j /\ \A k \in 1..j : b[k] = q[k]
  <2>1. j \in 0..Len(q)
    OBVIOUS
  <2> QED
    BY <2>1, FirstValues
<1> HIDE DEF a, b
<1>3. Without(a, j) \in Seq(ValuesOf(kind)) /\ Len(Without(a, j)) = j
      /\ \A k \in 1..j : Without(a, j)[k] = a[k]
  <2>1. j < Len(a) /\ Len(a) - 1 = j
    BY <1>1
  <2>2. Without(a, j) \in Seq(ValuesOf(kind)) /\ Len(Without(a, j)) = Len(a) - 1
        /\ \A k \in 1..(Len(a) - 1) : Without(a, j)[k] = IF k <= j THEN a[k] ELSE a[k + 1]
    BY <1>1, <2>1, WithoutIs
  <2> QED
    BY <2>1, <2>2
<1>4. Without(a, j) = b
  <2>1. \A k \in 1..j : Without(a, j)[k] = b[k]
    BY <1>1, <1>2, <1>3, SMTT(30)
  <2> QED
    BY <1>2, <1>3, <2>1, SeqEqual
<1>5. Rep(kind, m, a)
  BY DEF a
<1>6. Rep(kind, Removed(m, j), Without(a, j))
  BY <1>1, <1>5, RemoveRep
<1> QED
  BY <1>4, <1>6 DEF b

\* Strings, or objects, are removed from the last one on.
LEMMA ShortenRep ==
    ASSUME kind \in {"string", "object"}, NEW m, NEW q, Rep(kind, m, q), NEW n \in Nat,
           n < m.slot.num, NEW g,
           g = CHOOSE removed : removed = [k \in 0..(m.slot.num - n) |->
                   IF k = 0 THEN m ELSE Removed(removed[k - 1], m.slot.num - k)]
    PROVE  Rep(kind, g[m.slot.num - n], SubSeq(q, 1, n))
<1> DEFINE L == m.slot.num
           N == L - n
           Rec(k, f) == IF k = 0 THEN m ELSE Removed(f[k - 1], L - k)
           Is(f) == f = [k \in 0..N |-> Rec(k, f)]
           Still(x, k) == Rep(kind, x, SubSeq(q, 1, (L - k) + 1))
           step == [kx \in (1..N) \X Memories |->
                       IF Still(kx[2], kx[1]) THEN Removed(kx[2], L - kx[1]) ELSE kx[2]]
           Good(f) == {k \in Nat : k <= N => Rep(kind, f[k], SubSeq(q, 1, L - k))}
<1>0. L \in Nat /\ N \in Nat /\ N <= L
  <2>1. L \in Nat
    BY DEF Rep, Flat, Listed
  <2> QED
    BY <2>1
<1>1. L \in Nat /\ N \in Nat /\ Len(q) = L /\ q \in Seq(ValuesOf(kind)) /\ m \in Memories
  <2>1. Len(q) = L /\ q \in Seq(ValuesOf(kind)) /\ m \in Memories
    BY DEF Rep, Flat, Listed, AreListed, ValuesOf
  <2> QED
    BY <1>0, <2>1
<1>2. Rep(kind, m, SubSeq(q, 1, L))
  <2>1. SubSeq(q, 1, L) = q
    <3>1. L \in 0..Len(q)
      BY <1>1
    <3>2. SubSeq(q, 1, L) \in Seq(ValuesOf(kind)) /\ Len(SubSeq(q, 1, L)) = L
          /\ \A k \in 1..L : SubSeq(q, 1, L)[k] = q[k]
      BY <1>1, <3>1, FirstValues
    <3> QED
      BY <1>1, <3>2, SeqEqual
  <2> QED
    BY <2>1
<1>3. \A x, k : Rep(kind, x, k) => x \in Memories
  BY DEF Rep, Flat, Listed
<1>4. \A k \in 1..N : \A x : Still(x, k) => Rep(kind, Removed(x, L - k), SubSeq(q, 1, L - k))
  <2> TAKE k \in 1..N
  <2> TAKE x
  <2> HAVE Still(x, k)
  <2>1. PICK j \in Nat : j = L - k
    BY <1>1
  <2>2. j < Len(q)
    BY <1>1, <2>1, SMTT(30)
  <2>3. Rep(kind, x, SubSeq(q, 1, j + 1))
    BY <2>1
  <2> QED
    BY <1>1, <2>1, <2>2, <2>3, RemoveLast
<1>5. step \in [(1..N) \X Memories -> Memories]
  <2>1. \A kx \in (1..N) \X Memories :
            (IF Still(kx[2], kx[1]) THEN Removed(kx[2], L - kx[1]) ELSE kx[2]) \in Memories
    <3> HIDE DEF Still, L, N
    <3> QED
      BY <1>3, <1>4
  <2> HIDE DEF Still, L, N
  <2> QED
    BY <2>1
<1>6. \E h : Stepwise(h, N, Memories, m, step)
  <2> HIDE DEF step, N
  <2> QED
    BY <1>1, <1>5, StepsExist
<1>7. PICK h \in [0..N -> Memories] : h = [k \in 0..N |-> IF k = 0 THEN m ELSE step[<<k, h[k - 1]>>]]
  <2> HIDE DEF step, N
  <2> QED
    BY <1>6 DEF Stepwise
<1>8. ASSUME NEW f, \A k \in 0..N : (k = 0 => f[k] = m) /\ (k # 0 /\ Still(f[k - 1], k) =>
                                                           f[k] = Removed(f[k - 1], L - k))
      PROVE  \A k \in 0..N : Rep(kind, f[k], SubSeq(q, 1, L - k))
  <2>1. 0 \in Good(f)
    <3>1. f[0] = m /\ L - 0 = L
      BY <1>1, <1>8
    <3> QED
      BY <1>2, <3>1
  <2>2. ASSUME NEW k \in Nat, k \in Good(f)
        PROVE  k + 1 \in Good(f)
    <3> SUFFICES ASSUME k + 1 <= N
                 PROVE  Rep(kind, f[k + 1], SubSeq(q, 1, L - (k + 1)))
      OBVIOUS
    <3>1. k + 1 \in 1..N /\ k + 1 \in 0..N /\ (k + 1) - 1 = k /\ (L - (k + 1)) + 1 = L - k
      <4> HIDE DEF L, N
      <4> QED
        BY <1>0
    <3>2. Rep(kind, f[k], SubSeq(q, 1, L - k))
      BY <1>1, <2>2
    <3>3. Still(f[(k + 1) - 1], k + 1)
      BY <3>1, <3>2
    <3>4. f[k + 1] = Removed(f[(k + 1) - 1], L - (k + 1))
      BY <1>8, <3>1, <3>3
    <3> HIDE DEF Still, L, N
    <3> QED
      BY <1>4, <3>1, <3>3, <3>4
  <2>3. \A k \in Nat : k \in Good(f)
    <3> HIDE DEF Good
    <3> QED
      BY <2>1, <2>2, NumberInduction
  <2> QED
    BY <1>1, <2>3
<1>9. Is(h)
  <2>1. \A k \in 0..N : k # 0 => step[<<k, h[k - 1]>>] =
            IF Still(h[k - 1], k) THEN Removed(h[k - 1], L - k) ELSE h[k - 1]
    <3> SUFFICES ASSUME NEW k \in 0..N, k # 0
                 PROVE  step[<<k, h[k - 1]>>] =
                            IF Still(h[k - 1], k) THEN Removed(h[k - 1], L - k) ELSE h[k - 1]
      OBVIOUS
    <3>1. k \in 1..N /\ k - 1 \in 0..N
      BY <1>1
    <3>2. h[k - 1] \in Memories
      BY <3>1
    <3> HIDE DEF Still, L, N
    <3> QED
      BY <3>1, <3>2
  <2>2. \A k \in 0..N : h[k] = IF k = 0 THEN m ELSE step[<<k, h[k - 1]>>]
    <3> HIDE DEF step, N
    <3> QED
      BY <1>7
  <2> HIDE DEF step
  <2>3. \A k \in 0..N : Rep(kind, h[k], SubSeq(q, 1, L - k))
    <3>1. \A k \in 0..N : (k = 0 => h[k] = m) /\ (k # 0 /\ Still(h[k - 1], k) =>
                                                           h[k] = Removed(h[k - 1], L - k))
      <4> HIDE DEF Still, L, N
      <4> QED
        BY <2>1, <2>2
    <3> HIDE DEF Still, L, N
    <3> QED
      BY <1>8, <3>1
  <2>4. \A k \in 0..N : k # 0 => Still(h[k - 1], k)
    <3> SUFFICES ASSUME NEW k \in 0..N, k # 0
                 PROVE  Still(h[k - 1], k)
      OBVIOUS
    <3>1. k - 1 \in 0..N /\ L - (k - 1) = (L - k) + 1
      BY <1>1
    <3> HIDE DEF L, N
    <3> QED
      BY <2>3, <3>1
  <2>5. \A k \in 0..N : h[k] = Rec(k, h)
    <3> HIDE DEF Still, L, N
    <3> QED
      BY <2>1, <2>2, <2>4
  <2> HIDE DEF Rec, N
  <2> QED
    BY <1>7, <2>5
<1>10. Is(g)
  <2>1. g = CHOOSE f : Is(f)
    OBVIOUS
  <2> HIDE DEF Is
  <2> QED
    BY <1>9, <2>1
<1>11. \A k \in 0..N : g[k] = Rec(k, g)
  <2> HIDE DEF N, Rec
  <2> QED
    BY <1>10
<1>12. \A k \in 0..N : Rep(kind, g[k], SubSeq(q, 1, L - k))
  <2>1. \A k \in 0..N : (k = 0 => g[k] = m) /\ (k # 0 /\ Still(g[k - 1], k) =>
                                                           g[k] = Removed(g[k - 1], L - k))
    <3> HIDE DEF Still, L, N
    <3> QED
      BY <1>11
  <2> HIDE DEF Still, L, N
  <2> QED
    BY <1>8, <2>1
<1>13. N \in 0..N /\ L - N = n
  BY <1>1
<1>14. Rep(kind, g[N], SubSeq(q, 1, L - N))
  <2> HIDE DEF N, L
  <2> QED
    BY <1>12, <1>13
<1> QED
  BY <1>13, <1>14

\* Of values of a fixed size only the number changes.
LEMMA FewerFlat ==
    ASSUME NEW m, NEW q, Flat("fixed", m, q), NEW n \in Nat, n < m.slot.num,
           NEW r, r = [m EXCEPT !.slot.num = n, !.slot.len = IF n = 0 THEN 0 ELSE @]
    PROVE  Flat("fixed", r, SubSeq(q, 1, n))
<1> DEFINE l == IF n = 0 THEN 0 ELSE m.slot.len
           s == [[m.slot EXCEPT !.num = n] EXCEPT !.len = l]
           qq == SubSeq(q, 1, n)
<1>1. m \in Memories /\ m.slot \in SlotRecords /\ m.slot.num = Len(q) /\ m.slot.num \in 0..MaxValues
      /\ m.slot.len \in Nat /\ m.slot.alloc \in Nat /\ q \in Seq(Contents)
  BY MemoryParts DEF Flat
<1>2. l \in Nat /\ n \in 0..MaxValues /\ n \in 0..Len(q)
  BY <1>1, StoreConstants
<1>3. r = [m EXCEPT !.slot.num = n, !.slot.len = l]
  OBVIOUS
<1>4. qq \in Seq(Contents) /\ Len(qq) = n /\ \A k \in 1..n : qq[k] = q[k]
  BY <1>1, <1>2, FirstValues
<1> HIDE DEF l, qq
<1>5. s \in SlotRecords /\ s.num = n /\ s.len = l /\ s.ptr = m.slot.ptr /\ s.alloc = m.slot.alloc
      /\ s.internal = m.slot.internal
  BY <1>1, <1>2 DEF SlotRecords
<1>6. r.heap = m.heap /\ r.stray = m.stray /\ r.slot = s
  BY <1>1, <1>3 DEF Memories
<1> HIDE DEF s
<1>7. r \in Memories /\ r.heap = m.heap /\ r.stray = m.stray /\ r.slot = s
  BY <1>1, <1>3, <1>5, <1>6 DEF Memories
<1>8. m.slot.len # 0 /\ m.slot.len <= m.slot.alloc /\ m.slot.ptr # Nothing /\ ~m.stray
      /\ DOMAIN m.heap = {External, m.slot.ptr} \ {Nothing}
      /\ (m.slot.internal <=> m.slot.ptr \in Blocks)
  BY <1>1 DEF Flat
<1>9. l <= m.slot.alloc /\ (l # 0 <=> n > 0)
  BY <1>1, <1>8 DEF l
<1>10. \A k \in 1..n : Piece(r, k) = qq[k]
  <2> TAKE k \in 1..n
  <2>1. k \in 1..Len(q)
    BY <1>1
  <2>2. Piece(m, k) = q[k]
    BY <2>1 DEF Flat
  <2> QED
    BY <1>4, <1>5, <1>7, <2>2 DEF Piece
<1>11. Flat("fixed", r, qq)
  BY <1>4, <1>5, <1>7, <1>8, <1>9, <1>10 DEF Flat
<1> QED
  BY <1>11 DEF qq

-----------------------------------------------------------------------------
(* The attribute. *)

\* What is said of the memory holds unless a long string was put in the first place, as a list
\* may then be cut off: the model does nothing more with the attribute after that.
StoreInv ==
    /\ kind \in {"string", "fixed", "object"} /\ overlong \in BOOLEAN
    /\ holder = NoThread => given = Nothing
    /\ ~overlong => /\ Rep(kind, Memory, stored)
                    /\ given # Nothing => given \in DOMAIN heap

LEMMA BecomesIs ==
    ASSUME NEW m \in Memories, Becomes(m)
    PROVE  Memory' = m
BY DEF Becomes, Memory, Memories

LEMMA RepMemories ==
    ASSUME NEW kd, NEW m, NEW q, Rep(kd, m, q)
    PROVE  m \in Memories /\ q \in Seq(ValuesOf(kd)) /\ m.slot.num = Len(q) /\ Len(q) \in Nat
           /\ Len(q) <= MaxValues
<1>1. m \in Memories /\ m.slot.num = Len(q)
  BY DEF Rep, Flat, Listed
<1>2. q \in Seq(ValuesOf(kd))
  BY DEF Rep, Flat, Listed, ValuesOf, AreListed
<1> QED
  BY <1>1, <1>2, MemoryParts, StoreConstants

\* A call that changes the values leaves the invariant.
LEMMA ChangedKeeps ==
    ASSUME StoreInv, NEW t \in Threads, Enter(t), NEW m, Becomes(m), overlong' \in BOOLEAN,
           ~overlong' => Rep(kind, m, stored')
    PROVE  StoreInv'
<1>1. kind' = kind /\ holder' = holder /\ NoThread # t
  BY StoreAssumption DEF Enter
<1>2. given' = Nothing
  BY <1>1 DEF Enter, MutexFree, StoreInv
<1>3. ~overlong' => Rep(kind, Memory', stored')
  <2> SUFFICES ASSUME ~overlong'
               PROVE  Rep(kind, Memory', stored')
    OBVIOUS
  <2>1. Rep(kind, m, stored')
    OBVIOUS
  <2>2. Memory' = m
    BY <2>1, RepMemories, BecomesIs
  <2> QED
    BY <2>1, <2>2
<1> QED
  BY <1>1, <1>2, <1>3 DEF StoreInv

LEMMA StoreStart == StoreInit => StoreInv
<1> SUFFICES ASSUME StoreInit PROVE StoreInv
  OBVIOUS
<1>1. kind \in {"string", "fixed", "object"} /\ overlong = FALSE /\ given = Nothing /\ stored = <<>>
      /\ heap = [b \in {External} |-> NewBlock] /\ stray = FALSE
  BY DEF StoreInit
<1>2. /\ slot \in SlotRecords /\ slot.num = 0 /\ slot.len = 0 /\ slot.internal = FALSE
      /\ slot.ptr \in {External, Nothing}
      /\ slot.ptr = Nothing => slot.alloc = 0
      /\ kind = "object" => slot.ptr = Nothing
  <2>1. CASE slot = Null
    <3>1. slot = [num |-> 0, ptr |-> Nothing, len |-> 0, alloc |-> 0, internal |-> FALSE]
      BY <2>1 DEF Null
    <3>2. 0 \in 0..MaxValues
      BY StoreConstants
    <3> QED
      BY <3>1, <3>2 DEF SlotRecords
  <2>2. CASE slot = [Null EXCEPT !.ptr = External, !.alloc = Supplied] /\ kind # "object"
    <3>1. slot = [num |-> 0, ptr |-> External, len |-> 0, alloc |-> Supplied, internal |-> FALSE]
      BY <2>2 DEF Null
    <3>2. 0 \in 0..MaxValues /\ Supplied \in Nat /\ External # Nothing
      BY StoreConstants
    <3>3. slot \in SlotRecords
      BY <3>1, <3>2 DEF SlotRecords
    <3>4. slot.num = 0 /\ slot.ptr = External /\ slot.len = 0 /\ slot.internal = FALSE
      BY <3>1
    <3> QED
      BY <2>2, <3>2, <3>3, <3>4
  <2> QED
    BY <2>1, <2>2 DEF StoreInit, Null
<1>3. heap \in Heaps /\ DOMAIN heap = {External}
  <2>1. \A b \in {External} : heap[b] \in Cells
    BY <1>1, NewBlockType
  <2>2. heap = [b \in {External} |-> heap[b]]
    BY <1>1
  <2>3. {External} \subseteq Blocks \cup {External}
    OBVIOUS
  <2> QED
    BY <1>1, <2>1, <2>2, <2>3, HeapWhole
<1>4. Memory \in Memories /\ Memory.slot = slot /\ Memory.heap = heap /\ Memory.stray = FALSE
  BY <1>1, <1>2, <1>3 DEF Memory, Memories
<1>5. \A S : stored \in Seq(S) /\ Len(stored) = 0
  BY <1>1
<1>6. CASE kind = "object"
  <2>1. {Piece(Memory, k) : k \in 1..0} = {}
    OBVIOUS
  <2>2. DOMAIN Memory.heap =
            ({External, slot.ptr} \ {Nothing}) \cup {Piece(Memory, k) : k \in 1..0} \cup {}
    BY <1>2, <1>3, <1>4, <1>6, <2>1, StoreConstants
  <2>3. \A k \in 1..0 : FALSE
    OBVIOUS
  <2>4. slot.ptr = Nothing /\ slot.alloc = 0 /\ ~slot.internal /\ slot.len = 0 /\ slot.num = 0
    BY <1>2, <1>6
  <2>5. Listed(kind, Memory, stored, {})
    BY <1>4, <1>5, <2>2, <2>3, <2>4 DEF Listed
  <2>6. Rep(kind, Memory, stored)
    BY <1>6, <2>5 DEF Rep, AreListed
  <2> QED
    BY <1>1, <2>6 DEF StoreInv
<1>7. CASE kind # "object"
  <2>1. DOMAIN Memory.heap = {External, slot.ptr} \ {Nothing}
    BY <1>2, <1>3, <1>4, StoreConstants
  <2>2. \A k \in 1..0 : FALSE
    OBVIOUS
  <2>3. slot.internal = FALSE /\ slot.ptr \notin Blocks
    BY <1>2, StoreConstants
  <2>4. slot.len <= slot.alloc
    BY <1>2, MemoryParts DEF SlotRecords
  <2>5. Flat(kind, Memory, stored)
    BY <1>2, <1>4, <1>5, <2>1, <2>2, <2>3, <2>4 DEF Flat
  <2>6. Rep(kind, Memory, stored)
    BY <1>5, <1>7, <2>5 DEF Rep, AreListed
  <2> QED
    BY <1>1, <2>6 DEF StoreInv
<1> QED
  BY <1>6, <1>7

LEMMA SetValueKeeps ==
    ASSUME StoreInv, NEW t \in Threads, NEW i \in 0..(MaxValues - 1), NEW v \in Contents,
           SetValue(t, i, v)
    PROVE  StoreInv'
<1> DEFINE m == IF kind = "string" /\ slot.num = 1 /\ i = 1 THEN Split(Memory) ELSE Memory
           r == Numbered(Stored(Enlarged(m, i, Width(i, v)), i, v), i)
<1>1. /\ Enter(t) /\ kind \in {"string", "fixed"}
      /\ i <= slot.num /\ i < MaxValues /\ (i > 0 => slot.ptr # External)
      /\ kind = "fixed" /\ (i > 0 \/ slot.num > 1) /\ slot.len # 0 => Size[v] = slot.len
      /\ Becomes(r)
      /\ stored' = IF i < Len(stored) THEN [stored EXCEPT ![i + 1] = v] ELSE Append(stored, v)
      /\ overlong' = (kind = "string" /\ i = 0 /\ slot.num > 1 /\ Size[v] > slot.alloc)
  BY DEF SetValue, StoreInv
<1>2. Memory.slot = slot /\ i \in Nat /\ Rep(kind, Memory, stored) /\ slot.num = Len(stored)
  BY <1>1, StoreConstants, RepMemories DEF Memory, Enter, StoreInv
<1>3. stored' = PutAt(stored, i, v)
  BY <1>1 DEF PutAt
<1>4. ~overlong' => Rep(kind, r, stored')
  <2> SUFFICES ASSUME ~overlong'
               PROVE  Rep(kind, r, stored')
    OBVIOUS
  <2>1. ~(kind = "string" /\ i = 0 /\ Len(stored) > 1 /\ Size[v] > Memory.slot.alloc)
    BY <1>1, <1>2
  <2>2. m = IF kind = "string" /\ Memory.slot.num = 1 /\ i = 1 THEN Split(Memory) ELSE Memory
    BY <1>2
  <2>3. i <= Len(stored) /\ (i > 0 => Memory.slot.ptr # External)
        /\ (kind = "fixed" /\ (i > 0 \/ Len(stored) > 1) /\ Memory.slot.len # 0
                => Size[v] = Memory.slot.len)
    BY <1>1, <1>2
  <2> HIDE DEF m
  <2>4. Rep(kind, r, PutAt(stored, i, v))
    BY <1>1, <1>2, <2>1, <2>2, <2>3, SetRep
  <2> QED
    BY <1>3, <2>4
<1>5. overlong' \in BOOLEAN
  BY <1>1, Zenon
<1> HIDE DEF r
<1> QED
  BY <1>1, <1>4, <1>5, ChangedKeeps

LEMMA ObjectKeeps ==
    ASSUME StoreInv, NEW t \in Threads, CreateObjectValue(t)
    PROVE  StoreInv'
<1> DEFINE n == slot.num
           d == Fresh(heap)
           m == Enlarged(New(Memory, d, NewBlock), n, 1)
           r == Numbered(WithLen(SetCell(m, n + 1, d), 1), n)
<1>1. /\ Enter(t) /\ kind = "object" /\ n < MaxValues /\ Becomes(r)
      /\ stored' = Append(stored, d) /\ overlong' = overlong /\ ~overlong
  BY DEF CreateObjectValue, WithLen, Enter
<1>2. Memory.slot = slot /\ Memory.heap = heap /\ Rep(kind, Memory, stored) /\ n = Len(stored)
  BY <1>1, RepMemories DEF Memory, StoreInv
<1>3. m = Enlarged(New(Memory, d, NewBlock), Len(stored), 1)
      /\ r = Numbered(WithLen(SetCell(m, Len(stored) + 1, d), 1), Len(stored))
      /\ d = Fresh(Memory.heap) /\ Len(stored) < MaxValues
  BY <1>1, <1>2
<1> HIDE DEF r, m, d
<1>4. Rep(kind, r, stored')
  BY <1>1, <1>2, <1>3, CreateRep
<1>9. overlong' \in BOOLEAN
  BY <1>1 DEF StoreInv
<1> QED
  BY <1>1, <1>9, <1>4, ChangedKeeps

LEMMA RemoveKeeps ==
    ASSUME StoreInv, NEW t \in Threads, NEW i \in 0..(MaxValues - 1), RemoveValue(t, i)
    PROVE  StoreInv'
<1>1. Enter(t) /\ i < slot.num /\ Becomes(Removed(Memory, i)) /\ overlong' = overlong /\ ~overlong
      /\ stored' = Without(stored, i)
  BY DEF RemoveValue, Enter, Without
<1>2. Memory.slot = slot /\ Rep(kind, Memory, stored) /\ slot.num = Len(stored) /\ i \in Nat
  BY <1>1, RepMemories DEF Memory, StoreInv
<1>3. Rep(kind, Removed(Memory, i), stored')
  BY <1>1, <1>2, RemoveRep DEF StoreInv
<1>9. overlong' \in BOOLEAN
  BY <1>1 DEF StoreInv
<1> QED
  BY <1>1, <1>9, <1>3, ChangedKeeps

LEMMA ShortenKeeps ==
    ASSUME StoreInv, NEW t \in Threads, NEW n \in 0..(MaxValues - 1), SetNumValues(t, n)
    PROVE  StoreInv'
<1> DEFINE m == Memory
           g == CHOOSE removed : removed = [k \in 0..(slot.num - n) |->
                    IF k = 0 THEN m ELSE Removed(removed[k - 1], slot.num - k)]
           x == [m EXCEPT !.slot.num = n, !.slot.len = IF n = 0 THEN 0 ELSE @]
           r == IF kind = "fixed" THEN x ELSE g[slot.num - n]
<1>1. Enter(t) /\ n < slot.num /\ Becomes(r) /\ overlong' = overlong /\ ~overlong
      /\ stored' = SubSeq(stored, 1, n)
  BY DEF SetNumValues, Enter
<1>2. m.slot = slot /\ Rep(kind, m, stored) /\ n \in Nat
  BY <1>1 DEF Memory, StoreInv
<1>3. Rep(kind, r, stored')
  <2>1. CASE kind = "fixed"
    <3>1. r = x
      <4> HIDE DEF x, g
      <4> QED
        BY <2>1
    <3>2. Flat("fixed", m, stored) /\ n < m.slot.num
      BY <1>1, <1>2, <2>1 DEF Rep, AreListed
    <3> HIDE DEF m, r
    <3>3. Flat("fixed", r, SubSeq(stored, 1, n))
      BY <1>2, <3>1, <3>2, FewerFlat
    <3> QED
      BY <1>1, <2>1, <3>3 DEF Rep, AreListed
  <2>2. CASE kind # "fixed"
    <3>1. g = CHOOSE removed : removed = [k \in 0..(m.slot.num - n) |->
                 IF k = 0 THEN m ELSE Removed(removed[k - 1], m.slot.num - k)]
      BY <1>2
    <3>2. r = g[m.slot.num - n] /\ n < m.slot.num /\ kind \in {"string", "object"}
      BY <1>1, <1>2, <2>2 DEF StoreInv
    <3> HIDE DEF m, r, g
    <3> QED
      BY <1>1, <1>2, <3>1, <3>2, ShortenRep
  <2> QED
    BY <2>1, <2>2
<1> HIDE DEF r
<1>9. overlong' \in BOOLEAN
  BY <1>1 DEF StoreInv
<1> QED
  BY <1>1, <1>9, <1>3, ChangedKeeps

\* What the attribute uses, and what is read from it.
LEMMA StoreIsKept ==
    ASSUME StoreInv, ~overlong
    PROVE  /\ slot.num = Len(stored) /\ Len(stored) \in Nat /\ Len(stored) <= MaxValues
           /\ \A i \in 0..(MaxValues - 1) : Found(i) <=> i < Len(stored)
           /\ \A i \in 1..Len(stored) : /\ ValueAt(i - 1) = stored[i]
                                        /\ BlockOf(i - 1) \in DOMAIN heap
           /\ ~stray /\ DOMAIN heap = Reachable \ {Nothing}
<1> DEFINE m == Memory
           n == Len(stored)
<1>1. Rep(kind, m, stored) /\ m.slot = slot /\ m.heap = heap /\ m.stray = stray
  BY DEF StoreInv, Memory
<1>2. slot.num = n /\ n \in Nat /\ n <= MaxValues /\ m \in Memories
  BY <1>1, RepMemories
<1> HIDE DEF m
<1>3. slot.len # 0 <=> n > 0
  BY <1>1, <1>2 DEF Rep, Flat, Listed
<1>4. \A i \in 0..(MaxValues - 1) : Found(i) <=> i < n
  <2> TAKE i \in 0..(MaxValues - 1)
  <2>1. i \in Nat
    BY StoreConstants
  <2> QED
    BY <1>2, <1>3, <2>1 DEF Found
<1>5. CASE AreListed(kind, stored)
  <2>1. Listed(kind, m, stored, {})
    BY <1>1, <1>5 DEF Rep
  <2>2. n > 0 => slot.ptr # Nothing /\ slot.ptr \in DOMAIN heap
    BY <1>1, <1>2, <2>1 DEF Listed
  <2>3. \A k \in 1..n : CellsOf(m, slot.ptr)[k] = Piece(m, k)
    BY <1>1, <1>2, <2>2 DEF CellsOf, Piece
  <2>4. Pointers(m)
    BY <1>1, <1>2, <1>5 DEF Pointers, AreListed
  <2>5. DOMAIN heap = ({External, slot.ptr} \ {Nothing}) \cup {Piece(m, k) : k \in 1..n}
    BY <1>1, <2>1 DEF Listed
  <2>6. \A k \in 1..n : Piece(m, k) \in Blocks
    BY <2>1 DEF Listed
  <2>7. DOMAIN heap = Reachable \ {Nothing}
    <3>1. Reachable = {slot.ptr, External} \cup {CellsOf(m, slot.ptr)[k] : k \in 1..n}
      BY <1>2, <2>4 DEF Reachable, m
    <3>2. {CellsOf(m, slot.ptr)[k] : k \in 1..n} = {Piece(m, k) : k \in 1..n}
      BY <2>3
    <3>3. Nothing \notin {Piece(m, k) : k \in 1..n}
      BY <2>6, StoreConstants
    <3> HIDE DEF n
    <3> QED
      BY <2>5, <3>1, <3>2, <3>3
  <2>8. ASSUME NEW i \in 1..n
        PROVE  ValueAt(i - 1) = stored[i] /\ BlockOf(i - 1) \in DOMAIN heap
    <3>1. (i - 1) + 1 = i
      BY <1>2
    <3>2. stored[i] = (IF kind = "string" THEN m.heap[Piece(m, i)][1] ELSE Piece(m, i))
      BY <2>1 DEF Listed
    <3>3. CASE kind = "string"
      <4>1. slot.num > 1
        BY <1>2, <1>5, <3>3 DEF AreListed
      <4>2. BlockOf(i - 1) = Piece(m, i)
        BY <2>3, <3>1, <3>3, <4>1 DEF BlockOf, m
      <4>3. Piece(m, i) \in DOMAIN heap
        BY <2>5
      <4>4. ValueAt(i - 1) = m.heap[Piece(m, i)][1]
        BY <1>1, <3>3, <4>1, <4>2, <4>3 DEF ValueAt, CellsOf, m
      <4> QED
        BY <3>2, <3>3, <4>2, <4>3, <4>4
    <3>4. CASE kind # "string"
      <4>1. ValueAt(i - 1) = Piece(m, i) /\ BlockOf(i - 1) = slot.ptr
        BY <2>3, <3>1, <3>4 DEF ValueAt, BlockOf, m
      <4> QED
        BY <2>2, <3>2, <3>4, <4>1
    <3> QED
      BY <3>3, <3>4
  <2> QED
    BY <1>1, <1>2, <1>4, <2>1, <2>7, <2>8 DEF Listed
<1>6. CASE ~AreListed(kind, stored)
  <2>1. Flat(kind, m, stored)
    BY <1>1, <1>6 DEF Rep
  <2>2. DOMAIN heap = {External, slot.ptr} \ {Nothing}
    BY <1>1, <2>1 DEF Flat
  <2>3. ~Pointers(m)
    BY <1>1, <1>2, <1>6 DEF Pointers, AreListed
  <2>4. DOMAIN heap = Reachable \ {Nothing}
    <3>1. Reachable = {slot.ptr, External}
      BY <2>3 DEF Reachable, m
    <3> QED
      BY <2>2, <3>1
  <2>5. ASSUME NEW i \in 1..n
        PROVE  ValueAt(i - 1) = stored[i] /\ BlockOf(i - 1) \in DOMAIN heap
    <3>1. ~(kind = "string" /\ slot.num > 1) /\ (i - 1) + 1 = i
      BY <1>2, <1>6 DEF AreListed
    <3>2. slot.ptr \in DOMAIN heap
      BY <1>1, <1>2, <2>1, <2>2 DEF Flat
    <3>3. Piece(m, i) = stored[i]
      BY <2>1 DEF Flat
    <3>4. ValueAt(i - 1) = CellsOf(m, slot.ptr)[i] /\ BlockOf(i - 1) = slot.ptr
      BY <3>1 DEF ValueAt, BlockOf, m
    <3>5. CellsOf(m, slot.ptr)[i] = Piece(m, i)
      BY <1>1, <3>2 DEF CellsOf, Piece
    <3> QED
      BY <3>2, <3>3, <3>4, <3>5
  <2> QED
    BY <1>1, <1>2, <1>4, <2>1, <2>4, <2>5 DEF Flat
<1> QED
  BY <1>5, <1>6

LEMMA GivenKeeps ==
    ASSUME StoreInv, NEW t \in Threads, NEW i \in 0..(MaxValues - 1), GetValuePtr(t, i)
    PROVE  StoreInv'
<1>1. ~overlong /\ Found(i) /\ given' = (IF holder = t THEN BlockOf(i) ELSE given)
      /\ UNCHANGED <<kind, slot, heap, stray, stored, holder, locked, overlong>>
  BY DEF GetValuePtr
<1>2. BlockOf(i) \in DOMAIN heap
  <2>1. i < Len(stored) /\ Len(stored) \in Nat /\ i \in Nat
    BY <1>1, StoreIsKept, StoreConstants
  <2>2. i + 1 \in 1..Len(stored) /\ (i + 1) - 1 = i
    BY <2>1
  <2>3. BlockOf((i + 1) - 1) \in DOMAIN heap
    BY <1>1, <2>2, StoreIsKept
  <2> QED
    BY <2>2, <2>3
<1>3. Memory' = Memory
  BY <1>1 DEF Memory
<1>4. t # NoThread
  BY StoreAssumption
<1> QED
  BY <1>1, <1>2, <1>3, <1>4 DEF StoreInv

LEMMA StoreStep == StoreInv /\ [StoreNext]_storeVars => StoreInv'
<1> SUFFICES ASSUME StoreInv, [StoreNext]_storeVars PROVE StoreInv'
  OBVIOUS
<1>1. ASSUME NEW t \in Threads, LockObject(t)
      PROVE  StoreInv'
  <2>1. /\ holder = NoThread
        /\ UNCHANGED <<kind, slot, heap, stray, stored, given, overlong>>
    BY <1>1 DEF LockObject
  <2>2. Memory' = Memory
    BY <2>1 DEF Memory
  <2> QED
    BY <2>1, <2>2 DEF StoreInv
<1>2. ASSUME NEW t \in Threads, UnlockObject(t)
      PROVE  StoreInv'
  <2>1. given' = Nothing /\ UNCHANGED <<kind, slot, heap, stray, stored, overlong>>
    BY <1>2 DEF UnlockObject
  <2>2. Memory' = Memory
    BY <2>1 DEF Memory
  <2> QED
    BY <2>1, <2>2 DEF StoreInv
<1>3. CASE UNCHANGED storeVars
  <2>1. UNCHANGED <<kind, slot, heap, stray, stored, holder, given, overlong>>
    BY <1>3 DEF storeVars
  <2>2. Memory' = Memory
    BY <2>1 DEF Memory
  <2> QED
    BY <2>1, <2>2 DEF StoreInv
<1> QED
  BY <1>1, <1>2, <1>3, SetValueKeeps, RemoveKeeps, GivenKeeps, ObjectKeeps, ShortenKeeps
  DEF StoreNext

LEMMA StoreHolds == StoreSpec => []StoreInv
BY StoreStart, StoreStep, PTL DEF StoreSpec

\* What was set and not removed is what is read, in its place, whatever the order of SetValue,
\* CreateObjectValue, RemoveValue and SetNumValues and the storage they change between.
THEOREM ReadAsSet == StoreSpec => []ValuesKept
<1>1. StoreInv => ValuesKept
  <2> SUFFICES ASSUME StoreInv, ~overlong
               PROVE  ValuesKept
    BY DEF ValuesKept
  <2>1. Rep(kind, Memory, stored)
    BY DEF StoreInv
  <2>2. DOMAIN stored = 1..Len(stored)
    BY <2>1, RepMemories
  <2> QED
    BY <2>2, StoreIsKept DEF ValuesKept
<1> QED
  BY <1>1, StoreHolds, PTL

\* Every block of the attribute is deleted once and none is leaked, and the pointer that the
\* owner of the lock was given by GetValuePtr stays good until it changes the attribute itself.
THEOREM NothingLeaked == StoreSpec => []MemoryKept
<1>1. StoreInv => MemoryKept
  <2> SUFFICES ASSUME StoreInv, ~overlong
               PROVE  MemoryKept
    BY DEF MemoryKept
  <2>1. given # Nothing => given \in DOMAIN heap
    BY DEF StoreInv
  <2> QED
    BY <2>1, StoreIsKept DEF MemoryKept
<1> QED
  BY <1>1, StoreHolds, PTL

-----------------------------------------------------------------------------
(* The access log. *)

FileRecords == [head : Times, lines : Seq(1..MaxEntries), by : 0..MaxEntries]
RolledMaps  == UNION {[D -> Nat \ {0}] : D \in SUBSET (Times \X (0..Numbers))}
Disks       == [file : Nat, created : Times, files : Seq(FileRecords), path : Nat,
                rolled : RolledMaps]

\* The last number of some day was given.
UsedUp(map) == \E x \in DOMAIN map : x[2] = Numbers

\* What an object has open is a file; and a file without a name lost it to the last number.
SoundDisk(d) ==
    /\ d \in Disks /\ {d.file, d.path} \subseteq 0..Len(d.files)
    /\ \A x \in DOMAIN d.rolled : d.rolled[x] \in 1..Len(d.files)
    /\ \A i \in 1..Len(d.files) :
           i = d.path \/ (\E x \in DOMAIN d.rolled : d.rolled[x] = i) \/ UsedUp(d.rolled)

\* Files are only added, and are empty then.
Adds(old, new) ==
    /\ Len(old) <= Len(new)
    /\ \A i \in 1..Len(old) : new[i] = old[i]
    /\ \A i \in 1..Len(new) : i > Len(old) => new[i].lines = <<>>

\* A file was made for the entry e.
MadeFor(list, e) == \E i \in 1..Len(list) : list[i].by = e

\* The entry e is in one file, once, or a file was made for it.
Landed(list, e) ==
    \/ \E i \in 1..Len(list) : \A j \in 1..Len(list) : e \in Range(list[j].lines) <=> j = i
    \/ MadeFor(list, e)

\* Entries are in order, and smaller than the next.
InTheirOrder(list, next) ==
    \A i \in 1..Len(list) : /\ Increasing(list[i].lines)
                            /\ \A j \in 1..Len(list[i].lines) : list[i].lines[j] < next

\* The entry that is written next.
NextEntry == IF logger = 0 THEN entries + 1 ELSE logger

\* While an object has a file there is one with the name of the log; one that was enabled has
\* a file, unless it closes it between writes.
ObjectSound(l) ==
    /\ log[l].file \in 0..Len(files)
    /\ log[l].file # 0 \/ log[l].ready => path # 0
    /\ log[l].ready => closing \/ log[l].file # 0

\* The objects and the files.
FilesInv ==
    /\ log \in [Logs -> [life : {"none", "live"}, file : 0..MaxFiles,
                         created : Times, ready : BOOLEAN]]
    /\ files \in Seq(FileRecords) /\ Len(files) <= MaxFiles
    /\ path \in 0..Len(files) /\ rolled \in RolledMaps
    /\ \A x \in DOMAIN rolled : rolled[x] \in 1..Len(files)
    /\ \A i \in 1..Len(files) :
           i = path \/ (\E x \in DOMAIN rolled : rolled[x] = i) \/ UsedUp(rolled)
    /\ \A l \in Logs : ObjectSound(l)

EntriesInv ==
    /\ entries \in 0..MaxEntries /\ logger \in {0, entries} /\ written \subseteq 1..entries
    /\ InTheirOrder(files, NextEntry)
    /\ \A e \in written : e < NextEntry /\ Landed(files, e)

LogInv ==
    /\ now \in 0..MaxTime /\ {enabled, closing} \subseteq BOOLEAN
    /\ accessLog \in Logs \cup {NoLog}
    /\ toggler \in {"start", "idle", "create", "enable", "delete"}
    /\ FilesInv /\ EntriesInv

LEMMA LogConstants ==
    /\ NoLog \notin Logs /\ Numbers \in Nat \ {0} /\ MaxTime \in Nat /\ MaxEntries \in Nat
    /\ MaxFiles \in Nat /\ Unknown \in Times /\ 0 \in Times
BY LogAssumption DEF Unknown, Times

LEMMA DiskParts ==
    ASSUME NEW d
    PROVE  d \in Disks <=> /\ d = [file |-> d.file, created |-> d.created, files |-> d.files,
                                   path |-> d.path, rolled |-> d.rolled]
                           /\ d.file \in Nat /\ d.created \in Times
                           /\ d.files \in Seq(FileRecords) /\ d.path \in Nat
                           /\ d.rolled \in RolledMaps
BY DEF Disks

LEMMA RolledMapIs ==
    ASSUME NEW map
    PROVE  map \in RolledMaps <=> /\ map = [x \in DOMAIN map |-> map[x]]
                                  /\ DOMAIN map \subseteq Times \X (0..Numbers)
                                  /\ \A x \in DOMAIN map : map[x] \in Nat \ {0}
<1>1. ASSUME map \in RolledMaps
      PROVE  /\ map = [x \in DOMAIN map |-> map[x]]
             /\ DOMAIN map \subseteq Times \X (0..Numbers)
             /\ \A x \in DOMAIN map : map[x] \in Nat \ {0}
  <2>1. PICK D \in SUBSET (Times \X (0..Numbers)) : map \in [D -> Nat \ {0}]
    BY <1>1 DEF RolledMaps
  <2> QED
    BY <2>1
<1>2. ASSUME map = [x \in DOMAIN map |-> map[x]],
             DOMAIN map \subseteq Times \X (0..Numbers),
             \A x \in DOMAIN map : map[x] \in Nat \ {0}
      PROVE  map \in RolledMaps
  <2>1. map \in [DOMAIN map -> Nat \ {0}]
    BY <1>2
  <2> QED
    BY <1>2, <2>1 DEF RolledMaps
<1> QED
  BY <1>1, <1>2

\* The number that a file gets: a free one, or the last.
LEMMA NumberIs ==
    ASSUME NEW d \in Disks, NEW day
    PROVE  /\ Number(d, day) \in 0..Numbers
           /\ Number(d, day) = Numbers \/ <<day, Number(d, day)>> \notin DOMAIN d.rolled
<1> DEFINE free == {n \in 0..(Numbers - 1) : <<day, n>> \notin DOMAIN d.rolled}
<1>1. CASE free = {}
  BY <1>1, LogConstants DEF Number
<1>2. CASE free # {}
  <2>1. free \subseteq Nat
    BY LogConstants
  <2>2. \E x \in free : \A y \in free : x <= y
    <3> HIDE DEF free
    <3> QED
      BY <1>2, <2>1, LeastNumber
  <2>3. Min(free) \in free
    <3> HIDE DEF free
    <3> QED
      BY <2>2 DEF Min
  <2>4. Number(d, day) = Min(free)
    BY <1>2 DEF Number
  <2> QED
    BY <2>3, <2>4, LogConstants
<1> QED
  BY <1>1, <1>2

LEMMA AddsIsTransitive ==
    ASSUME NEW q1 \in Seq(FileRecords), NEW q2 \in Seq(FileRecords), NEW q3 \in Seq(FileRecords),
           Adds(q1, q2), Adds(q2, q3)
    PROVE  Adds(q1, q3)
<1>1. /\ Len(q1) \in Nat /\ Len(q2) \in Nat /\ Len(q3) \in Nat
      /\ Len(q1) <= Len(q2) /\ Len(q2) <= Len(q3)
  BY DEF Adds
<1>2. Len(q1) <= Len(q3) /\ 1..Len(q1) \subseteq 1..Len(q2)
  BY <1>1
<1>3. \A i \in 1..Len(q1) : q3[i] = q1[i]
  BY <1>2 DEF Adds
<1>4. ASSUME NEW i \in 1..Len(q3), i > Len(q1) PROVE q3[i].lines = <<>>
  <2>1. CASE i > Len(q2)
    BY <2>1 DEF Adds
  <2>2. CASE ~(i > Len(q2))
    <3>1. i \in 1..Len(q2)
      BY <1>1, <2>2
    <3>2. q3[i] = q2[i] /\ q2[i].lines = <<>>
      BY <1>4, <3>1 DEF Adds
    <3> QED
      BY <3>2
  <2> QED
    BY <2>1, <2>2
<1> QED
  BY <1>2, <1>3, <1>4 DEF Adds

LEMMA AddsItself == ASSUME NEW q \in Seq(FileRecords) PROVE Adds(q, q)
BY DEF Adds

LEMMA MadeStays ==
    ASSUME NEW q1 \in Seq(FileRecords), NEW q2 \in Seq(FileRecords), NEW e,
           Adds(q1, q2), MadeFor(q1, e)
    PROVE  MadeFor(q2, e)
BY DEF Adds, MadeFor

\* A file with a header and no lines is added.
WithFile(q, e) == Append(q, [head |-> now, lines |-> <<>>, by |-> e])

LEMMA FileAdded ==
    ASSUME NEW q \in Seq(FileRecords), now \in Times, NEW e \in 0..MaxEntries
    PROVE  /\ WithFile(q, e) \in Seq(FileRecords) /\ Len(WithFile(q, e)) = Len(q) + 1
           /\ Adds(q, WithFile(q, e)) /\ MadeFor(WithFile(q, e), e)
<1> DEFINE r == [head |-> now, lines |-> <<>>, by |-> e]
<1>1. r \in FileRecords
  BY DEF FileRecords
<1>2. r.lines = <<>> /\ r.by = e
  OBVIOUS
<1> HIDE DEF r
<1>3. /\ Append(q, r) \in Seq(FileRecords) /\ Len(Append(q, r)) = Len(q) + 1
      /\ \A i \in 1..Len(q) : Append(q, r)[i] = q[i]
      /\ Append(q, r)[Len(q) + 1] = r
  BY <1>1
<1>4. Len(q) \in Nat
  OBVIOUS
<1>5. Adds(q, Append(q, r))
  BY <1>2, <1>3, <1>4 DEF Adds
<1>6. MadeFor(Append(q, r), e)
  BY <1>2, <1>3, <1>4 DEF MadeFor
<1> QED
  BY <1>3, <1>5, <1>6 DEF WithFile, r

LEMMA EnableIs ==
    ASSUME NEW d, SoundDisk(d), now \in Times, NEW e \in 0..MaxEntries, closing \in BOOLEAN,
           NEW garbage \in Times
    PROVE  LET r == EnableLog(d, e, garbage) IN
           /\ SoundDisk(r) /\ Adds(d.files, r.files) /\ r.path # 0
           /\ r.file # 0 \/ (closing /\ MadeFor(r.files, e))
<1> DEFINE r == EnableLog(d, e, garbage)
<1>0. /\ d \in Disks /\ d.files \in Seq(FileRecords) /\ Len(d.files) \in Nat
      /\ d.file \in 0..Len(d.files) /\ d.path \in 0..Len(d.files)
  BY DiskParts DEF SoundDisk
<1>1. CASE d.path # 0
  <2>1. ReadLogHeader(d.files[d.path], garbage) \in Times
    <3>1. d.files[d.path] \in FileRecords
      BY <1>0, <1>1
    <3> QED
      BY <3>1, LogConstants DEF ReadLogHeader, FileRecords
  <2>2. /\ r \in Disks /\ r.file = d.path /\ r.files = d.files /\ r.path = d.path
        /\ r.rolled = d.rolled
    BY <1>0, <1>1, <2>1 DEF EnableLog, Disks
  <2> HIDE DEF r
  <2>3. SoundDisk(r)
    BY <1>0, <2>2 DEF SoundDisk
  <2> QED
    BY <1>0, <1>1, <2>2, <2>3, AddsItself DEF r
<1>2. CASE d.path = 0
  <2> DEFINE n == Len(d.files) + 1
             f == WithFile(d.files, IF closing THEN e ELSE 0)
             o == IF closing THEN 0 ELSE n
             c == IF closing THEN garbage ELSE now
  <2>1. /\ f \in Seq(FileRecords) /\ Len(f) = n /\ Adds(d.files, f)
        /\ closing => MadeFor(f, e)
    <3>1. PICK x \in 0..MaxEntries : x = (IF closing THEN e ELSE 0)
      BY LogConstants
    <3>2. /\ WithFile(d.files, x) \in Seq(FileRecords)
          /\ Len(WithFile(d.files, x)) = Len(d.files) + 1
          /\ Adds(d.files, WithFile(d.files, x)) /\ MadeFor(WithFile(d.files, x), x)
      BY <1>0, FileAdded
    <3>3. f = WithFile(d.files, x)
      BY <3>1
    <3>4. closing => x = e
      BY <3>1
    <3> HIDE DEF f
    <3> QED
      BY <3>2, <3>3, <3>4
  <2>2. o \in Nat /\ c \in Times /\ n \in Nat \ {0}
    BY <1>0
  <2>3. r = [d EXCEPT !.file = o, !.created = c, !.files = f, !.path = n]
    BY <1>2 DEF EnableLog, WithFile
  <2>4. o # 0 \/ closing
    BY <1>0
  <2>5. o \in 0..n
    BY <1>0
  <2> HIDE DEF r, f, o, c, n
  <2>6. /\ r \in Disks /\ r.file = o /\ r.files = f /\ r.path = n /\ r.rolled = d.rolled
    BY <1>0, <2>1, <2>2, <2>3 DEF Disks
  <2>7. SoundDisk(r)
    <3>1. {r.file, r.path} \subseteq 0..Len(r.files)
      BY <2>1, <2>2, <2>5, <2>6
    <3>2. n = Len(d.files) + 1
      BY DEF n
    <3>3. \A x \in DOMAIN r.rolled : r.rolled[x] \in 1..Len(r.files)
      BY <1>0, <2>1, <2>6, <3>2 DEF SoundDisk
    <3>4. ASSUME NEW i \in 1..Len(r.files)
          PROVE  i = r.path \/ (\E x \in DOMAIN r.rolled : r.rolled[x] = i) \/ UsedUp(r.rolled)
      <4>1. CASE i = n
        BY <2>6, <4>1
      <4>2. CASE i # n
        <5>1. i \in 1..Len(d.files)
          BY <1>0, <2>1, <2>6, <3>2, <4>2
        <5>2. i # d.path
          BY <1>2, <5>1
        <5> QED
          BY <2>6, <5>1, <5>2 DEF SoundDisk
      <4> QED
        BY <4>1, <4>2
    <3> QED
      BY <2>6, <3>1, <3>3, <3>4 DEF SoundDisk
  <2> QED
    BY <2>1, <2>2, <2>4, <2>6, <2>7 DEF r
<1> QED
  BY <1>1, <1>2

LEMMA CloseIs ==
    ASSUME NEW d, SoundDisk(d)
    PROVE  LET r == CloseLog(d) IN
           SoundDisk(r) /\ r.files = d.files /\ r.path = d.path /\ r.file = 0
<1> DEFINE r == CloseLog(d)
<1>1. d \in Disks
  BY DEF SoundDisk
<1>2. /\ r \in Disks /\ r.file = 0 /\ r.files = d.files /\ r.path = d.path
      /\ r.rolled = d.rolled
  BY <1>1 DEF CloseLog, Disks
<1>3. Len(d.files) \in Nat
  BY <1>1, DiskParts
<1> HIDE DEF r
<1>4. SoundDisk(r)
  BY <1>2, <1>3 DEF SoundDisk
<1> QED
  BY <1>2, <1>4 DEF r

LEMMA RenameIs ==
    ASSUME NEW d, SoundDisk(d), d.path # 0
    PROVE  LET r == RenameLogFile(d) IN
           SoundDisk(r) /\ r.files = d.files /\ r.path = 0 /\ r.file = d.file
<1> DEFINE r == RenameLogFile(d)
           name == <<d.created, Number(d, d.created)>>
           map == [x \in DOMAIN d.rolled \cup {name} |-> IF x = name THEN d.path ELSE d.rolled[x]]
<1>1. /\ d \in Disks /\ d.rolled \in RolledMaps /\ d.created \in Times
      /\ Len(d.files) \in Nat /\ d.path \in 1..Len(d.files)
  BY DiskParts DEF SoundDisk
<1>2. /\ Number(d, d.created) \in 0..Numbers
      /\ Number(d, d.created) = Numbers \/ name \notin DOMAIN d.rolled
  BY <1>1, NumberIs
<1>3. name \in Times \X (0..Numbers)
  BY <1>1, <1>2
<1>4. r = [d EXCEPT !.rolled = map, !.path = 0]
  BY <1>1 DEF RenameLogFile, Disks
<1>5. DOMAIN map = DOMAIN d.rolled \cup {name} /\ map[name] = d.path
      /\ \A x \in DOMAIN d.rolled : x # name => map[x] = d.rolled[x]
  OBVIOUS
<1>6. map \in RolledMaps
  <2>1. map = [x \in DOMAIN map |-> map[x]]
    OBVIOUS
  <2>2. \A x \in DOMAIN map : map[x] \in Nat \ {0}
    <3> HIDE DEF map, name
    <3> QED
      BY <1>1, <1>5, RolledMapIs
  <2>3. DOMAIN map \subseteq Times \X (0..Numbers)
    <3> HIDE DEF map, name
    <3> QED
      BY <1>1, <1>3, <1>5, RolledMapIs
  <2> HIDE DEF map
  <2> QED
    BY <2>1, <2>2, <2>3, RolledMapIs
<1>7. name[2] = Number(d, d.created)
  OBVIOUS
<1> HIDE DEF map, name, r
<1>8. /\ r \in Disks /\ r.file = d.file /\ r.files = d.files /\ r.path = 0 /\ r.rolled = map
  <2>1. d \in Disks /\ r = [d EXCEPT !.rolled = map, !.path = 0] /\ map \in RolledMaps
    BY <1>1, <1>4, <1>6
  <2> QED
    BY <2>1 DEF Disks
<1>9. SoundDisk(r)
  <2>1. {r.file, r.path} \subseteq 0..Len(r.files)
    BY <1>1, <1>8 DEF SoundDisk
  <2>2. \A x \in DOMAIN r.rolled : r.rolled[x] \in 1..Len(r.files)
    BY <1>1, <1>5, <1>8 DEF SoundDisk
  <2>3. ASSUME NEW i \in 1..Len(r.files)
        PROVE  i = r.path \/ (\E x \in DOMAIN r.rolled : r.rolled[x] = i) \/ UsedUp(r.rolled)
    <3>1. CASE i = d.path
      BY <1>5, <1>8, <3>1
    <3>2. CASE UsedUp(d.rolled) \/ Number(d, d.created) = Numbers
      BY <1>5, <1>7, <1>8, <3>2 DEF UsedUp
    <3>3. CASE i # d.path /\ ~(UsedUp(d.rolled) \/ Number(d, d.created) = Numbers)
      <4>1. PICK x \in DOMAIN d.rolled : d.rolled[x] = i
        BY <1>8, <3>3 DEF SoundDisk
      <4>2. x # name
        BY <1>2, <3>3
      <4> QED
        BY <1>5, <1>8, <4>1, <4>2
    <3> QED
      BY <3>1, <3>2, <3>3
  <2> QED
    BY <1>8, <2>1, <2>2, <2>3 DEF SoundDisk
<1> QED
  BY <1>8, <1>9 DEF r

\* What an operation that writes no entry does; one that lost its file made one for e.
Tended(d, r, e) ==
    /\ SoundDisk(r) /\ Adds(d.files, r.files)
    /\ d.path # 0 => r.path # 0
    /\ r.file # 0 => r.path # 0
    /\ d.path # 0 /\ d.file # 0 => r.file # 0 \/ (closing /\ MadeFor(r.files, e))

LEMMA RollIs ==
    ASSUME NEW d, SoundDisk(d), now \in Times, NEW e \in 0..MaxEntries, closing \in BOOLEAN,
           NEW garbage \in Times
    PROVE  LET r == RollLog(d, e, garbage) IN
           /\ Tended(d, r, e)
           /\ d.path # 0 => r.file # 0 \/ (closing /\ MadeFor(r.files, e))
<1> DEFINE r == RollLog(d, e, garbage)
           c == CloseLog(d)
           b == RenameLogFile(c)
<1>0. d.files \in Seq(FileRecords)
  BY DiskParts DEF SoundDisk
<1>1. SoundDisk(c) /\ c.files = d.files /\ c.path = d.path /\ c.file = 0
  BY CloseIs
<1>2. CASE d.path = 0
  <2>1. r = c
    BY <1>2 DEF RollLog
  <2> HIDE DEF r, c
  <2> QED
    BY <1>0, <1>1, <1>2, <2>1, AddsItself DEF r, Tended
<1>3. CASE d.path # 0
  <2>1. SoundDisk(b) /\ b.files = d.files
    <3> HIDE DEF c
    <3> QED
      BY <1>1, <1>3, RenameIs
  <2>2. r = EnableLog(b, e, garbage)
    BY <1>3 DEF RollLog
  <2> HIDE DEF r, b, c
  <2>3. /\ SoundDisk(r) /\ Adds(b.files, r.files) /\ r.path # 0
        /\ r.file # 0 \/ (closing /\ MadeFor(r.files, e))
    BY <2>1, <2>2, EnableIs
  <2> QED
    BY <2>1, <2>3 DEF r, Tended
<1> QED
  BY <1>2, <1>3

LEMMA CheckRollIs ==
    ASSUME NEW d, SoundDisk(d), d.file # 0 => d.path # 0, now \in Times, NEW e \in 0..MaxEntries,
           closing \in BOOLEAN, NEW garbage \in Times
    PROVE  Tended(d, CheckRollLog(d, e, garbage), e)
<1>1. d.files \in Seq(FileRecords)
  BY DiskParts DEF SoundDisk
<1>2. CheckRollLog(d, e, garbage) \in {d, RollLog(d, e, garbage)}
  BY DEF CheckRollLog
<1>3. Tended(d, d, e)
  BY <1>1, AddsItself DEF Tended
<1>4. Tended(d, RollLog(d, e, garbage), e)
  BY RollIs
<1> QED
  BY <1>2, <1>3, <1>4

\* The entry e is put behind the lines of the file k.
PutIn(list, k, e) == [list EXCEPT ![k].lines = Append(@, e)]

LEMMA PutInIs ==
    ASSUME NEW q \in Seq(FileRecords), NEW k \in 1..Len(q), NEW e \in 1..MaxEntries
    PROVE  /\ PutIn(q, k, e) \in Seq(FileRecords) /\ Len(PutIn(q, k, e)) = Len(q)
           /\ PutIn(q, k, e)[k].lines = Append(q[k].lines, e)
           /\ \A i \in 1..Len(q) : /\ PutIn(q, k, e)[i].by = q[i].by
                                   /\ PutIn(q, k, e)[i].head = q[i].head
                                   /\ i # k => PutIn(q, k, e)[i] = q[i]
<1> DEFINE r == [q[k] EXCEPT !.lines = Append(@, e)]
           f == PutIn(q, k, e)
<1>1. q[k] \in FileRecords
  OBVIOUS
<1>2. q[k].lines \in Seq(1..MaxEntries)
  BY <1>1 DEF FileRecords
<1>3. Append(q[k].lines, e) \in Seq(1..MaxEntries)
  BY <1>2
<1>4. r \in FileRecords /\ r.lines = Append(q[k].lines, e) /\ r.by = q[k].by
      /\ r.head = q[k].head
  BY <1>1, <1>3 DEF FileRecords
<1>5. f = [q EXCEPT ![k] = r]
  BY DEF PutIn
<1> HIDE DEF r, f
<1>6. f \in Seq(FileRecords) /\ Len(f) = Len(q) /\ f[k] = r
      /\ \A i \in 1..Len(q) : i # k => f[i] = q[i]
  BY <1>4, <1>5
<1> QED
  BY <1>4, <1>6 DEF f

\* The entry is in a file, or there was none.
Puts(d, r, e) ==
    /\ SoundDisk(r) /\ r.path = d.path /\ r.file = d.file
    /\ IF d.file = 0 THEN r = d
       ELSE d.file \in 1..Len(d.files) /\ r.files = PutIn(d.files, d.file, e)

LEMMA PutLineIs ==
    ASSUME NEW d, SoundDisk(d), NEW e \in 1..MaxEntries
    PROVE  Puts(d, PutLine(d, e), e)
<1> DEFINE r == PutLine(d, e)
           f == PutIn(d.files, d.file, e)
<1>1. /\ d \in Disks /\ d.files \in Seq(FileRecords) /\ Len(d.files) \in Nat
      /\ d.file \in 0..Len(d.files)
  BY DiskParts DEF SoundDisk
<1>2. CASE d.file = 0
  BY <1>2 DEF PutLine, Puts
<1>3. CASE d.file # 0
  <2>1. d.file \in 1..Len(d.files)
    BY <1>1, <1>3
  <2>2. f \in Seq(FileRecords) /\ Len(f) = Len(d.files)
    BY <1>1, <2>1, PutInIs
  <2>3. r = [d EXCEPT !.files = f]
    BY <1>1, <1>3 DEF PutLine, PutIn, Disks
  <2> HIDE DEF r, f
  <2>4. /\ r \in Disks /\ r.file = d.file /\ r.files = f /\ r.path = d.path
        /\ r.rolled = d.rolled
    BY <1>1, <2>2, <2>3 DEF Disks
  <2>5. SoundDisk(r)
    BY <2>2, <2>4 DEF SoundDisk
  <2> QED
    BY <1>3, <2>1, <2>4, <2>5 DEF Puts, r, f
<1> QED
  BY <1>2, <1>3

\* The entry e is put in one of the files, to which some may have been added before.
PutSomewhere(old, new, e) ==
    \E q \in Seq(FileRecords) : /\ Adds(old, q)
                                /\ \E k \in 1..Len(q) : new = PutIn(q, k, e)

\* What writing an entry does: a log that has a file, or may open one, takes it or made a file for it.
Writes(d, r, e) ==
    /\ SoundDisk(r)
    /\ d.path # 0 => r.path # 0
    /\ r.file # 0 => r.path # 0
    /\ ~closing /\ d.file # 0 => r.file # 0
    /\ closing => r.path # 0
    /\ \/ PutSomewhere(d.files, r.files, e)
       \/ Adds(d.files, r.files) /\ (closing \/ d.file # 0 => MadeFor(r.files, e))

LEMMA WriteIs ==
    ASSUME NEW d, SoundDisk(d), d.file # 0 => d.path # 0, now \in Times,
           NEW e \in 1..MaxEntries, closing \in BOOLEAN, NEW garbage \in Times
    PROVE  Writes(d, WriteToLog(d, e, garbage), e)
<1> DEFINE o == IF closing /\ d.file = 0 THEN EnableLog(d, e, garbage) ELSE d
           c == CheckRollLog(o, e, garbage)
           p == PutLine(c, e)
           r == WriteToLog(d, e, garbage)
<1>0. e \in 0..MaxEntries /\ d.files \in Seq(FileRecords)
  BY LogConstants, DiskParts DEF SoundDisk
<1>1. r = IF closing THEN CloseLog(p) ELSE p
  BY DEF WriteToLog
<1>2. /\ SoundDisk(o) /\ Adds(d.files, o.files)
      /\ d.path # 0 => o.path # 0
      /\ o.file # 0 \/ closing => o.path # 0
      /\ o.file = 0 /\ closing => MadeFor(o.files, e)
      /\ d.file # 0 => o.file # 0
      /\ o.file = 0 /\ ~closing => d.file = 0
  <2>1. CASE closing /\ d.file = 0
    BY <1>0, <2>1, EnableIs
  <2>2. CASE ~(closing /\ d.file = 0)
    BY <1>0, <2>2, AddsItself
  <2> QED
    BY <2>1, <2>2
<1> HIDE DEF o
<1>3. Tended(o, c, e)
  BY <1>0, <1>2, CheckRollIs
<1>4. SoundDisk(c)
  BY <1>3 DEF Tended
<1> HIDE DEF c
<1>5. Puts(c, p, e)
  BY <1>4, PutLineIs
<1> HIDE DEF p, r
<1>6. /\ o.files \in Seq(FileRecords) /\ c.files \in Seq(FileRecords)
      /\ p.files \in Seq(FileRecords)
  BY <1>2, <1>4, <1>5, DiskParts DEF SoundDisk, Puts
<1>7. Adds(d.files, c.files)
  BY <1>0, <1>2, <1>3, <1>6, AddsIsTransitive DEF Tended
<1>8. SoundDisk(r) /\ r.files = p.files /\ r.path = p.path
  <2>1. SoundDisk(p)
    BY <1>5 DEF Puts
  <2> QED
    BY <1>1, <2>1, CloseIs
<1>9. r.file = IF closing THEN 0 ELSE p.file
  <2>1. SoundDisk(p)
    BY <1>5 DEF Puts
  <2> QED
    BY <1>1, <2>1, CloseIs
<1>10. /\ d.path # 0 \/ closing => c.path # 0
       /\ c.file # 0 => c.path # 0
       /\ o.file # 0 => c.file # 0 \/ (closing /\ MadeFor(c.files, e))
  BY <1>2, <1>3 DEF Tended
<1>11. /\ d.path # 0 => r.path # 0
       /\ r.file # 0 => r.path # 0
       /\ ~closing /\ d.file # 0 => r.file # 0
       /\ closing => r.path # 0
  BY <1>2, <1>5, <1>8, <1>9, <1>10 DEF Puts
<1>12. CASE c.file # 0
  <2>1. c.file \in 1..Len(c.files) /\ r.files = PutIn(c.files, c.file, e)
    BY <1>5, <1>8, <1>12 DEF Puts
  <2>2. PutSomewhere(d.files, r.files, e)
    BY <1>6, <1>7, <2>1 DEF PutSomewhere
  <2> QED
    BY <1>8, <1>11, <2>2 DEF Writes, r
<1>13. CASE c.file = 0
  <2>1. r.files = c.files
    BY <1>5, <1>8, <1>13 DEF Puts
  <2>2. closing \/ d.file # 0 => MadeFor(c.files, e)
    <3>1. CASE o.file # 0
      BY <1>10, <1>13, <3>1
    <3>2. CASE o.file = 0 /\ closing
      BY <1>2, <1>3, <1>6, <3>2, MadeStays DEF Tended
    <3>3. CASE o.file = 0 /\ ~closing
      BY <1>2, <3>3
    <3> QED
      BY <3>1, <3>2, <3>3
  <2> QED
    BY <1>7, <1>8, <1>11, <2>1, <2>2 DEF Writes, r
<1> QED
  BY <1>12, <1>13

-----------------------------------------------------------------------------
(* The entries in the files. *)

LEMMA AddedInOrder ==
    ASSUME NEW old \in Seq(FileRecords), NEW new \in Seq(FileRecords), Adds(old, new),
           NEW n \in Nat, InTheirOrder(old, n)
    PROVE  InTheirOrder(new, n)
<1> SUFFICES ASSUME NEW i \in 1..Len(new)
             PROVE  /\ Increasing(new[i].lines)
                    /\ \A j \in 1..Len(new[i].lines) : new[i].lines[j] < n
  BY DEF InTheirOrder
<1>1. CASE i \in 1..Len(old)
  BY <1>1 DEF Adds, InTheirOrder
<1>2. CASE i \notin 1..Len(old)
  <2>1. new[i].lines = <<>>
    BY <1>2 DEF Adds
  <2>2. Len(new[i].lines) = 0
    BY <2>1
  <2> QED
    BY <2>2 DEF Increasing
<1> QED
  BY <1>1, <1>2

LEMMA AddedLanded ==
    ASSUME NEW old \in Seq(FileRecords), NEW new \in Seq(FileRecords), Adds(old, new),
           NEW e, Landed(old, e)
    PROVE  Landed(new, e)
<1>1. CASE MadeFor(old, e)
  BY <1>1, MadeStays DEF Landed
<1>2. CASE \E i \in 1..Len(old) : \A j \in 1..Len(old) : e \in Range(old[j].lines) <=> j = i
  <2>1. PICK i \in 1..Len(old) : \A j \in 1..Len(old) : e \in Range(old[j].lines) <=> j = i
    BY <1>2
  <2>2. i \in 1..Len(new)
    BY DEF Adds
  <2>3. ASSUME NEW j \in 1..Len(new) PROVE e \in Range(new[j].lines) <=> j = i
    <3>1. CASE j \in 1..Len(old)
      BY <2>1, <3>1 DEF Adds
    <3>2. CASE j \notin 1..Len(old)
      <4>1. new[j].lines = <<>>
        BY <3>2 DEF Adds
      <4>2. Range(new[j].lines) = {}
        BY <4>1 DEF Range
      <4> QED
        BY <3>2, <4>2
    <3> QED
      BY <3>1, <3>2
  <2> QED
    BY <2>2, <2>3 DEF Landed
<1> QED
  BY <1>1, <1>2 DEF Landed

LEMMA LessThanNext == ASSUME NEW x \in Nat, NEW e \in Nat, x < e PROVE x < e + 1
OBVIOUS

\* An entry that is greater than all that are there is put behind the lines of a file.
LEMMA PutInOrder ==
    ASSUME NEW q \in Seq(FileRecords), NEW k \in 1..Len(q), NEW e \in 1..MaxEntries,
           InTheirOrder(q, e)
    PROVE  /\ InTheirOrder(PutIn(q, k, e), e + 1) /\ Landed(PutIn(q, k, e), e)
           /\ \A x : x # e /\ Landed(q, x) => Landed(PutIn(q, k, e), x)
<1> DEFINE f == PutIn(q, k, e)
           s == q[k].lines
<1>1. /\ f \in Seq(FileRecords) /\ Len(f) = Len(q) /\ f[k].lines = Append(s, e)
      /\ \A i \in 1..Len(q) : f[i].by = q[i].by /\ (i # k => f[i] = q[i])
  BY PutInIs
<1>2. s \in Seq(1..MaxEntries) /\ Len(s) \in Nat /\ e \in Nat
  <2>1. q[k] \in FileRecords
    OBVIOUS
  <2> QED
    BY <2>1, LogConstants, SMTT(30) DEF FileRecords
<1>3. Increasing(s) /\ \A j \in 1..Len(s) : s[j] < e
  BY DEF InTheirOrder
<1> HIDE DEF f, s
<1>4. /\ Len(Append(s, e)) = Len(s) + 1 /\ Append(s, e)[Len(s) + 1] = e
      /\ \A j \in 1..Len(s) : Append(s, e)[j] = s[j]
      /\ DOMAIN Append(s, e) = 1..(Len(s) + 1) /\ DOMAIN s = 1..Len(s)
  BY <1>2
<1>5. Increasing(Append(s, e))
  <2> SUFFICES ASSUME NEW i \in 1..(Len(s) + 1), NEW j \in 1..(Len(s) + 1), i < j
               PROVE  Append(s, e)[i] < Append(s, e)[j]
    BY <1>4 DEF Increasing
  <2>1. i \in 1..Len(s)
    BY <1>2
  <2>2. CASE j = Len(s) + 1
    BY <1>3, <1>4, <2>1, <2>2
  <2>3. CASE j # Len(s) + 1
    <3>1. j \in 1..Len(s)
      BY <1>2, <2>3
    <3> QED
      BY <1>3, <1>4, <2>1, <3>1 DEF Increasing
  <2> QED
    BY <2>2, <2>3
<1>6. \A j \in 1..Len(Append(s, e)) : Append(s, e)[j] < e + 1
  <2>0. MaxEntries \in Nat
    BY LogConstants
  <2>1. \A j \in 1..Len(s) : s[j] \in Nat
    BY <1>2, <2>0
  <2>2. \A j \in 1..Len(s) : s[j] < e + 1
    BY <1>2, <1>3, <2>1, LessThanNext
  <2>3. e < e + 1
    BY <1>2
  <2> QED
    BY <1>2, <1>4, <2>2, <2>3
<1>7. InTheirOrder(f, e + 1)
  <2> SUFFICES ASSUME NEW i \in 1..Len(f)
               PROVE  /\ Increasing(f[i].lines)
                      /\ \A j \in 1..Len(f[i].lines) : f[i].lines[j] < e + 1
    BY DEF InTheirOrder
  <2>1. CASE i = k
    BY <1>1, <1>5, <1>6, <2>1
  <2>2. CASE i # k
    <3> DEFINE t == q[i].lines
    <3>1. f[i].lines = t /\ i \in 1..Len(q) /\ q[i] \in FileRecords
      BY <1>1, <2>2
    <3>2. t \in Seq(1..MaxEntries)
      BY <3>1 DEF FileRecords
    <3>3. Increasing(t) /\ \A j \in 1..Len(t) : t[j] < e
      BY <3>1 DEF InTheirOrder
    <3> HIDE DEF t
    <3>4. MaxEntries \in Nat
      BY LogConstants
    <3>5. \A j \in 1..Len(t) : t[j] \in Nat
      BY <3>2, <3>4
    <3>6. \A j \in 1..Len(t) : t[j] < e + 1
      BY <1>2, <3>3, <3>5, LessThanNext
    <3> QED
      BY <3>1, <3>3, <3>6
  <2> QED
    BY <2>1, <2>2
<1>8. \A x : x \in Range(Append(s, e)) <=> x = e \/ x \in Range(s)
  BY <1>2, <1>4 DEF Range
<1>9. \A i \in 1..Len(q) : e \notin Range(q[i].lines)
  <2> SUFFICES ASSUME NEW i \in 1..Len(q), NEW j \in DOMAIN q[i].lines, q[i].lines[j] = e
               PROVE  FALSE
    BY DEF Range
  <2>1. q[i].lines \in Seq(1..MaxEntries)
    <3>1. q[i] \in FileRecords
      OBVIOUS
    <3> QED
      BY <3>1 DEF FileRecords
  <2>2. j \in 1..Len(q[i].lines)
    BY <2>1
  <2> QED
    BY <1>2, <2>2 DEF InTheirOrder
<1>10. \A i \in 1..Len(q) : \A x : x \in Range(f[i].lines) <=>
                                       (i = k /\ x = e) \/ x \in Range(q[i].lines)
  BY <1>1, <1>8 DEF s
<1>11. Landed(f, e)
  BY <1>1, <1>9, <1>10, ZenonT(30) DEF Landed
<1>12. ASSUME NEW x, x # e, Landed(q, x) PROVE Landed(f, x)
  <2>1. CASE MadeFor(q, x)
    BY <1>1, <2>1 DEF MadeFor, Landed
  <2>2. CASE ~MadeFor(q, x)
    <3>1. PICK i \in 1..Len(q) : \A j \in 1..Len(q) : x \in Range(q[j].lines) <=> j = i
      BY <1>12, <2>2 DEF Landed
    <3>2. \A j \in 1..Len(f) : x \in Range(f[j].lines) <=> j = i
      BY <1>1, <1>10, <1>12, <3>1
    <3> QED
      BY <1>1, <3>2 DEF Landed
  <2> QED
    BY <2>1, <2>2
<1> QED
  BY <1>7, <1>11, <1>12 DEF f

-----------------------------------------------------------------------------
(* The objects. *)

LEMMA DiskIsSound ==
    ASSUME LogInv, NEW l \in Logs
    PROVE  /\ SoundDisk(Disk(l)) /\ Disk(l).files = files /\ Disk(l).path = path
           /\ Disk(l).file = log[l].file /\ Disk(l).rolled = rolled
           /\ log[l].file # 0 \/ log[l].ready => path # 0
           /\ log[l].ready => closing \/ log[l].file # 0
           /\ log[l].ready \in BOOLEAN
<1>1. /\ files \in Seq(FileRecords) /\ Len(files) \in Nat /\ path \in 0..Len(files)
      /\ rolled \in RolledMaps
  BY DEF LogInv, FilesInv
<1>2. /\ log[l].created \in Times /\ log[l].file \in 0..Len(files) /\ log[l].ready \in BOOLEAN
  BY DEF LogInv, FilesInv, ObjectSound
<1>3. /\ Disk(l) \in Disks /\ Disk(l).files = files /\ Disk(l).path = path
      /\ Disk(l).file = log[l].file /\ Disk(l).rolled = rolled
  BY <1>1, <1>2 DEF Disk, Disks
<1>4. SoundDisk(Disk(l))
  BY <1>1, <1>2, <1>3 DEF SoundDisk, LogInv, FilesInv
<1> QED
  BY <1>2, <1>3, <1>4 DEF LogInv, FilesInv, ObjectSound

\* An object is used, and its disk is r then.
LEMMA UseKeeps ==
    ASSUME LogInv, NEW l \in Logs, NEW r, NEW life \in {"none", "live"}, NEW ready \in BOOLEAN,
           Use(l, r, life, ready), SoundDisk(r), Len(files) <= Len(r.files),
           path # 0 => r.path # 0, r.file # 0 \/ ready => r.path # 0,
           ready => closing \/ r.file # 0, UNCHANGED closing
    PROVE  FilesInv'
<1>1. /\ r \in Disks /\ r.files \in Seq(FileRecords) /\ Len(r.files) \in Nat
      /\ r.created \in Times /\ r.file \in 0..Len(r.files) /\ r.path \in 0..Len(r.files)
      /\ r.rolled \in RolledMaps
  BY DiskParts DEF SoundDisk
<1>2. /\ Len(r.files) <= MaxFiles /\ files' = r.files /\ path' = r.path /\ rolled' = r.rolled
      /\ log' = [log EXCEPT ![l] = [life |-> life, file |-> r.file, created |-> r.created,
                                    ready |-> ready]]
  BY DEF Use
<1>3. r.file \in 0..MaxFiles /\ Len(files) \in Nat
  BY <1>1, <1>2, LogConstants DEF LogInv, FilesInv
<1>4. log \in [Logs -> [life : {"none", "live"}, file : 0..MaxFiles,
                        created : Times, ready : BOOLEAN]]
  BY DEF LogInv, FilesInv
<1>5. log' \in [Logs -> [life : {"none", "live"}, file : 0..MaxFiles,
                         created : Times, ready : BOOLEAN]]
  BY <1>1, <1>2, <1>3, <1>4
<1>6. ASSUME NEW k \in Logs PROVE ObjectSound(k)'
  <2>1. CASE k = l
    <3>1. log'[k].file = r.file /\ log'[k].ready = ready
      BY <1>2, <1>4, <2>1
    <3> QED
      BY <1>1, <1>2, <3>1 DEF ObjectSound
  <2>2. CASE k # l
    <3>1. log'[k] = log[k]
      BY <1>2, <1>4, <2>2
    <3>2. ObjectSound(k)
      BY DEF LogInv, FilesInv
    <3>3. log[k].file \in 0..Len(r.files)
      BY <1>1, <1>3, <3>2 DEF ObjectSound
    <3> QED
      BY <1>2, <3>1, <3>2, <3>3 DEF ObjectSound
  <2> QED
    BY <2>1, <2>2
<1> QED
  BY <1>1, <1>2, <1>5, <1>6 DEF FilesInv, SoundDisk

LEMMA DeleteKeeps ==
    ASSUME LogInv, NEW l \in Logs, DeleteLog(l), UNCHANGED <<files, path, rolled, closing>>
    PROVE  FilesInv'
<1>1. FreshLog \in [life : {"none", "live"}, file : 0..MaxFiles, created : Times, ready : BOOLEAN]
      /\ FreshLog.file = 0 /\ FreshLog.ready = FALSE
  BY LogConstants DEF FreshLog
<1>2. log \in [Logs -> [life : {"none", "live"}, file : 0..MaxFiles,
                        created : Times, ready : BOOLEAN]]
  BY DEF LogInv, FilesInv
<1>3. /\ log' \in [Logs -> [life : {"none", "live"}, file : 0..MaxFiles,
                            created : Times, ready : BOOLEAN]]
      /\ \A k \in Logs : log'[k] = IF k = l THEN FreshLog ELSE log[k]
  BY <1>1, <1>2 DEF DeleteLog
<1>4. Len(files) \in Nat
  BY DEF LogInv, FilesInv
<1>5. \A k \in Logs : ObjectSound(k)'
  BY <1>1, <1>3, <1>4 DEF LogInv, FilesInv, ObjectSound
<1> QED
  BY <1>3, <1>5 DEF LogInv, FilesInv

LEMMA FilesUnchanged ==
    ASSUME LogInv, UNCHANGED <<log, files, path, rolled, closing>>
    PROVE  FilesInv' /\ Adds(files, files')
<1>1. Adds(files, files)
  BY AddsItself DEF LogInv, FilesInv
<1> QED
  BY <1>1 DEF LogInv, FilesInv, ObjectSound

LEMMA NewLogIs == NewLog \subseteq Logs
BY DEF NewLog

\* No entry is written in a step that adds files at most.
LEMMA EntriesKept ==
    ASSUME LogInv, FilesInv', Adds(files, files'), written' = written,
           entries' \in 0..MaxEntries, entries <= entries', logger' \in {0, entries'},
           NextEntry <= NextEntry'
    PROVE  EntriesInv'
<1>0. entries \in Nat /\ entries' \in Nat
  BY LogConstants DEF LogInv, EntriesInv
<1>1. /\ files \in Seq(FileRecords) /\ files' \in Seq(FileRecords)
      /\ entries \in Nat /\ entries' \in Nat /\ logger \in Nat /\ logger' \in Nat
      /\ written \subseteq 1..entries
  BY <1>0 DEF LogInv, EntriesInv, FilesInv
<1>2. NextEntry \in Nat /\ NextEntry' \in Nat
  <2>1. NextEntry \in {entries + 1, logger} /\ NextEntry' \in {entries' + 1, logger'}
    BY DEF NextEntry
  <2>2. \A x \in Nat : x + 1 \in Nat
    OBVIOUS
  <2> QED
    BY <1>1, <2>1, <2>2, Zenon
<1>3. InTheirOrder(files', NextEntry)
  BY <1>1, <1>2, AddedInOrder DEF LogInv, EntriesInv
<1>4. InTheirOrder(files', NextEntry')
  <2> SUFFICES ASSUME NEW i \in 1..Len(files')
               PROVE  \A j \in 1..Len(files'[i].lines) : files'[i].lines[j] < NextEntry'
    BY <1>3 DEF InTheirOrder
  <2> DEFINE t == files'[i].lines
  <2>1. \A j \in 1..Len(t) : t[j] < NextEntry
    BY <1>3 DEF InTheirOrder
  <2>2. \A j \in 1..Len(t) : t[j] \in Nat
    <3>1. files'[i] \in FileRecords
      BY <1>1
    <3>2. t \in Seq(1..MaxEntries)
      BY <3>1 DEF FileRecords
    <3> HIDE DEF t
    <3> QED
      BY <3>2, LogConstants
  <2> HIDE DEF t
  <2>3. \A j \in 1..Len(t) : t[j] < NextEntry'
    BY <1>2, <2>1, <2>2
  <2> QED
    BY <2>3 DEF t
<1>5. ASSUME NEW e \in written PROVE e < NextEntry' /\ Landed(files', e)
  <2>1. e < NextEntry /\ Landed(files, e) /\ e \in Nat
    BY <1>1 DEF LogInv, EntriesInv
  <2> QED
    BY <1>1, <1>2, <2>1, AddedLanded
<1>6. written' \subseteq 1..entries'
  BY <1>1
<1> QED
  BY <1>4, <1>5, <1>6 DEF EntriesInv

-----------------------------------------------------------------------------
(* The steps. *)

LEMMA LogStart == LogInit => LogInv
<1> SUFFICES ASSUME LogInit
             PROVE  LogInv
  OBVIOUS
<1>1. FreshLog \in [life : {"none", "live"}, file : 0..MaxFiles, created : Times, ready : BOOLEAN]
      /\ FreshLog.file = 0 /\ FreshLog.ready = FALSE
  BY LogConstants DEF FreshLog
<1>2. files = <<>> /\ Len(files) = 0 /\ DOMAIN rolled = {} /\ files \in Seq(FileRecords)
  BY DEF LogInit
<1>3. rolled \in RolledMaps
  <2>1. rolled = [x \in DOMAIN rolled |-> rolled[x]]
    BY DEF LogInit
  <2> QED
    BY <1>2, <2>1, RolledMapIs
<1>4. FilesInv
  BY <1>1, <1>2, <1>3, LogConstants DEF LogInit, FilesInv, ObjectSound
<1>5. EntriesInv
  BY <1>2, LogConstants DEF LogInit, EntriesInv, InTheirOrder
<1> QED
  BY <1>4, <1>5, LogConstants DEF LogInit, LogInv

\* The log is made, deleted or left as it is.
LEMMA CheckStateKeeps ==
    ASSUME LogInv, NEW forced \in BOOLEAN, NEW garbage \in Times,
           CheckAccessLogState(forced, garbage), UNCHANGED <<now, closing>>
    PROVE  FilesInv' /\ Adds(files, files') /\ accessLog' \in Logs \cup {NoLog}
<1>0. /\ now \in Times /\ closing \in BOOLEAN /\ 0 \in 0..MaxEntries
      /\ files \in Seq(FileRecords) /\ accessLog \in Logs \cup {NoLog}
  BY LogConstants DEF LogInv, FilesInv, Times
<1>1. ASSUME NEW l \in NewLog, accessLog' = l,
             Use(l, EnableLog(Disk(l), 0, garbage), "live", TRUE)
      PROVE  FilesInv' /\ Adds(files, files') /\ accessLog' \in Logs \cup {NoLog}
  <2> DEFINE r == EnableLog(Disk(l), 0, garbage)
  <2>1. l \in Logs
    BY NewLogIs
  <2>2. SoundDisk(Disk(l)) /\ Disk(l).files = files
    BY <2>1, DiskIsSound
  <2>3. /\ SoundDisk(r) /\ Adds(files, r.files) /\ r.path # 0 /\ (r.file # 0 \/ closing)
    BY <1>0, <2>2, EnableIs
  <2>4. Use(l, r, "live", TRUE)
    BY <1>1
  <2> HIDE DEF r
  <2>5. FilesInv'
    BY <2>1, <2>3, <2>4, UseKeeps DEF Adds
  <2>6. files' = r.files
    BY <2>4 DEF Use
  <2> QED
    BY <1>1, <2>1, <2>3, <2>5, <2>6
<1>2. CASE accessLog # NoLog /\ DeleteLog(accessLog) /\ accessLog' = NoLog
           /\ UNCHANGED <<files, path, rolled>>
  BY <1>0, <1>2, DeleteKeeps, AddsItself
<1>3. CASE LogUnused /\ UNCHANGED accessLog
  BY <1>0, <1>3, FilesUnchanged DEF LogUnused
<1> QED
  BY <1>1, <1>2, <1>3 DEF CheckAccessLogState

LEMMA InitializeKeeps ==
    ASSUME LogInv, NEW garbage \in Times, InitializeLog(garbage)
    PROVE  LogInv'
<1>1. FilesInv' /\ Adds(files, files') /\ accessLog' \in Logs \cup {NoLog}
  BY CheckStateKeeps DEF InitializeLog
<1>2. /\ UNCHANGED <<now, enabled, closing, logger, entries, written>> /\ toggler' = "idle"
  BY DEF InitializeLog
<1>3. NextEntry' = NextEntry /\ NextEntry \in Nat /\ entries \in Nat
  BY <1>2, LogConstants DEF NextEntry, LogInv, EntriesInv
<1>4. EntriesInv'
  BY <1>1, <1>2, <1>3, EntriesKept DEF LogInv, EntriesInv
<1> QED
  BY <1>1, <1>2, <1>4 DEF LogInv

LEMMA RequestKeeps ==
    ASSUME LogInv, NEW garbage \in Times, LogRequest(garbage)
    PROVE  LogInv'
<1>1. FilesInv' /\ Adds(files, files') /\ accessLog' \in Logs \cup {NoLog}
  BY CheckStateKeeps DEF LogRequest
<1>2. /\ UNCHANGED <<now, enabled, closing, toggler, written>>
      /\ logger = 0 /\ entries < MaxEntries
      /\ UNCHANGED <<logger, entries>> \/ (logger' = entries + 1 /\ entries' = entries + 1)
  BY DEF LogRequest
<1>3. entries \in Nat /\ entries \in 0..MaxEntries
  BY LogConstants DEF LogInv, EntriesInv
<1>4. NextEntry = entries + 1 /\ NextEntry' = entries + 1
  BY <1>2, <1>3 DEF NextEntry
<1>5. entries' \in 0..MaxEntries /\ entries <= entries' /\ logger' \in {0, entries'}
  BY <1>2, <1>3, LogConstants
<1>6. NextEntry <= NextEntry'
  BY <1>3, <1>4
<1>7. EntriesInv'
  BY <1>1, <1>2, <1>5, <1>6, EntriesKept
<1> QED
  BY <1>1, <1>2, <1>7 DEF LogInv

\* A step that leaves entries alone and adds files at most.
Aside == UNCHANGED <<now, closing, logger, entries, written>> /\ enabled' \in BOOLEAN

LEMMA AsideKeeps ==
    ASSUME LogInv, FilesInv', Adds(files, files'), Aside,
           accessLog' \in Logs \cup {NoLog},
           toggler' \in {"start", "idle", "create", "enable", "delete"}
    PROVE  LogInv'
<1>1. NextEntry' = NextEntry /\ NextEntry \in Nat /\ entries \in Nat
  BY LogConstants DEF Aside, NextEntry, LogInv, EntriesInv
<1>2. EntriesInv'
  BY <1>1, EntriesKept DEF LogInv, EntriesInv, Aside
<1> QED
  BY <1>2 DEF LogInv, Aside

LEMMA RollKeeps ==
    ASSUME LogInv, NEW garbage \in Times, RollAccessLog(garbage)
    PROVE  LogInv'
<1>0. /\ now \in Times /\ closing \in BOOLEAN /\ 0 \in 0..MaxEntries
      /\ files \in Seq(FileRecords) /\ accessLog \in Logs \cup {NoLog}
  BY LogConstants, SMTT(30) DEF LogInv, FilesInv, Times
<1>1. PICK l \in IF accessLog # NoLog THEN {accessLog} ELSE NewLog :
           LET ready == accessLog = NoLog \/ log[l].ready
               d == IF accessLog # NoLog THEN Disk(l) ELSE EnableLog(Disk(l), 0, garbage)
               r == IF ready THEN RollLog(d, 0, garbage) ELSE CloseLog(d)
           IN  IF enabled THEN Use(l, r, "live", ready) /\ accessLog' = l
                          ELSE /\ accessLog' = NoLog
                               /\ Use(l, [r EXCEPT !.file = 0, !.created = Unknown], "none", FALSE)
  BY Zenon DEF RollAccessLog
<1> DEFINE ready == accessLog = NoLog \/ log[l].ready
           d == IF accessLog # NoLog THEN Disk(l) ELSE EnableLog(Disk(l), 0, garbage)
           r == IF ready THEN RollLog(d, 0, garbage) ELSE CloseLog(d)
           s == [r EXCEPT !.file = 0, !.created = Unknown]
<1>2. l \in Logs
  BY <1>0, <1>1, NewLogIs
<1>3. /\ SoundDisk(Disk(l)) /\ Disk(l).files = files /\ Disk(l).path = path
      /\ log[l].ready => path # 0
      /\ log[l].ready \in BOOLEAN
  BY <1>2, DiskIsSound
<1>4. /\ SoundDisk(d) /\ Adds(files, d.files)
      /\ path # 0 => d.path # 0
      /\ ready => d.path # 0
      /\ ready \in BOOLEAN
  <2>1. CASE accessLog # NoLog
    BY <1>0, <1>3, <2>1, AddsItself
  <2>2. CASE accessLog = NoLog
    BY <1>0, <1>3, <2>2, EnableIs
  <2> QED
    BY <2>1, <2>2
<1>5. IF enabled THEN Use(l, r, "live", ready) /\ accessLog' = l
                 ELSE accessLog' = NoLog /\ Use(l, s, "none", FALSE)
  BY <1>1
<1> HIDE DEF d, ready
<1>6. /\ SoundDisk(r) /\ Adds(d.files, r.files)
      /\ d.path # 0 => r.path # 0
      /\ r.file # 0 => r.path # 0
      /\ ready => r.file # 0 \/ closing
  <2>1. CASE ready
    <3>1. r = RollLog(d, 0, garbage)
      BY <2>1
    <3> HIDE DEF r
    <3> QED
      BY <1>0, <1>4, <2>1, <3>1, RollIs DEF Tended
  <2>2. CASE ~ready
    <3>1. r = CloseLog(d)
      BY <2>2
    <3> HIDE DEF r
    <3>2. SoundDisk(r) /\ r.files = d.files /\ r.path = d.path /\ r.file = 0
      BY <1>4, <3>1, CloseIs
    <3>3. d.files \in Seq(FileRecords)
      BY <1>4, DiskParts DEF SoundDisk
    <3> QED
      BY <2>2, <3>2, <3>3, AddsItself
  <2> QED
    BY <2>1, <2>2
<1> HIDE DEF r
<1>7. /\ Adds(files, r.files) /\ Len(files) <= Len(r.files)
      /\ path # 0 => r.path # 0
      /\ ready => r.path # 0
  <2>1. d.files \in Seq(FileRecords) /\ r.files \in Seq(FileRecords)
    BY <1>4, <1>6, DiskParts DEF SoundDisk
  <2>2. Adds(files, r.files)
    BY <1>0, <1>4, <1>6, <2>1, AddsIsTransitive
  <2> QED
    BY <1>4, <1>6, <2>2 DEF Adds
<1>8. /\ UNCHANGED <<now, enabled, closing, logger, toggler, entries, written>>
  BY DEF RollAccessLog
<1>9. CASE enabled
  <2>1. Use(l, r, "live", ready) /\ accessLog' = l
    BY <1>5, <1>9
  <2>2. FilesInv'
    BY <1>2, <1>4, <1>6, <1>7, <1>8, <2>1, UseKeeps
  <2>3. files' = r.files
    BY <2>1 DEF Use
  <2> QED
    BY <1>2, <1>7, <1>8, <2>1, <2>2, <2>3, AsideKeeps DEF LogInv, Aside
<1>10. CASE ~enabled
  <2>1. accessLog' = NoLog /\ Use(l, s, "none", FALSE)
    BY <1>5, <1>10
  <2>2. r \in Disks /\ r.files \in Seq(FileRecords) /\ Len(r.files) \in Nat
    BY <1>6, DiskParts DEF SoundDisk
  <2>3. /\ s \in Disks /\ s.file = 0 /\ s.files = r.files /\ s.path = r.path
        /\ s.rolled = r.rolled
    BY <2>2, LogConstants DEF Disks
  <2> HIDE DEF s
  <2>4. SoundDisk(s)
    BY <1>6, <2>2, <2>3 DEF SoundDisk
  <2>5. FilesInv'
    BY <1>2, <1>6, <1>7, <1>8, <2>1, <2>3, <2>4, UseKeeps
  <2>6. files' = r.files
    BY <2>1, <2>3 DEF Use
  <2> QED
    BY <1>7, <1>8, <2>1, <2>5, <2>6, AsideKeeps DEF LogInv, Aside
<1> QED
  BY <1>9, <1>10 DEF LogInv

LEMMA WriteKeeps ==
    ASSUME LogInv, NEW garbage \in Times, WriteEntry(garbage)
    PROVE  LogInv'
<1> DEFINE l == accessLog
           d == Disk(l)
           r == WriteToLog(d, logger, garbage)
           ready == log[l].ready \/ closing
<1>0. /\ now \in Times /\ closing \in BOOLEAN /\ l \in Logs
      /\ logger = entries /\ logger \in 1..MaxEntries /\ entries \in Nat /\ NextEntry = logger
  BY LogConstants DEF LogInv, EntriesInv, Times, WriteEntry, NextEntry
<1>1. /\ SoundDisk(d) /\ d.files = files /\ d.path = path /\ d.file = log[l].file
      /\ log[l].file # 0 \/ log[l].ready => path # 0
      /\ ready => closing \/ log[l].file # 0
      /\ ready \in BOOLEAN
  BY <1>0, DiskIsSound
<1>2. /\ Use(l, r, "live", ready)
      /\ written' = IF ready THEN written \cup {logger} ELSE written
      /\ logger' = 0
      /\ UNCHANGED <<now, enabled, closing, accessLog, toggler, entries>>
  BY DEF WriteEntry
<1> HIDE DEF d
<1>3. Writes(d, r, logger)
  BY <1>0, <1>1, WriteIs
<1>4. /\ path # 0 => r.path # 0
      /\ r.file # 0 \/ ready => r.path # 0
      /\ ready => closing \/ r.file # 0
  BY <1>1, <1>3 DEF Writes
<1> HIDE DEF r, l, ready
<1>5. /\ files \in Seq(FileRecords) /\ r.files \in Seq(FileRecords) /\ files' = r.files
      /\ SoundDisk(r)
  BY <1>2, <1>3, DiskParts DEF LogInv, FilesInv, Writes, SoundDisk, Use
<1>6. \/ \E q \in Seq(FileRecords), k \in 1..Len(files') :
              /\ Adds(files, q) /\ k \in 1..Len(q) /\ files' = PutIn(q, k, logger)
      \/ Adds(files, files') /\ (ready => MadeFor(files', logger))
  <2>1. CASE PutSomewhere(files, files', logger)
    <3>1. PICK q \in Seq(FileRecords) : Adds(files, q)
                /\ \E k \in 1..Len(q) : files' = PutIn(q, k, logger)
      BY <2>1 DEF PutSomewhere
    <3>2. PICK k \in 1..Len(q) : files' = PutIn(q, k, logger)
      BY <3>1
    <3>3. Len(files') = Len(q)
      BY <1>0, <3>2, PutInIs
    <3> QED
      BY <3>1, <3>2, <3>3
  <2>2. CASE Adds(files, files') /\ (closing \/ d.file # 0 => MadeFor(files', logger))
    BY <1>1, <2>2
  <2> QED
    BY <1>1, <1>3, <1>5, <2>1, <2>2 DEF Writes
<1>7. Len(files) <= Len(r.files)
  <2>1. CASE Adds(files, files')
    BY <1>5, <2>1 DEF Adds
  <2>2. CASE \E q \in Seq(FileRecords), k \in 1..Len(files') :
              /\ Adds(files, q) /\ k \in 1..Len(q) /\ files' = PutIn(q, k, logger)
    <3>1. PICK q \in Seq(FileRecords), k \in 1..Len(files') :
              /\ Adds(files, q) /\ k \in 1..Len(q) /\ files' = PutIn(q, k, logger)
      BY <2>2
    <3>2. Len(files') = Len(q)
      BY <1>0, <3>1, PutInIs
    <3> QED
      BY <1>5, <3>1, <3>2 DEF Adds
  <2> QED
    BY <1>6, <2>1, <2>2
<1>8. FilesInv'
  BY <1>0, <1>1, <1>2, <1>5, <1>7, <1>4, UseKeeps
<1>9. NextEntry' = logger + 1 /\ entries' = logger /\ logger' = 0
  BY <1>0, <1>2 DEF NextEntry
<1>10. InTheirOrder(files, logger) /\ \A e \in written : e < logger /\ Landed(files, e)
  BY <1>0 DEF LogInv, EntriesInv
<1>11. /\ InTheirOrder(files', logger + 1)
       /\ \A e \in written : Landed(files', e)
       /\ ready => Landed(files', logger)
  <2>1. ASSUME NEW q \in Seq(FileRecords), NEW k \in 1..Len(files'),
               Adds(files, q), k \in 1..Len(q), files' = PutIn(q, k, logger)
        PROVE  /\ InTheirOrder(files', logger + 1)
               /\ \A e \in written : Landed(files', e)
               /\ ready => Landed(files', logger)
    <3>1. logger \in Nat /\ InTheirOrder(q, logger)
      BY <1>0, <1>5, <1>10, <2>1, AddedInOrder
    <3>2. /\ InTheirOrder(files', logger + 1) /\ Landed(files', logger)
          /\ \A x : x # logger /\ Landed(q, x) => Landed(files', x)
      BY <1>0, <2>1, <3>1, PutInOrder
    <3>3. \A e \in written : e # logger /\ Landed(q, e)
      <4>1. ASSUME NEW e \in written PROVE e # logger /\ Landed(q, e)
        <5>1. e \in Nat /\ e < logger /\ Landed(files, e)
          BY <1>0, <1>10 DEF LogInv, EntriesInv
        <5> QED
          BY <1>5, <2>1, <3>1, <5>1, AddedLanded
      <4> QED
        BY <4>1
    <3> QED
      BY <3>2, <3>3
  <2>2. CASE Adds(files, files') /\ (ready => MadeFor(files', logger))
    <3>1. logger \in Nat /\ InTheirOrder(files', logger)
      BY <1>0, <1>5, <1>10, <2>2, AddedInOrder
    <3>2. InTheirOrder(files', logger + 1)
      <4> SUFFICES ASSUME NEW i \in 1..Len(files')
                   PROVE  \A j \in 1..Len(files'[i].lines) : files'[i].lines[j] < logger + 1
        BY <3>1 DEF InTheirOrder
      <4> DEFINE t == files'[i].lines
      <4>1. \A j \in 1..Len(t) : t[j] < logger
        BY <3>1 DEF InTheirOrder
      <4>2. \A j \in 1..Len(t) : t[j] \in Nat
        <5>1. files'[i] \in FileRecords
          BY <1>5
        <5>2. t \in Seq(1..MaxEntries)
          BY <5>1 DEF FileRecords
        <5> HIDE DEF t
        <5> QED
          BY <5>2, LogConstants
      <4> HIDE DEF t
      <4>3. \A j \in 1..Len(t) : t[j] < logger + 1
        BY <3>1, <4>1, <4>2, LessThanNext
      <4> QED
        BY <4>3 DEF t
    <3>3. \A e \in written : Landed(files', e)
      BY <1>5, <1>10, <2>2, AddedLanded
    <3> QED
      BY <2>2, <3>2, <3>3 DEF Landed
  <2> QED
    BY <1>6, <2>1, <2>2
<1>12. EntriesInv'
  <2>1. written' \subseteq 1..entries' /\ entries' \in 0..MaxEntries
    BY <1>0, <1>2 DEF LogInv, EntriesInv
  <2>2. ASSUME NEW e \in written' PROVE e < NextEntry' /\ Landed(files', e)
    <3>1. CASE e \in written
      <4>1. e \in Nat /\ e < logger /\ logger \in Nat
        BY <1>0, <1>10, <3>1 DEF LogInv, EntriesInv
      <4>2. e < logger + 1
        BY <4>1, LessThanNext
      <4> QED
        BY <1>9, <1>11, <3>1, <4>2
    <3>2. CASE e = logger /\ ready
      BY <1>0, <1>9, <1>11, <3>2
    <3> QED
      BY <1>2, <2>2, <3>1, <3>2
  <2> QED
    BY <1>9, <1>11, <2>1, <2>2 DEF EntriesInv
<1> QED
  BY <1>2, <1>8, <1>12 DEF LogInv

LEMMA EnableKeeps ==
    ASSUME LogInv, NEW garbage \in Times, Enable(garbage)
    PROVE  LogInv'
<1> DEFINE r == EnableLog(Disk(accessLog), 0, garbage)
<1>0. /\ now \in Times /\ closing \in BOOLEAN /\ accessLog \in Logs /\ 0 \in 0..MaxEntries
  BY LogConstants DEF LogInv, Times, Enable
<1>1. SoundDisk(Disk(accessLog)) /\ Disk(accessLog).files = files
  BY <1>0, DiskIsSound
<1>2. SoundDisk(r) /\ Adds(files, r.files) /\ r.path # 0 /\ (r.file # 0 \/ closing)
  BY <1>0, <1>1, EnableIs
<1>3. /\ Use(accessLog, r, "live", TRUE) /\ toggler' = "idle"
      /\ UNCHANGED <<now, enabled, closing, accessLog, logger, entries, written>>
  BY DEF Enable
<1> HIDE DEF r
<1>4. FilesInv'
  BY <1>0, <1>2, <1>3, UseKeeps DEF Adds
<1>5. files' = r.files
  BY <1>3 DEF Use
<1> QED
  BY <1>0, <1>2, <1>3, <1>4, <1>5, AsideKeeps DEF Aside, LogInv

\* A log is looked after, by one of the two tasks.
LEMMA TendKeeps ==
    ASSUME LogInv, NEW l \in Logs, NEW r, NEW life \in {"none", "live"},
           Use(l, r, life, log[l].ready), Tended(Disk(l), r, 0), Aside,
           UNCHANGED <<accessLog, toggler>>
    PROVE  LogInv'
<1>1. /\ SoundDisk(Disk(l)) /\ Disk(l).files = files /\ Disk(l).path = path
      /\ Disk(l).file = log[l].file
      /\ log[l].file # 0 \/ log[l].ready => path # 0
      /\ log[l].ready => closing \/ log[l].file # 0
      /\ log[l].ready \in BOOLEAN
  BY DiskIsSound
<1>2. /\ SoundDisk(r) /\ Adds(files, r.files) /\ Len(files) <= Len(r.files)
      /\ path # 0 => r.path # 0
      /\ r.file # 0 \/ log[l].ready => r.path # 0
      /\ log[l].ready => closing \/ r.file # 0
  BY <1>1 DEF Tended, Adds
<1>3. FilesInv'
  BY <1>1, <1>2, UseKeeps DEF Aside
<1>4. files' = r.files
  BY DEF Use
<1> QED
  BY <1>2, <1>3, <1>4, AsideKeeps DEF LogInv

LEMMA CheckTaskKeeps ==
    ASSUME LogInv, NEW garbage \in Times, CheckTask(garbage)
    PROVE  LogInv'
<1>0. /\ now \in Times /\ closing \in BOOLEAN /\ accessLog \in Logs /\ 0 \in 0..MaxEntries
  BY LogConstants DEF LogInv, Times, CheckTask
<1>1. /\ SoundDisk(Disk(accessLog)) /\ Disk(accessLog).path = path
      /\ Disk(accessLog).file = log[accessLog].file
      /\ log[accessLog].file # 0 => path # 0
  BY <1>0, DiskIsSound
<1>2. Tended(Disk(accessLog), CheckRollLog(Disk(accessLog), 0, garbage), 0)
  BY <1>0, <1>1, CheckRollIs
<1> QED
  BY <1>0, <1>2, TendKeeps DEF CheckTask, Aside, LogInv

LEMMA RunKeeps ==
    ASSUME LogInv, NEW garbage \in Times, NEW l \in Logs, Run(l, garbage)
    PROVE  LogInv'
<1>0. /\ now \in Times /\ closing \in BOOLEAN /\ 0 \in 0..MaxEntries
  BY LogConstants DEF LogInv, Times
<1>1. SoundDisk(Disk(l))
  BY DiskIsSound
<1>2. Tended(Disk(l), RollLog(Disk(l), 0, garbage), 0)
  BY <1>0, <1>1, RollIs
<1> QED
  BY <1>0, <1>2, TendKeeps DEF Run, Aside, LogInv

\* RereadPrefs, Create, Disable and Tick write nothing.
LEMMA QuietKeeps ==
    ASSUME LogInv, (\E on \in BOOLEAN : RereadPrefs(on)) \/ Create \/ Disable \/ Tick
    PROVE  LogInv'
<1>0. /\ accessLog \in Logs \cup {NoLog} /\ enabled \in BOOLEAN /\ files \in Seq(FileRecords)
  BY DEF LogInv, FilesInv
<1>1. CASE \E on \in BOOLEAN : RereadPrefs(on)
  <2>1. PICK on \in BOOLEAN : RereadPrefs(on)
    BY <1>1
  <2>2. FilesInv' /\ Adds(files, files')
    BY <2>1, FilesUnchanged DEF RereadPrefs, LogUnused
  <2> QED
    BY <1>0, <2>1, <2>2, AsideKeeps DEF RereadPrefs, Aside
<1>2. CASE Create
  <2>1. PICK l \in NewLog : /\ accessLog' = l
                            /\ log' = [log EXCEPT ![l] = [FreshLog EXCEPT !.life = "live"]]
    BY <1>2 DEF Create
  <2>2. l \in Logs
    BY NewLogIs
  <2> DEFINE new == [FreshLog EXCEPT !.life = "live"]
  <2>3. new \in [life : {"none", "live"}, file : 0..MaxFiles, created : Times, ready : BOOLEAN]
        /\ new.file = 0 /\ new.ready = FALSE
    <3>1. /\ FreshLog \in [life : {"none", "live"}, file : 0..MaxFiles, created : Times,
                           ready : BOOLEAN]
          /\ FreshLog.file = 0 /\ FreshLog.ready = FALSE
      BY LogConstants DEF FreshLog
    <3> QED
      BY <3>1
  <2> HIDE DEF new
  <2>4. log \in [Logs -> [life : {"none", "live"}, file : 0..MaxFiles,
                          created : Times, ready : BOOLEAN]]
    BY DEF LogInv, FilesInv
  <2>5. /\ log' \in [Logs -> [life : {"none", "live"}, file : 0..MaxFiles,
                              created : Times, ready : BOOLEAN]]
        /\ \A k \in Logs : log'[k] = IF k = l THEN new ELSE log[k]
    BY <2>1, <2>2, <2>3, <2>4 DEF new
  <2>6. Len(files) \in Nat /\ UNCHANGED <<files, path, rolled, closing>>
    BY <1>0, <1>2 DEF Create
  <2>7. \A k \in Logs : ObjectSound(k)'
    BY <2>3, <2>5, <2>6 DEF LogInv, FilesInv, ObjectSound
  <2>8. FilesInv'
    BY <2>5, <2>6, <2>7 DEF LogInv, FilesInv
  <2>9. Adds(files, files')
    BY <1>0, <2>6, AddsItself
  <2> QED
    BY <1>0, <1>2, <2>1, <2>2, <2>8, <2>9, AsideKeeps DEF Create, Aside
<1>3. CASE Disable
  <2>1. accessLog \in Logs /\ FilesInv'
    BY <1>0, <1>3, DeleteKeeps DEF Disable
  <2>2. Adds(files, files')
    BY <1>0, <1>3, AddsItself DEF Disable
  <2> QED
    BY <1>0, <1>3, <2>1, <2>2, AsideKeeps DEF Disable, Aside
<1>4. CASE Tick
  <2>1. now' \in 0..MaxTime
    BY <1>4, LogConstants DEF Tick, LogInv
  <2>2. UNCHANGED <<enabled, closing, accessLog, log, files, path, rolled, logger, toggler,
                    entries, written>>
    BY <1>4 DEF Tick, LogUnused
  <2>3. FilesInv'
    BY <2>2, FilesUnchanged
  <2>4. EntriesInv'
    BY <2>2 DEF LogInv, EntriesInv, NextEntry
  <2> QED
    BY <2>1, <2>2, <2>3, <2>4 DEF LogInv
<1> QED
  BY <1>1, <1>2, <1>3, <1>4

LEMMA CrashKeeps ==
    ASSUME LogInv, Crash
    PROVE  LogInv'
<1>0. /\ log' = [l \in Logs |-> FreshLog] /\ accessLog' = NoLog /\ logger' = 0
      /\ toggler' = "start" /\ UNCHANGED <<now, enabled, closing, entries, written>>
  BY DEF Crash
<1>1. FreshLog \in [life : {"none", "live"}, file : 0..MaxFiles, created : Times, ready : BOOLEAN]
      /\ FreshLog.file = 0 /\ FreshLog.ready = FALSE
  BY LogConstants DEF FreshLog
<1>2. log' \in [Logs -> [life : {"none", "live"}, file : 0..MaxFiles,
                         created : Times, ready : BOOLEAN]]
  BY <1>0, <1>1
<1>3. \A n \in Nat : 0 \in 0..n
  OBVIOUS
<1>4. ASSUME Len(files') \in Nat, NEW k \in Logs PROVE ObjectSound(k)'
  BY <1>0, <1>1, <1>3, <1>4 DEF ObjectSound
<1>5. /\ files \in Seq(FileRecords) /\ Len(files) \in Nat /\ Len(files) <= MaxFiles
      /\ path \in 0..Len(files)
  BY DEF LogInv, FilesInv
<1>6. FilesInv' /\ Adds(files, files')
  <2>1. CASE UNCHANGED <<files, path, rolled>>
    <3>1. Len(files') \in Nat
      BY <1>5, <2>1
    <3> QED
      BY <1>2, <1>4, <1>5, <2>1, <3>1, AddsItself DEF LogInv, FilesInv
  <2>2. CASE /\ path = 0 /\ Len(files) < MaxFiles
             /\ files' = Append(files, [head |-> Unknown, lines |-> <<>>, by |-> 0])
             /\ path' = Len(files') /\ UNCHANGED rolled
    <3> DEFINE new == [head |-> Unknown, lines |-> <<>>, by |-> 0]
               n == Len(files) + 1
    <3>1. new \in FileRecords /\ new.lines = <<>>
      BY LogConstants DEF FileRecords
    <3>2. files' = Append(files, new)
      BY <2>2
    <3> HIDE DEF new
    <3>3. /\ files' \in Seq(FileRecords) /\ Len(files') = n /\ files'[n] = new
          /\ \A i \in 1..Len(files) : files'[i] = files[i]
      BY <1>5, <3>1, <3>2
    <3>4. n \in Nat /\ n <= MaxFiles /\ path' = n /\ n \in 0..n /\ Len(files) <= n
      BY <1>5, <2>2, <3>3, LogConstants
    <3>5. Adds(files, files')
      BY <1>5, <3>1, <3>3, <3>4 DEF Adds
    <3>6. \A x \in DOMAIN rolled : rolled[x] \in 1..Len(files')
      BY <1>5, <3>3 DEF LogInv, FilesInv
    <3>7. ASSUME NEW i \in 1..Len(files')
          PROVE  i = path' \/ (\E x \in DOMAIN rolled : rolled[x] = i) \/ UsedUp(rolled)
      <4>1. CASE i = n
        BY <3>4, <4>1
      <4>2. CASE i # n
        <5>1. i \in 1..Len(files) /\ i # path
          BY <1>5, <2>2, <3>3, <4>2
        <5> QED
          BY <5>1 DEF LogInv, FilesInv
      <4> QED
        BY <4>1, <4>2
    <3>8. rolled \in RolledMaps
      BY DEF LogInv, FilesInv
    <3>9. rolled' = rolled /\ path' \in 0..Len(files') /\ Len(files') <= MaxFiles
          /\ Len(files') \in Nat
      BY <2>2, <3>3, <3>4
    <3> HIDE DEF n
    <3> QED
      BY <1>2, <1>4, <3>3, <3>5, <3>6, <3>7, <3>8, <3>9 DEF FilesInv
  <2>3. ASSUME NEW l \in Logs, path # 0,
               LET d == RenameLogFile(Disk(l)) IN
               files' = d.files /\ path' = d.path /\ rolled' = d.rolled
        PROVE  FilesInv' /\ Adds(files, files')
    <3> DEFINE d == RenameLogFile(Disk(l))
    <3>1. SoundDisk(Disk(l)) /\ Disk(l).files = files /\ Disk(l).path = path
      BY DiskIsSound DEF LogInv
    <3>2. SoundDisk(d) /\ d.files = files /\ d.path = 0
      BY <2>3, <3>1, RenameIs
    <3>3. files' = files /\ path' = 0 /\ rolled' = d.rolled
      BY <2>3, <3>2
    <3> HIDE DEF d
    <3>4. rolled' \in RolledMaps
      BY <3>2, <3>3, DiskParts DEF SoundDisk
    <3>5. /\ \A x \in DOMAIN rolled' : rolled'[x] \in 1..Len(files')
          /\ \A i \in 1..Len(files') : i = path' \/ (\E x \in DOMAIN rolled' : rolled'[x] = i)
                                         \/ UsedUp(rolled')
      BY <3>2, <3>3 DEF SoundDisk
    <3>6. path' \in 0..Len(files') /\ Len(files') \in Nat
      BY <1>5, <3>3
    <3> QED
      BY <1>2, <1>4, <1>5, <3>3, <3>4, <3>5, <3>6, AddsItself DEF FilesInv
  <2> QED
    BY <2>1, <2>2, <2>3 DEF Crash
<1>7. entries \in Nat /\ NextEntry' = entries + 1 /\ entries \in 0..MaxEntries
      /\ entries' = entries
  BY <1>0, LogConstants DEF LogInv, EntriesInv, NextEntry
<1>8. NextEntry <= entries + 1
  BY <1>7 DEF LogInv, EntriesInv, NextEntry
<1>9. EntriesInv'
  BY <1>0, <1>6, <1>7, <1>8, EntriesKept
<1> QED
  BY <1>0, <1>6, <1>9 DEF LogInv

LEMMA LogStep == LogInv /\ [LogNext]_logVars => LogInv'
<1> SUFFICES ASSUME LogInv, [LogNext]_logVars
             PROVE  LogInv'
  OBVIOUS
<1>1. \A garbage \in {0, Unknown} : garbage \in Times
  BY LogConstants
<1>2. CASE UNCHANGED logVars
  <2>1. FilesInv'
    BY <1>2, FilesUnchanged DEF logVars
  <2>2. EntriesInv'
    BY <1>2 DEF logVars, LogInv, EntriesInv, NextEntry
  <2> QED
    BY <1>2, <2>1, <2>2 DEF logVars, LogInv
<1>3. ASSUME NEW garbage \in {0, Unknown},
             \/ InitializeLog(garbage) \/ LogRequest(garbage) \/ WriteEntry(garbage)
             \/ RollAccessLog(garbage) \/ Enable(garbage) \/ CheckTask(garbage)
             \/ \E l \in Logs : Run(l, garbage)
      PROVE  LogInv'
  BY <1>1, <1>3, InitializeKeeps, RequestKeeps, WriteKeeps, RollKeeps, EnableKeeps,
     CheckTaskKeeps, RunKeeps
<1>4. CASE (\E on \in BOOLEAN : RereadPrefs(on)) \/ Create \/ Disable \/ Tick
  BY <1>4, QuietKeeps
<1>5. CASE Crash
  BY <1>5, CrashKeeps
<1> QED
  BY <1>2, <1>3, <1>4, <1>5 DEF LogNext

LEMMA LogHolds == LogSpec => []LogInv
BY LogStart, LogStep, PTL DEF LogSpec

\* Every entry that was written to a log that was enabled is in one file that has a name, in
\* order, through every roll, crash and reread of the preferences, whatever a structure that is
\* not initialized holds: unless a file was begun for it while the log is closed between
\* writes, or a day has used its last number.
THEOREM EntriesStay == LogSpec => []LogWhole
<1>1. LogInv => LogWhole
  <2> SUFFICES ASSUME LogInv
               PROVE  LogWhole
    OBVIOUS
  <2>1. \A i \in 1..Len(files) : Increasing(files[i].lines)
    BY DEF LogInv, EntriesInv, InTheirOrder
  <2>2. ASSUME NEW i \in 1..Len(files) PROVE i \in Named \/ Exhausted
    BY DEF LogInv, FilesInv, Named, Exhausted, UsedUp, Range
  <2>3. ASSUME NEW e \in written
        PROVE  \/ \E i \in Named : Holds(e) = {i}
               \/ \E i \in 1..Len(files) : files[i].by = e
               \/ Exhausted /\ Holds(e) # {}
    <3>1. CASE MadeFor(files, e)
      BY <3>1 DEF MadeFor
    <3>2. CASE ~MadeFor(files, e)
      <4>1. PICK i \in 1..Len(files) :
                     \A j \in 1..Len(files) : e \in Range(files[j].lines) <=> j = i
        BY <3>2 DEF LogInv, EntriesInv, Landed
      <4>2. Holds(e) = {i}
        BY <4>1 DEF Holds
      <4> QED
        BY <2>2, <4>2
    <3> QED
      BY <3>1, <3>2
  <2> QED
    BY <2>1, <2>3 DEF LogWhole
<1> QED
  BY <1>1, LogHolds, PTL

LEMMA LogTypesAre == LogInv => LogTypeOK
<1> SUFFICES ASSUME LogInv
             PROVE  LogTypeOK
  OBVIOUS
<1>1. Range(rolled) \subseteq 1..Len(files)
  BY DEF LogInv, FilesInv, Range
<1>2. DOMAIN rolled \subseteq Times \X (0..Numbers)
  BY RolledMapIs DEF LogInv, FilesInv
<1>3. logger \in 0..entries
  BY LogConstants DEF LogInv, EntriesInv
<1>4. files \in Seq([head : Times, lines : Seq(1..MaxEntries), by : 0..MaxEntries])
  BY DEF LogInv, FilesInv, FileRecords
<1> QED
  BY <1>1, <1>2, <1>3, <1>4 DEF LogInv, FilesInv, EntriesInv, LogTypeOK

\* The log, its objects and its files have their types.
THEOREM LogTypes == LogSpec => []LogTypeOK
BY LogTypesAre, LogHolds, PTL

-----------------------------------------------------------------------------
(* The preferences. *)

AttrRecords == [name : PrefNames, type : PrefTypes, removed : BOOLEAN, values : Seq(PrefValues)]

\* A name is there once.
Once(t) == \A i, j \in 1..Len(t) : t[i].name = t[j].name => i = j

\* There is one entry for a name and a type, and one that is not removed for a name.
OneEntryEach(a) ==
    \A j, k \in 1..Len(a) :
        a[j].name = a[k].name /\ (a[j].type = a[k].type \/ (~a[j].removed /\ ~a[k].removed)) => j = k

ActiveIn(a) == {k \in 1..Len(a) : ~a[k].removed}

Files == {t \in Seq(Elements) : Once(t)}
ModuleFiles == {t \in Files : \A i \in 1..Len(t) : t[i].name \in PrefNames}

SoundEntries(a, n) ==
    /\ a \in Seq(AttrRecords) /\ OneEntryEach(a)
    /\ IsFiniteSet(ActiveIn(a)) /\ n = Cardinality(ActiveIn(a))

SoundMap(d) == SoundEntries(d.attrs, d.valid) /\ d.tree \in ModuleFiles

\* The first values of w are those of q, unless the name is in U.
Starts(q, w, free) ==
    Len(q) <= Len(w) /\ (free \/ \A j \in 1..Len(q) : q[j] = w[j])

\* The entry x has the type of the element e, and its values.
Agrees(x, e, U) ==
    /\ ~x.removed /\ x.name = e.name /\ x.type = e.type
    /\ Starts(e.values, x.values, e.name \in U)

AllFollow(a, t, U) == \A i \in 1..Len(t) : \E k \in 1..Len(a) : Agrees(a[k], t[i], U)

PortFollows(t, w, U, other) ==
    \A i \in 1..Len(t) : t[i].name = Port => /\ t[i].type = "number" \/ other
                                             /\ Starts(t[i].values, w, Port \in U)

PrefsInv ==
    /\ SoundEntries(attrs, valid) /\ tree \in ModuleFiles /\ serverTree \in Files
    /\ portValues \in Seq(PrefValues)
    /\ phase \in {"idle", "parsed", "counted", "role"}
    /\ counted = IF phase = "counted" THEN Len(attrs) ELSE 0
    /\ dangling \in BOOLEAN /\ mistyped \in BOOLEAN /\ calls \in 0..MaxCalls
    /\ unsaved \subseteq PrefNames \cup {Port}
    /\ ~dangling => PortFollows(serverTree, portValues, unsaved, mistyped)
    /\ ~dangling /\ phase \in {"role", "idle"} => AllFollow(attrs, tree, unsaved)

LEMMA PrefConstants ==
    /\ Port \notin PrefNames /\ Defaults \in Seq(PrefValues) /\ Defaults # <<>>
    /\ MaxPrefValues \in Nat /\ MaxCalls \in Nat
BY PrefsAssumption

LEMMA FilesOnce == PrefFiles \subseteq ModuleFiles /\ PortFiles \subseteq Files
<1>1. ASSUME NEW t \in PrefFiles \cup PortFiles PROVE t \in Files
  <2>1. t \in Seq(Elements) /\ DOMAIN t = 1..Len(t)
    BY PrefsAssumption
  <2>2. IsInjective([k \in DOMAIN t |-> t[k].name])
    BY PrefsAssumption
  <2>3. Once(t)
    BY <2>1, <2>2 DEF Once, IsInjective
  <2> QED
    BY <2>1, <2>3 DEF Files
<1>2. ASSUME NEW t \in PrefFiles, NEW i \in 1..Len(t) PROVE t[i].name \in PrefNames
  <2>1. t \in Seq(Elements) /\ DOMAIN t = 1..Len(t)
    BY PrefsAssumption
  <2> QED
    BY <2>1, PrefsAssumption
<1> QED
  BY <1>1, <1>2 DEF ModuleFiles

LEMMA PrefixIs ==
    ASSUME NEW S, NEW q \in Seq(S), NEW w \in Seq(S)
    PROVE  IsPrefix(q, w) <=> Len(q) <= Len(w) /\ \A j \in 1..Len(q) : q[j] = w[j]
<1> SUFFICES ASSUME Len(q) <= Len(w)
             PROVE  SubSeq(q, 1, Len(q)) = SubSeq(w, 1, Len(q)) <=> \A j \in 1..Len(q) : q[j] = w[j]
  BY DEF IsPrefix
<1> DEFINE f == SubSeq(q, 1, Len(q))
           g == SubSeq(w, 1, Len(q))
<1>1. Len(q) \in Nat /\ Len(w) \in Nat
  OBVIOUS
<1>2. f \in Seq(S) /\ g \in Seq(S) /\ Len(f) = Len(q) /\ Len(g) = Len(q)
  BY <1>1
<1>3. \A j \in 1..Len(q) : f[j] = q[j] /\ g[j] = w[j]
  BY <1>1
<1> HIDE DEF f, g
<1>4. f = g <=> \A j \in 1..Len(q) : f[j] = g[j]
  BY <1>1, <1>2, SeqEqual
<1>5. f = g <=> \A j \in 1..Len(q) : q[j] = w[j]
  BY <1>3, <1>4
<1> QED
  BY <1>5 DEF f, g

LEMMA RemoveAtIs ==
    ASSUME NEW S, NEW q \in Seq(S), NEW i \in 1..Len(q)
    PROVE  /\ RemoveAt(q, i) \in Seq(S) /\ Len(RemoveAt(q, i)) = Len(q) - 1
           /\ \A j \in 1..(Len(q) - 1) : RemoveAt(q, i)[j] = IF j < i THEN q[j] ELSE q[j + 1]
<1> DEFINE f == SubSeq(q, 1, i - 1)
           g == SubSeq(q, i + 1, Len(q))
<1>1. Len(q) \in Nat /\ i \in Nat /\ 1 <= i /\ i <= Len(q)
  OBVIOUS
<1>2. f \in Seq(S) /\ Len(f) = i - 1 /\ \A j \in 1..(i - 1) : f[j] = q[j]
  BY <1>1
<1>3. g \in Seq(S) /\ Len(g) = Len(q) - i
  BY <1>1
<1>4. \A j \in 1..(Len(q) - i) : g[j] = q[i + j]
  BY <1>1
<1>5. RemoveAt(q, i) = f \o g
  BY DEF RemoveAt
<1> HIDE DEF f, g
<1>6. f \o g \in Seq(S) /\ Len(f \o g) = Len(q) - 1
  <2>1. f \in Seq(S) /\ g \in Seq(S)
    BY <1>2, <1>3
  <2>2. f \o g \in Seq(S) /\ Len(f \o g) = Len(f) + Len(g)
    BY <2>1, ConcatProperties
  <2>3. Len(f) = i - 1 /\ Len(g) = Len(q) - i
    BY <1>2, <1>3
  <2>4. PICK L \in Nat : L = Len(q)
    BY <1>1
  <2>5. Len(f) + Len(g) = L - 1
    BY <1>1, <2>3, <2>4
  <2> QED
    BY <2>2, <2>4, <2>5
<1>7. ASSUME NEW j \in 1..(Len(q) - 1), j < i PROVE (f \o g)[j] = q[j]
  BY <1>1, <1>2, <1>3, <1>7
<1>8. ASSUME NEW j \in 1..(Len(q) - 1), ~(j < i) PROVE (f \o g)[j] = q[j + 1]
  <2>1. (f \o g)[j] = g[j - (i - 1)]
    BY <1>1, <1>2, <1>3, <1>8
  <2>2. j - (i - 1) \in 1..(Len(q) - i) /\ i + (j - (i - 1)) = j + 1
    BY <1>1, <1>8
  <2> QED
    BY <2>1, <2>2, <1>4
<1> QED
  BY <1>5, <1>6, <1>7, <1>8

IsPut(r, S, w, i, v) ==
    /\ r \in Seq(S) /\ Len(w) <= Len(r) /\ i < Len(r) /\ r[i + 1] = v
    /\ \A j \in 1..Len(w) : j # i + 1 => r[j] = w[j]

LEMMA PutValueIs ==
    ASSUME NEW S, NEW w \in Seq(S), NEW i \in Nat, i <= Len(w), NEW v \in S
    PROVE  IsPut(PutValue(w, i, v), S, w, i, v)
<1> SUFFICES ASSUME NEW r, r = PutValue(w, i, v)
             PROVE  IsPut(r, S, w, i, v)
  OBVIOUS
<1> USE DEF IsPut
<1>1. CASE i < Len(w)
  <2>1. r = [w EXCEPT ![i + 1] = v] /\ i + 1 \in 1..Len(w)
    BY <1>1 DEF PutValue
  <2>2. r \in Seq(S) /\ Len(r) = Len(w) /\ r[i + 1] = v /\ \A j \in 1..Len(w) : j # i + 1 => r[j] = w[j]
    BY <2>1
  <2> QED
    BY <1>1, <2>2
<1>2. CASE ~(i < Len(w))
  <2>1. r = Append(w, v) /\ i = Len(w)
    BY <1>2 DEF PutValue
  <2>2. r \in Seq(S) /\ Len(r) = Len(w) + 1 /\ r[Len(w) + 1] = v /\ \A j \in 1..Len(w) : r[j] = w[j]
    BY <2>1
  <2> QED
    BY <2>1, <2>2
<1> QED
  BY <1>1, <1>2

\* The values of an element that SetElement leaves.
SetValues(list, q, i, v) ==
    IF Len(q) <= 1 /\ i = 0 THEN IF list THEN q ELSE <<v>>
    ELSE IF i = Len(q) THEN Append(q, v)
    ELSE IF i < Len(q) THEN [q EXCEPT ![i + 1] = v]
    ELSE q

LEMMA SetStarts ==
    ASSUME NEW S, NEW q \in Seq(S), NEW w \in Seq(S), NEW list \in BOOLEAN, NEW i \in Nat, i <= Len(w),
           NEW v \in S, NEW free \in BOOLEAN, Starts(q, w, free)
    PROVE  /\ SetValues(list, q, i, v) \in Seq(S)
           /\ Starts(SetValues(list, q, i, v), PutValue(w, i, v),
                     free \/ (i = 0 /\ list /\ Len(q) <= 1))
<1> SUFFICES ASSUME NEW r, r = SetValues(list, q, i, v), NEW x, x = PutValue(w, i, v)
             PROVE  r \in Seq(S) /\ Starts(r, x, free \/ (i = 0 /\ list /\ Len(q) <= 1))
  OBVIOUS
<1>1. /\ Len(q) \in Nat /\ Len(w) \in Nat /\ Len(q) <= Len(w)
      /\ free \/ \A j \in 1..Len(q) : q[j] = w[j]
  BY DEF Starts
<1>2. /\ x \in Seq(S) /\ Len(w) <= Len(x) /\ i < Len(x) /\ x[i + 1] = v
      /\ \A j \in 1..Len(w) : j # i + 1 => x[j] = w[j]
  <2>1. IsPut(PutValue(w, i, v), S, w, i, v)
    BY PutValueIs
  <2> QED
    BY <2>1 DEF IsPut
<1>3. CASE Len(q) <= 1 /\ i = 0 /\ list
  <2>1. r = q
    BY <1>3 DEF SetValues
  <2>2. Len(r) <= Len(x)
    BY <1>1, <1>2, <2>1
  <2> QED
    BY <1>3, <2>1, <2>2, Zenon DEF Starts
<1>4. CASE Len(q) <= 1 /\ i = 0 /\ ~list
  <2>1. r = <<v>>
    BY <1>4 DEF SetValues
  <2>2. r \in Seq(S) /\ Len(r) = 1 /\ r[1] = v
    BY <2>1
  <2> QED
    BY <1>1, <1>2, <1>4, <2>2 DEF Starts
<1>5. CASE ~(Len(q) <= 1 /\ i = 0) /\ i = Len(q)
  <2>1. r = Append(q, v)
    BY <1>5 DEF SetValues
  <2>2. r \in Seq(S) /\ Len(r) = Len(q) + 1 /\ r[Len(q) + 1] = v /\ \A j \in 1..Len(q) : r[j] = q[j]
    BY <2>1
  <2>3. Len(r) <= Len(x)
    BY <1>1, <1>2, <1>5, <2>2
  <2>4. (\A j \in 1..Len(q) : q[j] = w[j]) => \A j \in 1..Len(r) : r[j] = x[j]
    <3> SUFFICES ASSUME \A j \in 1..Len(q) : q[j] = w[j], NEW j \in 1..Len(r)
                 PROVE  r[j] = x[j]
      OBVIOUS
    <3>1. Len(q) \in Nat /\ (j \in 1..Len(q) \/ j = Len(q) + 1)
      BY <1>1, <2>2
    <3>2. CASE j \in 1..Len(q)
      <4>1. r[j] = q[j] /\ q[j] = w[j]
        BY <2>2, <3>2
      <4>0. j \in 1..Len(w) /\ j # i + 1
        BY <1>1, <1>5, <3>2
      <4>2. w[j] = x[j]
        BY ONLY <1>2, <4>0
      <4> QED
        BY ONLY <4>1, <4>2
    <3>3. CASE j = Len(q) + 1
      <4>1. r[j] = v
        BY <2>2, <3>3
      <4>2. x[j] = v
        BY <1>1, <1>2, <1>5, <3>3
      <4> QED
        BY ONLY <4>1, <4>2
    <3> QED
      BY <3>1, <3>2, <3>3
  <2> QED
    BY <1>1, <2>2, <2>3, <2>4, Zenon DEF Starts
<1>6. CASE ~(Len(q) <= 1 /\ i = 0) /\ i < Len(q)
  <2>1. r = [q EXCEPT ![i + 1] = v] /\ i + 1 \in 1..Len(q)
    BY <1>6, <1>1 DEF SetValues
  <2>2. r \in Seq(S) /\ Len(r) = Len(q) /\ r[i + 1] = v /\ \A j \in 1..Len(q) : j # i + 1 => r[j] = q[j]
    BY <2>1
  <2>3. Len(r) <= Len(x)
    BY <1>1, <1>2, <2>2
  <2>4. ASSUME \A j \in 1..Len(q) : q[j] = w[j], NEW j \in 1..Len(r)
        PROVE  r[j] = x[j]
    <3>1. j \in 1..Len(q) /\ j \in 1..Len(w) /\ q[j] = w[j]
      BY <1>1, <2>2, <2>4
    <3> QED
      BY <1>2, <2>2, <3>1
  <2> QED
    BY <1>1, <2>2, <2>3, <2>4, Zenon DEF Starts
<1>7. CASE ~(Len(q) <= 1 /\ i = 0) /\ ~(i = Len(q)) /\ ~(i < Len(q))
  <2>1. r = q
    BY <1>7 DEF SetValues
  <2>2. (\A j \in 1..Len(q) : q[j] = w[j]) => \A j \in 1..Len(q) : q[j] = x[j]
    BY <1>1, <1>2, <1>7, SMTT(30)
  <2> QED
    BY <1>1, <1>2, <2>1, <2>2 DEF Starts
<1> QED
  BY <1>1, <1>3, <1>4, <1>5, <1>6, <1>7

LEMMA RemoveStarts ==
    ASSUME NEW S, NEW q \in Seq(S), NEW w \in Seq(S), NEW i \in Nat, i < Len(w),
           NEW free \in BOOLEAN, Starts(q, w, free)
    PROVE  /\ i >= Len(q) => Starts(q, RemoveAt(w, i + 1), free)
           /\ i < Len(q)  => /\ RemoveAt(q, i + 1) \in Seq(S)
                             /\ Starts(RemoveAt(q, i + 1), RemoveAt(w, i + 1), free)
<1> DEFINE x == RemoveAt(w, i + 1)
           r == RemoveAt(q, i + 1)
<1>1. /\ Len(q) \in Nat /\ Len(w) \in Nat /\ Len(q) <= Len(w)
      /\ free \/ \A j \in 1..Len(q) : q[j] = w[j]
  BY DEF Starts
<1>2. i + 1 \in 1..Len(w)
  BY <1>1
<1>3. /\ x \in Seq(S) /\ Len(x) = Len(w) - 1
      /\ \A j \in 1..(Len(w) - 1) : x[j] = IF j < i + 1 THEN w[j] ELSE w[j + 1]
  BY <1>2, RemoveAtIs
<1>4. i < Len(q) =>
         /\ r \in Seq(S) /\ Len(r) = Len(q) - 1
         /\ \A j \in 1..(Len(q) - 1) : r[j] = IF j < i + 1 THEN q[j] ELSE q[j + 1]
  <2> SUFFICES ASSUME i < Len(q) PROVE i + 1 \in 1..Len(q)
    BY RemoveAtIs
  <2> QED
    BY <1>1
<1> HIDE DEF x, r
<1>5. ASSUME i >= Len(q) PROVE Starts(q, x, free)
  <2>1. Len(q) <= Len(x)
    BY <1>1, <1>3, <1>5
  <2>2. (\A j \in 1..Len(q) : q[j] = w[j]) => \A j \in 1..Len(q) : q[j] = x[j]
    BY <1>1, <1>3, <1>5
  <2> QED
    BY <1>1, <2>1, <2>2 DEF Starts
<1>6. ASSUME i < Len(q) PROVE Starts(r, x, free)
  <2>1. Len(r) <= Len(x)
    BY <1>1, <1>3, <1>4, <1>6
  <2>2. ASSUME \A j \in 1..Len(q) : q[j] = w[j], NEW j \in 1..Len(r)
        PROVE  r[j] = x[j]
    <3>1. j \in 1..(Len(q) - 1) /\ j \in 1..(Len(w) - 1) /\ j \in 1..Len(q) /\ j + 1 \in 1..Len(q)
      BY <1>1, <1>4, <1>6
    <3>2. q[j] = w[j] /\ q[j + 1] = w[j + 1]
      BY <2>2, <3>1
    <3> QED
      BY <1>3, <1>4, <1>6, <3>1, <3>2
  <2> QED
    BY <1>1, <2>1, <2>2 DEF Starts
<1> QED
  BY <1>4, <1>5, <1>6 DEF x, r

-----------------------------------------------------------------------------
(* Elements *)

\* The elements with other names than n are those of t.
OtherTags(t, r, n) ==
    \A j \in 1..Len(r) : r[j].name # n => \E i \in 1..Len(t) : t[i] = r[j]

\* The element k has other values, and its name and type.
GivesValues(r, t, k, values) ==
    /\ r \in Files /\ Len(r) = Len(t) /\ \A j \in 1..Len(t) : j # k => r[j] = t[j]
    /\ r[k].name = t[k].name /\ r[k].type = t[k].type /\ r[k].values = values

LEMMA FilesAre ==
    ASSUME NEW t \in Files
    PROVE  t \in Seq(Elements) /\ Once(t) /\ Len(t) \in Nat /\ DOMAIN t = 1..Len(t)
BY DEF Files

LEMMA ElementParts ==
    ASSUME NEW t \in Files, NEW k \in 1..Len(t)
    PROVE  /\ t[k] \in Elements /\ t[k].name \in PrefNames \cup {Port} /\ t[k].type \in PrefTypes
           /\ t[k].list \in BOOLEAN /\ t[k].values \in Seq(PrefValues) /\ Len(t[k].values) \in Nat
<1>1. t[k] \in Elements
  BY FilesAre
<1> QED
  BY <1>1 DEF Elements

LEMMA PlaceIs ==
    ASSUME NEW t \in Files, NEW k \in 1..Len(t), NEW n, t[k].name = n
    PROVE  ElementsOf(t, n) = {k} /\ PlaceOf(t, n) = k
<1>1. ElementsOf(t, n) = {k}
  BY FilesAre DEF Once, ElementsOf
<1> QED
  BY <1>1 DEF PlaceOf

LEMMA NoPlace ==
    ASSUME NEW t \in Files, NEW n
    PROVE  ElementsOf(t, n) = {} <=> \A k \in 1..Len(t) : t[k].name # n
BY FilesAre DEF ElementsOf

LEMMA WithValuesIs ==
    ASSUME NEW t \in Files, NEW k \in 1..Len(t), NEW n, t[k].name = n, NEW list \in BOOLEAN,
           NEW values \in Seq(PrefValues)
    PROVE  GivesValues(WithValues(t, n, list, values), t, k, values)
<1> SUFFICES ASSUME NEW r, r = WithValues(t, n, list, values)
             PROVE  GivesValues(r, t, k, values)
  OBVIOUS
<1>1. t \in Seq(Elements) /\ Once(t) /\ Len(t) \in Nat /\ DOMAIN t = 1..Len(t)
  BY FilesAre
<1>2. \A j \in 1..Len(t) : j # k => t[j].name # n
  BY <1>1 DEF Once
<1>3. r = [j \in 1..Len(t) |-> IF t[j].name # n THEN t[j] ELSE [t[j] EXCEPT !.list = list, !.values = values]]
  BY <1>1 DEF WithValues
<1>4. \A j \in 1..Len(t) : j # k => r[j] = t[j]
  BY <1>2, <1>3
<1>5. r[k] = [t[k] EXCEPT !.list = list, !.values = values]
  BY <1>3
<1>6. t[k] \in Elements
  BY ElementParts
<1>7. r[k] \in Elements /\ r[k].name = t[k].name /\ r[k].type = t[k].type /\ r[k].values = values
  BY <1>5, <1>6 DEF Elements
<1>8. \A j \in 1..Len(t) : r[j] \in Elements
  BY <1>1, <1>4, <1>7
<1>9. r \in Seq(Elements) /\ Len(r) = Len(t)
  <2>1. r \in [1..Len(t) -> Elements]
    BY <1>3, <1>8
  <2> QED
    BY <1>1, <2>1, IsASeq, SMTT(30)
<1>10. Once(r)
  <2>1. \A j \in 1..Len(t) : r[j].name = t[j].name
    BY <1>4, <1>7
  <2> QED
    BY <1>1, <1>9, <2>1 DEF Once
<1> QED
  BY <1>4, <1>7, <1>9, <1>10 DEF GivesValues, Files

LEMMA AddPrefIs ==
    ASSUME NEW t \in Files, NEW n \in PrefNames \cup {Port}, NEW type \in PrefTypes,
           \A k \in 1..Len(t) : t[k].name # n, NEW r, r = AddPref(t, n, type)
    PROVE  /\ r \in Files /\ Len(r) = Len(t) + 1 /\ \A j \in 1..Len(t) : r[j] = t[j]
           /\ r[Len(r)] = [name |-> n, type |-> type, list |-> FALSE, values |-> <<>>]
<1> DEFINE e == [name |-> n, type |-> type, list |-> FALSE, values |-> <<>>]
<1>1. t \in Seq(Elements) /\ Once(t) /\ Len(t) \in Nat
  BY FilesAre
<1>2. r = Append(t, e)
  BY NoPlace DEF AddPref
<1>3. e \in Elements /\ e.name = n
  BY DEF Elements
<1> HIDE DEF e
<1>4. /\ r \in Seq(Elements) /\ Len(r) = Len(t) + 1 /\ \A j \in 1..Len(t) : r[j] = t[j]
      /\ r[Len(t) + 1] = e
  BY <1>1, <1>2, <1>3
<1>5. Once(r)
  <2> SUFFICES ASSUME NEW i \in 1..Len(r), NEW j \in 1..Len(r), r[i].name = r[j].name
               PROVE  i = j
    BY DEF Once
  <2>1. i \in 1..Len(t) \/ i = Len(t) + 1
    BY <1>1, <1>4
  <2>2. j \in 1..Len(t) \/ j = Len(t) + 1
    BY <1>1, <1>4
  <2> QED
    BY <1>1, <1>3, <1>4, <2>1, <2>2 DEF Once
<1> QED
  BY <1>1, <1>4, <1>5 DEF Files, e

LEMMA AddPrefSame ==
    ASSUME NEW t \in Files, NEW n, NEW k \in 1..Len(t), t[k].name = n, NEW type
    PROVE  AddPref(t, n, type) = t
BY PlaceIs, SMTT(30) DEF AddPref

LEMMA SetElementIs ==
    ASSUME NEW t \in Files, NEW k \in 1..Len(t), NEW n, t[k].name = n, NEW i \in Nat,
           NEW v \in PrefValues
    PROVE  GivesValues(SetElement(t, n, i, v), t, k, SetValues(t[k].list, t[k].values, i, v))
<1> DEFINE q == t[k].values
           list == t[k].list
           r == SetElement(t, n, i, v)
<1>1. q \in Seq(PrefValues) /\ Len(q) \in Nat /\ list \in BOOLEAN
  BY ElementParts
<1>2. PlaceOf(t, n) = k
  BY PlaceIs
<1>3. GivesValues(t, t, k, q)
  BY DEF GivesValues
<1>4. /\ <<v>> \in Seq(PrefValues) /\ Append(q, v) \in Seq(PrefValues)
      /\ i < Len(q) => [q EXCEPT ![i + 1] = v] \in Seq(PrefValues)
      /\ FALSE \in BOOLEAN /\ TRUE \in BOOLEAN /\ (list \/ q # <<>>) \in BOOLEAN
  <2> HIDE DEF q, list
  <2>1. <<v>> \in Seq(PrefValues)
    OBVIOUS
  <2>2. Append(q, v) \in Seq(PrefValues)
    BY <1>1
  <2>3. i < Len(q) => i + 1 \in 1..Len(q)
    BY <1>1
  <2>4. i < Len(q) => [q EXCEPT ![i + 1] = v] \in Seq(PrefValues)
    BY <1>1, <2>3, ExceptSeq
  <2>5. (list \/ q # <<>>) \in BOOLEAN
    OBVIOUS
  <2> QED
    BY <2>1, <2>2, <2>4, <2>5
<1>5. /\ GivesValues(WithValues(t, n, FALSE, <<v>>), t, k, <<v>>)
      /\ GivesValues(WithValues(t, n, list \/ q # <<>>, Append(q, v)), t, k, Append(q, v))
      /\ i < Len(q) => GivesValues(WithValues(t, n, TRUE, [q EXCEPT ![i + 1] = v]), t, k,
                                   [q EXCEPT ![i + 1] = v])
  <2> HIDE DEF q, list
  <2> QED
    BY <1>4, WithValuesIs
<1>6. AddPrefValue(t, n, v) = WithValues(t, n, list \/ q # <<>>, Append(q, v))
  BY <1>2 DEF AddPrefValue
<1>7. r = IF Len(q) <= 1 /\ i = 0 THEN IF list THEN t ELSE WithValues(t, n, FALSE, <<v>>)
          ELSE IF i = Len(q) THEN AddPrefValue(t, n, v)
          ELSE IF i < Len(q) THEN WithValues(t, n, TRUE, [q EXCEPT ![i + 1] = v])
          ELSE t
  BY <1>2 DEF SetElement
<1>8. SetValues(list, q, i, v) =
          IF Len(q) <= 1 /\ i = 0 THEN IF list THEN q ELSE <<v>>
          ELSE IF i = Len(q) THEN Append(q, v)
          ELSE IF i < Len(q) THEN [q EXCEPT ![i + 1] = v]
          ELSE q
  BY DEF SetValues
<1> HIDE DEF q, list, r
<1>9. GivesValues(r, t, k, SetValues(list, q, i, v))
  <2>1. CASE Len(q) <= 1 /\ i = 0 /\ list
    BY <1>3, <1>7, <1>8, <2>1
  <2>2. CASE Len(q) <= 1 /\ i = 0 /\ ~list
    BY <1>5, <1>7, <1>8, <2>2
  <2>3. CASE ~(Len(q) <= 1 /\ i = 0) /\ i = Len(q)
    BY <1>5, <1>6, <1>7, <1>8, <2>3
  <2>4. CASE ~(Len(q) <= 1 /\ i = 0) /\ i # Len(q) /\ i < Len(q)
    BY <1>5, <1>7, <1>8, <2>4
  <2>5. CASE ~(Len(q) <= 1 /\ i = 0) /\ i # Len(q) /\ ~(i < Len(q))
    BY <1>3, <1>7, <1>8, <2>5
  <2> QED
    BY <2>1, <2>2, <2>3, <2>4, <2>5
<1> QED
  BY <1>9 DEF q, list, r

LEMMA RemovePrefIs ==
    ASSUME NEW t \in Files, NEW n, NEW r, r = RemovePref(t, n)
    PROVE  r \in Files /\ OtherTags(t, r, n) /\ \A j \in 1..Len(r) : r[j].name # n
<1>1. t \in Seq(Elements) /\ Once(t) /\ Len(t) \in Nat
  BY FilesAre
<1>2. CASE \A k \in 1..Len(t) : t[k].name # n
  <2>1. r = t
    BY <1>2, NoPlace DEF RemovePref
  <2> QED
    BY <1>2, <2>1 DEF OtherTags
<1>3. ASSUME NEW k \in 1..Len(t), t[k].name = n
      PROVE  r \in Files /\ OtherTags(t, r, n) /\ \A j \in 1..Len(r) : r[j].name # n
  <2>1. r = RemoveAt(t, k)
    BY <1>3, PlaceIs DEF RemovePref
  <2>2. /\ r \in Seq(Elements) /\ Len(r) = Len(t) - 1
        /\ \A j \in 1..(Len(t) - 1) : r[j] = IF j < k THEN t[j] ELSE t[j + 1]
    BY <1>1, <2>1, RemoveAtIs
  <2> DEFINE from(j) == IF j < k THEN j ELSE j + 1
  <2>3. \A j \in 1..Len(r) : from(j) \in 1..Len(t) /\ from(j) # k /\ r[j] = t[from(j)]
    BY <1>1, <2>2
  <2>4. \A i, j \in 1..Len(r) : from(i) = from(j) => i = j
    BY <1>1, <2>2
  <2> HIDE DEF from
  <2>5. Once(r)
    <3> SUFFICES ASSUME NEW i \in 1..Len(r), NEW j \in 1..Len(r), r[i].name = r[j].name
                 PROVE  i = j
      BY DEF Once
    <3>1. t[from(i)].name = t[from(j)].name
      BY <2>3
    <3>2. from(i) = from(j)
      BY <1>1, <2>3, <3>1 DEF Once
    <3> QED
      BY <2>4, <3>2
  <2>6. \A j \in 1..Len(r) : r[j].name # n
    BY <1>1, <1>3, <2>3 DEF Once
  <2>7. OtherTags(t, r, n)
    BY <2>3 DEF OtherTags
  <2> QED
    BY <2>2, <2>5, <2>6, <2>7 DEF Files
<1> QED
  BY <1>2, <1>3

\* What SetValueComplete makes of the file t.
PrefIsSet(t, r, n, type, i, v) ==
    /\ r \in Files /\ OtherTags(t, r, n)
    /\ \A j \in 1..Len(r) : r[j].name = n =>
          \/ \E m \in 1..Len(t) : /\ t[m].name = n /\ r[j].type = t[m].type
                                  /\ r[j].values = SetValues(t[m].list, t[m].values, i, v)
          \/ /\ \A m \in 1..Len(t) : t[m].name # n
             /\ r[j].type = type /\ r[j].values = SetValues(FALSE, <<>>, i, v)

LEMMA SetPrefIs ==
    ASSUME NEW t \in Files, NEW n \in PrefNames \cup {Port}, NEW type \in PrefTypes, NEW i \in Nat,
           NEW v \in PrefValues
    PROVE  PrefIsSet(t, SetElement(AddPref(t, n, type), n, i, v), n, type, i, v)
<1> SUFFICES ASSUME NEW r, r = SetElement(AddPref(t, n, type), n, i, v)
             PROVE  PrefIsSet(t, r, n, type, i, v)
  OBVIOUS
<1>1. ASSUME NEW k \in 1..Len(t), t[k].name = n
      PROVE  PrefIsSet(t, r, n, type, i, v)
  <2>1. GivesValues(r, t, k, SetValues(t[k].list, t[k].values, i, v))
    BY <1>1, AddPrefSame, SetElementIs
  <2>2. \A j \in 1..Len(t) : t[j].name = n => j = k
    BY <1>1, FilesAre DEF Once
  <2> QED
    <3>1. /\ r \in Files /\ Len(r) = Len(t) /\ \A j \in 1..Len(t) : j # k => r[j] = t[j]
          /\ r[k].name = n /\ r[k].type = t[k].type
          /\ r[k].values = SetValues(t[k].list, t[k].values, i, v)
      BY <1>1, <2>1 DEF GivesValues
    <3>2. OtherTags(t, r, n)
      BY <3>1 DEF OtherTags
    <3>3. \A j \in 1..Len(r) : r[j].name = n => j = k
      BY <2>2, <3>1
    <3>4. ASSUME NEW j \in 1..Len(r), r[j].name = n
          PROVE  \E m \in 1..Len(t) : /\ t[m].name = n /\ r[j].type = t[m].type
                                      /\ r[j].values = SetValues(t[m].list, t[m].values, i, v)
      <4>1. j = k
        BY <3>3, <3>4
      <4> QED
        BY <1>1, <3>1, <4>1
    <3> QED
      BY <3>1, <3>2, <3>4 DEF PrefIsSet
<1>2. CASE \A k \in 1..Len(t) : t[k].name # n
  <2>1. PICK s : s = AddPref(t, n, type)
    OBVIOUS
  <2>2. /\ s \in Files /\ Len(s) = Len(t) + 1 /\ \A j \in 1..Len(t) : s[j] = t[j]
        /\ s[Len(s)] = [name |-> n, type |-> type, list |-> FALSE, values |-> <<>>]
    BY <1>2, <2>1, AddPrefIs
  <2>3. PICK k \in 1..Len(s) : k = Len(t) + 1
    BY <2>2, FilesAre
  <2>4. s[k].name = n /\ s[k].type = type /\ s[k].list = FALSE /\ s[k].values = <<>>
    BY <2>2, <2>3
  <2>5. GivesValues(r, s, k, SetValues(s[k].list, s[k].values, i, v))
    BY <2>1, <2>2, <2>4, SetElementIs
  <2>6. \A j \in 1..Len(s) : j \in 1..Len(t) \/ j = k
    BY <2>2, <2>3, FilesAre
  <2>7. r \in Files /\ Len(r) = Len(s) /\ \A j \in 1..Len(s) : j # k => r[j] = s[j]
    BY <2>5 DEF GivesValues
  <2>8. r[k].type = type /\ r[k].values = SetValues(FALSE, <<>>, i, v) /\ r[k].name = n
    BY <2>4, <2>5 DEF GivesValues
  <2>9. \A j \in 1..Len(r) : j # k => j \in 1..Len(t) /\ r[j] = t[j]
    BY <2>2, <2>6, <2>7
  <2>10. OtherTags(t, r, n)
    BY <2>8, <2>9 DEF OtherTags
  <2> QED
    BY <1>2, <2>7, <2>8, <2>9, <2>10 DEF PrefIsSet
<1> QED
  BY <1>1, <1>2

ValueIsGone(t, r, n, i) ==
    /\ r \in Files /\ OtherTags(t, r, n)
    /\ \A j \in 1..Len(r) : r[j].name = n =>
          \E m \in 1..Len(t) : /\ t[m].name = n /\ r[j].type = t[m].type
                               /\ r[j].values = IF i >= Len(t[m].values) THEN t[m].values
                                                ELSE RemoveAt(t[m].values, i + 1)

LEMMA RemoveElementIs ==
    ASSUME NEW t \in Files, NEW n, NEW i \in Nat
    PROVE  ValueIsGone(t, RemoveElement(t, n, i), n, i)
<1> SUFFICES ASSUME NEW r, r = RemoveElement(t, n, i)
             PROVE  ValueIsGone(t, r, n, i)
  OBVIOUS
<1>1. CASE \A k \in 1..Len(t) : t[k].name # n
  <2>1. r = t
    BY <1>1, NoPlace DEF RemoveElement
  <2> QED
    BY <1>1, <2>1 DEF ValueIsGone, OtherTags
<1>2. ASSUME NEW k \in 1..Len(t), t[k].name = n
      PROVE  ValueIsGone(t, r, n, i)
  <2> DEFINE q == t[k].values
  <2>1. q \in Seq(PrefValues) /\ Len(q) \in Nat
    BY ElementParts
  <2>2. r = IF i >= Len(q) THEN t
            ELSE IF Len(q) = 1 THEN RemovePref(t, n)
            ELSE WithValues(t, n, Len(q) > 2, RemoveAt(q, i + 1))
    <3>1. ElementsOf(t, n) # {} /\ PlaceOf(t, n) = k
      <4>1. ElementsOf(t, n) = {k} /\ PlaceOf(t, n) = k
        BY <1>2, PlaceIs
      <4> QED
        BY ONLY <4>1
    <3> QED
      BY <3>1, SMTT(30) DEF RemoveElement
  <2>3. \A j \in 1..Len(t) : t[j].name = n => j = k
    BY <1>2, FilesAre DEF Once
  <2> HIDE DEF q
  <2>4. CASE i >= Len(q)
    <3>1. r = t
      BY <2>2, <2>4
    <3> QED
      BY <1>2, <2>3, <2>4, <3>1 DEF ValueIsGone, OtherTags, q
  <2>5. CASE ~(i >= Len(q)) /\ Len(q) = 1
    <3>1. r = RemovePref(t, n)
      BY <2>2, <2>5
    <3> QED
      BY <3>1, RemovePrefIs DEF ValueIsGone
  <2>6. CASE ~(i >= Len(q)) /\ Len(q) # 1
    <3>1. r = WithValues(t, n, Len(q) > 2, RemoveAt(q, i + 1))
      BY <2>2, <2>6
    <3>2. i + 1 \in 1..Len(q)
      BY <2>1, <2>6
    <3>3. RemoveAt(q, i + 1) \in Seq(PrefValues) /\ (Len(q) > 2) \in BOOLEAN
      BY <2>1, <3>2, RemoveAtIs
    <3>4. GivesValues(r, t, k, RemoveAt(q, i + 1))
      BY <1>2, <3>1, <3>3, WithValuesIs
    <3> QED
      BY <1>2, <2>3, <2>6, <3>4, SMTT(30) DEF GivesValues, ValueIsGone, OtherTags, q
  <2> QED
    BY <2>4, <2>5, <2>6
<1> QED
  BY <1>1, <1>2

DefaultsAdded(t, r) ==
    /\ r \in Files
    /\ \A j \in 1..Len(r) : r[j].name = Port =>
          \/ \E m \in 1..Len(t) : /\ t[m].name = Port /\ r[j].type = t[m].type
                                  /\ r[j].values = t[m].values \o Defaults
          \/ r[j].type = "number" /\ r[j].values = Defaults

LEMMA DefaultElementIs ==
    ASSUME NEW t \in Files
    PROVE  DefaultsAdded(t, DefaultElement(t))
<1> SUFFICES ASSUME NEW r, r = DefaultElement(t)
             PROVE  DefaultsAdded(t, r)
  OBVIOUS
<1>0. Port \in PrefNames \cup {Port} /\ "number" \in PrefTypes
  BY DEF PrefTypes
<1>1. ASSUME NEW s \in Files, s = AddPref(t, Port, "number"), NEW k \in 1..Len(s), s[k].name = Port
      PROVE  GivesValues(r, s, k, s[k].values \o Defaults)
  <2> DEFINE values == s[k].values \o Defaults
             list == s[k].list \/ Len(values) > 1
  <2>1. r = WithValues(s, Port, list, values)
    BY <1>1, PlaceIs DEF DefaultElement
  <2>2. values \in Seq(PrefValues) /\ list \in BOOLEAN
    BY PrefConstants, ElementParts
  <2> HIDE DEF list, values
  <2>3. GivesValues(r, s, k, values)
    BY <1>1, <2>1, <2>2, WithValuesIs
  <2> QED
    BY <2>3 DEF values
<1>2. ASSUME NEW k \in 1..Len(t), t[k].name = Port
      PROVE  DefaultsAdded(t, r)
  <2>1. GivesValues(r, t, k, t[k].values \o Defaults)
    BY <1>1, <1>2, AddPrefSame
  <2>2. \A j \in 1..Len(t) : t[j].name = Port => j = k
    BY <1>2, FilesAre DEF Once
  <2> QED
    BY <1>2, <2>1, <2>2 DEF GivesValues, DefaultsAdded
<1>3. CASE \A k \in 1..Len(t) : t[k].name # Port
  <2>1. PICK s : s = AddPref(t, Port, "number")
    OBVIOUS
  <2>2. /\ s \in Files /\ Len(s) = Len(t) + 1 /\ \A j \in 1..Len(t) : s[j] = t[j]
        /\ s[Len(s)] = [name |-> Port, type |-> "number", list |-> FALSE, values |-> <<>>]
    BY <1>0, <1>3, <2>1, AddPrefIs
  <2>3. PICK k \in 1..Len(s) : k = Len(t) + 1
    BY <2>2, FilesAre
  <2>4. s[k].name = Port /\ s[k].type = "number" /\ s[k].values = <<>>
    BY <2>2, <2>3
  <2>5. GivesValues(r, s, k, s[k].values \o Defaults)
    BY <1>1, <2>1, <2>2, <2>4
  <2>6. s[k].values \o Defaults = Defaults
    BY <2>4, PrefConstants
  <2>7. \A j \in 1..Len(s) : j \in 1..Len(t) \/ j = k
    BY <2>2, <2>3, FilesAre
  <2> QED
    BY <1>3, <2>2, <2>4, <2>5, <2>6, <2>7 DEF GivesValues, DefaultsAdded
<1> QED
  BY <1>2, <1>3

-----------------------------------------------------------------------------
(* Entries of the map *)

IsActive(a, k, n) == k \in 1..Len(a) /\ a[k].name = n /\ ~a[k].removed

\* Only entries with the name n differ.
Others(a, b, n) ==
    /\ Len(a) <= Len(b)
    /\ \A k \in 1..Len(a) : b[k].name = a[k].name /\ (a[k].name # n => b[k] = a[k])
    /\ \A k \in 1..Len(b) : k \in 1..Len(a) \/ b[k].name = n

LEMMA EntriesAre ==
    ASSUME NEW a, NEW v, SoundEntries(a, v)
    PROVE  /\ a \in Seq(AttrRecords) /\ OneEntryEach(a) /\ Len(a) \in Nat /\ DOMAIN a = 1..Len(a)
           /\ v \in Nat /\ IsFiniteSet(ActiveIn(a)) /\ v = Cardinality(ActiveIn(a))
BY FS_CardinalityType DEF SoundEntries

LEMMA EntryParts ==
    ASSUME NEW a, NEW v, SoundEntries(a, v), NEW k \in 1..Len(a)
    PROVE  /\ a[k] \in AttrRecords /\ a[k].name \in PrefNames /\ a[k].type \in PrefTypes
           /\ a[k].removed \in BOOLEAN /\ a[k].values \in Seq(PrefValues)
<1>1. a[k] \in AttrRecords
  BY EntriesAre
<1> QED
  BY <1>1 DEF AttrRecords

LEMMA LookupIs ==
    ASSUME NEW d, NEW v, SoundEntries(d.attrs, v), NEW n, NEW k, IsActive(d.attrs, k, n)
    PROVE  GetAttrInfoByName(d, n) = k
<1> DEFINE found == {j \in DOMAIN d.attrs : d.attrs[j].name = n /\ ~d.attrs[j].removed}
<1>1. found = {k} /\ k \in Nat
  BY EntriesAre DEF OneEntryEach, IsActive
<1>2. GetAttrInfoByName(d, n) = Min(found)
  <2>1. found # {}
    BY <1>1
  <2> QED
    BY <2>1 DEF GetAttrInfoByName
<1> HIDE DEF found
<1> QED
  BY <1>1, <1>2 DEF Min

LEMMA LookupNone ==
    ASSUME NEW d, NEW v, SoundEntries(d.attrs, v), NEW n, \A k : ~IsActive(d.attrs, k, n)
    PROVE  GetAttrInfoByName(d, n) = 0
<1>1. {j \in DOMAIN d.attrs : d.attrs[j].name = n /\ ~d.attrs[j].removed} = {}
  BY EntriesAre DEF IsActive
<1> QED
  BY <1>1 DEF GetAttrInfoByName

LEMMA LookupSome ==
    ASSUME NEW d, NEW v, SoundEntries(d.attrs, v), NEW n, GetAttrInfoByName(d, n) # 0
    PROVE  IsActive(d.attrs, GetAttrInfoByName(d, n), n)
<1>1. PICK k : IsActive(d.attrs, k, n)
  BY LookupNone
<1> QED
  BY <1>1, LookupIs

\* The entry k of a becomes x, and a becomes b.
EntryBecomes(a, b, v, k, x) ==
    /\ SoundEntries(b, v) /\ Others(a, b, a[k].name) /\ Len(b) = Len(a) /\ b[k] = x

\* The count that goes with it.
CountedAs(a, v, k, x, w) ==
    \/ (x.removed <=> a[k].removed) /\ w = v
    \/ x.removed /\ ~a[k].removed /\ w = v - 1
    \/ ~x.removed /\ a[k].removed /\ w = v + 1 /\ \A j : ~IsActive(a, j, x.name)

LEMMA EntryPut ==
    ASSUME NEW a, NEW v, SoundEntries(a, v), NEW k \in 1..Len(a), NEW x \in AttrRecords,
           x.name = a[k].name, x.type = a[k].type,
           NEW w, CountedAs(a, v, k, x, w)
    PROVE  EntryBecomes(a, [a EXCEPT ![k] = x], w, k, x)
<1> SUFFICES ASSUME NEW b, b = [a EXCEPT ![k] = x]
             PROVE  EntryBecomes(a, b, w, k, x)
  OBVIOUS
<1>0. \/ (x.removed <=> a[k].removed) /\ w = v
      \/ x.removed /\ ~a[k].removed /\ w = v - 1
      \/ ~x.removed /\ a[k].removed /\ w = v + 1 /\ \A j : ~IsActive(a, j, x.name)
  BY DEF CountedAs
<1>1. /\ a \in Seq(AttrRecords) /\ OneEntryEach(a) /\ Len(a) \in Nat
      /\ v \in Nat /\ IsFiniteSet(ActiveIn(a)) /\ v = Cardinality(ActiveIn(a))
  BY EntriesAre
<1>2. /\ b \in Seq(AttrRecords) /\ Len(b) = Len(a) /\ b[k] = x
      /\ \A j \in 1..Len(a) : j # k => b[j] = a[j]
  BY <1>1
<1>3. x.removed \in BOOLEAN /\ a[k].removed \in BOOLEAN
  <2>1. a[k] \in AttrRecords
    BY <1>1
  <2> QED
    BY <2>1 DEF AttrRecords
<1>4. \A j \in 1..Len(a) : b[j].name = a[j].name /\ b[j].type = a[j].type
  BY <1>2
<1>5. OneEntryEach(b)
  <2> SUFFICES ASSUME NEW i \in 1..Len(b), NEW j \in 1..Len(b), b[i].name = b[j].name,
                      b[i].type = b[j].type \/ (~b[i].removed /\ ~b[j].removed)
               PROVE  i = j
    BY DEF OneEntryEach
  <2>1. CASE b[i].type = b[j].type
    BY <1>1, <1>2, <1>4, <2>1 DEF OneEntryEach
  <2>2. CASE ~b[i].removed /\ ~b[j].removed
    <3>1. CASE i # k /\ j # k
      BY <1>1, <1>2, <2>2, <3>1 DEF OneEntryEach
    <3>2. CASE i = k /\ j # k
      <4>1. ~x.removed /\ IsActive(a, j, x.name)
        BY <1>2, <1>4, <2>2, <3>2 DEF IsActive
      <4>2. ~a[k].removed
        BY <1>0, <4>1
      <4> QED
        BY <1>1, <4>1, <4>2 DEF OneEntryEach, IsActive
    <3>3. CASE i # k /\ j = k
      <4>1. ~x.removed /\ IsActive(a, i, x.name)
        BY <1>2, <1>4, <2>2, <3>3 DEF IsActive
      <4>2. ~a[k].removed
        BY <1>0, <4>1
      <4> QED
        BY <1>1, <4>1, <4>2 DEF OneEntryEach, IsActive
    <3> QED
      BY <3>1, <3>2, <3>3
  <2> QED
    BY <2>1, <2>2
<1>6. IsFiniteSet(ActiveIn(b)) /\ w = Cardinality(ActiveIn(b))
  <2>1. CASE (x.removed <=> a[k].removed) /\ w = v
    <3>1. ActiveIn(b) = ActiveIn(a)
      BY <1>2, <2>1 DEF ActiveIn
    <3> QED
      BY <1>1, <2>1, <3>1
  <2>2. CASE x.removed /\ ~a[k].removed /\ w = v - 1
    <3>1. ActiveIn(b) = ActiveIn(a) \ {k} /\ k \in ActiveIn(a)
      BY <1>2, <2>2 DEF ActiveIn
    <3> QED
      <4>1. /\ IsFiniteSet(ActiveIn(a) \ {k})
            /\ Cardinality(ActiveIn(a) \ {k}) = Cardinality(ActiveIn(a)) - 1
        BY <1>1, <3>1, FS_RemoveElement
      <4> QED
        BY <1>1, <2>2, <3>1, <4>1
  <2>3. CASE ~x.removed /\ a[k].removed /\ w = v + 1
    <3>1. ActiveIn(b) = ActiveIn(a) \cup {k} /\ k \notin ActiveIn(a)
      BY <1>2, <2>3 DEF ActiveIn
    <3>2. /\ IsFiniteSet(ActiveIn(a) \cup {k})
          /\ Cardinality(ActiveIn(a) \cup {k}) = Cardinality(ActiveIn(a)) + 1
      BY <1>1, <3>1, FS_AddElement
    <3> QED
      BY <1>1, <2>3, <3>1, <3>2
  <2> QED
    BY <1>0, <2>1, <2>2, <2>3
<1>7. Others(a, b, a[k].name)
  BY <1>1, <1>2, <1>4 DEF Others
<1> QED
  BY <1>2, <1>5, <1>6, <1>7 DEF EntryBecomes, SoundEntries

LEMMA EntryAppended ==
    ASSUME NEW a, NEW v, SoundEntries(a, v), NEW n \in PrefNames, NEW type \in PrefTypes,
           \A k \in 1..Len(a) : a[k].name = n => a[k].removed /\ a[k].type # type
    PROVE  /\ SoundEntries(Append(a, NewEntry(n, type)), v + 1)
           /\ Others(a, Append(a, NewEntry(n, type)), n)
           /\ IsActive(Append(a, NewEntry(n, type)), Len(a) + 1, n)
           /\ Append(a, NewEntry(n, type))[Len(a) + 1] = NewEntry(n, type)
<1> SUFFICES ASSUME NEW b, b = Append(a, NewEntry(n, type))
             PROVE  /\ SoundEntries(b, v + 1) /\ Others(a, b, n) /\ IsActive(b, Len(a) + 1, n)
                    /\ b[Len(a) + 1] = NewEntry(n, type)
  OBVIOUS
<1> DEFINE x == NewEntry(n, type)
<1>1. /\ a \in Seq(AttrRecords) /\ OneEntryEach(a) /\ Len(a) \in Nat
      /\ v \in Nat /\ IsFiniteSet(ActiveIn(a)) /\ v = Cardinality(ActiveIn(a))
  BY EntriesAre
<1>2. x \in AttrRecords /\ x.name = n /\ x.type = type /\ x.removed = FALSE
  BY DEF NewEntry, AttrRecords
<1> HIDE DEF x
<1>3. /\ b \in Seq(AttrRecords) /\ Len(b) = Len(a) + 1 /\ b[Len(a) + 1] = x
      /\ \A j \in 1..Len(a) : b[j] = a[j]
  BY <1>1, <1>2 DEF x
<1>4. \A j \in 1..Len(b) : j \in 1..Len(a) \/ j = Len(a) + 1
  BY <1>1, <1>3
<1>5. OneEntryEach(b)
  <2> SUFFICES ASSUME NEW i \in 1..Len(b), NEW j \in 1..Len(b), b[i].name = b[j].name,
                      b[i].type = b[j].type \/ (~b[i].removed /\ ~b[j].removed)
               PROVE  i = j
    BY DEF OneEntryEach
  <2>1. CASE i \in 1..Len(a) /\ j \in 1..Len(a)
    BY <1>1, <1>3, <2>1 DEF OneEntryEach
  <2>2. CASE i \in 1..Len(a) /\ j = Len(a) + 1
    BY <1>2, <1>3, <2>2
  <2>3. CASE i = Len(a) + 1 /\ j \in 1..Len(a)
    BY <1>2, <1>3, <2>3
  <2> QED
    BY <1>4, <2>1, <2>2, <2>3
<1>6. IsFiniteSet(ActiveIn(b)) /\ v + 1 = Cardinality(ActiveIn(b))
  <2>1. PICK k \in 1..Len(b) : k = Len(a) + 1
    BY <1>1, <1>3
  <2>2. k \notin 1..Len(a) /\ 1..Len(b) = 1..Len(a) \cup {k}
    BY <1>1, <1>3, <2>1
  <2>3. ActiveIn(b) = ActiveIn(a) \cup {k} /\ k \notin ActiveIn(a)
    BY <1>2, <1>3, <2>1, <2>2 DEF ActiveIn
  <2> QED
    BY <1>1, <2>3, FS_AddElement
<1>7. Others(a, b, n)
  BY <1>1, <1>2, <1>3, <1>4 DEF Others
<1>8. IsActive(b, Len(a) + 1, n)
  <2>1. Len(a) + 1 \in 1..Len(b)
    BY <1>1, <1>3
  <2> QED
    BY <1>2, <1>3, <2>1 DEF IsActive
<1> QED
  BY <1>3, <1>5, <1>6, <1>7, <1>8 DEF SoundEntries, x

-----------------------------------------------------------------------------
(* Attributes and their elements *)

Maps    == [attrs : Seq(AttrRecords), valid : Int, tree : Seq(Elements)]
Rereads == [attrs : Seq(AttrRecords), valid : Int, tree : Seq(Elements), dangling : BOOLEAN]

AttributeAdded(d, r, n, type) ==
    /\ SoundEntries(r.attrs, r.valid) /\ r.tree = d.tree /\ Others(d.attrs, r.attrs, n)
    /\ \E k : IsActive(r.attrs, k, n) /\ r.attrs[k].type = type
    /\ (\E k : IsActive(d.attrs, k, n)) => r = d
    /\ d \in Maps => r \in Maps
    /\ d \in Rereads => r \in Rereads /\ r.dangling = d.dangling

LEMMA OthersSame ==
    ASSUME NEW a, NEW n
    PROVE  Others(a, a, n)
BY DEF Others

FieldsAre(d, r, a, v) ==
    /\ r.attrs = a /\ r.valid = v /\ r.tree = d.tree
    /\ d \in Maps => r \in Maps
    /\ d \in Rereads => r \in Rereads /\ r.dangling = d.dangling

WithEntries(d, a, v) == [d EXCEPT !.attrs = a, !.valid = v]

LEMMA MapExcept ==
    ASSUME NEW d, d \in Maps \cup Rereads, NEW a, a \in Seq(AttrRecords), NEW v, v \in Int
    PROVE  FieldsAre(d, WithEntries(d, a, v), a, v)
<1> SUFFICES ASSUME NEW r, r = [d EXCEPT !.attrs = a, !.valid = v]
             PROVE  FieldsAre(d, r, a, v)
  BY DEF WithEntries
<1>1. CASE d \in Maps /\ d \notin Rereads
  BY <1>1 DEF Maps, FieldsAre
<1>2. CASE d \in Rereads /\ d \notin Maps
  BY <1>2 DEF Rereads, FieldsAre
<1>3. CASE d \in Rereads /\ d \in Maps
  BY <1>3 DEF Maps, Rereads, FieldsAre
<1> QED
  BY <1>1, <1>2, <1>3

LEMMA AddAttributeIs ==
    ASSUME NEW d \in Maps \cup Rereads, SoundEntries(d.attrs, d.valid),
           NEW n \in PrefNames, NEW type \in PrefTypes,
           \A k : IsActive(d.attrs, k, n) => d.attrs[k].type = type
    PROVE  AttributeAdded(d, AddAttribute(d, n, type), n, type)
<1> SUFFICES ASSUME NEW r, r = AddAttribute(d, n, type)
             PROVE  AttributeAdded(d, r, n, type)
  OBVIOUS
<1> DEFINE same == Matching(d, n, type)
           a == d.attrs
<1>1. /\ a \in Seq(AttrRecords) /\ OneEntryEach(a) /\ Len(a) \in Nat /\ DOMAIN a = 1..Len(a)
      /\ d.valid \in Nat
  BY EntriesAre
<1>2. \A m : m \in same <=> /\ m \in 1..Len(a) /\ a[m].name = n
                            /\ ~a[m].removed \/ a[m].type = type
  BY <1>1 DEF Matching
<1>3. \A m \in same : same = {m}
  BY <1>1, <1>2 DEF OneEntryEach, IsActive
<1>4. \A m \in same : Min(same) = m
  BY <1>2, <1>3 DEF Min
<1>5. ASSUME NEW k, IsActive(a, k, n) PROVE AttributeAdded(d, r, n, type)
  <2>1. k \in same
    BY <1>2, <1>5 DEF IsActive
  <2>2. same # {} /\ Min(same) = k /\ ~a[k].removed
    BY <1>4, <1>5, <2>1 DEF IsActive
  <2>3. r = d
    BY <2>2 DEF AddAttribute
  <2> QED
    BY <1>5, <2>3, OthersSame DEF AttributeAdded
<1>6. CASE (\A k : ~IsActive(a, k, n)) /\ same = {}
  <2> DEFINE b == Append(a, NewEntry(n, type))
  <2>1. r = WithEntries(d, b, d.valid + 1)
    BY <1>6 DEF AddAttribute, WithEntries
  <2>2. \A k \in 1..Len(a) : a[k].name = n => a[k].removed /\ a[k].type # type
    BY <1>2, <1>6 DEF IsActive
  <2>3. /\ SoundEntries(b, d.valid + 1) /\ Others(a, b, n) /\ IsActive(b, Len(a) + 1, n)
        /\ b[Len(a) + 1] = NewEntry(n, type)
    BY <2>2, EntryAppended
  <2>4. b[Len(a) + 1].type = type
    BY <2>3 DEF NewEntry
  <2> HIDE DEF b
  <2>5. b \in Seq(AttrRecords) /\ d.valid + 1 \in Int
    BY <1>1, <2>3, EntriesAre
  <2>6. FieldsAre(d, r, b, d.valid + 1)
    BY <2>1, <2>5, MapExcept
  <2> QED
    BY <1>6, <2>3, <2>4, <2>6 DEF AttributeAdded, FieldsAre
<1>7. CASE (\A k : ~IsActive(a, k, n)) /\ same # {}
  <2>1. PICK m : m \in same
    BY <1>7
  <2>2. m \in 1..Len(a) /\ a[m].name = n /\ a[m].removed /\ a[m].type = type /\ Min(same) = m
    BY <1>2, <1>4, <1>7, <2>1 DEF IsActive
  <2> DEFINE x == [a[m] EXCEPT !.removed = FALSE]
             b == [a EXCEPT ![m] = x]
  <2>3. r = WithEntries(d, b, d.valid + 1)
    BY <1>7, <2>2 DEF AddAttribute, WithEntries
  <2>4. x \in AttrRecords /\ x.name = n /\ x.type = type /\ x.removed = FALSE
    BY <2>2, EntryParts DEF AttrRecords
  <2> HIDE DEF x
  <2>6. CountedAs(a, d.valid, m, x, d.valid + 1)
    BY <1>7, <2>2, <2>4 DEF CountedAs
  <2>7. EntryBecomes(a, b, d.valid + 1, m, x)
    BY <2>2, <2>4, <2>6, EntryPut
  <2>8. SoundEntries(b, d.valid + 1) /\ Others(a, b, n) /\ Len(b) = Len(a) /\ b[m] = x
    BY <2>2, <2>7 DEF EntryBecomes
  <2> HIDE DEF b
  <2>9. b \in Seq(AttrRecords) /\ d.valid + 1 \in Int
    BY <1>1, <2>8, EntriesAre
  <2>10. FieldsAre(d, r, b, d.valid + 1)
    BY <2>3, <2>9, MapExcept
  <2>11. IsActive(b, m, n) /\ b[m].type = type
    BY <2>2, <2>4, <2>8 DEF IsActive
  <2> QED
    BY <1>7, <2>8, <2>10, <2>11 DEF AttributeAdded, FieldsAre
<1> QED
  BY <1>5, <1>6, <1>7

MapIs(r, a, v, t) == r \in Maps /\ r.attrs = a /\ r.valid = v /\ r.tree = t

WithMap(d, a, v, t) == [d EXCEPT !.attrs = a, !.valid = v, !.tree = t]

LEMMA MapPut ==
    ASSUME NEW d \in Maps, NEW a, a \in Seq(AttrRecords), NEW v, v \in Int, NEW t, t \in Seq(Elements)
    PROVE  MapIs(WithMap(d, a, v, t), a, v, t)
BY DEF Maps, MapIs, WithMap

LEMMA TagsInNames ==
    ASSUME NEW t \in ModuleFiles, NEW r \in Files, NEW n \in PrefNames, OtherTags(t, r, n)
    PROVE  r \in ModuleFiles
<1>1. ASSUME NEW j \in 1..Len(r) PROVE r[j].name \in PrefNames
  BY DEF OtherTags, ModuleFiles
<1> QED
  BY <1>1 DEF ModuleFiles

\* The attribute n is gone, with its element.
AttributeGone(d, r, n) ==
    /\ r \in Maps /\ SoundMap(r) /\ Len(r.attrs) = Len(d.attrs)
    /\ Others(d.attrs, r.attrs, n) /\ OtherTags(d.tree, r.tree, n)
    /\ \A k : ~IsActive(r.attrs, k, n)
    /\ \A j \in 1..Len(r.tree) : r.tree[j].name # n

LEMMA RemoveInstanceAttributeIs ==
    ASSUME NEW d \in Maps, SoundMap(d), NEW n, NEW k, IsActive(d.attrs, k, n)
    PROVE  AttributeGone(d, RemoveInstanceAttribute(d, k), n)
<1> SUFFICES ASSUME NEW r, r = RemoveInstanceAttribute(d, k)
             PROVE  AttributeGone(d, r, n)
  OBVIOUS
<1> DEFINE a == d.attrs
           x == RemoveAttribute([a[k] EXCEPT !.values = <<>>])
           b == [a EXCEPT ![k] = x]
           u == RemovePref(d.tree, n)
<1>1. /\ SoundEntries(a, d.valid) /\ k \in 1..Len(a) /\ a[k].name = n /\ ~a[k].removed
      /\ d.tree \in ModuleFiles /\ d.tree \in Files
  BY DEF SoundMap, IsActive, ModuleFiles
<1>2. a \in Seq(AttrRecords) /\ d.valid \in Nat /\ OneEntryEach(a) /\ Len(a) \in Nat
  BY <1>1, EntriesAre
<1>3. r = WithMap(d, b, d.valid - 1, u)
  BY <1>1 DEF RemoveInstanceAttribute, WithMap
<1>4. x \in AttrRecords /\ x.name = n /\ x.type = a[k].type /\ x.removed = TRUE
  <2>1. a[k] \in AttrRecords /\ <<>> \in Seq(PrefValues)
    BY <1>1, EntryParts
  <2> HIDE DEF a
  <2> QED
    BY <1>1, <2>1 DEF AttrRecords, RemoveAttribute
<1> HIDE DEF x
<1>6. CountedAs(a, d.valid, k, x, d.valid - 1)
  BY <1>1, <1>4 DEF CountedAs
<1>7. EntryBecomes(a, b, d.valid - 1, k, x)
  BY <1>1, <1>4, <1>6, EntryPut
<1>8. SoundEntries(b, d.valid - 1) /\ Others(a, b, n) /\ Len(b) = Len(a) /\ b[k] = x
  BY <1>1, <1>7 DEF EntryBecomes
<1>9. u \in Files /\ OtherTags(d.tree, u, n) /\ \A j \in 1..Len(u) : u[j].name # n
  BY <1>1, RemovePrefIs
<1>10. u \in ModuleFiles
  <2>1. n \in PrefNames
    BY <1>1, EntryParts
  <2> QED
    BY <1>1, <1>9, <2>1, TagsInNames
<1>11. \A j : ~IsActive(b, j, n)
  <2> SUFFICES ASSUME NEW j, IsActive(b, j, n) PROVE FALSE
    OBVIOUS
  <2>1. j # k
    BY <1>4, <1>8 DEF IsActive
  <2>2. j \in 1..Len(a) /\ b[j] = a[j]
    BY <1>2, <1>8, <2>1 DEF IsActive
  <2> QED
    BY <1>1, <1>2, <2>1, <2>2 DEF IsActive, OneEntryEach
<1> HIDE DEF b, u
<1>12. MapIs(r, b, d.valid - 1, u)
  <2>1. b \in Seq(AttrRecords) /\ d.valid - 1 \in Int /\ u \in Seq(Elements)
    BY <1>2, <1>8, <1>9, EntriesAre, FilesAre
  <2> QED
    BY <1>3, <2>1, MapPut
<1> QED
  BY <1>8, <1>9, <1>10, <1>11, <1>12 DEF AttributeGone, SoundMap, MapIs

-----------------------------------------------------------------------------
(* What is set and removed goes to the file. *)

AttributeSet(d, r, k, n, i, v) ==
    /\ r \in Maps /\ SoundMap(r) /\ Len(r.attrs) = Len(d.attrs) /\ Others(d.attrs, r.attrs, n)
    /\ IsActive(r.attrs, k, n) /\ r.attrs[k].type = d.attrs[k].type
    /\ r.attrs[k].values = PutValue(d.attrs[k].values, i, v)
    /\ PrefIsSet(d.tree, r.tree, n, d.attrs[k].type, i, v)

LEMMA SetAttributeIs ==
    ASSUME NEW d \in Maps, SoundMap(d), NEW n, NEW k, IsActive(d.attrs, k, n), NEW i \in Nat,
           i <= Len(d.attrs[k].values), NEW v \in PrefValues
    PROVE  AttributeSet(d, SetAttribute(d, k, i, v), k, n, i, v)
<1> SUFFICES ASSUME NEW r, r = SetAttribute(d, k, i, v)
             PROVE  AttributeSet(d, r, k, n, i, v)
  OBVIOUS
<1> DEFINE a == d.attrs
           w == PutValue(a[k].values, i, v)
           x == [a[k] EXCEPT !.values = w]
           b == [a EXCEPT ![k] = x]
           u == SetElement(AddPref(d.tree, n, a[k].type), n, i, v)
<1>1. /\ SoundEntries(a, d.valid) /\ k \in 1..Len(a) /\ a[k].name = n /\ ~a[k].removed
      /\ d.tree \in ModuleFiles /\ d.tree \in Files /\ i <= Len(a[k].values)
  BY DEF SoundMap, IsActive, ModuleFiles
<1>2. /\ a[k] \in AttrRecords /\ n \in PrefNames /\ a[k].type \in PrefTypes
      /\ a[k].removed \in BOOLEAN /\ a[k].values \in Seq(PrefValues)
  BY <1>1, EntryParts
<1>3. r = WithMap(d, b, d.valid, u)
  <2>1. r = [d EXCEPT !.attrs = b, !.tree = u]
    BY <1>1 DEF SetAttribute
  <2>2. d = [attrs |-> a, valid |-> d.valid, tree |-> d.tree]
    BY DEF Maps
  <2> HIDE DEF a, b, u
  <2> QED
    BY <2>1, <2>2 DEF WithMap
<1>4. w \in Seq(PrefValues)
  <2> HIDE DEF a, w
  <2>1. IsPut(PutValue(a[k].values, i, v), PrefValues, a[k].values, i, v)
    BY <1>1, <1>2, PutValueIs
  <2> QED
    BY <2>1 DEF IsPut, w
<1> HIDE DEF w
<1>5. /\ x \in AttrRecords /\ x.name = n /\ x.type = a[k].type /\ x.values = w
      /\ (x.removed <=> a[k].removed)
  <2> HIDE DEF a
  <2> QED
    BY <1>1, <1>2, <1>4 DEF AttrRecords
<1> HIDE DEF x
<1>6. CountedAs(a, d.valid, k, x, d.valid)
  BY <1>5 DEF CountedAs
<1>7. EntryBecomes(a, b, d.valid, k, x)
  BY <1>1, <1>5, <1>6, EntryPut
<1>8. SoundEntries(b, d.valid) /\ Others(a, b, n) /\ Len(b) = Len(a) /\ b[k] = x
  BY <1>1, <1>7 DEF EntryBecomes
<1>9. PrefIsSet(d.tree, u, n, a[k].type, i, v)
  BY <1>1, <1>2, SetPrefIs
<1> HIDE DEF b, u
<1>10. u \in ModuleFiles /\ u \in Files
  <2>1. u \in Files /\ OtherTags(d.tree, u, n)
    BY <1>9 DEF PrefIsSet
  <2> QED
    BY <1>1, <1>2, <2>1, TagsInNames
<1>11. MapIs(r, b, d.valid, u)
  <2>1. b \in Seq(AttrRecords) /\ d.valid \in Int /\ u \in Seq(Elements)
    BY <1>8, <1>10, EntriesAre, FilesAre
  <2> QED
    BY <1>3, <2>1, MapPut
<1>12. IsActive(b, k, n)
  BY <1>1, <1>5, <1>8 DEF IsActive
<1> QED
  BY <1>5, <1>8, <1>9, <1>10, <1>11, <1>12 DEF AttributeSet, SoundMap, MapIs, w

LEMMA FollowKept ==
    ASSUME NEW a, NEW b, NEW t, NEW u, NEW n, NEW U, NEW W, U \subseteq W,
           AllFollow(a, t, U), Others(a, b, n), OtherTags(t, u, n), Len(a) \in Nat, Len(b) \in Nat,
           \A j \in 1..Len(u) : u[j].name = n => \E k \in 1..Len(b) : Agrees(b[k], u[j], W)
    PROVE  AllFollow(b, u, W)
<1> SUFFICES ASSUME NEW j \in 1..Len(u), u[j].name # n
             PROVE  \E k \in 1..Len(b) : Agrees(b[k], u[j], W)
  BY DEF AllFollow
<1>1. PICK i \in 1..Len(t) : t[i] = u[j]
  BY DEF OtherTags
<1>2. PICK k \in 1..Len(a) : Agrees(a[k], t[i], U)
  BY DEF AllFollow
<1>3. a[k].name # n /\ b[k] = a[k] /\ k \in 1..Len(b)
  BY <1>1, <1>2 DEF Agrees, Others
<1>4. Agrees(b[k], u[j], W)
  BY <1>1, <1>2, <1>3 DEF Agrees, Starts
<1> QED
  BY <1>3, <1>4

\* The entry that is followed is the one of the name.
LEMMA FollowedIs ==
    ASSUME NEW d, SoundMap(d), NEW U, AllFollow(d.attrs, d.tree, U), NEW n, NEW k,
           IsActive(d.attrs, k, n), NEW m \in 1..Len(d.tree), d.tree[m].name = n
    PROVE  Agrees(d.attrs[k], d.tree[m], U)
<1>1. PICK j \in 1..Len(d.attrs) : Agrees(d.attrs[j], d.tree[m], U)
  BY DEF AllFollow
<1>2. j = k
  BY <1>1, EntriesAre DEF SoundMap, OneEntryEach, IsActive, Agrees
<1> QED
  BY <1>1, <1>2

LEMMA SetFollows ==
    ASSUME NEW d \in Maps, SoundMap(d), NEW r, NEW k, NEW n, NEW i \in Nat, NEW v \in PrefValues,
           IsActive(d.attrs, k, n), i <= Len(d.attrs[k].values), AttributeSet(d, r, k, n, i, v),
           NEW U, NEW W, U \subseteq W, i = 0 /\ Short(d.tree, n) => n \in W,
           AllFollow(d.attrs, d.tree, U)
    PROVE  AllFollow(r.attrs, r.tree, W)
<1> DEFINE a == d.attrs
           w == a[k].values
           b == r.attrs
           t == d.tree
           u == r.tree
<1>1. /\ b[k].values = PutValue(w, i, v) /\ b[k].type = a[k].type /\ IsActive(b, k, n)
      /\ PrefIsSet(t, u, n, a[k].type, i, v)
  BY DEF AttributeSet
<1>2. /\ SoundEntries(a, d.valid) /\ SoundEntries(b, r.valid) /\ k \in 1..Len(a) /\ t \in Files
      /\ i <= Len(w)
  BY DEF AttributeSet, SoundMap, IsActive, ModuleFiles
<1>3. w \in Seq(PrefValues) /\ Len(w) \in Nat /\ DOMAIN t = 1..Len(t)
  BY <1>2, EntryParts, FilesAre
<1> HIDE DEF w
<1>4. ASSUME NEW q \in Seq(PrefValues), NEW list \in BOOLEAN, NEW free \in BOOLEAN,
             Starts(q, w, free), free => n \in W, i = 0 /\ list /\ Len(q) <= 1 => n \in W,
             NEW x, x = SetValues(list, q, i, v)
      PROVE  Starts(x, PutValue(w, i, v), n \in W)
  <2>1. Starts(x, PutValue(w, i, v), free \/ (i = 0 /\ list /\ Len(q) <= 1))
    BY <1>2, <1>3, <1>4, SetStarts, SMTT(30)
  <2> QED
    BY <1>4, <2>1, Zenon DEF Starts
<1>5. ASSUME NEW j \in 1..Len(u), u[j].name = n
      PROVE  Agrees(b[k], u[j], W)
  <2>1. CASE \E m \in 1..Len(t) : /\ t[m].name = n /\ u[j].type = t[m].type
                                  /\ u[j].values = SetValues(t[m].list, t[m].values, i, v)
    <3>1. PICK m \in 1..Len(t) : /\ t[m].name = n /\ u[j].type = t[m].type
                                 /\ u[j].values = SetValues(t[m].list, t[m].values, i, v)
      BY <2>1
    <3>2. Agrees(a[k], t[m], U)
      BY <3>1, FollowedIs
    <3>3. t[m].values \in Seq(PrefValues) /\ t[m].list \in BOOLEAN
      BY <1>2, ElementParts
    <3>4. a[k].type = t[m].type /\ Starts(t[m].values, w, n \in U)
      BY <3>1, <3>2 DEF Agrees, w
    <3>5. t[m].list /\ Len(t[m].values) <= 1 => Short(t, n)
      BY <1>3, <3>1 DEF Short, ElementsOf
    <3>6. (n \in U) \in BOOLEAN
      OBVIOUS
    <3>7. i = 0 /\ t[m].list /\ Len(t[m].values) <= 1 => n \in W
      BY <3>5
    <3>8. Starts(u[j].values, PutValue(w, i, v), n \in W)
      BY <1>4, <3>1, <3>3, <3>4, <3>6, <3>7
    <3> QED
      BY <1>1, <1>5, <3>1, <3>4, <3>8 DEF Agrees, IsActive
  <2>2. CASE u[j].type = a[k].type /\ u[j].values = SetValues(FALSE, <<>>, i, v)
    <3>1. <<>> \in Seq(PrefValues) /\ FALSE \in BOOLEAN /\ Starts(<<>>, w, FALSE)
      BY <1>3 DEF Starts
    <3>2. Starts(u[j].values, PutValue(w, i, v), n \in W)
      BY <1>4, <2>2, <3>1
    <3> QED
      BY <1>1, <1>5, <2>2, <3>2 DEF Agrees, IsActive
  <2> QED
    BY <1>1, <1>5, <2>1, <2>2 DEF PrefIsSet
<1>6. Others(a, b, n) /\ OtherTags(t, u, n) /\ Len(a) \in Nat /\ Len(b) \in Nat
  BY <1>1, <1>2, EntriesAre DEF AttributeSet, PrefIsSet
<1>7. k \in 1..Len(b)
  BY <1>1 DEF IsActive
<1> QED
  BY <1>5, <1>6, <1>7, FollowKept

LEMMA GoneFollows ==
    ASSUME NEW d, SoundMap(d), NEW r, NEW n, AttributeGone(d, r, n), NEW U,
           AllFollow(d.attrs, d.tree, U)
    PROVE  AllFollow(r.attrs, r.tree, U)
<1>1. Len(d.attrs) \in Nat /\ Len(r.attrs) \in Nat
  BY EntriesAre DEF AttributeGone, SoundMap
<1> QED
  BY <1>1, FollowKept DEF AttributeGone

LessValue(d, k, n, i) == [d EXCEPT !.attrs[k].values = RemoveAt(@, i + 1),
                                   !.tree = RemoveElement(@, n, i)]

ValueLess(d, r, k, n, i) ==
    /\ r \in Maps /\ SoundMap(r) /\ Len(r.attrs) = Len(d.attrs) /\ Others(d.attrs, r.attrs, n)
    /\ IsActive(r.attrs, k, n) /\ r.attrs[k].type = d.attrs[k].type
    /\ r.attrs[k].values = RemoveAt(d.attrs[k].values, i + 1)
    /\ ValueIsGone(d.tree, r.tree, n, i)

LEMMA LessValueIs ==
    ASSUME NEW d \in Maps, SoundMap(d), NEW n, NEW k, IsActive(d.attrs, k, n), NEW i \in Nat,
           i < Len(d.attrs[k].values)
    PROVE  ValueLess(d, LessValue(d, k, n, i), k, n, i)
<1> SUFFICES ASSUME NEW r, r = LessValue(d, k, n, i)
             PROVE  ValueLess(d, r, k, n, i)
  OBVIOUS
<1> DEFINE a == d.attrs
           w == RemoveAt(a[k].values, i + 1)
           x == [a[k] EXCEPT !.values = w]
           b == [a EXCEPT ![k] = x]
           u == RemoveElement(d.tree, n, i)
<1>1. /\ SoundEntries(a, d.valid) /\ k \in 1..Len(a) /\ a[k].name = n /\ ~a[k].removed
      /\ d.tree \in ModuleFiles /\ d.tree \in Files /\ i < Len(a[k].values)
  BY DEF SoundMap, IsActive, ModuleFiles
<1>2. /\ a[k] \in AttrRecords /\ n \in PrefNames /\ a[k].removed \in BOOLEAN
      /\ a[k].values \in Seq(PrefValues)
  BY <1>1, EntryParts
<1>3. r = WithMap(d, b, d.valid, u)
  <2>1. r = [d EXCEPT !.attrs = b, !.tree = u]
    BY <1>1 DEF LessValue
  <2>2. d = [attrs |-> a, valid |-> d.valid, tree |-> d.tree]
    BY DEF Maps
  <2> HIDE DEF a, b, u
  <2> QED
    BY <2>1, <2>2 DEF WithMap
<1>4. w \in Seq(PrefValues)
  <2> HIDE DEF a, w
  <2>1. i + 1 \in 1..Len(a[k].values)
    BY <1>1, <1>2
  <2> QED
    BY <1>2, <2>1, RemoveAtIs DEF w
<1> HIDE DEF w
<1>5. /\ x \in AttrRecords /\ x.name = n /\ x.type = a[k].type /\ x.values = w
      /\ (x.removed <=> a[k].removed)
  <2> HIDE DEF a
  <2> QED
    BY <1>1, <1>2, <1>4 DEF AttrRecords
<1> HIDE DEF x
<1>6. CountedAs(a, d.valid, k, x, d.valid)
  BY <1>5 DEF CountedAs
<1>7. EntryBecomes(a, b, d.valid, k, x)
  BY <1>1, <1>5, <1>6, EntryPut
<1>8. SoundEntries(b, d.valid) /\ Others(a, b, n) /\ Len(b) = Len(a) /\ b[k] = x
  BY <1>1, <1>7 DEF EntryBecomes
<1>9. ValueIsGone(d.tree, u, n, i)
  BY <1>1, RemoveElementIs
<1> HIDE DEF b, u
<1>10. u \in ModuleFiles /\ u \in Files
  <2>1. u \in Files /\ OtherTags(d.tree, u, n)
    BY <1>9 DEF ValueIsGone
  <2> QED
    BY <1>1, <1>2, <2>1, TagsInNames
<1>11. MapIs(r, b, d.valid, u)
  <2>1. b \in Seq(AttrRecords) /\ d.valid \in Int /\ u \in Seq(Elements)
    BY <1>8, <1>10, EntriesAre, FilesAre
  <2> QED
    BY <1>3, <2>1, MapPut
<1>12. IsActive(b, k, n)
  BY <1>1, <1>5, <1>8 DEF IsActive
<1> QED
  BY <1>5, <1>8, <1>9, <1>10, <1>11, <1>12 DEF ValueLess, SoundMap, MapIs, w

LEMMA LessFollows ==
    ASSUME NEW d \in Maps, SoundMap(d), NEW r, NEW k, NEW n, NEW i \in Nat,
           IsActive(d.attrs, k, n), i < Len(d.attrs[k].values), ValueLess(d, r, k, n, i),
           NEW U, AllFollow(d.attrs, d.tree, U)
    PROVE  AllFollow(r.attrs, r.tree, U)
<1> DEFINE a == d.attrs
           w == a[k].values
           b == r.attrs
           t == d.tree
           u == r.tree
<1>1. /\ b[k].values = RemoveAt(w, i + 1) /\ b[k].type = a[k].type /\ IsActive(b, k, n)
      /\ ValueIsGone(t, u, n, i)
  BY DEF ValueLess
<1>2. /\ SoundEntries(a, d.valid) /\ SoundEntries(b, r.valid) /\ k \in 1..Len(a) /\ t \in Files
      /\ i < Len(w)
  BY DEF ValueLess, SoundMap, IsActive, ModuleFiles
<1>3. w \in Seq(PrefValues) /\ Len(w) \in Nat
  BY <1>2, EntryParts
<1> HIDE DEF w
<1>4. ASSUME NEW q \in Seq(PrefValues), NEW free \in BOOLEAN, Starts(q, w, free),
             NEW x, x = IF i >= Len(q) THEN q ELSE RemoveAt(q, i + 1)
      PROVE  Starts(x, RemoveAt(w, i + 1), free)
  <2>1. /\ i >= Len(q) => Starts(q, RemoveAt(w, i + 1), free)
        /\ i < Len(q)  => Starts(RemoveAt(q, i + 1), RemoveAt(w, i + 1), free)
    BY <1>2, <1>3, <1>4, RemoveStarts
  <2>2. i >= Len(q) \/ i < Len(q)
    OBVIOUS
  <2>3. CASE i >= Len(q)
    BY <1>4, <2>1, <2>3
  <2>4. CASE i < Len(q)
    <3>1. ~(i >= Len(q))
      BY <2>4
    <3> QED
      BY <1>4, <2>1, <2>4, <3>1
  <2> QED
    BY <2>2, <2>3, <2>4
<1>5. ASSUME NEW j \in 1..Len(u), u[j].name = n
      PROVE  Agrees(b[k], u[j], U)
  <2>1. PICK m \in 1..Len(t) : /\ t[m].name = n /\ u[j].type = t[m].type
                               /\ u[j].values = IF i >= Len(t[m].values) THEN t[m].values
                                                ELSE RemoveAt(t[m].values, i + 1)
    BY <1>1, <1>5 DEF ValueIsGone
  <2>2. Agrees(a[k], t[m], U)
    BY <2>1, FollowedIs
  <2>3. t[m].values \in Seq(PrefValues)
    BY <1>2, ElementParts
  <2>4. a[k].type = t[m].type /\ Starts(t[m].values, w, n \in U)
    BY <2>1, <2>2 DEF Agrees, w
  <2>5. (n \in U) \in BOOLEAN
    OBVIOUS
  <2>6. Starts(u[j].values, RemoveAt(w, i + 1), n \in U)
    BY <1>4, <2>1, <2>3, <2>4, <2>5
  <2> QED
    BY <1>1, <1>5, <2>1, <2>4, <2>6 DEF Agrees, IsActive
<1>6. Others(a, b, n) /\ OtherTags(t, u, n) /\ Len(a) \in Nat /\ Len(b) \in Nat
  BY <1>1, <1>2, EntriesAre DEF ValueLess, ValueIsGone
<1>7. k \in 1..Len(b)
  BY <1>1 DEF IsActive
<1> QED
  BY <1>5, <1>6, <1>7, FollowKept

\* An attribute that was created, or was there.
AttributeHas(r, n, type, U) ==
    /\ r \in Maps /\ SoundMap(r) /\ Len(r.attrs) \in Nat /\ AllFollow(r.attrs, r.tree, U)
    /\ \A k : IsActive(r.attrs, k, n) => r.attrs[k].type = type

LEMMA TypeOfActive ==
    ASSUME NEW d, SoundMap(d), NEW n, NEW k, IsActive(d.attrs, k, n), NEW j, IsActive(d.attrs, j, n)
    PROVE  j = k
BY EntriesAre DEF SoundMap, OneEntryEach, IsActive

LEMMA CreateAttributeIs ==
    ASSUME NEW d, NEW n \in PrefNames, NEW type \in PrefTypes, NEW v \in PrefValues,
           NEW U, NEW W, U \subseteq W, Short(d.tree, n) => n \in W, AttributeHas(d, n, type, U)
    PROVE  AttributeHas(CreateAttribute(d, n, type, v), n, type, W)
<1> SUFFICES ASSUME NEW r, r = CreateAttribute(d, n, type, v)
             PROVE  AttributeHas(r, n, type, W)
  OBVIOUS
<1> DEFINE e == AddAttribute(d, n, type)
           k == GetAttrInfoByName(e, n)
<1>1. /\ d \in Maps /\ SoundEntries(d.attrs, d.valid) /\ d.tree \in ModuleFiles /\ SoundMap(d)
      /\ AllFollow(d.attrs, d.tree, U) /\ \A j : IsActive(d.attrs, j, n) => d.attrs[j].type = type
  BY DEF AttributeHas, SoundMap
<1>2. AttributeAdded(d, e, n, type)
  BY <1>1, AddAttributeIs
<1> HIDE DEF e
<1>3. e \in Maps /\ SoundEntries(e.attrs, e.valid) /\ e.tree = d.tree /\ Others(d.attrs, e.attrs, n)
  BY <1>1, <1>2 DEF AttributeAdded
<1>4. SoundMap(e)
  BY <1>1, <1>3 DEF SoundMap
<1>5. IsActive(e.attrs, k, n) /\ e.attrs[k].type = type
  <2>1. PICK j : IsActive(e.attrs, j, n) /\ e.attrs[j].type = type
    BY <1>2 DEF AttributeAdded
  <2>2. k = j
    BY <1>3, <2>1, LookupIs
  <2> QED
    BY <2>1, <2>2
<1> HIDE DEF k
<1>6. r = SetAttribute(e, k, 0, v)
  BY DEF CreateAttribute, e, k
<1>7. AllFollow(e.attrs, e.tree, U)
  <2>1. CASE \E j : IsActive(d.attrs, j, n)
    BY <1>1, <1>2, <2>1 DEF AttributeAdded
  <2>2. CASE \A j : ~IsActive(d.attrs, j, n)
    <3>1. \A j \in 1..Len(d.tree) : d.tree[j].name # n
      BY <1>1, <2>2 DEF AllFollow, Agrees, IsActive
    <3>2. OtherTags(d.tree, d.tree, n)
      BY DEF OtherTags
    <3>3. Len(d.attrs) \in Nat /\ Len(e.attrs) \in Nat
      BY <1>1, <1>3, EntriesAre
    <3> QED
      BY <1>1, <1>3, <3>1, <3>2, <3>3, FollowKept
  <2> QED
    BY <2>1, <2>2
<1>8. 0 \in Nat /\ 0 <= Len(e.attrs[k].values)
  <2>1. e.attrs[k].values \in Seq(PrefValues)
    BY <1>3, <1>5, EntryParts DEF IsActive
  <2> QED
    BY <2>1
<1>9. AttributeSet(e, r, k, n, 0, v)
  BY <1>3, <1>4, <1>5, <1>6, <1>8, SetAttributeIs
<1>10. AllFollow(r.attrs, r.tree, W)
  BY <1>3, <1>4, <1>5, <1>7, <1>8, <1>9, SetFollows
<1>11. r \in Maps /\ SoundMap(r) /\ IsActive(r.attrs, k, n) /\ r.attrs[k].type = type
  BY <1>5, <1>9 DEF AttributeSet
<1>12. Len(r.attrs) \in Nat
  BY <1>11, EntriesAre DEF SoundMap
<1>13. \A j : IsActive(r.attrs, j, n) => r.attrs[j].type = type
  BY <1>11, TypeOfActive
<1> QED
  BY <1>10, <1>11, <1>12, <1>13 DEF AttributeHas

LEMMA CheckAttributeIs ==
    ASSUME NEW d \in Maps, SoundMap(d), NEW n \in PrefNames, NEW type \in PrefTypes,
           NEW v \in PrefValues, NEW U, AllFollow(d.attrs, d.tree, U)
    PROVE  AttributeHas(CheckAttributeDataType(d, n, type, v), n, type, U)
<1> DEFINE r == CheckAttributeDataType(d, n, type, v)
           k == GetAttrInfoByName(d, n)
<1>1. SoundEntries(d.attrs, d.valid) /\ Len(d.attrs) \in Nat
  BY EntriesAre DEF SoundMap
<1>2. CASE k = 0
  <2>1. r = d
    BY <1>2 DEF CheckAttributeDataType
  <2>2. \A j : ~IsActive(d.attrs, j, n)
    <3> SUFFICES ASSUME NEW j, IsActive(d.attrs, j, n) PROVE FALSE
      OBVIOUS
    <3>1. j = 0
      BY <1>1, <1>2, LookupIs
    <3> QED
      BY <1>1, <3>1 DEF IsActive
  <2> QED
    BY <1>1, <2>1, <2>2 DEF AttributeHas
<1>3. CASE k # 0
  <2>1. IsActive(d.attrs, k, n)
    BY <1>1, <1>3, LookupSome
  <2> HIDE DEF k
  <2>2. CASE d.attrs[k].type = type
    <3>1. r = d
      BY <2>2 DEF CheckAttributeDataType, k
    <3> QED
      BY <1>1, <2>1, <2>2, <3>1, TypeOfActive DEF AttributeHas
  <2>3. CASE d.attrs[k].type # type
    <3> DEFINE e == RemoveInstanceAttribute(d, k)
    <3>1. r = CreateAttribute(e, n, type, v)
      BY <1>3, <2>3 DEF CheckAttributeDataType, k
    <3>2. AttributeGone(d, e, n)
      BY <2>1, RemoveInstanceAttributeIs
    <3> HIDE DEF e
    <3>3. AllFollow(e.attrs, e.tree, U)
      BY <3>2, GoneFollows
    <3>4. /\ e \in Maps /\ SoundMap(e) /\ \A j : ~IsActive(e.attrs, j, n)
          /\ \A j \in 1..Len(e.tree) : e.tree[j].name # n
      BY <3>2 DEF AttributeGone
    <3>5. ~Short(e.tree, n)
      <4>1. e.tree \in Files
        BY <3>4 DEF SoundMap, ModuleFiles
      <4>2. ElementsOf(e.tree, n) = {}
        BY <3>4, <4>1, NoPlace
      <4> QED
        BY <4>2 DEF Short
    <3>6. AttributeHas(e, n, type, U)
      <4>1. Len(e.attrs) \in Nat
        BY <3>4, EntriesAre DEF SoundMap
      <4> QED
        BY <3>3, <3>4, <4>1 DEF AttributeHas
    <3> QED
      BY <3>1, <3>5, <3>6, CreateAttributeIs
  <2> QED
    BY <2>2, <2>3
<1> QED
  BY <1>2, <1>3

-----------------------------------------------------------------------------
(* The server's own preference *)

LEMMA PortIsSet ==
    ASSUME NEW t \in Files, NEW w \in Seq(PrefValues), NEW i \in Nat, i <= Len(w),
           NEW v \in PrefValues, NEW U, NEW W, U \subseteq W, NEW other,
           i = 0 /\ Short(t, Port) => Port \in W, PortFollows(t, w, U, other),
           NEW u, u = SetElement(AddPref(t, Port, "number"), Port, i, v)
    PROVE  /\ u \in Files /\ PutValue(w, i, v) \in Seq(PrefValues)
           /\ PortFollows(u, PutValue(w, i, v), W, other)
<1>1. PrefIsSet(t, u, Port, "number", i, v)
  <2>1. Port \in PrefNames \cup {Port} /\ "number" \in PrefTypes
    BY DEF PrefTypes
  <2> QED
    BY <2>1, SetPrefIs
<1>2. DOMAIN t = 1..Len(t) /\ Len(w) \in Nat
  BY FilesAre
<1>3. PutValue(w, i, v) \in Seq(PrefValues)
  <2>1. IsPut(PutValue(w, i, v), PrefValues, w, i, v)
    BY PutValueIs
  <2> QED
    BY <2>1 DEF IsPut
<1>4. ASSUME NEW q \in Seq(PrefValues), NEW list \in BOOLEAN, NEW free \in BOOLEAN,
             Starts(q, w, free), free => Port \in W, i = 0 /\ list /\ Len(q) <= 1 => Port \in W,
             NEW x, x = SetValues(list, q, i, v)
      PROVE  Starts(x, PutValue(w, i, v), Port \in W)
  <2>1. Starts(x, PutValue(w, i, v), free \/ (i = 0 /\ list /\ Len(q) <= 1))
    BY <1>4, SetStarts
  <2> QED
    BY <1>4, <2>1, Zenon DEF Starts
<1>5. ASSUME NEW j \in 1..Len(u), u[j].name = Port
      PROVE  (u[j].type = "number" \/ other) /\ Starts(u[j].values, PutValue(w, i, v), Port \in W)
  <2>1. CASE \E m \in 1..Len(t) : /\ t[m].name = Port /\ u[j].type = t[m].type
                                  /\ u[j].values = SetValues(t[m].list, t[m].values, i, v)
    <3>1. PICK m \in 1..Len(t) : /\ t[m].name = Port /\ u[j].type = t[m].type
                                 /\ u[j].values = SetValues(t[m].list, t[m].values, i, v)
      BY <2>1
    <3>2. (t[m].type = "number" \/ other) /\ Starts(t[m].values, w, Port \in U)
      BY <3>1 DEF PortFollows
    <3>3. t[m].values \in Seq(PrefValues) /\ t[m].list \in BOOLEAN /\ (Port \in U) \in BOOLEAN
      BY ElementParts
    <3>4. t[m].list /\ Len(t[m].values) <= 1 => Short(t, Port)
      BY <1>2, <3>1 DEF Short, ElementsOf
    <3>5. i = 0 /\ t[m].list /\ Len(t[m].values) <= 1 => Port \in W
      BY <3>4
    <3>6. Starts(u[j].values, PutValue(w, i, v), Port \in W)
      BY <1>4, <3>1, <3>2, <3>3, <3>5, ZenonT(30)
    <3> QED
      BY <3>1, <3>2, <3>6
  <2>2. CASE u[j].type = "number" /\ u[j].values = SetValues(FALSE, <<>>, i, v)
    <3>1. <<>> \in Seq(PrefValues) /\ FALSE \in BOOLEAN /\ Starts(<<>>, w, FALSE)
      BY <1>2 DEF Starts
    <3>2. Starts(u[j].values, PutValue(w, i, v), Port \in W)
      BY <1>4, <2>2, <3>1
    <3> QED
      BY <2>2, <3>2
  <2> QED
    BY <1>1, <1>5, <2>1, <2>2 DEF PrefIsSet
<1> QED
  BY <1>1, <1>3, <1>5 DEF PrefIsSet, PortFollows

LEMMA PortDefaultsAre ==
    ASSUME NEW w \in Seq(PrefValues)
    PROVE  PortDefaults(w) \in Seq(PrefValues) /\ Starts(Defaults, PortDefaults(w), FALSE)
<1> DEFINE m == Max({Len(w), Len(Defaults)})
           x == PortDefaults(w)
<1>1. Defaults \in Seq(PrefValues) /\ Len(w) \in Nat /\ Len(Defaults) \in Nat
  BY PrefConstants
<1>2. m \in Nat /\ Len(Defaults) <= m /\ (m = Len(w) \/ m = Len(Defaults))
  <2>1. CASE Len(w) <= Len(Defaults)
    <3>1. m = Len(Defaults)
      BY <1>1, <2>1 DEF Max
    <3> QED
      BY <1>1, <3>1
  <2>2. CASE ~(Len(w) <= Len(Defaults))
    <3>1. m = Len(w)
      BY <1>1, <2>2 DEF Max
    <3> QED
      BY <1>1, <2>2, <3>1
  <2> QED
    BY <2>1, <2>2
<1>3. x = [i \in 1..m |-> IF i <= Len(Defaults) THEN Defaults[i] ELSE w[i]]
  BY DEF PortDefaults
<1> HIDE DEF m, x
<1>4. \A i \in 1..m : x[i] \in PrefValues
  BY <1>1, <1>2, <1>3
<1>5. x \in [1..m -> PrefValues]
  BY <1>3, <1>4
<1>6. x \in Seq(PrefValues) /\ Len(x) = m
  BY <1>2, <1>5, IsASeq
<1>7. \A j \in 1..Len(Defaults) : Defaults[j] = x[j]
  BY <1>1, <1>2, <1>3
<1> QED
  BY <1>2, <1>6, <1>7 DEF x, Starts

LEMMA RereadServerIs ==
    ASSUME NEW t \in Files, NEW w \in Seq(PrefValues), NEW s, s = RereadServerPreferences(t, w),
           NEW U
    PROVE  /\ s.tree \in Files /\ s.values \in Seq(PrefValues)
           /\ PortFollows(s.tree, s.values, U, Mistyped(t))
<1>1. Defaults \in Seq(PrefValues) /\ "number" \in PrefTypes /\ DOMAIN t = 1..Len(t)
  BY PrefConstants, FilesAre DEF PrefTypes
<1>2. ASSUME s = [tree |-> DefaultElement(t), values |-> PortDefaults(w)],
             \A m \in 1..Len(t) : t[m].name = Port => t[m].values = <<>>
      PROVE  /\ s.tree \in Files /\ s.values \in Seq(PrefValues)
             /\ PortFollows(s.tree, s.values, U, Mistyped(t))
  <2>1. s.tree = DefaultElement(t) /\ s.values = PortDefaults(w)
    BY <1>2
  <2>2. DefaultsAdded(t, s.tree)
    BY <2>1, DefaultElementIs
  <2>3. s.values \in Seq(PrefValues) /\ Starts(Defaults, s.values, FALSE)
    BY <2>1, PortDefaultsAre
  <2>4. ASSUME NEW j \in 1..Len(s.tree), s.tree[j].name = Port
        PROVE  /\ s.tree[j].type = "number" \/ Mistyped(t)
               /\ s.tree[j].values = Defaults
    <3>1. CASE \E m \in 1..Len(t) : /\ t[m].name = Port /\ s.tree[j].type = t[m].type
                                    /\ s.tree[j].values = t[m].values \o Defaults
      <4>1. PICK m \in 1..Len(t) : /\ t[m].name = Port /\ s.tree[j].type = t[m].type
                                   /\ s.tree[j].values = t[m].values \o Defaults
        BY <3>1
      <4>2. t[m].values = <<>>
        BY <1>2, <4>1
      <4>3. <<>> \o Defaults = Defaults
        BY <1>1
      <4>4. t[m].type = "number" \/ Mistyped(t)
        BY <1>1, <4>1, <4>2 DEF Mistyped, ElementsOf
      <4> QED
        BY <4>1, <4>2, <4>3, <4>4
    <3>2. CASE s.tree[j].type = "number" /\ s.tree[j].values = Defaults
      BY <3>2
    <3> QED
      BY <2>2, <2>4, <3>1, <3>2 DEF DefaultsAdded
  <2> QED
    BY <2>2, <2>3, <2>4, SMTT(30) DEF DefaultsAdded, PortFollows, Starts
<1>3. CASE \A m \in 1..Len(t) : t[m].name # Port
  <2>1. s = [tree |-> DefaultElement(t), values |-> PortDefaults(w)]
    BY <1>3, NoPlace DEF RereadServerPreferences
  <2> QED
    BY <1>2, <1>3, <2>1
<1>4. ASSUME NEW k \in 1..Len(t), t[k].name = Port
      PROVE  /\ s.tree \in Files /\ s.values \in Seq(PrefValues)
             /\ PortFollows(s.tree, s.values, U, Mistyped(t))
  <2>1. ElementsOf(t, Port) = {k} /\ PlaceOf(t, Port) = k
    <3>1. PICK n : n = Port
      OBVIOUS
    <3> QED
      BY <1>4, <3>1, PlaceIs
  <2>2. \A j \in 1..Len(t) : t[j].name = Port => j = k
    BY <1>4, FilesAre DEF Once
  <2>3. s = IF t[k].values = <<>>
            THEN [tree |-> DefaultElement(t), values |-> PortDefaults(w)]
            ELSE IF t[k].type # "number"
            THEN [tree |-> DefaultElement(RemovePref(t, Port)), values |-> PortDefaults(w)]
            ELSE [tree |-> t, values |-> t[k].values]
    BY <2>1 DEF RereadServerPreferences
  <2>4. CASE t[k].values = <<>>
    BY <1>2, <2>2, <2>3, <2>4
  <2>5. CASE t[k].values # <<>> /\ t[k].type # "number"
    <3>1. PICK u : u = RemovePref(t, Port)
      OBVIOUS
    <3>2. u \in Files /\ \A j \in 1..Len(u) : u[j].name # Port
      BY <3>1, RemovePrefIs
    <3>3. s.tree = DefaultElement(u) /\ s.values = PortDefaults(w)
      BY <2>3, <2>5, <3>1
    <3>4. DefaultsAdded(u, s.tree)
      BY <3>2, <3>3, DefaultElementIs
    <3>5. s.values \in Seq(PrefValues) /\ Starts(Defaults, s.values, FALSE)
      BY <3>3, PortDefaultsAre
    <3> QED
      BY <3>2, <3>4, <3>5 DEF DefaultsAdded, PortFollows, Starts
  <2>6. CASE t[k].values # <<>> /\ t[k].type = "number"
    <3>1. s.tree = t /\ s.values = t[k].values
      BY <2>3, <2>6
    <3>2. t[k].values \in Seq(PrefValues) /\ Len(t[k].values) \in Nat
      BY ElementParts
    <3> QED
      BY <2>2, <2>6, <3>1, <3>2 DEF PortFollows, Starts
  <2> QED
    BY <2>4, <2>5, <2>6
<1> QED
  BY <1>3, <1>4

-----------------------------------------------------------------------------
(* The invariant is kept. *)

LEMMA PrefsInitially == PrefsInit => PrefsInv
<1> SUFFICES ASSUME PrefsInit PROVE PrefsInv
  OBVIOUS
<1>1. attrs = <<>> /\ valid = 0 /\ tree \in ModuleFiles
  BY FilesOnce DEF PrefsInit
<1>2. PICK t \in PortFiles : LET s == RereadServerPreferences(t, <<>>) IN
                             serverTree = s.tree /\ portValues = s.values /\ mistyped = Mistyped(t)
  BY DEF PrefsInit
<1>3. t \in Files /\ <<>> \in Seq(PrefValues)
  BY FilesOnce
<1>4. /\ serverTree \in Files /\ portValues \in Seq(PrefValues)
      /\ PortFollows(serverTree, portValues, unsaved, mistyped)
  BY <1>2, <1>3, RereadServerIs
<1>5. SoundEntries(attrs, valid)
  <2>1. ActiveIn(attrs) = {} /\ attrs \in Seq(AttrRecords) /\ OneEntryEach(attrs)
    BY <1>1 DEF ActiveIn, OneEntryEach
  <2> QED
    BY <1>1, <2>1, FS_EmptySet DEF SoundEntries
<1>6. mistyped \in BOOLEAN
  BY <1>2 DEF Mistyped
<1>7. phase = "parsed" /\ counted = 0 /\ dangling = FALSE /\ unsaved = {} /\ calls = 0
  BY DEF PrefsInit
<1>8. dangling \in BOOLEAN /\ mistyped \in BOOLEAN
  BY <1>6, <1>7, Zenon
<1>9. calls \in 0..MaxCalls
  BY <1>7, PrefConstants
<1> QED
  BY <1>1, <1>4, <1>5, <1>7, <1>8, <1>9 DEF PrefsInv

LEMMA DictionaryIs ==
    ASSUME PrefsInv
    PROVE  /\ Dictionary \in Maps /\ SoundMap(Dictionary) /\ Dictionary.attrs = attrs
           /\ Dictionary.valid = valid /\ Dictionary.tree = tree
           /\ attrs \in Seq(AttrRecords) /\ Len(attrs) \in Nat
<1>1. SoundEntries(attrs, valid) /\ tree \in ModuleFiles /\ tree \in Seq(Elements)
  BY DEF PrefsInv, ModuleFiles, Files
<1>2. attrs \in Seq(AttrRecords) /\ valid \in Int /\ Len(attrs) \in Nat
  BY <1>1, EntriesAre
<1> QED
  BY <1>1, <1>2 DEF Dictionary, Maps, SoundMap

\* A call that changes the map, and not the server's preference.
MapCall(r, W) ==
    /\ Call /\ Becoming(r) /\ unsaved' = W
    /\ UNCHANGED <<serverTree, portValues, phase, counted, dangling, mistyped>>

LEMMA MapCallKeeps ==
    ASSUME PrefsInv, NEW r, NEW W, MapCall(r, W), SoundMap(r),
           unsaved \subseteq W, W \subseteq PrefNames \cup {Port}, Port \in W => Port \in unsaved,
           phase = "counted" => Len(r.attrs) = Len(attrs),
           phase \in {"role", "idle"} => AllFollow(r.attrs, r.tree, W)
    PROVE  PrefsInv'
<1>1. /\ attrs' = r.attrs /\ valid' = r.valid /\ tree' = r.tree /\ unsaved' = W
      /\ SoundEntries(r.attrs, r.valid) /\ r.tree \in ModuleFiles
      /\ calls' = calls + 1 /\ calls < MaxCalls
      /\ UNCHANGED <<serverTree, portValues, phase, counted, dangling, mistyped>>
  BY DEF MapCall, Becoming, Call, SoundMap
<1>2. calls' \in 0..MaxCalls
  BY <1>1, PrefConstants DEF PrefsInv
<1>3. PortFollows(serverTree, portValues, unsaved, mistyped) =>
          PortFollows(serverTree, portValues, W, mistyped)
  BY DEF PortFollows, Starts
<1> QED
  BY <1>1, <1>2, <1>3 DEF PrefsInv

LEMMA SetPreferenceKeeps ==
    ASSUME PrefsInv, NEW n \in PrefNames, NEW i \in Nat, NEW v \in PrefValues, SetPreference(n, i, v)
    PROVE  PrefsInv'
<1> DEFINE k == GetAttrInfoByName(Dictionary, n)
           r == SetAttribute(Dictionary, k, i, v)
<1> PICK W : W = IF i = 0 /\ Short(tree, n) THEN unsaved \cup {n} ELSE unsaved
  OBVIOUS
<1>1. /\ Call /\ k # 0 /\ i <= Len(attrs[k].values) /\ Becoming(r) /\ unsaved' = W /\ ~dangling
      /\ UNCHANGED <<serverTree, portValues, phase, counted, dangling, mistyped>>
  BY DEF SetPreference, Call
<1>2. /\ Dictionary \in Maps /\ SoundMap(Dictionary) /\ SoundEntries(Dictionary.attrs, Dictionary.valid)
      /\ Dictionary.attrs = attrs /\ Dictionary.tree = tree
  BY DictionaryIs DEF SoundMap
<1>3. IsActive(Dictionary.attrs, k, n)
  BY <1>1, <1>2, LookupSome
<1> HIDE DEF k
<1>4. AttributeSet(Dictionary, r, k, n, i, v)
  BY <1>1, <1>2, <1>3, SetAttributeIs
<1> HIDE DEF r
<1>5. unsaved \subseteq W /\ (i = 0 /\ Short(tree, n) => n \in W)
  OBVIOUS
<1>6. W \subseteq PrefNames \cup {Port} /\ (Port \in W => Port \in unsaved)
  BY PrefConstants DEF PrefsInv
<1>7. phase \in {"role", "idle"} => AllFollow(r.attrs, r.tree, W)
  <2> SUFFICES ASSUME phase \in {"role", "idle"} PROVE AllFollow(r.attrs, r.tree, W)
    OBVIOUS
  <2>1. AllFollow(Dictionary.attrs, Dictionary.tree, unsaved)
    BY <1>1, <1>2 DEF PrefsInv
  <2>2. i <= Len(Dictionary.attrs[k].values) /\ (i = 0 /\ Short(Dictionary.tree, n) => n \in W)
    BY <1>1, <1>2, <1>5
  <2> QED
    BY <1>2, <1>3, <1>4, <1>5, <2>1, <2>2, SetFollows
<1>8. SoundMap(r) /\ Len(r.attrs) = Len(attrs)
  BY <1>2, <1>4 DEF AttributeSet
<1>9. MapCall(r, W)
  BY <1>1 DEF MapCall
<1> QED
  BY <1>5, <1>6, <1>7, <1>8, <1>9, MapCallKeeps

LEMMA RemovePrefValueKeeps ==
    ASSUME PrefsInv, NEW n \in PrefNames, NEW i \in Nat, RemovePrefValue(n, i)
    PROVE  PrefsInv'
<1> DEFINE k == GetAttrInfoByName(Dictionary, n)
           r == LessValue(Dictionary, k, n, i)
<1>1. /\ Call /\ k # 0 /\ i < Len(attrs[k].values) /\ Becoming(r) /\ ~dangling
      /\ UNCHANGED <<serverTree, portValues, phase, counted, dangling, mistyped, unsaved>>
  BY DEF RemovePrefValue, Call, LessValue
<1>2. /\ Dictionary \in Maps /\ SoundMap(Dictionary) /\ SoundEntries(Dictionary.attrs, Dictionary.valid)
      /\ Dictionary.attrs = attrs /\ Dictionary.tree = tree
  BY DictionaryIs DEF SoundMap
<1>3. IsActive(Dictionary.attrs, k, n)
  BY <1>1, <1>2, LookupSome
<1> HIDE DEF k
<1>4. ValueLess(Dictionary, r, k, n, i)
  BY <1>1, <1>2, <1>3, LessValueIs
<1> HIDE DEF r
<1>5. unsaved \subseteq PrefNames \cup {Port}
  BY DEF PrefsInv
<1>6. phase \in {"role", "idle"} => AllFollow(r.attrs, r.tree, unsaved)
  <2> SUFFICES ASSUME phase \in {"role", "idle"} PROVE AllFollow(r.attrs, r.tree, unsaved)
    OBVIOUS
  <2>1. AllFollow(Dictionary.attrs, Dictionary.tree, unsaved)
    BY <1>1, <1>2 DEF PrefsInv
  <2>2. i < Len(Dictionary.attrs[k].values)
    BY <1>1, <1>2
  <2> QED
    BY <1>2, <1>3, <1>4, <2>1, <2>2, LessFollows
<1>7. SoundMap(r) /\ Len(r.attrs) = Len(attrs)
  BY <1>2, <1>4 DEF ValueLess
<1>8. MapCall(r, unsaved)
  BY <1>1 DEF MapCall
<1> QED
  BY <1>5, <1>6, <1>7, <1>8, MapCallKeeps

LEMMA RemovePreferenceKeeps ==
    ASSUME PrefsInv, NEW n \in PrefNames, RemovePreference(n)
    PROVE  PrefsInv'
<1> DEFINE k == GetAttrInfoByName(Dictionary, n)
           r == RemoveInstanceAttribute(Dictionary, k)
<1>1. /\ Call /\ k # 0 /\ Becoming(r) /\ ~dangling
      /\ UNCHANGED <<serverTree, portValues, phase, counted, dangling, mistyped, unsaved>>
  BY DEF RemovePreference, Call
<1>2. /\ Dictionary \in Maps /\ SoundMap(Dictionary) /\ SoundEntries(Dictionary.attrs, Dictionary.valid)
      /\ Dictionary.attrs = attrs /\ Dictionary.tree = tree
  BY DictionaryIs DEF SoundMap
<1>3. IsActive(Dictionary.attrs, k, n)
  BY <1>1, <1>2, LookupSome
<1> HIDE DEF k
<1>4. AttributeGone(Dictionary, r, n)
  BY <1>2, <1>3, RemoveInstanceAttributeIs
<1> HIDE DEF r
<1>5. unsaved \subseteq PrefNames \cup {Port}
  BY DEF PrefsInv
<1>6. phase \in {"role", "idle"} => AllFollow(r.attrs, r.tree, unsaved)
  <2> SUFFICES ASSUME phase \in {"role", "idle"} PROVE AllFollow(r.attrs, r.tree, unsaved)
    OBVIOUS
  <2>1. AllFollow(Dictionary.attrs, Dictionary.tree, unsaved)
    BY <1>1, <1>2 DEF PrefsInv
  <2> QED
    BY <1>2, <1>4, <2>1, GoneFollows
<1>7. SoundMap(r) /\ Len(r.attrs) = Len(attrs)
  BY <1>2, <1>4 DEF AttributeGone
<1>8. MapCall(r, unsaved)
  BY <1>1 DEF MapCall
<1> QED
  BY <1>5, <1>6, <1>7, <1>8, MapCallKeeps

LEMMA GetAttributeKeeps ==
    ASSUME PrefsInv, NEW n \in PrefNames, NEW type \in PrefTypes, NEW v \in PrefValues,
           GetAttribute(n, type, v)
    PROVE  PrefsInv'
<1> DEFINE d == CheckAttributeDataType(Dictionary, n, type, v)
           bare == GetAttrInfoByName(d, n) = 0 \/ d.attrs[GetAttrInfoByName(d, n)].values = <<>>
           r == IF bare THEN CreateAttribute(d, n, type, v) ELSE d
<1> PICK W : W = IF bare /\ Short(d.tree, n) THEN unsaved \cup {n} ELSE unsaved
  OBVIOUS
<1>1. /\ Call /\ phase = "role" /\ Becoming(r) /\ ~dangling /\ unsaved' = W
      /\ UNCHANGED <<serverTree, portValues, phase, counted, dangling, mistyped>>
  BY DEF GetAttribute, Call
<1>2. /\ Dictionary \in Maps /\ SoundMap(Dictionary)
      /\ Dictionary.attrs = attrs /\ Dictionary.tree = tree
  BY DictionaryIs
<1>3. AllFollow(Dictionary.attrs, Dictionary.tree, unsaved)
  BY <1>1, <1>2 DEF PrefsInv
<1>4. AttributeHas(d, n, type, unsaved)
  BY <1>2, <1>3, CheckAttributeIs
<1> HIDE DEF d, bare
<1>5. unsaved \subseteq W /\ (bare /\ Short(d.tree, n) => n \in W)
  OBVIOUS
<1>6. W \subseteq PrefNames \cup {Port} /\ (Port \in W => Port \in unsaved)
  BY PrefConstants DEF PrefsInv
<1>7. AttributeHas(r, n, type, W)
  <2>1. CASE bare
    <3>1. r = CreateAttribute(d, n, type, v) /\ (Short(d.tree, n) => n \in W)
      BY <1>5, <2>1
    <3> HIDE DEF r
    <3> QED
      BY <1>4, <1>5, <3>1, CreateAttributeIs
  <2>2. CASE ~bare
    <3>1. r = d /\ W = unsaved
      BY <2>2
    <3> QED
      BY <1>4, <3>1
  <2> QED
    BY <2>1, <2>2
<1> HIDE DEF r
<1>8. SoundMap(r) /\ AllFollow(r.attrs, r.tree, W)
  BY <1>7 DEF AttributeHas
<1>9. MapCall(r, W)
  BY <1>1 DEF MapCall
<1>10. phase # "counted"
  BY <1>1
<1> QED
  BY <1>5, <1>6, <1>8, <1>9, <1>10, MapCallKeeps

LEMMA SetPortKeeps ==
    ASSUME PrefsInv, NEW i \in Nat, NEW v \in PrefValues, SetPort(i, v)
    PROVE  PrefsInv'
<1> PICK W : W = IF i = 0 /\ Short(serverTree, Port) THEN unsaved \cup {Port} ELSE unsaved
  OBVIOUS
<1>1. /\ ~dangling /\ calls < MaxCalls /\ calls' = calls + 1 /\ i <= Len(portValues)
      /\ portValues' = PutValue(portValues, i, v) /\ unsaved' = W
      /\ serverTree' = SetElement(AddPref(serverTree, Port, "number"), Port, i, v)
      /\ UNCHANGED <<tree, attrs, valid, phase, counted, dangling, mistyped>>
  BY DEF SetPort, Call
<1>2. /\ serverTree \in Files /\ portValues \in Seq(PrefValues)
      /\ PortFollows(serverTree, portValues, unsaved, mistyped)
      /\ unsaved \subseteq PrefNames \cup {Port}
  BY <1>1 DEF PrefsInv
<1>3. /\ unsaved \subseteq W /\ W \subseteq PrefNames \cup {Port}
      /\ (i = 0 /\ Short(serverTree, Port) => Port \in W) /\ (W \subseteq unsaved \cup {Port})
  BY <1>2
<1>4. /\ serverTree' \in Files /\ portValues' \in Seq(PrefValues)
      /\ PortFollows(serverTree', portValues', W, mistyped)
  <2>1. PICK u : u = serverTree'
    OBVIOUS
  <2>2. /\ u \in Files /\ PutValue(portValues, i, v) \in Seq(PrefValues)
        /\ PortFollows(u, PutValue(portValues, i, v), W, mistyped)
    <3>1. /\ u = SetElement(AddPref(serverTree, Port, "number"), Port, i, v)
          /\ i <= Len(portValues)
      BY <1>1, <2>1
    <3> QED
      BY <1>2, <1>3, <3>1, PortIsSet, SMTT(30)
  <2> QED
    BY <1>1, <2>1, <2>2
<1>5. calls' \in 0..MaxCalls
  BY <1>1, PrefConstants DEF PrefsInv
<1>6. AllFollow(attrs, tree, unsaved) => AllFollow(attrs, tree, W)
  <2> SUFFICES ASSUME AllFollow(attrs, tree, unsaved), NEW j \in 1..Len(tree)
               PROVE  \E k \in 1..Len(attrs) : Agrees(attrs[k], tree[j], W)
    BY DEF AllFollow
  <2>1. PICK k \in 1..Len(attrs) : Agrees(attrs[k], tree[j], unsaved)
    BY DEF AllFollow
  <2> QED
    BY <1>3, <2>1 DEF Agrees, Starts
<1> QED
  BY <1>1, <1>3, <1>4, <1>5, <1>6 DEF PrefsInv

LEMMA RereadBeginsKeeps ==
    ASSUME PrefsInv, NEW t \in PrefFiles \cup {tree}, NEW s \in PortFiles \cup {serverTree},
           RereadBegins(t, s)
    PROVE  PrefsInv'
<1>1. /\ ~dangling /\ calls < MaxCalls /\ calls' = calls + 1 /\ phase = "idle" /\ phase' = "parsed"
      /\ tree' = t /\ unsaved' = {} /\ mistyped' = Mistyped(s)
      /\ UNCHANGED <<attrs, valid, counted, dangling>>
  BY DEF RereadBegins, Call
<1>2. PICK r : r = RereadServerPreferences(s, portValues)
  OBVIOUS
<1>3. serverTree' = r.tree /\ portValues' = r.values
  BY <1>2 DEF RereadBegins
<1>4. s \in Files /\ portValues \in Seq(PrefValues) /\ t \in ModuleFiles
  BY FilesOnce DEF PrefsInv
<1>5. /\ serverTree' \in Files /\ portValues' \in Seq(PrefValues)
      /\ PortFollows(serverTree', portValues', unsaved', mistyped')
  BY <1>1, <1>2, <1>3, <1>4, RereadServerIs
<1>6. calls' \in 0..MaxCalls
  BY <1>1, PrefConstants DEF PrefsInv
<1>7. mistyped' \in BOOLEAN
  BY <1>1 DEF Mistyped
<1> QED
  BY <1>1, <1>4, <1>5, <1>6, <1>7 DEF PrefsInv

LEMMA CountAttributesKeeps == ASSUME PrefsInv, CountAttributes PROVE PrefsInv'
BY DictionaryIs DEF CountAttributes, PrefsInv

LEMMA RereadEndsKeeps == ASSUME PrefsInv, RereadEnds PROVE PrefsInv'
BY DEF RereadEnds, PrefsInv

-----------------------------------------------------------------------------
(* Rereading the elements *)

\* The attribute of the element e is as the element.
AsElement(a, e) ==
    \E k : IsActive(a, k, e.name) /\ a[k].type = e.type /\ a[k].values = e.values

ElementReread(d, r, e) ==
    /\ r \in Rereads /\ SoundEntries(r.attrs, r.valid) /\ r.tree = d.tree
    /\ ~r.dangling => ~d.dangling /\ Others(d.attrs, r.attrs, e.name) /\ AsElement(r.attrs, e)
    /\ r.dangling => d.dangling \/ \E k : IsActive(d.attrs, k, e.name) /\ d.attrs[k].type # e.type

LEMMA RereadElementIs ==
    ASSUME NEW d \in Rereads, SoundEntries(d.attrs, d.valid), NEW e \in Elements, e.name \in PrefNames
    PROVE  ElementReread(d, RereadElement(d, e), e)
<1> SUFFICES ASSUME NEW r, r = RereadElement(d, e)
             PROVE  ElementReread(d, r, e)
  OBVIOUS
<1> DEFINE n  == e.name
           k  == GetAttrInfoByName(d, n)
           d1 == IF k = 0 THEN AddAttribute(d, n, e.type) ELSE d
           j  == GetAttrInfoByName(d1, n)
           strange == d.dangling \/ (k # 0 /\ d.attrs[k].type # e.type)
<1>1. e.type \in PrefTypes /\ e.values \in Seq(PrefValues) /\ n \in PrefNames
  BY DEF Elements
<1>2. r = IF strange THEN [d EXCEPT !.dangling = TRUE] ELSE [d1 EXCEPT !.attrs[j].values = e.values]
  BY DEF RereadElement
<1>3. k # 0 => IsActive(d.attrs, k, n)
  BY LookupSome
<1>4. CASE strange
  <2>1. r = [d EXCEPT !.dangling = TRUE]
    BY <1>2, <1>4
  <2>2. r \in Rereads /\ r.attrs = d.attrs /\ r.valid = d.valid /\ r.tree = d.tree /\ r.dangling
    BY <2>1 DEF Rereads
  <2>3. d.dangling \/ \E m : IsActive(d.attrs, m, n) /\ d.attrs[m].type # e.type
    BY <1>3, <1>4
  <2> QED
    BY <2>2, <2>3 DEF ElementReread
<1>5. CASE ~strange
  <2>1. \A m : IsActive(d.attrs, m, n) => d.attrs[m].type = e.type
    <3> SUFFICES ASSUME NEW m, IsActive(d.attrs, m, n) PROVE d.attrs[m].type = e.type
      OBVIOUS
    <3>1. k = m
      BY LookupIs
    <3>2. m # 0
      BY EntriesAre DEF IsActive
    <3> QED
      BY <1>5, <3>1, <3>2
  <2>2. AttributeAdded(d, AddAttribute(d, n, e.type), n, e.type)
    BY <1>1, <2>1, AddAttributeIs
  <2>3. AttributeAdded(d, d1, n, e.type)
    <3>1. CASE k = 0
      BY <2>2, <3>1
    <3>2. CASE k # 0
      <4>1. IsActive(d.attrs, k, n) /\ d1 = d
        BY <1>3, <3>2
      <4> QED
        BY <2>1, <4>1, OthersSame DEF AttributeAdded
    <3> QED
      BY <3>1, <3>2
  <2>4. r = [d1 EXCEPT !.attrs[j].values = e.values]
    BY <1>2, <1>5
  <2> HIDE DEF d1
  <2>5. /\ d1 \in Rereads /\ SoundEntries(d1.attrs, d1.valid) /\ d1.tree = d.tree
        /\ (d1.dangling <=> d.dangling) /\ Others(d.attrs, d1.attrs, n)
    BY <2>3 DEF AttributeAdded
  <2>6. IsActive(d1.attrs, j, n) /\ d1.attrs[j].type = e.type
    <3>1. PICK m : IsActive(d1.attrs, m, n) /\ d1.attrs[m].type = e.type
      BY <2>3 DEF AttributeAdded
    <3>2. j = m
      BY <2>5, <3>1, LookupIs
    <3> QED
      BY <3>1, <3>2
  <2> HIDE DEF j
  <2> DEFINE a == d1.attrs
             x == [a[j] EXCEPT !.values = e.values]
             b == [a EXCEPT ![j] = x]
  <2>7. j \in 1..Len(a) /\ a[j].name = n /\ a[j] \in AttrRecords /\ ~a[j].removed
    BY <2>5, <2>6, EntryParts DEF IsActive
  <2>8. r = WithEntries(d1, b, d1.valid)
    <3>1. r = [d1 EXCEPT !.attrs = b]
      BY <2>4
    <3>2. d1 = [attrs |-> a, valid |-> d1.valid, tree |-> d1.tree, dangling |-> d1.dangling]
      BY <2>5 DEF Rereads
    <3> HIDE DEF a, b
    <3> QED
      BY <3>1, <3>2 DEF WithEntries
  <2>9. /\ x \in AttrRecords /\ x.name = a[j].name /\ x.type = a[j].type /\ x.values = e.values
        /\ (x.removed <=> a[j].removed)
    <3> HIDE DEF a
    <3> QED
      BY <1>1, <2>7 DEF AttrRecords
  <2> HIDE DEF x
  <2>10. CountedAs(a, d1.valid, j, x, d1.valid)
    BY <2>9 DEF CountedAs
  <2>11. EntryBecomes(a, b, d1.valid, j, x)
    BY <2>5, <2>7, <2>9, <2>10, EntryPut
  <2>12. SoundEntries(b, d1.valid) /\ Others(a, b, n) /\ Len(b) = Len(a) /\ b[j] = x
    BY <2>7, <2>11 DEF EntryBecomes
  <2> HIDE DEF b
  <2>13. FieldsAre(d1, r, b, d1.valid)
    <3>1. b \in Seq(AttrRecords) /\ d1.valid \in Int
      BY <2>12, EntriesAre
    <3> QED
      BY <2>5, <2>8, <3>1, MapExcept
  <2>14. Others(d.attrs, b, n)
    BY <2>5, <2>12, EntriesAre DEF Others
  <2>15. IsActive(b, j, n) /\ b[j].type = e.type /\ b[j].values = e.values
    BY <2>6, <2>7, <2>9, <2>12 DEF IsActive
  <2>16. r.attrs = b /\ r.valid = d1.valid /\ r.tree = d.tree /\ (r.dangling <=> d.dangling) /\ r \in Rereads
    BY <2>5, <2>13 DEF FieldsAre
  <2>17. AsElement(b, e)
    BY <2>15 DEF AsElement
  <2> QED
    BY <1>5, <2>12, <2>14, <2>16, <2>17 DEF ElementReread
<1> QED
  BY <1>4, <1>5

NamesTo(t, m) == {t[i].name : i \in 1..m}

\* Entries with names that are not in S are the same.
OthersKept(a, b, S) ==
    /\ Len(a) <= Len(b)
    /\ \A k \in 1..Len(a) : b[k].name = a[k].name /\ (a[k].name \notin S => b[k] = a[k])
    /\ \A k \in 1..Len(b) : k \in 1..Len(a) \/ b[k].name \in S

\* r is d, after the first m elements of t.
ElementsReread(d, r, t, m) ==
    /\ r \in Rereads /\ SoundEntries(r.attrs, r.valid) /\ r.tree = d.tree
    /\ ~r.dangling => /\ OthersKept(d.attrs, r.attrs, NamesTo(t, m))
                      /\ \A i \in 1..m : AsElement(r.attrs, t[i])
    /\ r.dangling => \E i \in 1..m, k \in 1..Len(d.attrs) :
                        IsActive(d.attrs, k, t[i].name) /\ d.attrs[k].type # t[i].type

LEMMA ElementsStep ==
    ASSUME NEW d \in Rereads, SoundEntries(d.attrs, d.valid), NEW t \in ModuleFiles, NEW m \in Nat,
           m + 1 <= Len(t), NEW r, ElementsReread(d, r, t, m),
           NEW s, s = RereadElement(r, t[m + 1])
    PROVE  ElementsReread(d, s, t, m + 1)
<1>1. t \in Files /\ Len(t) \in Nat /\ Once(t)
  BY FilesAre DEF ModuleFiles
<1>2. PICK l \in Nat : l = m + 1
  OBVIOUS
<1>3. /\ l \in 1..Len(t) /\ 1..m \subseteq 1..l /\ 1..m \subseteq 1..Len(t)
      /\ \A i \in 1..l : i \in 1..m \/ i = l
  BY <1>1, <1>2
<1>4. \A i \in 1..m : t[i].name # t[l].name
  <2> SUFFICES ASSUME NEW i \in 1..m PROVE t[i].name # t[l].name
    OBVIOUS
  <2>1. i \in 1..Len(t) /\ i # l
    BY <1>2, <1>3
  <2> QED
    BY <1>1, <1>3, <2>1 DEF Once
<1>5. t[l] \in Elements /\ t[l].name \in PrefNames
  BY <1>1, <1>3, ElementParts DEF ModuleFiles
<1>6. r \in Rereads /\ SoundEntries(r.attrs, r.valid) /\ r.tree = d.tree
  BY DEF ElementsReread
<1>7. ElementReread(r, s, t[l])
  BY <1>2, <1>5, <1>6, RereadElementIs
<1>8. s \in Rereads /\ SoundEntries(s.attrs, s.valid) /\ s.tree = d.tree
  BY <1>6, <1>7 DEF ElementReread
<1>9. Len(d.attrs) \in Nat /\ Len(r.attrs) \in Nat /\ Len(s.attrs) \in Nat
  BY <1>6, <1>8, EntriesAre
<1>10. ASSUME ~s.dangling
       PROVE  OthersKept(d.attrs, s.attrs, NamesTo(t, l)) /\ \A i \in 1..l : AsElement(s.attrs, t[i])
  <2>1. ~r.dangling /\ Others(r.attrs, s.attrs, t[l].name) /\ AsElement(s.attrs, t[l])
    BY <1>7, <1>10 DEF ElementReread
  <2>2. OthersKept(d.attrs, r.attrs, NamesTo(t, m)) /\ \A i \in 1..m : AsElement(r.attrs, t[i])
    BY <2>1 DEF ElementsReread
  <2>3. NamesTo(t, l) = NamesTo(t, m) \cup {t[l].name}
    BY <1>2, <1>3 DEF NamesTo
  <2>4. OthersKept(d.attrs, s.attrs, NamesTo(t, l))
    <3>1. Len(d.attrs) <= Len(s.attrs)
      BY <1>9, <2>1, <2>2 DEF OthersKept, Others
    <3>2. ASSUME NEW k \in 1..Len(d.attrs)
          PROVE  /\ s.attrs[k].name = d.attrs[k].name
                 /\ d.attrs[k].name \notin NamesTo(t, l) => s.attrs[k] = d.attrs[k]
      <4>1. /\ r.attrs[k].name = d.attrs[k].name
            /\ d.attrs[k].name \notin NamesTo(t, m) => r.attrs[k] = d.attrs[k]
        BY <2>2 DEF OthersKept
      <4>2. k \in 1..Len(r.attrs)
        BY <1>9, <2>2 DEF OthersKept
      <4>3. s.attrs[k].name = r.attrs[k].name /\ (r.attrs[k].name # t[l].name => s.attrs[k] = r.attrs[k])
        BY <2>1, <4>2 DEF Others
      <4> QED
        BY <2>3, <4>1, <4>3
    <3>3. ASSUME NEW k \in 1..Len(s.attrs)
          PROVE  k \in 1..Len(d.attrs) \/ s.attrs[k].name \in NamesTo(t, l)
      <4>1. CASE k \in 1..Len(r.attrs)
        <5>1. k \in 1..Len(d.attrs) \/ r.attrs[k].name \in NamesTo(t, m)
          BY <2>2, <4>1 DEF OthersKept
        <5>2. s.attrs[k].name = r.attrs[k].name
          BY <2>1, <4>1 DEF Others
        <5> QED
          BY <2>3, <5>1, <5>2
      <4>2. CASE s.attrs[k].name = t[l].name
        BY <2>3, <4>2
      <4> QED
        BY <2>1, <4>1, <4>2 DEF Others
    <3> QED
      BY <3>1, <3>2, <3>3 DEF OthersKept
  <2>5. ASSUME NEW i \in 1..m PROVE AsElement(s.attrs, t[i])
    <3>1. PICK k : /\ IsActive(r.attrs, k, t[i].name) /\ r.attrs[k].type = t[i].type
                   /\ r.attrs[k].values = t[i].values
      BY <2>2 DEF AsElement
    <3>2. k \in 1..Len(r.attrs) /\ r.attrs[k].name # t[l].name
      BY <1>4, <3>1 DEF IsActive
    <3>3. s.attrs[k] = r.attrs[k] /\ k \in 1..Len(s.attrs)
      BY <1>9, <2>1, <3>2, SMTT(30) DEF Others
    <3> QED
      BY <3>1, <3>3 DEF AsElement, IsActive
  <2> QED
    BY <1>3, <2>1, <2>4, <2>5
<1>11. ASSUME s.dangling
       PROVE  \E i \in 1..l, k \in 1..Len(d.attrs) :
                 IsActive(d.attrs, k, t[i].name) /\ d.attrs[k].type # t[i].type
  <2>1. CASE r.dangling
    BY <1>3, <2>1 DEF ElementsReread
  <2>2. CASE ~r.dangling
    <3>1. PICK k : IsActive(r.attrs, k, t[l].name) /\ r.attrs[k].type # t[l].type
      BY <1>7, <1>11, <2>2 DEF ElementReread
    <3>2. OthersKept(d.attrs, r.attrs, NamesTo(t, m))
      BY <2>2 DEF ElementsReread
    <3>3. t[l].name \notin NamesTo(t, m)
      BY <1>4 DEF NamesTo
    <3>4. k \in 1..Len(r.attrs) /\ r.attrs[k].name = t[l].name
      BY <3>1 DEF IsActive
    <3>5. k \in 1..Len(d.attrs) /\ r.attrs[k] = d.attrs[k]
      BY <3>2, <3>3, <3>4 DEF OthersKept
    <3>6. l \in 1..l
      BY <1>3, <1>2
    <3> QED
      BY <3>1, <3>5, <3>6 DEF IsActive
  <2> QED
    BY <2>1, <2>2
<1> QED
  BY <1>2, <1>8, <1>10, <1>11 DEF ElementsReread

LEMMA RereadElementsAre ==
    ASSUME NEW d \in Rereads, SoundEntries(d.attrs, d.valid), ~d.dangling, NEW t \in ModuleFiles
    PROVE  ElementsReread(d, RereadElements(d, t), t, Len(t))
<1> DEFINE N == Len(t)
           Y == {x \in Rereads : SoundEntries(x.attrs, x.valid)}
           step == [p \in (1..N) \X Y |-> RereadElement(p[2], t[p[1]])]
           Rec(i, h) == IF i = 0 THEN d ELSE RereadElement(h[i - 1], t[i])
           Is(h) == h = [i \in 0..N |-> Rec(i, h)]
<1>0. N \in Nat /\ d \in Y /\ t \in Files
  BY FilesAre DEF ModuleFiles
<1>1. step \in [(1..N) \X Y -> Y]
  <2>1. ASSUME NEW p \in (1..N) \X Y PROVE RereadElement(p[2], t[p[1]]) \in Y
    <3>1. PICK x, i : x = p[2] /\ i = p[1]
      OBVIOUS
    <3>2. x \in Rereads /\ SoundEntries(x.attrs, x.valid) /\ i \in 1..N
      BY <3>1
    <3>3. t[i] \in Elements /\ t[i].name \in PrefNames
      BY <1>0, <3>2, ElementParts DEF ModuleFiles
    <3>4. ElementReread(x, RereadElement(x, t[i]), t[i])
      BY <3>2, <3>3, RereadElementIs
    <3> QED
      BY <3>1, <3>4 DEF ElementReread
  <2> HIDE DEF Y, N
  <2> QED
    BY <2>1
<1>2. \E h : Stepwise(h, N, Y, d, step)
  <2> HIDE DEF step, N, Y
  <2> QED
    BY <1>0, <1>1, StepsExist
<1>3. PICK h \in [0..N -> Y] : h = [i \in 0..N |-> IF i = 0 THEN d ELSE step[<<i, h[i - 1]>>]]
  <2> HIDE DEF step, N, Y
  <2> QED
    BY <1>2 DEF Stepwise
<1>4. Is(h)
  <2>1. ASSUME NEW i \in 0..N, i # 0
        PROVE  step[<<i, h[i - 1]>>] = RereadElement(h[i - 1], t[i])
    <3>1. i \in 1..N /\ h[i - 1] \in Y
      BY <2>1, <1>0
    <3> HIDE DEF Y, N
    <3> QED
      BY <3>1
  <2> HIDE DEF step, N, Y
  <2> QED
    BY <1>3, <2>1
<1>5. PICK g : g = CHOOSE k : Is(k)
  OBVIOUS
<1>6. Is(g)
  <2> HIDE DEF Is
  <2> QED
    BY <1>4, <1>5
<1>7. RereadElements(d, t) = g[N]
  BY <1>5 DEF RereadElements
<1>8. \A i \in 0..N : g[i] = Rec(i, g)
  <2> HIDE DEF N
  <2> QED
    BY <1>6
<1>9. \A i \in 0..N : ElementsReread(d, g[i], t, i)
  <2> DEFINE P == {n \in Nat : n <= N => ElementsReread(d, g[n], t, n)}
  <2>1. 0 \in P
    <3>1. g[0] = d
      BY <1>0, <1>8
    <3>2. OthersKept(d.attrs, d.attrs, NamesTo(t, 0))
      BY EntriesAre DEF OthersKept
    <3>3. \A i \in 1..0 : FALSE
      OBVIOUS
    <3>4. ElementsReread(d, d, t, 0)
      BY <3>2, <3>3 DEF ElementsReread
    <3> QED
      BY <3>1, <3>4
  <2>2. ASSUME NEW n \in Nat, n \in P PROVE n + 1 \in P
    <3> SUFFICES ASSUME n + 1 <= N PROVE ElementsReread(d, g[n + 1], t, n + 1)
      OBVIOUS
    <3>1. ElementsReread(d, g[n], t, n) /\ n + 1 \in 0..N /\ n + 1 # 0 /\ (n + 1) - 1 = n
      BY <2>2, <1>0
    <3>2. g[n + 1] = RereadElement(g[n], t[n + 1])
      BY <3>1, <1>8
    <3> HIDE DEF Rec
    <3> QED
      BY <3>1, <3>2, ElementsStep
  <2> HIDE DEF P
  <2>3. \A n \in Nat : n \in P
    BY <2>1, <2>2, NumberInduction
  <2> QED
    BY <2>3, <1>0 DEF P
<1> QED
  BY <1>0, <1>7, <1>9

\* The counts let the service see every attribute.
LEMMA NamesSeen ==
    ASSUME PrefsInv, phase = "counted", NEW k \in Active
    PROVE  attrs[k].name \in NamesBefore
<1> DEFINE B == {y \in Active : y < k}
<1>1. /\ SoundEntries(attrs, valid) /\ counted = Len(attrs) /\ Len(attrs) \in Nat
      /\ DOMAIN attrs = 1..Len(attrs) /\ IsFiniteSet(ActiveIn(attrs)) /\ valid \in Nat
      /\ valid = Cardinality(ActiveIn(attrs))
  BY EntriesAre DEF PrefsInv
<1>2. Active = ActiveIn(attrs)
  BY <1>1 DEF Active, ActiveIn
<1>3. valid <= Len(attrs)
  <2>1. ActiveIn(attrs) \subseteq 1..Len(attrs) /\ IsFiniteSet(1..Len(attrs))
        /\ Cardinality(1..Len(attrs)) = Len(attrs)
    <3>1. IsFiniteSet(1..Len(attrs)) /\ Cardinality(1..Len(attrs)) = Len(attrs)
      <4>1. 1 \in Int /\ Len(attrs) \in Int
        BY <1>1
      <4>2. /\ IsFiniteSet(1..Len(attrs))
            /\ Cardinality(1..Len(attrs)) = IF 1 > Len(attrs) THEN 0 ELSE Len(attrs) - 1 + 1
        BY <4>1, FS_Interval
      <4> QED
        BY <1>1, <4>2
    <3> QED
      BY <3>1 DEF ActiveIn
  <2> QED
    BY <1>1, <2>1, FS_Subset
<1>4. Cardinality(B) < valid
  <2>1. B \subseteq Active \ {k}
    BY <1>1, <1>2 DEF ActiveIn
  <2>2. IsFiniteSet(Active \ {k}) /\ Cardinality(Active \ {k}) = valid - 1
    BY <1>1, <1>2, FS_RemoveElement
  <2>3. Cardinality(B) <= Cardinality(Active \ {k}) /\ IsFiniteSet(B)
    BY <2>1, <2>2, FS_Subset
  <2>4. Cardinality(B) \in Nat
    BY <2>3, FS_CardinalityType
  <2> QED
    BY <1>1, <2>2, <2>3, <2>4
<1>5. Min({counted, valid}) = valid
  BY <1>1, <1>3 DEF Min
<1>6. k \in {x \in Active : Cardinality({y \in Active : y < x}) < Min({counted, valid})}
  BY <1>4, <1>5
<1> QED
  BY <1>6 DEF NamesBefore

\* What the reread leaves.
MissingRemoved(r, s, names) ==
    /\ SoundEntries(s.attrs, s.valid) /\ s.tree = r.tree /\ s.dangling = r.dangling
    /\ Len(s.attrs) = Len(r.attrs)
    /\ \A k \in 1..Len(r.attrs) :
          /\ s.attrs[k].name = r.attrs[k].name /\ s.attrs[k].type = r.attrs[k].type
          /\ s.attrs[k].values = r.attrs[k].values
          /\ ~s.attrs[k].removed <=> ~r.attrs[k].removed /\ r.attrs[k].name \in names

LEMMA RemoveMissingIs ==
    ASSUME PrefsInv, phase = "counted", NEW r \in Rereads, SoundEntries(r.attrs, r.valid),
           OthersKept(attrs, r.attrs, NamesTo(tree, Len(tree)))
    PROVE  MissingRemoved(r, RemoveMissing(r), NamesTo(tree, Len(tree)))
<1> DEFINE names == NamesTo(tree, Len(tree))
           a == r.attrs
           gone == {GetAttrInfoByName(r, n) : n \in NamesBefore \ {tree[k].name : k \in DOMAIN tree}}
           b == [k \in DOMAIN a |-> IF k \notin gone THEN a[k] ELSE RemoveAttribute(a[k])]
           v == r.valid - Cardinality(gone)
           s == RemoveMissing(r)
<1>1. /\ SoundEntries(attrs, valid) /\ DOMAIN attrs = 1..Len(attrs) /\ Len(attrs) \in Nat
      /\ tree \in Files
  BY EntriesAre DEF PrefsInv, ModuleFiles
<1>2. names = {tree[k].name : k \in DOMAIN tree}
  BY <1>1, FilesAre DEF NamesTo
<1>3. /\ a \in Seq(AttrRecords) /\ OneEntryEach(a) /\ Len(a) \in Nat /\ DOMAIN a = 1..Len(a)
      /\ r.valid \in Nat /\ IsFiniteSet(ActiveIn(a)) /\ r.valid = Cardinality(ActiveIn(a))
  BY EntriesAre
<1>4. gone = {k \in ActiveIn(a) : a[k].name \notin names}
  <2>1. ASSUME NEW n \in NamesBefore, n \notin names
        PROVE  GetAttrInfoByName(r, n) \in {k \in ActiveIn(a) : a[k].name \notin names}
    <3>1. PICK k \in Active : attrs[k].name = n
      BY <2>1 DEF NamesBefore
    <3>2. k \in 1..Len(attrs) /\ ~attrs[k].removed
      BY <1>1, <3>1 DEF Active
    <3>3. k \in 1..Len(a) /\ a[k] = attrs[k]
      BY <1>1, <1>3, <2>1, <3>1, <3>2 DEF OthersKept
    <3>4. IsActive(a, k, n)
      BY <3>1, <3>2, <3>3 DEF IsActive
    <3>5. GetAttrInfoByName(r, n) = k
      BY <3>4, LookupIs
    <3> QED
      BY <2>1, <3>1, <3>2, <3>3, <3>5 DEF ActiveIn
  <2>2. ASSUME NEW k \in ActiveIn(a), a[k].name \notin names
        PROVE  k \in gone
    <3> DEFINE n == a[k].name
    <3>1. k \in 1..Len(a) /\ ~a[k].removed
      BY DEF ActiveIn
    <3>2. k \in 1..Len(attrs) /\ attrs[k].name = n /\ a[k] = attrs[k]
      BY <2>2, <3>1 DEF OthersKept
    <3>3. k \in Active
      BY <1>1, <3>1, <3>2 DEF Active
    <3>4. n \in NamesBefore
      BY <3>2, <3>3, NamesSeen
    <3>5. GetAttrInfoByName(r, n) = k
      BY <3>1, LookupIs DEF IsActive
    <3> QED
      BY <1>2, <2>2, <3>4, <3>5
  <2> QED
    BY <1>2, <2>1, <2>2
<1>5. s = WithEntries(r, b, v)
  BY DEF RemoveMissing, WithEntries
<1> HIDE DEF gone, s
<1>6. IsFiniteSet(gone) /\ Cardinality(gone) \in Nat
  BY <1>3, <1>4, FS_Subset, FS_CardinalityType
<1>7. ASSUME NEW k \in 1..Len(a)
      PROVE  /\ b[k] \in AttrRecords /\ b[k].name = a[k].name /\ b[k].type = a[k].type
             /\ b[k].values = a[k].values
             /\ ~b[k].removed <=> ~a[k].removed /\ k \notin gone
  <2>1. a[k] \in AttrRecords /\ a[k].removed \in BOOLEAN
    BY EntryParts
  <2>2. CASE k \in gone
    <3>1. b[k] = [a[k] EXCEPT !.removed = TRUE]
      BY <1>3, <2>2 DEF RemoveAttribute
    <3> HIDE DEF b, a
    <3> QED
      BY <2>1, <2>2, <3>1 DEF AttrRecords
  <2>3. CASE k \notin gone
    <3>1. b[k] = a[k]
      BY <1>3, <2>3
    <3> HIDE DEF b, a
    <3> QED
      BY <2>1, <2>3, <3>1
  <2> QED
    BY <2>2, <2>3
<1>8. b \in Seq(AttrRecords) /\ Len(b) = Len(a)
  <2>1. b \in [1..Len(a) -> AttrRecords]
    <3>1. b = [k \in 1..Len(a) |-> IF k \notin gone THEN a[k] ELSE RemoveAttribute(a[k])]
      BY <1>3
    <3> QED
      BY <1>7, <3>1
  <2> HIDE DEF b
  <2> QED
    BY <1>3, <2>1, IsASeq
<1> HIDE DEF b
<1>9. OneEntryEach(b)
  BY <1>3, <1>7, <1>8 DEF OneEntryEach
<1>10. IsFiniteSet(ActiveIn(b)) /\ v = Cardinality(ActiveIn(b))
  <2>1. ActiveIn(b) = ActiveIn(a) \ gone
    BY <1>7, <1>8 DEF ActiveIn
  <2>2. gone \subseteq ActiveIn(a) /\ ActiveIn(a) \cap gone = gone
    BY <1>4
  <2>3. /\ IsFiniteSet(ActiveIn(a) \ gone)
        /\ Cardinality(ActiveIn(a) \ gone) = Cardinality(ActiveIn(a)) - Cardinality(ActiveIn(a) \cap gone)
    BY <1>3, FS_Difference
  <2> QED
    BY <1>3, <2>1, <2>2, <2>3
<1>11. v \in Int
  BY <1>3, <1>6
<1> HIDE DEF v
<1>12. FieldsAre(r, s, b, v)
  BY <1>5, <1>8, <1>11, MapExcept
<1>13. /\ s.attrs = b /\ s.valid = v /\ s.tree = r.tree /\ s.dangling = r.dangling
  BY <1>12 DEF FieldsAre
<1>14. SoundEntries(b, v)
  BY <1>8, <1>9, <1>10 DEF SoundEntries
<1>15. \A k \in 1..Len(a) : ~b[k].removed <=> ~a[k].removed /\ a[k].name \in names
  BY <1>4, <1>7 DEF ActiveIn
<1> QED
  BY <1>7, <1>8, <1>13, <1>14, <1>15 DEF MissingRemoved, s

\* What the reread leaves, if it did not stop.
LEMMA RereadObjectIs ==
    ASSUME PrefsInv, RereadObjectPreferences
    PROVE  /\ tree' = tree /\ SoundEntries(attrs', valid') /\ dangling' \in BOOLEAN
           /\ ~dangling' =>
                 /\ \A i \in 1..Len(tree) : AsElement(attrs', tree[i])
                 /\ \A k \in 1..Len(attrs') : ~attrs'[k].removed =>
                       \E i \in 1..Len(tree) : tree[i].name = attrs'[k].name
           /\ dangling' => \E i \in 1..Len(tree), k \in 1..Len(attrs) :
                              IsActive(attrs, k, tree[i].name) /\ attrs[k].type # tree[i].type
<1> DEFINE begun == [attrs |-> attrs, valid |-> valid, tree |-> tree, dangling |-> FALSE]
           all   == RereadElements(begun, tree)
           done  == IF all.dangling THEN all ELSE RemoveMissing(all)
           N     == Len(tree)
<1>1. phase = "counted" /\ attrs' = done.attrs /\ valid' = done.valid /\ tree' = done.tree
      /\ dangling' = done.dangling
  BY DEF RereadObjectPreferences, Becoming
<1>2. SoundEntries(attrs, valid) /\ tree \in ModuleFiles /\ tree \in Seq(Elements)
  BY DEF PrefsInv, ModuleFiles, Files
<1>3. begun \in Rereads
  <2>1. attrs \in Seq(AttrRecords) /\ valid \in Int
    BY <1>2, EntriesAre
  <2> QED
    BY <1>2, <2>1 DEF Rereads
<1>4. begun.attrs = attrs /\ begun.valid = valid /\ begun.tree = tree /\ ~begun.dangling
  OBVIOUS
<1> HIDE DEF begun
<1>5. ElementsReread(begun, all, tree, N)
  BY <1>2, <1>3, <1>4, RereadElementsAre
<1> HIDE DEF all
<1>6. all \in Rereads /\ SoundEntries(all.attrs, all.valid) /\ all.tree = tree /\ all.dangling \in BOOLEAN
  BY <1>4, <1>5 DEF ElementsReread, Rereads
<1>7. CASE all.dangling
  <2>1. done = all
    BY <1>7
  <2>2. \E i \in 1..N, k \in 1..Len(attrs) :
            IsActive(attrs, k, tree[i].name) /\ attrs[k].type # tree[i].type
    BY <1>4, <1>5, <1>7 DEF ElementsReread
  <2> QED
    BY <1>1, <1>6, <1>7, <2>1, <2>2
<1>8. CASE ~all.dangling
  <2>1. done = RemoveMissing(all)
    BY <1>8
  <2>2. OthersKept(attrs, all.attrs, NamesTo(tree, N)) /\ \A i \in 1..N : AsElement(all.attrs, tree[i])
    BY <1>4, <1>5, <1>8 DEF ElementsReread
  <2>3. MissingRemoved(all, done, NamesTo(tree, N))
    BY <1>1, <1>6, <2>1, <2>2, RemoveMissingIs
  <2> HIDE DEF done
  <2>4. /\ SoundEntries(done.attrs, done.valid) /\ done.tree = tree /\ done.dangling = all.dangling
        /\ Len(done.attrs) = Len(all.attrs)
        /\ \A k \in 1..Len(all.attrs) :
              /\ done.attrs[k].name = all.attrs[k].name /\ done.attrs[k].type = all.attrs[k].type
              /\ done.attrs[k].values = all.attrs[k].values
              /\ ~done.attrs[k].removed <=> ~all.attrs[k].removed /\ all.attrs[k].name \in NamesTo(tree, N)
    BY <1>6, <2>3 DEF MissingRemoved
  <2>5. ASSUME NEW i \in 1..N PROVE AsElement(done.attrs, tree[i])
    <3>1. PICK k : /\ IsActive(all.attrs, k, tree[i].name) /\ all.attrs[k].type = tree[i].type
                   /\ all.attrs[k].values = tree[i].values
      BY <2>2 DEF AsElement
    <3>2. k \in 1..Len(all.attrs) /\ all.attrs[k].name \in NamesTo(tree, N)
      BY <3>1 DEF IsActive, NamesTo
    <3>3. IsActive(done.attrs, k, tree[i].name)
      BY <2>4, <3>1, <3>2 DEF IsActive
    <3> QED
      BY <2>4, <3>1, <3>2, <3>3 DEF AsElement
  <2>6. \A k \in 1..Len(done.attrs) : ~done.attrs[k].removed =>
           \E i \in 1..N : tree[i].name = done.attrs[k].name
    BY <2>4 DEF NamesTo
  <2>7. dangling' = FALSE
    <3>1. dangling' = all.dangling
      BY <1>1, <2>4
    <3> QED
      BY <1>6, <1>8, <3>1
  <2> QED
    BY <1>1, <2>4, <2>5, <2>6, <2>7
<1> QED
  BY <1>7, <1>8

LEMMA RereadObjectKeeps == ASSUME PrefsInv, RereadObjectPreferences PROVE PrefsInv'
<1>1. /\ tree' = tree /\ SoundEntries(attrs', valid') /\ dangling' \in BOOLEAN
      /\ ~dangling' => \A i \in 1..Len(tree) : AsElement(attrs', tree[i])
  BY RereadObjectIs
<1>2. /\ phase' = "role" /\ counted' = 0 /\ ~dangling
      /\ UNCHANGED <<serverTree, portValues, mistyped, unsaved, calls>>
  BY DEF RereadObjectPreferences
<1>3. ~dangling' => AllFollow(attrs', tree', unsaved')
  <2> SUFFICES ASSUME ~dangling', NEW i \in 1..Len(tree)
               PROVE  \E k \in 1..Len(attrs') : Agrees(attrs'[k], tree[i], unsaved)
    BY <1>1, <1>2 DEF AllFollow
  <2>1. PICK k : /\ IsActive(attrs', k, tree[i].name) /\ attrs'[k].type = tree[i].type
                 /\ attrs'[k].values = tree[i].values
    BY <1>1 DEF AsElement
  <2>2. Len(tree[i].values) \in Nat
    BY ElementParts DEF PrefsInv, ModuleFiles
  <2> QED
    BY <2>1, <2>2 DEF IsActive, Agrees, Starts
<1> QED
  BY <1>1, <1>2, <1>3 DEF PrefsInv

LEMMA PrefsStep == PrefsInv /\ [PrefsNext]_prefsVars => PrefsInv'
<1> SUFFICES ASSUME PrefsInv, [PrefsNext]_prefsVars PROVE PrefsInv'
  OBVIOUS
<1>1. \A i \in 0..(MaxPrefValues - 1) : i \in Nat
  BY PrefConstants
<1>2. ASSUME NEW n \in PrefNames, NEW i \in 0..(MaxPrefValues - 1), RemovePrefValue(n, i)
      PROVE  PrefsInv'
  BY <1>1, <1>2, RemovePrefValueKeeps
<1>3. ASSUME NEW n \in PrefNames, NEW i \in 0..(MaxPrefValues - 1), NEW v \in PrefValues,
             SetPreference(n, i, v)
      PROVE  PrefsInv'
  BY <1>1, <1>3, SetPreferenceKeeps
<1>4. ASSUME NEW n \in PrefNames, RemovePreference(n) PROVE PrefsInv'
  BY <1>4, RemovePreferenceKeeps
<1>5. ASSUME NEW n \in PrefNames, NEW type \in PrefTypes, NEW v \in PrefValues, GetAttribute(n, type, v)
      PROVE  PrefsInv'
  BY <1>5, GetAttributeKeeps
<1>6. ASSUME NEW i \in 0..(MaxPrefValues - 1), NEW v \in PrefValues, SetPort(i, v)
      PROVE  PrefsInv'
  BY <1>1, <1>6, SetPortKeeps
<1>7. ASSUME NEW t \in PrefFiles \cup {tree}, NEW s \in PortFiles \cup {serverTree}, RereadBegins(t, s)
      PROVE  PrefsInv'
  BY <1>7, RereadBeginsKeeps
<1>8. CASE CountAttributes
  BY <1>8, CountAttributesKeeps
<1>9. CASE RereadObjectPreferences
  BY <1>9, RereadObjectKeeps
<1>10. CASE RereadEnds
  BY <1>10, RereadEndsKeeps
<1>11. CASE UNCHANGED prefsVars
  BY <1>11 DEF prefsVars, PrefsInv
<1> QED
  BY <1>2, <1>3, <1>4, <1>5, <1>6, <1>7, <1>8, <1>9, <1>10, <1>11 DEF PrefsNext

LEMMA PrefsAlways == PrefsSpec => []PrefsInv
<1>1. PrefsInit => PrefsInv
  BY PrefsInitially
<1>2. PrefsInv /\ [PrefsNext]_prefsVars => PrefsInv'
  BY PrefsStep
<1> QED
  BY <1>1, <1>2, PTL DEF PrefsSpec

LEMMA ValuesLead ==
    ASSUME NEW t \in Files, NEW i \in 1..Len(t), NEW w \in Seq(PrefValues), NEW free \in BOOLEAN,
           Starts(t[i].values, w, free)
    PROVE  Len(t[i].values) <= Len(w) /\ (~free => IsPrefix(t[i].values, w))
<1>1. t[i].values \in Seq(PrefValues)
  BY ElementParts
<1> QED
  BY <1>1, PrefixIs, Zenon DEF Starts

LEMMA InvFollows == PrefsInv => FileFollowsValues
<1> SUFFICES ASSUME PrefsInv, ~dangling PROVE FileFollowsValues
  BY DEF FileFollowsValues
<1>1. /\ serverTree \in Files /\ tree \in Files /\ portValues \in Seq(PrefValues)
      /\ SoundEntries(attrs, valid)
      /\ PortFollows(serverTree, portValues, unsaved, mistyped)
      /\ phase \in {"role", "idle"} => AllFollow(attrs, tree, unsaved)
  BY DEF PrefsInv, ModuleFiles
<1>2. /\ DOMAIN serverTree = 1..Len(serverTree) /\ DOMAIN tree = 1..Len(tree)
      /\ DOMAIN attrs = 1..Len(attrs)
  BY <1>1, FilesAre, EntriesAre
<1>3. ASSUME NEW i \in ElementsOf(serverTree, Port)
      PROVE  /\ Len(serverTree[i].values) <= Len(portValues)
             /\ Port \notin unsaved => IsPrefix(serverTree[i].values, portValues)
             /\ serverTree[i].type = "number" \/ mistyped
  <2>1. i \in 1..Len(serverTree) /\ serverTree[i].name = Port
    BY <1>2 DEF ElementsOf
  <2>2. /\ serverTree[i].type = "number" \/ mistyped
        /\ Starts(serverTree[i].values, portValues, Port \in unsaved) /\ (Port \in unsaved) \in BOOLEAN
    BY <1>1, <2>1 DEF PortFollows
  <2> QED
    BY <1>1, <2>1, <2>2, ValuesLead
<1>4. ASSUME phase \in {"role", "idle"}, NEW i \in DOMAIN tree
      PROVE  \E k \in Active : /\ attrs[k].name = tree[i].name /\ attrs[k].type = tree[i].type
                               /\ Leads(tree, tree[i].name, attrs[k].values)
  <2>1. PICK k \in 1..Len(attrs) : Agrees(attrs[k], tree[i], unsaved)
    BY <1>1, <1>2, <1>4 DEF AllFollow
  <2>2. /\ k \in Active /\ attrs[k].name = tree[i].name /\ attrs[k].type = tree[i].type
        /\ Starts(tree[i].values, attrs[k].values, tree[i].name \in unsaved)
        /\ (tree[i].name \in unsaved) \in BOOLEAN
    BY <1>2, <2>1 DEF Agrees, Active
  <2>3. attrs[k].values \in Seq(PrefValues)
    BY <1>1, EntryParts
  <2>4. /\ Len(tree[i].values) <= Len(attrs[k].values)
        /\ tree[i].name \notin unsaved => IsPrefix(tree[i].values, attrs[k].values)
    BY <1>1, <1>2, <2>2, <2>3, ValuesLead
  <2>5. ElementsOf(tree, tree[i].name) = {i}
    BY <1>1, <1>2, PlaceIs
  <2> QED
    BY <2>2, <2>4, <2>5 DEF Leads
<1> QED
  BY <1>3, <1>4 DEF FileFollowsValues, Leads

\* The file has the first values of what the server uses, until it is parsed again.
THEOREM FileIsFollowed == PrefsSpec => []FileFollowsValues
BY PrefsAlways, InvFollows, PTL

LEMMA PrefsTypesAre == PrefsInv => PrefsTypeOK
<1> SUFFICES ASSUME PrefsInv PROVE PrefsTypeOK
  OBVIOUS
<1>1. /\ tree \in Seq(Elements) /\ serverTree \in Seq(Elements) /\ portValues \in Seq(PrefValues)
      /\ SoundEntries(attrs, valid) /\ phase \in {"idle", "parsed", "counted", "role"}
      /\ dangling \in BOOLEAN /\ mistyped \in BOOLEAN /\ calls \in 0..MaxCalls
      /\ unsaved \subseteq PrefNames \cup {Port}
      /\ counted = IF phase = "counted" THEN Len(attrs) ELSE 0
  BY DEF PrefsInv, ModuleFiles, Files
<1>2. /\ attrs \in Seq(AttrRecords) /\ Len(attrs) \in Nat /\ DOMAIN attrs = 1..Len(attrs)
      /\ valid = Cardinality(ActiveIn(attrs))
  BY <1>1, EntriesAre
<1>3. Active = ActiveIn(attrs)
  BY <1>2 DEF Active, ActiveIn
<1>4. counted \in 0..Len(attrs)
  BY <1>1, <1>2
<1>5. {dangling, mistyped} \subseteq BOOLEAN
  BY <1>1, Zenon
<1> QED
  BY <1>1, <1>2, <1>3, <1>4, <1>5 DEF PrefsTypeOK, AttrRecords

\* The attributes, their count and the elements are of their types, with the entries that are
\* removed, and an entry is not counted twice.
THEOREM PrefsTypes == PrefsSpec => []PrefsTypeOK
BY PrefsTypesAre, PrefsAlways, PTL

\* A reread in which no preference changed its type makes the attributes those of the file.
THEOREM RereadTakesFile == PrefsSpec => RereadFollowsFile
<1> DEFINE Taken == /\ ~dangling'
                    /\ {attrs'[k].name : k \in Active'} = {tree[i].name : i \in DOMAIN tree}
                    /\ \A i \in DOMAIN tree : \E k \in Active' :
                          /\ attrs'[k].name = tree[i].name /\ attrs'[k].type = tree[i].type
                          /\ attrs'[k].values = tree[i].values
<1>1. ASSUME PrefsInv, RereadObjectPreferences, SameTypes
      PROVE  Taken
  <2>1. /\ SoundEntries(attrs', valid') /\ dangling' \in BOOLEAN
        /\ ~dangling' =>
              /\ \A i \in 1..Len(tree) : AsElement(attrs', tree[i])
              /\ \A k \in 1..Len(attrs') : ~attrs'[k].removed =>
                    \E i \in 1..Len(tree) : tree[i].name = attrs'[k].name
        /\ dangling' => \E i \in 1..Len(tree), k \in 1..Len(attrs) :
                           IsActive(attrs, k, tree[i].name) /\ attrs[k].type # tree[i].type
    BY <1>1, RereadObjectIs
  <2>2. /\ DOMAIN tree = 1..Len(tree) /\ DOMAIN attrs = 1..Len(attrs)
        /\ DOMAIN attrs' = 1..Len(attrs')
    BY <1>1, <2>1, FilesAre, EntriesAre DEF PrefsInv, ModuleFiles
  <2>3. Active' = {k \in 1..Len(attrs') : ~attrs'[k].removed}
    BY <2>2 DEF Active
  <2>4. ~dangling'
    <3>1. \A i \in 1..Len(tree), k \in 1..Len(attrs) :
             IsActive(attrs, k, tree[i].name) => attrs[k].type = tree[i].type
      BY <1>1, <2>2 DEF SameTypes, Active, IsActive
    <3> QED
      BY <2>1, <3>1
  <2>5. ASSUME NEW i \in DOMAIN tree
        PROVE  \E k \in Active' : /\ attrs'[k].name = tree[i].name /\ attrs'[k].type = tree[i].type
                                  /\ attrs'[k].values = tree[i].values
    BY <2>1, <2>2, <2>3, <2>4 DEF AsElement, IsActive
  <2>6. ASSUME NEW k \in Active' PROVE \E i \in DOMAIN tree : tree[i].name = attrs'[k].name
    BY <2>1, <2>2, <2>3, <2>4
  <2> QED
    BY <2>4, <2>5, <2>6
<1>2. PrefsInv /\ [PrefsNext]_prefsVars => [RereadObjectPreferences /\ SameTypes => Taken]_prefsVars
  BY <1>1
<1> QED
  BY <1>2, PrefsAlways, PTL DEF PrefsSpec, RereadFollowsFile

=============================================================================
