---------------------------- MODULE AttributeStore ----------------------------
(***************************************************************************)
(* One attribute of a QTSSDictionary: its values, and the memory they are  *)
(* in.  A single value lies in the attribute's block itself, and so do     *)
(* several of a fixed size; of several strings, or objects, the block      *)
(* holds pointers.  Preferences, for one, are such attributes, and reading *)
(* the file again sets their values in place, one after the other.         *)
(*                                                                         *)
(* Every operation holds the dictionary's mutex; LockObject keeps it for   *)
(* several, and only then GetValuePtr gives out pointers into the blocks.  *)
(* Blocks are opaque, and a size counts pointers.  The attribute is        *)
(* writable, not removed and without a retrieval function.                 *)
(***************************************************************************)
EXTENDS Naturals, FiniteSets, Sequences, SequencesExt

CONSTANTS
    Threads, NoThread,
    Contents,       \* values, and Size of each
    Size,
    FirstPointers,  \* 16: pointers in a new array of strings
    Supplied,       \* size of the buffer of SetEmptyVal
    MaxValues,      \* bound: values of the attribute
    Blocks,         \* heap blocks
    External,       \* the buffer of SetEmptyVal
    Nothing         \* nullptr, and memory that is not initialized

ASSUME StoreAssumption ==
    /\ NoThread \notin Threads /\ Size \in [Contents -> Nat \ {0}]
    /\ FirstPointers \in Nat \ {0, 1} /\ Supplied \in Nat /\ MaxValues \in Nat \ {0}
    /\ {External, Nothing} \cap (Blocks \cup Contents) = {} /\ External # Nothing
    /\ Blocks \cap Contents = {}
    /\ IsFiniteSet(Blocks) => Cardinality(Blocks) >= MaxValues + 2  \* memory does not run out

VARIABLES
    kind,       \* type of the attribute
    slot,       \* its DictValueElement
    heap,       \* the blocks in use, and the cells of each
    stray,      \* history: something was deleted that is not such a block
    stored,     \* history: the values that were set
    holder,     \* owner of fMutexP
    locked,     \* fLocked
    given,      \* the block that the owner of the lock was given a pointer into
    overlong    \* history: a string longer than the array was set in its first place

storeVars == <<kind, slot, heap, stray, stored, holder, locked, given, overlong>>

Cells     == [1..MaxValues -> Contents \cup Blocks \cup {Nothing}]
NewBlock  == [k \in 1..MaxValues |-> Nothing]
Null      == [num |-> 0, ptr |-> Nothing, len |-> 0, alloc |-> 0, internal |-> FALSE]

StoreTypeOK ==
    /\ kind \in {"string", "fixed", "object"}
    /\ slot \in [num : 0..MaxValues, ptr : Blocks \cup {External, Nothing}, len : Nat,
                 alloc : Nat, internal : BOOLEAN]
    /\ DOMAIN heap \subseteq Blocks \cup {External} /\ Range(heap) \subseteq Cells
    /\ {stray, locked, overlong} \subseteq BOOLEAN
    /\ stored \in Seq(Contents \cup Blocks) /\ holder \in Threads \cup {NoThread}
    /\ given \in Blocks \cup {External, Nothing}

\* Some attributes are given a buffer by SetEmptyVal.
StoreInit ==
    /\ kind \in {"string", "fixed", "object"}
    /\ slot \in {Null, [Null EXCEPT !.ptr = External, !.alloc = Supplied]}
    /\ kind = "object" => slot = Null
    /\ heap = [b \in {External} |-> NewBlock] /\ stray = FALSE /\ stored = <<>>
    /\ holder = NoThread /\ locked = FALSE /\ given = Nothing
    /\ overlong = FALSE

-----------------------------------------------------------------------------
(* Memory: m holds the slot, the heap and stray as an operation goes on. *)

Memory == [slot |-> slot, heap |-> heap, stray |-> stray]
Becomes(m) == slot' = m.slot /\ heap' = m.heap /\ stray' = m.stray

Fresh(h)         == CHOOSE b \in Blocks : b \notin DOMAIN h
New(m, b, cells) ==
    [m EXCEPT !.heap = [x \in DOMAIN @ \cup {b} |-> IF x = b THEN cells ELSE @[x]]]
Delete(m, b) ==
    [m EXCEPT !.heap = Restrict(@, DOMAIN @ \ {b}),
              !.stray = @ \/ b \notin DOMAIN m.heap \ {External}]
CellsOf(m, b) == IF b \in DOMAIN m.heap THEN m.heap[b] ELSE NewBlock
SetCell(m, k, x) ==
    [m EXCEPT !.heap = [b \in DOMAIN @ |-> IF b = m.slot.ptr THEN [@[b] EXCEPT ![k] = x]
                                           ELSE @[b]]]

\* The values are pointers: several strings, or objects.
Pointers(m) == kind = "object" \/ (kind = "string" /\ m.slot.num > 1)

-----------------------------------------------------------------------------
(* SetValue *)

\* The second string: the first moves to a block of its own, behind an array of pointers.
Split(m) ==
    LET first == Fresh(m.heap)
        m1    == Delete(New(m, first, CellsOf(m, m.slot.ptr)), m.slot.ptr)
        array == Fresh(m1.heap)
        m2    == New(m1, array, [NewBlock EXCEPT ![1] = first])
    IN  [m2 EXCEPT !.slot = [@ EXCEPT !.ptr = array, !.len = 1, !.alloc = FirstPointers,
                                      !.internal = TRUE]]

\* Room for place i: the old cells are copied unless the place is the first.
Enlarged(m, i, width) ==
    LET b  == Fresh(m.heap)
        m1 == New(m, b, IF i > 0 THEN CellsOf(m, m.slot.ptr) ELSE NewBlock)
        m2 == IF m.slot.internal THEN Delete(m1, m.slot.ptr) ELSE m1
    IN  IF width * (i + 1) <= m.slot.alloc THEN m
        ELSE [m2 EXCEPT !.slot = [@ EXCEPT !.ptr = b, !.internal = TRUE,
                                    !.alloc = IF i = 0 THEN width ELSE 2 * width * (i + 1)]]

\* A string of several is put into a block of its own, in place of the one it replaces.
StringPut(m, i, v) ==
    LET s   == Fresh(m.heap)
        old == CellsOf(m, m.slot.ptr)[i + 1]
        m1  == New(m, s, [NewBlock EXCEPT ![1] = v])
    IN  SetCell(IF i < m.slot.num THEN Delete(m1, old) ELSE m1, i + 1, s)

\* The value is written, and counted if it is a new one.
Numbered(m, i) == [m EXCEPT !.slot.num = IF i >= @ THEN i + 1 ELSE @]
Stored(m, i, v) ==
    IF kind = "string" /\ (m.slot.num >= 2 \/ i > 0) THEN StringPut(m, i, v)
    ELSE [SetCell(m, i + 1, v) EXCEPT !.slot.len = Size[v]]

Width(i, v) == IF kind = "string" /\ i > 0 THEN 1 ELSE Size[v]

\* The owner is not looked at.
MutexIgnored(t) == TRUE

\* The mutex is free, or t has it, and a call of its own ends the pointer it had.
MutexFree(t) == holder \in {t, NoThread}
Enter(t) ==
    /\ ~overlong /\ MutexFree(t)
    /\ given' = IF holder = t THEN Nothing ELSE given
    /\ UNCHANGED <<kind, holder, locked>>

\* Buffers of SetEmptyVal are for one value.
SetValue(t, i, v) ==
    LET m == IF kind = "string" /\ slot.num = 1 /\ i = 1 THEN Split(Memory) ELSE Memory IN
    /\ Enter(t) /\ kind # "object"
    /\ i <= slot.num /\ i < MaxValues /\ (i > 0 => slot.ptr # External)
    /\ kind = "fixed" /\ (i > 0 \/ slot.num > 1) /\ slot.len # 0 => Size[v] = slot.len
    /\ Becomes(Numbered(Stored(Enlarged(m, i, Width(i, v)), i, v), i))
    /\ stored' = IF i < Len(stored) THEN [stored EXCEPT ![i + 1] = v] ELSE Append(stored, v)
    /\ overlong' = (kind = "string" /\ i = 0 /\ slot.num > 1 /\ Size[v] > slot.alloc)

\* An object of its own, behind the others.
CreateObjectValue(t) ==
    LET i  == slot.num
        d  == Fresh(heap)
        m  == Enlarged(New(Memory, d, NewBlock), i, 1)
    IN  /\ Enter(t) /\ kind = "object" /\ i < MaxValues
        /\ Becomes(Numbered([SetCell(m, i + 1, d) EXCEPT !.slot.len = 1], i))
        /\ stored' = Append(stored, d) /\ UNCHANGED overlong

-----------------------------------------------------------------------------
(* RemoveValue *)

\* The last string stays behind its pointer.
OneLeftBehind(m) == m

\* When one string is left it takes the place of the array.
OneLeft(m) ==
    LET s      == CellsOf(m, m.slot.ptr)[1]
        length == Size[CellsOf(m, s)[1]]
    IN  IF kind # "string" \/ m.slot.num # 1 THEN m
        ELSE [Delete(m, m.slot.ptr) EXCEPT
                 !.slot = [@ EXCEPT !.ptr = s, !.len = length, !.alloc = length]]

Removed(m, i) ==
    LET cells == CellsOf(m, m.slot.ptr)
        m1 == IF Pointers(m) THEN Delete(m, cells[i + 1]) ELSE m
        m2 == [m1 EXCEPT !.heap = [b \in DOMAIN @ |->
                  IF b # m.slot.ptr THEN @[b]
                  ELSE [k \in 1..MaxValues |->
                           IF k > i /\ k < m.slot.num THEN cells[k + 1] ELSE cells[k]]]]
        m3 == [m2 EXCEPT !.slot.num = @ - 1,
                         !.slot.len = IF m.slot.num = 1 THEN 0 ELSE @]
    IN  OneLeft(m3)

\* Callers remove what is there: the index is not checked.
RemoveValue(t, i) ==
    /\ Enter(t) /\ i < slot.num
    /\ Becomes(Removed(Memory, i))
    /\ stored' = SubSeq(stored, 1, i) \o SubSeq(stored, i + 2, Len(stored))
    /\ UNCHANGED overlong

\* Strings and objects are removed from the last; of other values only the number changes.
SetNumValues(t, n) ==
    LET m == Memory
        removed[k \in 0..(slot.num - n)] ==
            IF k = 0 THEN m ELSE Removed(removed[k - 1], slot.num - k)
    IN
    /\ Enter(t) /\ n < slot.num
    /\ Becomes(IF kind = "fixed"
               THEN [m EXCEPT !.slot.num = n, !.slot.len = IF n = 0 THEN 0 ELSE @]
               ELSE removed[slot.num - n])
    /\ stored' = SubSeq(stored, 1, n)
    /\ UNCHANGED overlong

-----------------------------------------------------------------------------
(* Readers *)

LockObject(t) ==
    /\ holder = NoThread
    /\ holder' = t /\ locked' = TRUE
    /\ UNCHANGED <<kind, slot, heap, stray, stored, given, overlong>>
UnlockObject(t) ==
    /\ holder = t
    /\ holder' = NoThread /\ locked' = FALSE
    /\ given' = Nothing
    /\ UNCHANGED <<kind, slot, heap, stray, stored, overlong>>

\* The value at place i is found, and where it is.
Found(i)   == slot.len # 0 /\ (i = 0 \/ i < slot.num)
BlockOf(i) == IF kind = "string" /\ slot.num > 1 THEN CellsOf(Memory, slot.ptr)[i + 1] ELSE slot.ptr
ValueAt(i) == IF kind = "string" /\ slot.num > 1 THEN CellsOf(Memory, BlockOf(i))[1]
              ELSE CellsOf(Memory, slot.ptr)[i + 1]

\* The flag is looked at and not who has set it: a thread that did not lock the object is
\* given a pointer as well while another one has it, and that can go stale.
GetValuePtr(t, i) ==
    /\ ~overlong /\ locked /\ Found(i)
    /\ given' = IF holder = t THEN BlockOf(i) ELSE given
    /\ UNCHANGED <<kind, slot, heap, stray, stored, holder, locked, overlong>>

StoreNext ==
    \E t \in Threads :
        \/ \E i \in 0..(MaxValues - 1) :
               \/ \E v \in Contents : SetValue(t, i, v)
               \/ RemoveValue(t, i) \/ GetValuePtr(t, i)
        \/ CreateObjectValue(t)
        \/ \E n \in 0..(MaxValues - 1) : SetNumValues(t, n)
        \/ LockObject(t) \/ UnlockObject(t)

StoreSpec == StoreInit /\ [][StoreNext]_storeVars

-----------------------------------------------------------------------------

\* "the value of the attribute" (GetValuePtr): what was set and not removed is what is
\* read, in its place, whatever the order of the calls and the storage they change between.
ValuesKept ==
    ~overlong =>
        /\ slot.num = Len(stored)
        /\ \A i \in 0..(MaxValues - 1) : Found(i) <=> i < Len(stored)
        /\ \A i \in DOMAIN stored : ValueAt(i - 1) = stored[i]

\* The blocks that the attribute uses.
Reachable ==
    {slot.ptr, External} \cup
        IF Pointers(Memory) THEN {CellsOf(Memory, slot.ptr)[k] : k \in 1..slot.num} ELSE {}

\* Every block is deleted once and none is leaked, and a pointer that the owner of the lock
\* was given stays good until it changes the attribute itself (SetValue, RemoveValue,
\* LockObject).
MemoryKept ==
    ~overlong =>
        /\ ~stray /\ DOMAIN heap = Reachable \ {Nothing}
        /\ given # Nothing => given \in DOMAIN heap
=============================================================================
