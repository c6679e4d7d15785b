----------------------------- MODULE Preferences -----------------------------
(***************************************************************************)
(* The preferences: the elements of the configuration file, and the        *)
(* attributes the server keeps of them.  What is set or removed through    *)
(* the API is written to the file; what an administrator writes there is   *)
(* read again by RereadPrefsService.                                       *)
(*                                                                         *)
(* A module's preferences are attributes of an instance map, which keeps   *)
(* the entries that were removed and reuses them.  The server's own are    *)
(* fixed, and have default values; one of them is modelled.                *)
(*                                                                         *)
(* The service holds the mutex of the server's preferences, and that of a  *)
(* module's while it rereads those, except to count them.  Preferences     *)
(* that are objects are not modelled.                                      *)
(***************************************************************************)
EXTENDS Naturals, Sequences, SequencesExt, FiniteSetsExt

CONSTANTS
    PrefNames,      \* names of a module's preferences
    Port,           \* the server's preference; it may have several values
    PrefValues,
    Defaults,       \* of Port: fDefaultValue and fAdditionalDefVals
    PrefFiles,      \* bound: what the administrator writes for the module
    PortFiles,      \* and for the server
    MaxPrefValues,  \* bound: values that are set through the API
    MaxCalls        \* bound: calls of the API, and rereads

PrefTypes == {"string", "number"}
Elements  == [name : PrefNames \cup {Port}, type : PrefTypes, list : BOOLEAN,
              values : Seq(PrefValues)]

\* A name is once in a file, and the names of a module are not Port.
ASSUME PrefsAssumption ==
    /\ Port \notin PrefNames /\ Defaults \in Seq(PrefValues) \ {<<>>}
    /\ {MaxPrefValues, MaxCalls} \subseteq Nat
    /\ PrefFiles \cup PortFiles \subseteq Seq(Elements)
    /\ \A t \in PrefFiles \cup PortFiles : IsInjective([k \in DOMAIN t |-> t[k].name])
    /\ \A t \in PrefFiles : \A k \in DOMAIN t : t[k].name \in PrefNames

VARIABLES
    tree,        \* elements of the module's tag; the file has the same after every write
    attrs,       \* fAttrArray of the module's instance map, with the values of each
    valid,       \* fNumValidAttrs
    serverTree,  \* elements of the server's tag
    portValues,  \* the values of Port
    phase,       \* where the service stands
    counted,     \* initialNumAttrs
    dangling,    \* the reread went on with the name of an element it had deleted
    mistyped,    \* history: the element of Port had no value and another type when it was parsed
    unsaved,     \* history: names whose first value was set, while the element was a list of one
    calls        \* calls so far

prefsVars == <<tree, attrs, valid, serverTree, portValues, phase, counted, dangling, mistyped,
               unsaved, calls>>

Active == {k \in DOMAIN attrs : ~attrs[k].removed}

PrefsTypeOK ==
    /\ {tree, serverTree} \subseteq Seq(Elements)
    /\ attrs \in Seq([name : PrefNames, type : PrefTypes, removed : BOOLEAN,
                      values : Seq(PrefValues)])
    /\ valid = Cardinality(Active) /\ portValues \in Seq(PrefValues)
    /\ phase \in {"idle", "parsed", "counted", "role"} /\ counted \in 0..Len(attrs)
    /\ {dangling, mistyped} \subseteq BOOLEAN /\ calls \in 0..MaxCalls
    /\ unsaved \subseteq PrefNames \cup {Port}

---------------------------------------------------------------------------
(* Elements of the file.  A name is there once. *)

ElementsOf(t, n) == {k \in DOMAIN t : t[k].name = n}
PlaceOf(t, n)    == CHOOSE k \in ElementsOf(t, n) : TRUE
WithValues(t, n, list, values) ==
    [k \in DOMAIN t |-> IF t[k].name # n THEN t[k]
                        ELSE [t[k] EXCEPT !.list = list, !.values = values]]

AddPref(t, n, type) ==
    IF ElementsOf(t, n) # {} THEN t
    ELSE Append(t, [name |-> n, type |-> type, list |-> FALSE, values |-> <<>>])

RemovePref(t, n) == IF ElementsOf(t, n) = {} THEN t ELSE RemoveAt(t, PlaceOf(t, n))

\* A second value makes a list of the element.
AddPrefValue(t, n, v) ==
    LET e == t[PlaceOf(t, n)] IN
    WithValues(t, n, e.list \/ e.values # <<>>, Append(e.values, v))

\* A tag that has tags in it, as a list has, takes no text: the only value of a list stays,
\* and an empty one stays empty.
SetElement(t, n, i, v) ==
    LET e == t[PlaceOf(t, n)] IN
    IF Len(e.values) <= 1 /\ i = 0
    THEN IF e.list THEN t ELSE WithValues(t, n, FALSE, <<v>>)
    ELSE IF i = Len(e.values) THEN AddPrefValue(t, n, v)
    ELSE IF i < Len(e.values) THEN WithValues(t, n, TRUE, [e.values EXCEPT ![i + 1] = v])
    ELSE t

\* The last value goes, whichever was meant.
LastRemoved(t, n, i) ==
    IF ElementsOf(t, n) = {} THEN t
    ELSE LET e == t[PlaceOf(t, n)] IN
         IF i >= Len(e.values) THEN t
         ELSE IF Len(e.values) = 1 THEN RemovePref(t, n)
         ELSE WithValues(t, n, Len(e.values) > 2, Front(e.values))

\* A list of two becomes a simple element, and without its only value an element goes.
RemoveElement(t, n, i) ==
    IF ElementsOf(t, n) = {} THEN t
    ELSE LET e == t[PlaceOf(t, n)] IN
         IF i >= Len(e.values) THEN t
         ELSE IF Len(e.values) = 1 THEN RemovePref(t, n)
         ELSE WithValues(t, n, Len(e.values) > 2, RemoveAt(e.values, i + 1))

Short(t, n) == \E k \in ElementsOf(t, n) : t[k].list /\ Len(t[k].values) <= 1

---------------------------------------------------------------------------
(* The map of attributes: d has the attributes, their count and the tree. *)

Dictionary  == [attrs |-> attrs, valid |-> valid, tree |-> tree]
Becoming(d) == attrs' = d.attrs /\ valid' = d.valid /\ tree' = d.tree

\* The first entry of the name that is not removed, or 0.
GetAttrInfoByName(d, n) ==
    LET found == {k \in DOMAIN d.attrs : d.attrs[k].name = n /\ ~d.attrs[k].removed} IN
    IF found = {} THEN 0 ELSE Min(found)

\* The entries that stop the search for a name and a type: those of the type, and active ones.
Matching(d, n, type) ==
    {k \in DOMAIN d.attrs : /\ d.attrs[k].name = n
                            /\ ~d.attrs[k].removed \/ d.attrs[k].type = type}
NewEntry(n, type) == [name |-> n, type |-> type, removed |-> FALSE, values |-> <<>>]

\* The entry that is used again is not counted.
ReusedUncounted(d, n, type) ==
    LET same == Matching(d, n, type) IN
    IF same = {} THEN [d EXCEPT !.attrs = Append(@, NewEntry(n, type)), !.valid = @ + 1]
    ELSE [d EXCEPT !.attrs[Min(same)].removed = FALSE]

\* An entry of the name that was removed and has the type is used again, with the values it had;
\* unless one that is not removed comes first.
AddAttribute(d, n, type) ==
    LET same == Matching(d, n, type) IN
    IF same = {} THEN [d EXCEPT !.attrs = Append(@, NewEntry(n, type)), !.valid = @ + 1]
    ELSE IF d.attrs[Min(same)].removed
    THEN [d EXCEPT !.attrs[Min(same)].removed = FALSE, !.valid = @ + 1]
    ELSE d

\* The entry stays; the map counts one less.
RemoveAttribute(x) == [x EXCEPT !.removed = TRUE]

\* The values go, and the element of the name.
RemoveInstanceAttribute(d, k) ==
    [d EXCEPT !.attrs[k] = RemoveAttribute([d.attrs[k] EXCEPT !.values = <<>>]), !.valid = @ - 1,
              !.tree = RemovePref(@, d.attrs[k].name)]

PutValue(values, i, v) == IF i < Len(values) THEN [values EXCEPT ![i + 1] = v]
                          ELSE Append(values, v)

SetAttribute(d, k, i, v) ==
    [d EXCEPT !.attrs[k].values = PutValue(@, i, v),
              !.tree = SetElement(AddPref(@, d.attrs[k].name, d.attrs[k].type),
                                  d.attrs[k].name, i, v)]

---------------------------------------------------------------------------
(* Calls of the API, each under the dictionary's mutex *)

Call == ~dangling /\ calls < MaxCalls /\ calls' = calls + 1

SetPreference(n, i, v) ==
    LET k == GetAttrInfoByName(Dictionary, n) IN
    /\ Call /\ k # 0 /\ i <= Len(attrs[k].values) /\ i < MaxPrefValues
    /\ Becoming(SetAttribute(Dictionary, k, i, v))
    /\ unsaved' = IF i = 0 /\ Short(tree, n) THEN unsaved \cup {n} ELSE unsaved
    /\ UNCHANGED <<serverTree, portValues, phase, counted, dangling, mistyped>>

RemovePrefValue(n, i) ==
    LET k == GetAttrInfoByName(Dictionary, n) IN
    /\ Call /\ k # 0 /\ i < Len(attrs[k].values)
    /\ Becoming([Dictionary EXCEPT !.attrs[k].values = RemoveAt(@, i + 1),
                                   !.tree = RemoveElement(@, n, i)])
    /\ UNCHANGED <<serverTree, portValues, phase, counted, dangling, mistyped, unsaved>>

RemovePreference(n) ==
    LET k == GetAttrInfoByName(Dictionary, n) IN
    /\ Call /\ k # 0
    /\ Becoming(RemoveInstanceAttribute(Dictionary, k))
    /\ UNCHANGED <<serverTree, portValues, phase, counted, dangling, mistyped, unsaved>>

\* The service keeps the mutex of the server's preferences to its end.
SetPort(i, v) ==
    /\ Call /\ phase = "idle" /\ i <= Len(portValues) /\ i < MaxPrefValues
    /\ portValues' = PutValue(portValues, i, v)
    /\ serverTree' = SetElement(AddPref(serverTree, Port, "number"), Port, i, v)
    /\ unsaved' = IF i = 0 /\ Short(serverTree, Port) THEN unsaved \cup {Port} ELSE unsaved
    /\ UNCHANGED <<tree, attrs, valid, phase, counted, dangling, mistyped>>

CreateAttribute(d, n, type, default) ==
    LET added == AddAttribute(d, n, type) IN
    SetAttribute(added, GetAttrInfoByName(added, n), 0, default)

\* An attribute of another type is replaced.
CheckAttributeDataType(d, n, type, default) ==
    LET k == GetAttrInfoByName(d, n) IN
    IF k = 0 \/ d.attrs[k].type = type THEN d
    ELSE CreateAttribute(RemoveInstanceAttribute(d, k), n, type, default)

\* In the RereadPrefs role of the module.  One without a value gets the default.
GetAttribute(n, type, default) ==
    LET d    == CheckAttributeDataType(Dictionary, n, type, default)
        k    == GetAttrInfoByName(d, n)
        bare == k = 0 \/ d.attrs[k].values = <<>>
    IN  /\ Call /\ phase = "role"
        /\ Becoming(IF bare THEN CreateAttribute(d, n, type, default) ELSE d)
        /\ unsaved' = IF bare /\ Short(d.tree, n) THEN unsaved \cup {n} ELSE unsaved
        /\ UNCHANGED <<serverTree, portValues, phase, counted, dangling, mistyped>>

---------------------------------------------------------------------------
(* Rereading *)

\* The default values are set, in the file too; further values that Port had stay.
PortDefaults(values) ==
    [i \in 1..Max({Len(values), Len(Defaults)}) |-> IF i <= Len(Defaults) THEN Defaults[i]
                                                    ELSE values[i]]
DefaultElement(t) ==
    LET added  == AddPref(t, Port, "number")
        e      == added[PlaceOf(added, Port)]
        values == e.values \o Defaults
    IN  WithValues(added, Port, e.list \/ Len(values) > 1, values)

\* One of the wrong type is replaced in the file, unless it has no value.
RereadServerPreferences(t, values) ==
    LET e == t[PlaceOf(t, Port)] IN
    IF ElementsOf(t, Port) = {} \/ e.values = <<>>
    THEN [tree |-> DefaultElement(t), values |-> PortDefaults(values)]
    ELSE IF e.type # "number"
    THEN [tree |-> DefaultElement(RemovePref(t, Port)), values |-> PortDefaults(values)]
    ELSE [tree |-> t, values |-> e.values]

\* Port has an element of another type that has no value.
Mistyped(t) == \E k \in ElementsOf(t, Port) : t[k].values = <<>> /\ t[k].type # "number"

\* One element: its values are set, and further ones cut off.  An attribute of another type is
\* removed, and the element with it, though its name is used after.
RereadElement(d, e) ==
    LET k  == GetAttrInfoByName(d, e.name)
        d1 == IF k = 0 THEN AddAttribute(d, e.name, e.type) ELSE d
        j  == GetAttrInfoByName(d1, e.name)
    IN  IF d.dangling \/ (k # 0 /\ d.attrs[k].type # e.type) THEN [d EXCEPT !.dangling = TRUE]
        ELSE [d1 EXCEPT !.attrs[j].values = e.values]

RereadElements(d, t) ==
    LET reread[k \in 0..Len(t)] == IF k = 0 THEN d ELSE RereadElement(reread[k - 1], t[k])
    IN  reread[Len(t)]

\* The names of the entries that are not removed, as far as the two counts go.
NamesBefore == {attrs[k].name : k \in {x \in Active :
                                          Cardinality({y \in Active : y < x})
                                              < Min({counted, valid})}}

\* The attributes whose element is gone are removed, with their values as they are.
RemoveMissing(d) ==
    LET gone == {GetAttrInfoByName(d, n) : n \in NamesBefore \ {tree[k].name : k \in DOMAIN tree}}
    IN  [d EXCEPT !.attrs = [k \in DOMAIN d.attrs |-> IF k \notin gone THEN d.attrs[k]
                                                     ELSE RemoveAttribute(d.attrs[k])],
                  !.valid = @ - Cardinality(gone)]

PrefsInit ==
    /\ tree \in PrefFiles /\ attrs = <<>> /\ valid = 0
    /\ \E t \in PortFiles : LET s == RereadServerPreferences(t, <<>>) IN
                            serverTree = s.tree /\ portValues = s.values /\ mistyped = Mistyped(t)
    /\ phase = "parsed" /\ counted = 0 /\ dangling = FALSE /\ unsaved = {} /\ calls = 0

\* The file is parsed, with what an administrator may have written, and the server's
\* preferences are reread.
RereadBegins(file, portFile) ==
    /\ Call /\ phase = "idle" /\ phase' = "parsed"
    /\ tree' = file
    /\ LET s == RereadServerPreferences(portFile, portValues) IN
       serverTree' = s.tree /\ portValues' = s.values /\ mistyped' = Mistyped(portFile)
    /\ unsaved' = {}
    /\ UNCHANGED <<attrs, valid, counted, dangling>>

\* Before the mutex is taken.
CountAttributes ==
    /\ ~dangling /\ phase = "parsed" /\ phase' = "counted" /\ counted' = Len(attrs)
    /\ UNCHANGED <<tree, attrs, valid, serverTree, portValues, dangling, mistyped, unsaved,
                   calls>>

RereadObjectPreferences ==
    LET begun == [attrs |-> attrs, valid |-> valid, tree |-> tree, dangling |-> FALSE]
        all   == RereadElements(begun, tree)
        done  == IF all.dangling THEN all ELSE RemoveMissing(all)
    IN  /\ phase = "counted" /\ ~dangling
        /\ Becoming(done) /\ dangling' = done.dangling
        /\ phase' = "role" /\ counted' = 0
        /\ UNCHANGED <<serverTree, portValues, mistyped, unsaved, calls>>

RereadEnds ==
    /\ ~dangling /\ phase = "role" /\ phase' = "idle"
    /\ UNCHANGED <<tree, attrs, valid, serverTree, portValues, counted, dangling, mistyped, unsaved,
                   calls>>

PrefsNext ==
    \/ \E n \in PrefNames, i \in 0..(MaxPrefValues - 1) :
          \/ RemovePrefValue(n, i)
          \/ \E v \in PrefValues : SetPreference(n, i, v)
    \/ \E n \in PrefNames : \/ RemovePreference(n)
                            \/ \E type \in PrefTypes, v \in PrefValues : GetAttribute(n, type, v)
    \/ \E i \in 0..(MaxPrefValues - 1), v \in PrefValues : SetPort(i, v)
    \/ \E t \in PrefFiles \cup {tree}, s \in PortFiles \cup {serverTree} : RereadBegins(t, s)
    \/ CountAttributes \/ RereadObjectPreferences \/ RereadEnds

PrefsSpec == PrefsInit /\ [][PrefsNext]_prefsVars

---------------------------------------------------------------------------
(* Properties *)

SameTypes == \A k \in Active, i \in DOMAIN tree :
                 attrs[k].name = tree[i].name => attrs[k].type = tree[i].type

\* After a reread in which no preference has changed its type, the attributes are those of the
\* file, with its types and values: whatever was set, removed, or added and removed before, with
\* the entries and the count of the map it left, and though the attributes are counted before
\* the mutex is taken.
RereadFollowsFile ==
    [][RereadObjectPreferences /\ SameTypes =>
          /\ ~dangling'
          /\ {attrs'[k].name : k \in Active'} = {tree[i].name : i \in DOMAIN tree}
          /\ \A i \in DOMAIN tree : \E k \in Active' :
                /\ attrs'[k].name = tree[i].name /\ attrs'[k].type = tree[i].type
                /\ attrs'[k].values = tree[i].values]_prefsVars

\* What the file has, the server uses, until the file is parsed again: through every call that
\* sets or removes a value, the element of an attribute that is in the file has its type and the
\* first of its values.  The exceptions are a first value that was set while the element was
\* a list of one, which never reaches the file, and the type of an element of Port that had
\* no value: it gets the defaults, and stays.
Leads(t, n, values) ==
    \A i \in ElementsOf(t, n) : /\ Len(t[i].values) <= Len(values)
                                /\ n \notin unsaved => IsPrefix(t[i].values, values)
FileFollowsValues ==
    ~dangling => /\ Leads(serverTree, Port, portValues)
                 /\ \A i \in ElementsOf(serverTree, Port) :
                       serverTree[i].type = "number" \/ mistyped
                 /\ phase \in {"role", "idle"} =>
                       \A i \in DOMAIN tree : \E k \in Active :
                          /\ attrs[k].name = tree[i].name /\ attrs[k].type = tree[i].type
                          /\ Leads(tree, tree[i].name, attrs[k].values)
=============================================================================
