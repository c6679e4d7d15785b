------------------------------ MODULE ListenerSet ------------------------------
(***************************************************************************)
(* The RTSP listeners of the server, and what CreateListeners does to them *)
(* when the server starts and when its preferences are reread.  A place is *)
(* an address with a port.                                                 *)
(*                                                                         *)
(* A listener that is not needed any more is told to die; it holds its     *)
(* place until its task has run.                                           *)
(***************************************************************************)
EXTENDS Integers, Sequences, SequencesExt, FiniteSets

CONSTANTS
    Places,       \* addresses with ports
    Sockets,      \* RTSPListenerSocket objects
    Override,     \* the place option -p asks for, in a sequence, or <<>>
    Settings      \* bound: the values of rtsp_port in the preference file

ASSUME ListenerAssumption ==
    Places # {} /\ Override \in Seq(Places) /\ Settings \subseteq Seq(Places) /\ Settings # {}

VARIABLES
    setting,      \* rtsp_port in the file
    sock,         \* the listeners: their places, and whether they live
    fListeners,   \* fListeners, as far as fNumListeners
    others,       \* the places other programs have
    sought,        \* history: the places the last CreateListeners was to open
    refused       \* history: those that were not free then

listenerVars == <<setting, sock, fListeners, others, sought, refused>>

NoSocket == [life |-> "none", place |-> CHOOSE p \in Places : TRUE]

ListenerTypeOK ==
    /\ setting \in Settings
    /\ sock \in [Sockets -> [life : {"none", "bound", "listening", "dying"}, place : Places]]
    /\ fListeners \in Seq(Sockets)
    /\ others \subseteq Places /\ sought \subseteq Places /\ refused \subseteq sought

ListenerInit ==
    /\ setting \in Settings /\ sock = [s \in Sockets |-> NoSocket] /\ fListeners = <<>>
    /\ others \in SUBSET Places /\ sought = {} /\ refused = {}

Held == others \cup {sock[s].place : s \in {x \in Sockets : sock[x].life # "none"}}

---------------------------------------------------------------------------
(* CreateListeners *)

\* The listeners that are at the places of w already, in the order of w.
Kept(w) ==
    LET At(p)   == {i \in 1..Len(fListeners) : sock[fListeners[i]].place = p}
        kept[i \in 0..Len(w)] ==
            IF i = 0 THEN <<>>
            ELSE IF At(w[i]) = {} THEN kept[i - 1]
            ELSE Append(kept[i - 1], fListeners[CHOOSE j \in At(w[i]) : TRUE])
    IN  kept[Len(w)]

\* The places of w that no listener is at.  One that is named twice is in use the second time.
Needed(w) == Range(w) \ {sock[fListeners[i]].place : i \in 1..Len(fListeners)}

\* Listeners that are not needed go on.
NotDropped(new) == {}

\* Listeners that are not in the new array are told to die.
Dropped(new) == Range(fListeners) \ Range(new)

CreateListeners(w, startListeningNow) ==
    LET created == Needed(w) \ Held
        free    == {s \in Sockets : sock[s].life = "none"}
        maker   == CHOOSE f \in [created -> free] : IsInjective(f)
        order   == SetToSeq(created)
        new     == Kept(w) \o [i \in 1..Len(order) |-> maker[order[i]]]
    IN  /\ \E f \in [created -> free] : IsInjective(f)
        /\ sock' = [s \in Sockets |->
                       IF \E p \in created : maker[p] = s
                       THEN [life  |-> IF startListeningNow THEN "listening" ELSE "bound",
                             place |-> CHOOSE p \in created : maker[p] = s]
                       ELSE IF s \in Dropped(new) THEN [sock[s] EXCEPT !.life = "dying"]
                       ELSE sock[s]]
        /\ fListeners' = new
        /\ sought' = Range(w) /\ refused' = Needed(w) \cap Held
        /\ UNCHANGED <<setting, others>>

\* QTSServer::Initialize: the port of the command line goes before those of the preferences.
OpenListeners == CreateListeners(IF Override # <<>> THEN Override ELSE setting, FALSE)

StartListening ==
    /\ sock' = [s \in Sockets |-> IF s \in Range(fListeners)
                                  THEN [sock[s] EXCEPT !.life = "listening"] ELSE sock[s]]
    /\ UNCHANGED <<setting, fListeners, others, sought, refused>>

\* RereadPrefsService: the port of the command line is forgotten.
RereadListeners == CreateListeners(setting, TRUE)

\* The process ends, and its sockets with it.
CloseListeners ==
    /\ sock' = [s \in Sockets |-> NoSocket] /\ fListeners' = <<>>
    /\ sought' = {} /\ refused' = {} /\ UNCHANGED <<setting, others>>

---------------------------------------------------------------------------
\* The task of a listener that was told to die closes its socket and deletes it.
ListenerDies(s) ==
    /\ sock[s].life = "dying" /\ sock' = [sock EXCEPT ![s] = NoSocket]
    /\ UNCHANGED <<setting, fListeners, others, sought, refused>>

\* Somebody edits the file.
EditSetting(w) ==
    /\ w \in Settings /\ w # setting /\ setting' = w
    /\ UNCHANGED <<sock, fListeners, others, sought, refused>>

\* Another program takes a place that is free, or leaves it.
OtherProgram(p) ==
    /\ others' = IF p \in others THEN others \ {p} ELSE others \cup {p}
    /\ p \in others \/ p \notin Held
    /\ UNCHANGED <<setting, sock, fListeners, sought, refused>>

---------------------------------------------------------------------------
\* The server listens where its preferences said when they were last read, and nowhere else
\* (CreateListeners): whatever was opened, kept and told to die before, in this process or an
\* earlier one, each place that was not held by somebody then has one listener that lives, and
\* the array holds these listeners and no other.
AsConfigured ==
    LET Alive == {s \in Sockets : sock[s].life \in {"bound", "listening"}} IN
    /\ Alive = Range(fListeners)
    /\ {sock[s].place : s \in Alive} = sought \ refused
    /\ Cardinality(Alive) = Cardinality(sought \ refused)
=============================================================================
