----------------------------- MODULE ServerControl -----------------------------
(***************************************************************************)
(* The two processes of the server and the signals that govern them.  The  *)
(* parent forks the server, waits for it, and forks another one if it was  *)
(* asked to restart or died of a signal; signals sent to the parent are    *)
(* handed on.  The child creates the server, opens the listeners, and its  *)
(* main thread looks at the flags of the signals in DoIdle.                *)
(*                                                                         *)
(* The framework calls the methods of EDSS in their order, starts the      *)
(* threads of tasks before DoIdle, and ends the process with what CFExit   *)
(* returns.  Modelled for a server that forks and starts in the running    *)
(* state.                                                                  *)
(***************************************************************************)
EXTENDS ListenerSet

CONSTANTS
    MaxForks,     \* bound: children
    MaxSignals    \* bound: signals somebody sends

ASSUME ControlAssumption == MaxForks \in Nat \ {0} /\ MaxSignals \in Nat

VARIABLES
    parent,       \* where the parent stands in CFInit
    childPID,     \* its sChildPID: zero, of the child, or of one that is gone
    child,        \* where the child stands
    inherited,    \* sChildPID of a child that has not set it to 0: of its dead predecessor
    sigInt, sigTerm,
    state,        \* fServerState
    restart,      \* restartServer of DoIdle
    code,         \* the status the child exits with
    rereads,      \* a RereadPrefsTask waits to run
    toParent, toChild,   \* signals under way
    forks, sent

controlVars == <<listenerVars, parent, childPID, child, inherited, sigInt, sigTerm, state,
                 restart, code, rereads, toParent, toChild, forks, sent>>

Signals == {"HUP", "INT", "TERM"}
Living  == {"forked", "detached", "created", "initialized", "serving"}
Codes   == {0, -1, -2}

ControlTypeOK ==
    /\ ListenerTypeOK
    /\ parent \in {"start", "forking", "wait", "sleep", "gone"}
    /\ childPID \in {"zero", "child", "old"}
    /\ child \in Living \cup {"none", "exited", "signalled"}
    /\ {inherited, sigInt, sigTerm, restart, rereads} \subseteq BOOLEAN
    /\ state \in {"fatal", "running", "shutting"} /\ code \in Codes
    /\ toParent \subseteq Signals /\ toChild \subseteq Signals
    /\ forks \in 0..MaxForks /\ sent \in 0..MaxSignals

ControlInit ==
    /\ ListenerInit
    /\ parent = "start" /\ childPID = "zero" /\ child = "none" /\ inherited = FALSE
    /\ sigInt = FALSE /\ sigTerm = FALSE /\ state = "fatal" /\ restart = FALSE
    /\ code = 0 /\ rereads = FALSE
    /\ toParent = {} /\ toChild = {} /\ forks = 0 /\ sent = 0

parentVars == <<parent, childPID, toParent, forks, sent>>
childVars  == <<inherited, sigInt, sigTerm, state, restart, code, rereads>>

---------------------------------------------------------------------------
(* The parent: the loop of CFInit *)

\* A child is a copy of the parent, with no signal under way.
Fork ==
    /\ parent \in {"start", "sleep"} /\ forks < MaxForks
    /\ parent' = "forking" /\ forks' = forks + 1
    /\ child' = "forked" /\ inherited' = (childPID # "zero") /\ toChild' = {}
    /\ sigInt' = FALSE /\ sigTerm' = FALSE /\ state' = "fatal"
    /\ restart' = FALSE /\ code' = 0 /\ rereads' = FALSE
    /\ UNCHANGED <<listenerVars, childPID, toParent, sent>>

RecordChild ==
    /\ parent = "forking" /\ parent' = "wait" /\ childPID' = "child"
    /\ UNCHANGED <<listenerVars, child, childVars, toParent, toChild, forks, sent>>

\* wait returned: 0 and -1 end the parent too.
WaitReturns ==
    /\ parent = "wait" /\ child \in {"exited", "signalled"}
    /\ IF child = "signalled" \/ code = -2
       THEN parent' = "sleep" /\ childPID' = "old"
       ELSE parent' = "gone" /\ UNCHANGED childPID
    /\ child' = "none"
    /\ UNCHANGED <<listenerVars, childVars, toParent, toChild, forks, sent>>

\* RestartServer: auto_restart is false in the file.
NoRestart ==
    /\ parent = "sleep" /\ parent' = "gone"
    /\ UNCHANGED <<listenerVars, child, childPID, childVars, toParent, toChild, forks, sent>>

---------------------------------------------------------------------------
(* The child: the methods of EDSS *)

\* The child ends with a status, or of a signal.
Ends(how, status) ==
    /\ child' = how /\ code' = status /\ toChild' = {} /\ rereads' = FALSE
    /\ CloseListeners

Detach ==
    /\ child = "forked" /\ child' = "detached"
    /\ UNCHANGED <<listenerVars, parentVars, childVars, toChild>>

\* AfterInitBase, up to new QTSServer.
CreateServer ==
    /\ child = "detached" /\ child' = "created"
    /\ UNCHANGED <<listenerVars, parentVars, childVars, toChild>>

\* The rest of AfterInitBase: without a listener the server is not started.
Initialize ==
    /\ child = "created"
    /\ IF (IF Override # <<>> THEN Range(Override) ELSE Range(setting)) \subseteq Held
       THEN Ends("exited", -1) /\ UNCHANGED <<inherited, sigInt, sigTerm, state, restart>>
       ELSE OpenListeners /\ child' = "initialized" /\ UNCHANGED <<childVars, toChild>>
    /\ UNCHANGED parentVars

\* AfterConfigFramework and StartupCustomServices; modules or UDP sockets may fail.
StartServing ==
    /\ child = "initialized"
    /\ \/ /\ StartListening /\ child' = "serving" /\ state' = "running"
          /\ UNCHANGED <<inherited, sigInt, sigTerm, restart, code, rereads, toChild>>
       \/ /\ Ends("exited", -1)
          /\ UNCHANGED <<inherited, sigInt, sigTerm, state, restart>>
    /\ UNCHANGED parentVars

\* RereadPrefsService; a server that does not run is not told.
RereadTask ==
    /\ child = "serving" /\ rereads /\ rereads' = FALSE
    /\ IF state = "running" THEN RereadListeners ELSE UNCHANGED listenerVars
    /\ UNCHANGED <<parentVars, child, inherited, sigInt, sigTerm, state, restart, code, toChild>>

\* The request to terminate wins over the interrupt.
RestartsOnTerm == sigTerm

\* The interrupt wins.
Restarts == ~sigInt

DoIdle ==
    /\ child = "serving" /\ UNCHANGED <<parentVars, inherited, sigInt, sigTerm>>
    /\ \/ /\ state = "running" /\ (sigInt \/ sigTerm)
          /\ state' = "shutting" /\ restart' = Restarts
          /\ UNCHANGED <<listenerVars, child, code, rereads, toChild>>
       \/ /\ state # "running" /\ Ends("exited", IF restart THEN -2 ELSE 0)
          /\ UNCHANGED <<state, restart>>

\* An error of the program.
ChildCrashes ==
    /\ child \in Living /\ Ends("signalled", 0)
    /\ UNCHANGED <<parentVars, inherited, sigInt, sigTerm, state, restart>>

---------------------------------------------------------------------------
(* Signals *)

\* Somebody sends a signal to one of the processes; both are in the pid file.
Send(sig) ==
    /\ sent < MaxSignals /\ sent' = sent + 1
    /\ \/ parent # "gone" /\ toParent' = toParent \cup {sig} /\ UNCHANGED toChild
       \/ child \in Living /\ toChild' = toChild \cup {sig} /\ UNCHANGED toParent
    /\ UNCHANGED <<listenerVars, parent, childPID, child, childVars, forks>>

\* sigcatcher in the parent.  Before the first fork it takes itself for the child, and there is
\* no server to tell: it dies, unless it is to start a task, which may do nothing.  A signal for
\* a child that is gone is lost.
ParentCatches(sig) ==
    /\ sig \in toParent /\ parent # "gone" /\ toParent' = toParent \ {sig}
    /\ parent' \in IF childPID # "zero" THEN {parent}
                   ELSE IF sig = "HUP" THEN {parent, "gone"} ELSE {"gone"}
    /\ toChild' = IF childPID = "child" /\ child \in Living THEN toChild \cup {sig} ELSE toChild
    /\ UNCHANGED <<listenerVars, childPID, child, childVars, forks, sent>>

\* sigcatcher in the child.  While it has the process id of its predecessor the signal goes
\* there; before there is a server, it dies as well.
ChildCatches(sig) ==
    /\ sig \in toChild /\ child \in Living
    /\ \/ /\ child = "forked" /\ inherited /\ toChild' = toChild \ {sig}
          /\ UNCHANGED <<listenerVars, child, childVars>>
       \/ /\ (child = "forked" /\ ~inherited) \/ child = "detached"
          /\ Ends("signalled", 0) /\ UNCHANGED <<inherited, sigInt, sigTerm, state, restart>>
       \/ /\ (child = "forked" /\ ~inherited) \/ child = "detached"
          /\ sig = "HUP" /\ toChild' = toChild \ {sig}
          /\ UNCHANGED <<listenerVars, child, childVars>>
       \/ /\ child \in {"created", "initialized", "serving"} /\ toChild' = toChild \ {sig}
          /\ sigInt' = (sigInt \/ sig = "INT") /\ sigTerm' = (sigTerm \/ sig = "TERM")
          /\ rereads' = (rereads \/ sig = "HUP")
          /\ UNCHANGED <<listenerVars, child, inherited, state, restart, code>>
    /\ UNCHANGED parentVars

---------------------------------------------------------------------------
Outside ==
    /\ \/ \E s \in Sockets : ListenerDies(s)
       \/ \E w \in Settings : EditSetting(w)
       \/ \E p \in Places : OtherProgram(p)
    /\ UNCHANGED <<parentVars, child, childVars, toChild>>

ControlNext ==
    \/ Fork \/ RecordChild \/ WaitReturns \/ NoRestart
    \/ Detach \/ CreateServer \/ Initialize \/ StartServing \/ RereadTask \/ DoIdle \/ ChildCrashes
    \/ \E sig \in Signals : Send(sig) \/ ParentCatches(sig) \/ ChildCatches(sig)
    \/ Outside

\* The main thread calls DoIdle once a second, and the kernel wakes the parent.
ControlSpec ==
    /\ ControlInit /\ [][ControlNext]_controlVars
    /\ WF_controlVars(DoIdle) /\ WF_controlVars(WaitReturns) /\ WF_controlVars(RecordChild)

---------------------------------------------------------------------------
(* Properties *)

\* A server that runs and has caught an interrupt ends, and its parent with it, although other
\* signals and rereads come in between, unless it crashes (sigcatcher, DoIdle, CFExit and the
\* loop of CFInit): "The parent and child processes will quit".
InterruptStops ==
    (child = "serving" /\ state = "running" /\ sigInt)
        ~> (parent = "gone" /\ child \notin Living) \/ child = "signalled"
=============================================================================
