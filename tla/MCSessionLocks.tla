--------------------------- MODULE MCSessionLocks ---------------------------
(* Sessions for TLC: their life times, their streams and where the packets of clients go, *)
(* the reports of clients, the packets of reliable UDP and the mutexes of all tasks.  The *)
(* modules share no state: a behaviour is one of the part that is chosen at its start.    *)
EXTENDS MCSessionLifecycle, StreamLocks, StreamSetup, StreamFeedback, MCResenderWindow

CONSTANT Parts

VARIABLE part

NarrowWindow == {3}

\* Sessions are not made anew.
SetupDone ==
    /\ \A c \in ClientSessions : phase[c] \in {"new", "deleted"}
    /\ UNCHANGED setupVars

SessionLocksInit ==
    /\ part \in Parts
    /\ Init /\ LockInit /\ SetupInit /\ FeedbackInit /\ ResenderInit

SessionLocksNext ==
    /\ UNCHANGED part
    /\ \/ /\ part = "lifecycle"
          /\ Next /\ UNCHANGED <<lockVars, setupVars, feedbackVars, resenderVars>>
       \/ /\ part = "locks"
          /\ LockNext /\ UNCHANGED <<vars, setupVars, feedbackVars, resenderVars>>
       \/ /\ part = "setup"
          /\ SetupNext \/ SetupDone
          /\ UNCHANGED <<vars, lockVars, feedbackVars, resenderVars>>
       \/ /\ part = "feedback"
          /\ FeedbackNext /\ UNCHANGED <<vars, lockVars, setupVars, resenderVars>>
       \/ /\ part = "resender"
          /\ ResenderNext /\ UNCHANGED <<vars, lockVars, setupVars, feedbackVars>>

\* The fairness of SessionLifecycle and of ResenderWindow.
SessionLocksSpec ==
    /\ SessionLocksInit
    /\ [][SessionLocksNext]_<<part, vars, lockVars, setupVars, feedbackVars, resenderVars>>
    /\ \A s \in RTSP : WF_vars(part = "lifecycle" /\ RunConnection(s))
    /\ \A r \in RTP : WF_vars(part = "lifecycle" /\ RunSession(r))
    /\ \A r \in RTP : WF_vars(part = "lifecycle" /\ TeardownLeave(r))
    /\ \A r \in RTP \ Refreshed : WF_vars(part = "lifecycle" /\ Expire(r) /\ Abandoned(r))
    /\ \A x \in RTSP \cup RTP : WF_vars(part = "lifecycle" /\ Wake(x))
    /\ WF_resenderVars(part = "resender" /\ ResendLoop)
    /\ WF_resenderVars(part = "resender" /\ ClearLoop)
    /\ WF_resenderVars(part = "resender" /\ SendRetransmits)
    /\ SF_resenderVars(part = "resender" /\ Tick)
=============================================================================
