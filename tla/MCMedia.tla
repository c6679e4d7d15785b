------------------------------- MODULE MCMedia -------------------------------
(* Instances of the modules of the reflector and of the media path for TLC.  The modules   *)
(* share no state: a behaviour is one of the part that is chosen at its start.             *)
EXTENDS MCReflectorRegistry, ReflectorSender, ReflectorSocket, StreamWriter

VARIABLE part

mediaVars == <<part, vars, senderVars, socketVars, writerVars>>

NonePrepared  == [s \in Senders |-> <<>>]
ThreePackets  == 1..3
BelowZero     == -1

MediaInit ==
    /\ part \in {"registry", "sender", "socket", "writer"}
    /\ Init /\ SenderInit /\ SocketInit /\ WriterInit
    /\ part # "sender" => withInfo = {}

MediaNext ==
    /\ UNCHANGED part
    /\ \/ /\ part = "registry"
          /\ Next /\ UNCHANGED <<senderVars, socketVars, writerVars>>
       \/ /\ part = "sender"
          /\ SenderNext /\ UNCHANGED <<vars, socketVars, writerVars>>
       \/ /\ part = "socket"
          /\ SocketNext /\ UNCHANGED <<vars, senderVars, writerVars>>
       \/ /\ part = "writer"
          /\ WriterNext /\ UNCHANGED <<vars, senderVars, socketVars>>

\* The fairness of ReflectorRegistry and of ReflectorSocket.
MediaSpec ==
    /\ MediaInit /\ [][MediaNext]_mediaVars
    /\ \A r \in Sessions : WF_vars(part = "registry" /\ Run(r))
    /\ \A c \in Clients : WF_vars(part = "registry" /\ life[c] = "torn" /\ Close(c))
    /\ WF_socketVars(part = "socket" /\ SocketRun)
    /\ WF_socketVars(part = "socket" /\ SocketTimerFires)
    /\ WF_socketVars(part = "socket" /\ SocketTick)
=============================================================================
