------------------------------ MODULE MCService ------------------------------
(* Instances of the modules of the RTSP service for TLC.  The modules share no state: a    *)
(* behaviour is one of the part that is chosen at its start.                               *)
EXTENDS RequestStream, RtspConnection, HttpTunnel, AttributeStore, RollingLog, ServerControl,
        Preferences, ErrorLog

VARIABLE part

serviceVars == <<part, requestVars, connVars, tunnelVars, storeVars, logVars, controlVars,
                prefsVars, errorVars>>

FiveMessages == <<[head |-> 2, body |-> 0], [head |-> 1, body |-> 2], [head |-> 2, body |-> 1],
                  [head |-> 1, body |-> 0], [head |-> 5, body |-> 0]>>
TwoSizes      == [v \in {"x", "long"} |-> IF v = "long" THEN 3 ELSE 1]
FirstSetting  == <<"q", "p">>
ThreeSettings == {FirstSetting, <<"p">>, <<"q", "q">>}
PortOption    == <<"q">>
OneDefault    == <<"1">>
Pref(n, type, list, values) == [name |-> n, type |-> type, list |-> list, values |-> values]
TwoPrefFiles  == {<<Pref("a", "string", TRUE, <<"1", "2">>)>>,
                  <<Pref("b", "number", FALSE, <<"1">>), Pref("a", "string", FALSE, <<"1">>)>>}
TwoPortFiles  == {<<Pref("port", "number", TRUE, <<"1">>)>>,
                  <<Pref("port", "string", FALSE, <<"2">>)>>,
                  <<Pref("port", "string", FALSE, <<>>)>>}
OneModuleEach == [r \in Role |-> IF r = Preprocess THEN 0 ELSE 1]

ServiceInit ==
    /\ part \in {"requests", "connection", "tunnel", "store", "log", "control", "prefs", "errors"}
    /\ RequestInit /\ ConnInit /\ TunnelInit /\ StoreInit /\ LogInit /\ ControlInit
    /\ PrefsInit /\ ErrorInit
    /\ part # "store" => kind = "string" /\ slot = Null
    /\ part # "log" => ~enabled /\ ~closing
    /\ part # "control" => setting = FirstSetting /\ others = {}
    /\ part # "prefs" => Len(tree) = 1 /\ Head(serverTree).list
    /\ part # "errors" => logging /\ verbosity = 0

ServiceNext ==
    /\ UNCHANGED part
    /\ \/ /\ part = "requests" /\ RequestNext
          /\ UNCHANGED <<connVars, tunnelVars, storeVars, logVars,
                         controlVars, prefsVars, errorVars>>
       \/ /\ part = "connection" /\ ConnNext
          /\ UNCHANGED <<requestVars, tunnelVars, storeVars, logVars,
                         controlVars, prefsVars, errorVars>>
       \/ /\ part = "tunnel" /\ TunnelNext
          /\ UNCHANGED <<requestVars, connVars, storeVars, logVars,
                         controlVars, prefsVars, errorVars>>
       \/ /\ part = "store" /\ StoreNext
          /\ UNCHANGED <<requestVars, connVars, tunnelVars, logVars,
                         controlVars, prefsVars, errorVars>>
       \/ /\ part = "log" /\ LogNext
          /\ UNCHANGED <<requestVars, connVars, tunnelVars, storeVars,
                         controlVars, prefsVars, errorVars>>
       \/ /\ part = "control" /\ ControlNext
          /\ UNCHANGED <<requestVars, connVars, tunnelVars, storeVars,
                         logVars, prefsVars, errorVars>>
       \/ /\ part = "prefs" /\ PrefsNext
          /\ UNCHANGED <<requestVars, connVars, tunnelVars, storeVars,
                         logVars, controlVars, errorVars>>
       \/ /\ part = "errors" /\ ErrorNext
          /\ UNCHANGED <<requestVars, connVars, tunnelVars, storeVars,
                         logVars, controlVars, prefsVars>>

\* The fairness of ConnSpec and of ControlSpec.
ServiceSpec ==
    /\ ServiceInit /\ [][ServiceNext]_serviceVars
    /\ WF_connVars(part = "connection" /\ RunStep)
    /\ SF_connVars(part = "connection" /\ ModuleReturns)
    /\ WF_connVars(part = "connection" /\ ModuleSignals)
    /\ WF_connVars(part = "connection" /\ SocketReady)
    /\ WF_connVars(part = "connection" /\ ClientSendsBody)
    /\ WF_connVars(part = "connection" /\ ClientReads)
    /\ WF_controlVars(part = "control" /\ DoIdle)
    /\ WF_controlVars(part = "control" /\ WaitReturns)
    /\ WF_controlVars(part = "control" /\ RecordChild)

\* The type invariants of the parts.
ServiceTypeOK == RequestTypeOK /\ ConnTypeOK /\ TunnelTypeOK /\ StoreTypeOK /\ LogTypeOK
    /\ ControlTypeOK /\ PrefsTypeOK /\ ErrorTypeOK
=============================================================================
