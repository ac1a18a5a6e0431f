------------------------------ MODULE MCProcess ------------------------------
(***************************************************************************)
(* One run for the processes and threads of a node: the telemetry child,   *)
(* the heartbeat's decisions, and the start and end of the program.  These *)
(* share no variable, so a behaviour exercises one of them, its focus, and *)
(* the others stay as they start.                                          *)
(***************************************************************************)
EXTENDS TelemetryBridge, Heartbeat, NodeProgram

VARIABLE focus

MCSize == [l \in Line |-> IF l = "long" THEN 3 ELSE 2]
MCReport == {[line |-> "peer", from |-> "p", sig |-> s] : s \in {"good", "bad"}}

-----------------------------------------------------------------------------
processVars == <<bridgeVars, heartVars, programVars, focus>>

MCInit ==
    /\ focus \in {"bridge", "heartbeat", "program"}
    /\ BridgeInit /\ HeartInit /\ ProgramInit
    /\ focus # "bridge" => ~unsafe
    /\ focus # "program" => bridge = "none"

InBridge == focus = "bridge" /\ UNCHANGED <<heartVars, programVars, focus>>
InHeartbeat == focus = "heartbeat" /\ UNCHANGED <<bridgeVars, programVars, focus>>
InProgram == focus = "program" /\ UNCHANGED <<bridgeVars, heartVars, focus>>

MCNext ==
    \/ InBridge /\ BridgeNext
    \/ InHeartbeat /\ HeartNext
    \/ InProgram /\ ProgramNext

\* The fairness of each component, in the behaviours that exercise it.
MCFairness ==
    /\ WF_processVars(InBridge /\ ChildStep)
    /\ WF_processVars(InHeartbeat /\ Heartbeat)
    /\ WF_processVars(InProgram /\ MainStep)
    /\ WF_processVars(InProgram /\ HeartbeatStep)
    /\ WF_processVars(InProgram /\ (IpcOpen \/ IpcSelect \/ IpcExecute))
    /\ WF_processVars(InProgram /\ (ListenerBind \/ ListenerStep))
    /\ WF_processVars(InProgram /\ tls_worker_loop)
    /\ WF_processVars(InProgram /\ beacon_loop)

MCSpec == MCInit /\ [][MCNext]_processVars /\ MCFairness
=============================================================================
