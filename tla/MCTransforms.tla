----------------------------- MODULE MCTransforms -----------------------------
(***************************************************************************)
(* The parts that work on what they are given: the cleaner on a            *)
(* conversation, the bridge on a stream, the routing on a connection, the  *)
(* figures on the log, the A/B test on two logs, the timing gate on the    *)
(* artefacts.  They share no variable: `part` says which of them moves,    *)
(* the others stay as they began.                                          *)
(***************************************************************************)
EXTENDS ContextCleaner, GeminiRequest, HostLocal, SseBridge, Telemetry, TimingGate, AbWorkload

VARIABLE part

MCLength == [mid |-> 1, long |-> 2]

\* The second turn grows; the two together are less by 29 of 100.
MCFullTokens == (0 :> 60) @@ (1 :> 80) @@ (2 :> 20)
MCCleanedTokens == (0 :> 20) @@ (1 :> 41) @@ (2 :> 30)
MCBody == (0 :> "messages") @@ (1 :> "messages") @@ (2 :> "contents")

allVars == <<cleanVars, requestVars, bridgeVars, hostVars, telemetryVars, abVars, gateVars>>

MCInit ==
    /\ CleanInit /\ RequestInit /\ BridgeInit /\ HostInit
    /\ TelemetryInit /\ AbInit /\ GateInit
    /\ part \in {"cleaner", "request", "bridge", "host", "figures", "ab", "gate"}
    /\ part # "cleaner" => provider = "anthropic"
    /\ part # "request" => style = "none"
    /\ part # "ab" => proxy.mode = "baseline"

MCNext ==
    \/ /\ part = "cleaner" /\ CleanNext
       /\ UNCHANGED <<part, requestVars, bridgeVars, hostVars, telemetryVars, abVars, gateVars>>
    \/ /\ part = "request" /\ RequestNext
       /\ UNCHANGED <<part, cleanVars, bridgeVars, hostVars, telemetryVars, abVars, gateVars>>
    \/ /\ part = "bridge" /\ BridgeNext
       /\ UNCHANGED <<part, cleanVars, requestVars, hostVars, telemetryVars, abVars, gateVars>>
    \/ /\ part = "host" /\ HostNext
       /\ UNCHANGED <<part, cleanVars, requestVars, bridgeVars, telemetryVars, abVars, gateVars>>
    \/ /\ part = "figures" /\ TelemetryNext
       /\ UNCHANGED <<part, cleanVars, requestVars, bridgeVars, hostVars, abVars, gateVars>>
    \/ /\ part = "ab" /\ AbNext
       /\ UNCHANGED <<part, cleanVars, requestVars, bridgeVars, hostVars, telemetryVars, gateVars>>
    \/ /\ part = "gate" /\ GateNext
       /\ UNCHANGED <<part, cleanVars, requestVars, bridgeVars, hostVars, telemetryVars, abVars>>

MCSpec == MCInit /\ [][MCNext]_<<part, allVars>>
=============================================================================
