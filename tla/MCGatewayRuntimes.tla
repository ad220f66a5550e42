-------------------------- MODULE MCGatewayRuntimes --------------------------
(***************************************************************************)
(* A Gateway Runtime's controller alone, the same with the policy sidecars *)
(* that read its files, the local applier, and the telemetry outbox that   *)
(* processes at a Gateway share, for TLC.  A behaviour follows one of      *)
(* them, its focus; the others stay as they began.                         *)
(***************************************************************************)
EXTENDS GatewayPolicySidecars, LocalAigw, OtlpOutbox, TLC

CONSTANTS Components,  \* the components a behaviour may follow
          a, b

VARIABLE focus

\* The first release grants two entitlements; the second revokes one of them.
MCRevokes == (a :> {}) @@ (b :> {"e1"})
MCGrants == (a :> {"e1", "e2"}) @@ (b :> {"e2"})

\* Nothing tells two processes apart.
MCSymmetry == Permutations(Processes)

Init ==
    /\ focus \in Components
    /\ SidecarsInit /\ AigwInit /\ OtlpInit

Next ==
    \/ focus = "runtime" /\ RuntimeNext /\ UNCHANGED <<focus, filesVars, requestVars, aigwVars, otlpVars>>
    \/ focus = "sidecars" /\ SidecarsNext /\ UNCHANGED <<focus, aigwVars, otlpVars>>
    \/ focus = "aigw" /\ AigwNext /\ UNCHANGED <<focus, sidecarsVars, otlpVars>>
    \/ focus = "otlp" /\ OtlpNext /\ UNCHANGED <<focus, sidecarsVars, aigwVars>>

Spec == Init /\ [][Next]_<<focus, sidecarsVars, aigwVars, otlpVars>>
=============================================================================
