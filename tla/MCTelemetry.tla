----------------------------- MODULE MCTelemetry -----------------------------
(***************************************************************************)
(* The outbox, the gateway's activity log and the settlement of usage,     *)
(* for TLC.  They share no state: a behaviour follows one of them, its     *)
(* focus, and the others stay as they began.                               *)
(***************************************************************************)
EXTENDS ObservationOutbox, NativeActivity, UsageSettlement, TLC

CONSTANTS Components,  \* the components a behaviour may follow
          o1, c1, c2, x, y, z

VARIABLE focus

\* Observations of different sizes.
MCSize == [o \in Observations |-> IF o = o1 THEN 2 ELSE 1]

\* Two attempts of one correlation and one of another.
MCCorr == [a \in Attempts |-> IF a = z THEN c2 ELSE c1]
MCMicros == [a \in Attempts |-> CASE a = x -> 3 [] a = y -> 1 [] OTHER -> 2]

\* Nothing tells two releases apart.
MCSymmetry == Permutations(Releases)

Init ==
    /\ focus \in Components
    /\ OutboxInit /\ ActivityInit /\ SettlementInit

Next ==
    \/ focus = "outbox" /\ OutboxNext /\ UNCHANGED <<focus, activityVars, settlementVars>>
    \/ focus = "native" /\ ActivityNext /\ UNCHANGED <<focus, outboxVars, settlementVars>>
    \/ focus = "settlement" /\ SettlementNext /\ UNCHANGED <<focus, outboxVars, activityVars>>

Spec == Init /\ [][Next]_<<focus, outboxVars, activityVars, settlementVars>>

\* Of the fair steps only those of a drain are enabled where a component begins.
FairSpec ==
    /\ Spec
    /\ WF_outboxVars(focus = "outbox" /\ Draining) /\ OutboxFairness
    /\ SettlementFair
=============================================================================
