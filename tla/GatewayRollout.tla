--------------------------- MODULE GatewayRollout ---------------------------
(***************************************************************************)
(* What release delivery promises about one runtime, and nothing of how:   *)
(* the Platform publishes releases under growing revisions, the runtime    *)
(* installs published ones durably, and the Platform trusts the runtime to *)
(* run only what it has installed.  None of the three ever goes back.      *)
(***************************************************************************)
EXTENDS Naturals

VARIABLES
    published,  \* the head revision
    installed,  \* the newest revision the runtime has applied and saved
    trusted     \* the revision the Platform believes the runtime runs

rolloutVars == <<published, installed, trusted>>

RolloutInit == published = 0 /\ installed = 0 /\ trusted = 0

Publish ==
    /\ published' = published + 1
    /\ UNCHANGED <<installed, trusted>>

Install ==
    /\ installed' \in (installed + 1)..published
    /\ UNCHANGED <<published, trusted>>

Trust ==
    /\ trusted' \in (trusted + 1)..installed
    /\ UNCHANGED <<published, installed>>

RolloutNext == Publish \/ Install \/ Trust

RolloutSpec == RolloutInit /\ [][RolloutNext]_rolloutVars
=============================================================================
