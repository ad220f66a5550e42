------------------------- MODULE MCGatewayDelivery -------------------------
(* Instances of GatewayDelivery for TLC. *)
EXTENDS GatewayDelivery, TLC

\* No release revokes anything: revocations are GatewayRuntime's matter.
MCRevokes == [id \in ReleaseIds |-> {}]
=============================================================================
