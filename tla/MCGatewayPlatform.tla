-------------------------- MODULE MCGatewayPlatform --------------------------
(***************************************************************************)
(* What the Platform keeps of its Gateways, for TLC: the release store     *)
(* with its rollbacks, the transactions' locks, registrations, session     *)
(* leases and Connections.  A behaviour follows one of them, its focus,    *)
(* and the others stay as they began.                                      *)
(***************************************************************************)
EXTENDS GatewayRollback, GatewayReleaseLocks, GatewayRegistration, GatewaySessionLease,
        ConnectionLifecycle, TLC

CONSTANTS Components,  \* the components a behaviour may follow
          p1, p2, w, r, n, b

VARIABLE focus

\* Two publications and one transaction of every other kind.
MCKind == (p1 :> "publish") @@ (p2 :> "publish") @@ (w :> "renew") @@ (r :> "report")
          @@ (n :> "negotiate") @@ (b :> "rollback")

\* Nothing tells two runtimes or two verifications of a Connection apart.
MCSymmetry == Permutations(ConnectionRuntimes) \cup Permutations(Verifiers)

storeVars == <<controlVars, rollbackVars>>

Init ==
    /\ focus \in Components
    /\ RollbackInit /\ LocksInit /\ RegistrationInit /\ LeaseInit /\ ConnectionInit

Next ==
    \/ focus = "store" /\ RollbackNext /\ UNCHANGED <<focus, locksVars, registrationVars, leaseVars, connectionVars>>
    \/ focus = "locks" /\ LocksNext /\ UNCHANGED <<focus, storeVars, registrationVars, leaseVars, connectionVars>>
    \/ focus = "registration" /\ RegistrationNext /\ UNCHANGED <<focus, storeVars, locksVars, leaseVars, connectionVars>>
    \/ focus = "lease" /\ LeaseNext /\ UNCHANGED <<focus, storeVars, locksVars, registrationVars, connectionVars>>
    \/ focus = "connection" /\ ConnectionNext /\ UNCHANGED <<focus, storeVars, locksVars, registrationVars, leaseVars>>

Spec == Init /\ [][Next]_<<focus, storeVars, locksVars, registrationVars, leaseVars, connectionVars>>
=============================================================================
