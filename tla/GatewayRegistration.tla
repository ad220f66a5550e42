------------------------ MODULE GatewayRegistration ------------------------
(***************************************************************************)
(* Registering, provisioning and retiring a Gateway: its registration row, *)
(* its runtime's row in runtime control, and its client at the identity    *)
(* provider (Keycloak), which no database transaction covers.               *)
(*                                                                         *)
(* Each request works in a transaction that holds an advisory lock on the  *)
(* runtime and calls the identity provider in between.  A request may fail *)
(* or die anywhere: its transaction is rolled back, its calls to the       *)
(* identity provider are not.  The database may also end the transaction    *)
(* of a request that goes on.                                               *)
(***************************************************************************)
EXTENDS Naturals

CONSTANTS
    Requests,              \* requests under way at once
    RegistrationNobody,    \* the holder of a free lock
    MaxSecret,             \* bound on the secrets and report keys generated
    RegistrationMaxFaults  \* bound on requests that fail and answers that are lost

ASSUME RegistrationAssumption ==
    /\ RegistrationNobody \notin Requests
    /\ MaxSecret \in Nat /\ RegistrationMaxFaults \in Nat

VARIABLES
    state,               \* the registration row
    control,             \* the runtime's row: its status and report key
    client,              \* the client at the identity provider: its secret, 0 if none
    lock,                \* who holds the lifecycle lock
    request,             \* a request: how far it is, the secret it read, its transaction
    delivered,           \* the bootstrap configuration last handed out
    serial,              \* secrets generated so far
    registrationFaults,  \* faults so far
    losses               \* transactions lost under a request that went on

registrationVars == <<state, control, client, lock, request, delivered, serial, registrationFaults, losses>>

RegistrationStates == {"ABSENT", "PROVISIONING", "ACTIVE", "RETIRED"}
Steps == {"idle", "provision", "client", "secret", "activate", "answer", "retire", "revoke", "close"}
Secrets == 0..MaxSecret

Idle == [step |-> "idle", secret |-> 0, open |-> FALSE]

RegistrationTypeOK ==
    /\ state \in RegistrationStates
    /\ control \in [status : {"ABSENT", "ACTIVE", "REVOKED"}, key : Secrets]
    /\ client \in Secrets
    /\ lock \in Requests \cup {RegistrationNobody}
    /\ request \in [Requests -> [step : Steps, secret : Secrets, open : BOOLEAN]]
    /\ delivered \in [secret : Secrets, key : Secrets]
    /\ serial \in Secrets
    /\ registrationFaults \in 0..RegistrationMaxFaults /\ losses \in 0..1

RegistrationInit ==
    /\ state = "ABSENT"
    /\ control = [status |-> "ABSENT", key |-> 0]
    /\ client = 0
    /\ lock = RegistrationNobody
    /\ request = [q \in Requests |-> Idle]
    /\ delivered = [secret |-> 0, key |-> 0]
    /\ serial = 0 /\ registrationFaults = 0 /\ losses = 0

At(q, step) == request[q].step = step
Goto(q, step) == request' = [request EXCEPT ![q].step = step]
Unlock(q) == lock' = IF lock = q THEN RegistrationNobody ELSE lock
End(q) == request' = [request EXCEPT ![q] = Idle] /\ Unlock(q)

\* create, in a statement of its own; the request goes on to provision.
Register(q) ==
    /\ At(q, "idle") /\ state = "ABSENT"
    /\ state' = "PROVISIONING"
    /\ Goto(q, "provision")
    /\ UNCHANGED <<control, client, lock, delivered, serial, registrationFaults, losses>>

\* A request to provision or to retire a known Gateway.
Begin(q, step) ==
    /\ At(q, "idle") /\ state # "ABSENT"
    /\ Goto(q, step)
    /\ UNCHANGED <<state, control, client, lock, delivered, serial, registrationFaults, losses>>

MayProvision == state = "PROVISIONING"

\* Mutation of Enter: the lock is not asked for.
EnterUnlocked(q) ==
    /\ At(q, "provision") \/ At(q, "retire")
    /\ IF IF At(q, "provision") THEN MayProvision ELSE state # "RETIRED"
       THEN /\ lock' = q
            /\ request' = [request EXCEPT ![q].open = TRUE,
                                          ![q].step = IF @ = "provision" THEN "client" ELSE "revoke"]
       ELSE End(q)
    /\ UNCHANGED <<state, control, client, delivered, serial, registrationFaults, losses>>

\* The transaction begins and tries the lock; a held lock, or a row in the
\* wrong state, ends the request.  Retiring what is retired returns at once.
Enter(q) ==
    /\ At(q, "provision") \/ At(q, "retire")
    /\ IF lock = RegistrationNobody /\ (IF At(q, "provision") THEN MayProvision ELSE state # "RETIRED")
       THEN /\ lock' = q
            /\ request' = [request EXCEPT ![q].open = TRUE,
                                          ![q].step = IF @ = "provision" THEN "client" ELSE "revoke"]
       ELSE End(q)
    /\ UNCHANGED <<state, control, client, delivered, serial, registrationFaults, losses>>

\* The client is looked up and updated, or created, and given its scope and
\* its mappers.
EnsureClient(q) ==
    /\ At(q, "client")
    /\ IF client = 0
       THEN serial < MaxSecret /\ serial' = serial + 1 /\ client' = serial + 1
       ELSE UNCHANGED <<client, serial>>
    /\ Goto(q, "secret")
    /\ UNCHANGED <<state, control, lock, delivered, registrationFaults, losses>>

\* A new client secret; there may be no client any more.
RotateSecret(q) ==
    /\ At(q, "secret")
    /\ IF client = 0
       THEN End(q) /\ UNCHANGED <<client, serial>>
       ELSE /\ serial < MaxSecret /\ serial' = serial + 1 /\ client' = serial + 1
            /\ request' = [request EXCEPT ![q].step = "activate", ![q].secret = serial + 1]
            /\ UNCHANGED lock
    /\ UNCHANGED <<state, control, delivered, registrationFaults, losses>>

\* The report key is generated and registered, the registration activated, and
\* the transaction commits.  A report key stands for the secret it came with.
Activate(q) ==
    /\ At(q, "activate") /\ request[q].open
    /\ state = "PROVISIONING"
    /\ control' = [status |-> "ACTIVE", key |-> request[q].secret]
    /\ state' = "ACTIVE"
    /\ request' = [request EXCEPT ![q].step = "answer", ![q].open = FALSE]
    /\ Unlock(q)
    /\ UNCHANGED <<client, delivered, serial, registrationFaults, losses>>

\* The one delivery of the bootstrap configuration.
Answer(q) ==
    /\ At(q, "answer")
    /\ delivered' = [secret |-> request[q].secret, key |-> request[q].secret]
    /\ End(q)
    /\ UNCHANGED <<state, control, client, serial, registrationFaults, losses>>

\* The client is deleted at the identity provider.
RevokeClient(q) ==
    /\ At(q, "revoke")
    /\ client' = 0
    /\ Goto(q, "close")
    /\ UNCHANGED <<state, control, lock, delivered, serial, registrationFaults, losses>>

\* The runtime is revoked, the registration retired, the transaction commits.
RegistrationRetire(q) ==
    /\ At(q, "close") /\ request[q].open
    /\ control' = IF control.status = "ABSENT" THEN control ELSE [control EXCEPT !.status = "REVOKED"]
    /\ state' = "RETIRED"
    /\ End(q)
    /\ UNCHANGED <<client, delivered, serial, registrationFaults, losses>>

\* A statement on a lost transaction fails.
StatementFails(q) ==
    /\ At(q, "activate") \/ At(q, "close")
    /\ ~ request[q].open
    /\ End(q)
    /\ UNCHANGED <<state, control, client, delivered, serial, registrationFaults, losses>>

\* The process dies, the identity provider refuses, or the commit fails; after
\* the commit, the answer is lost.
Fails(q) ==
    /\ ~ At(q, "idle")
    /\ registrationFaults < RegistrationMaxFaults /\ registrationFaults' = registrationFaults + 1
    /\ End(q)
    /\ UNCHANGED <<state, control, client, delivered, serial, losses>>

\* The connection is lost, and the lock with it, while the request waits for
\* the identity provider.
LoseTransaction(q) ==
    /\ request[q].open /\ losses = 0
    /\ losses' = 1
    /\ request' = [request EXCEPT ![q].open = FALSE]
    /\ Unlock(q)
    /\ UNCHANGED <<state, control, client, delivered, serial, registrationFaults>>

RegistrationNext ==
    \E q \in Requests :
        \/ Register(q) \/ Begin(q, "provision") \/ Begin(q, "retire") \/ Enter(q)
        \/ EnsureClient(q) \/ RotateSecret(q) \/ Activate(q) \/ Answer(q)
        \/ RevokeClient(q) \/ RegistrationRetire(q)
        \/ StatementFails(q) \/ Fails(q) \/ LoseTransaction(q)

RegistrationSpec == RegistrationInit /\ [][RegistrationNext]_registrationVars

-----------------------------------------------------------------------------
(* Properties                                                              *)

\* A retired Gateway has no client at the identity provider and its runtime is
\* not active (retire), unless the database ended the transaction of a
\* provisioning that went on.
RetiredIsCutOff ==
    state = "RETIRED" /\ losses = 0 => client = 0 /\ control.status # "ACTIVE"

\* The credentials of the bootstrap configuration that was handed out are the
\* ones in force until the Gateway is retired: no other request rotates the
\* secret or replaces the report key (provision), with the same exception.
DeliveredStaysValid ==
    state = "ACTIVE" /\ delivered.secret # 0 /\ losses = 0
        => client \in {0, delivered.secret} /\ control.key = delivered.key

(* Requests that fail, die or lose their transaction between the database  *)
(* and the identity provider neither leave a retired Gateway its           *)
(* credentials nor replace credentials that were handed out.               *)
RegistrationSafe ==
    /\ RegistrationTypeOK /\ RetiredIsCutOff /\ DeliveredStaysValid

=============================================================================
