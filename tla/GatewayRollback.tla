-------------------------- MODULE GatewayRollback --------------------------
(***************************************************************************)
(* The rollback operation of the Platform, beside the rest of the store:   *)
(* for one runtime it reads the release the runtime last reported as       *)
(* applied, checks the revision the administrator named, and enqueues that *)
(* release, in two transactions with anything in between.                  *)
(***************************************************************************)
EXTENDS GatewayRuntimeControl

VARIABLES
    target,     \* per runtime, the release an open rollback request has read
    answered    \* per runtime, the release the last rollback answered with

rollbackVars == <<target, answered>>

RollbackTypeOK ==
    /\ ControlTypeOK
    /\ target \in [Runtimes -> AnyRef]
    /\ answered \in [Runtimes -> AnyRef]

RollbackInit ==
    /\ ControlInit
    /\ target = [r \in Runtimes |-> NoRef]
    /\ answered = [r \in Runtimes |-> NoRef]

\* Mutation of RollbackRead: the release a command asks for is taken, reported
\* or not.
RollbackReadDesired(r, revision) ==
    /\ target[r] = NoRef
    /\ status[r] # "ABSENT"
    /\ \E id \in ReleaseIds :
         /\ commands[r][id].state # "NONE"
         /\ commands[r][id].rev = revision
         /\ target' = [target EXCEPT ![r] = [id |-> id, rev |-> revision]]
    /\ UNCHANGED <<controlVars, answered>>

\* A registered runtime that has reported an applied release, of the revision
\* the administrator names.
RollbackRead(r, revision) ==
    /\ target[r] = NoRef
    /\ status[r] # "ABSENT"
    /\ observed[r].applied # NoRef
    /\ observed[r].applied.rev = revision
    /\ target' = [target EXCEPT ![r] = observed[r].applied]
    /\ UNCHANGED <<controlVars, answered>>

\* The release is enqueued like that of a commit, for an active, capable
\* runtime, and the answer names its command.
RollbackEnqueue(r) ==
    /\ target[r] # NoRef
    /\ r \in Group
    /\ CommandImmutable(r, target[r])
    /\ commands' = [commands EXCEPT ![r][target[r].id] = Enqueued(r, target[r])]
    /\ answered' = [answered EXCEPT ![r] = target[r]]
    /\ target' = [target EXCEPT ![r] = NoRef]
    /\ UNCHANGED <<status, capable, head, observed, history, polled>>

\* The runtime was retired in between: the request fails.
RollbackRefused(r) ==
    /\ target[r] # NoRef
    /\ r \notin Group
    /\ target' = [target EXCEPT ![r] = NoRef]
    /\ UNCHANGED <<controlVars, answered>>

RollbackNext ==
    \/ ControlNext /\ UNCHANGED rollbackVars
    \/ \E r \in Runtimes : \/ \E revision \in 1..MaxRevision : RollbackRead(r, revision)
                           \/ RollbackEnqueue(r)
                           \/ RollbackRefused(r)

RollbackSpec == RollbackInit /\ [][RollbackNext]_<<controlVars, rollbackVars>>

-----------------------------------------------------------------------------
(* Properties *)

\* A release a rollback answers with was reported READY by that very runtime,
\* however many reports came between reading it and enqueueing it: "a Runtime
\* can only be sent back to something it proved it could apply".
RollbackTargetProven ==
    \A r \in Runtimes : \A ref \in {target[r], answered[r]} \ {NoRef} :
        \E h \in history[r] : h.outcome = "ACCEPTED" /\ h.body.state = "READY" /\ h.body.applied = ref

(* A rollback reads and enqueues in two transactions, with reports and     *)
(* other releases in between, and still answers only with a release that   *)
(* the runtime proved.                                                     *)
RollbackSafe ==
    /\ RollbackTypeOK /\ RollbackTargetProven

=============================================================================
