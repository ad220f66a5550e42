----------------------- MODULE GatewayRuntimeControl -----------------------
(***************************************************************************)
(* The control plane's side of Gateway release delivery: the release head  *)
(* of one Gateway, the registrations and capabilities of its runtimes, the *)
(* aggregate command each runtime gets for each release, the observed      *)
(* state and the report history kept per runtime.                          *)
(*                                                                         *)
(* Every action is one database transaction of the Platform API, or, for   *)
(* a handler that is not one transaction (the command poll), one of its    *)
(* transactions.  Reports come from any authenticated runtime, whatever it *)
(* does: a report is any record of Reports.  The real runtime is           *)
(* GatewayRuntime.tla, and GatewayDelivery.tla composes the two.           *)
(*                                                                         *)
(* Abstractions.  One tenant and one Gateway.  Signatures and schema       *)
(* checks always succeed: the inputs are the well-formed ones.             *)
(***************************************************************************)
EXTENDS GatewayReleases

CONSTANTS
    Runtimes,       \* the Gateway Runtime replicas that may register
    ReportIds       \* the report identifiers (random UUIDs)

VARIABLES
    status,     \* registration status of a runtime
    capable,    \* whether the runtime negotiated aggregate delivery
    head,       \* the release head of the Gateway
    commands,   \* per runtime and release, its aggregate command row
    observed,   \* per runtime, its observed state row
    history,    \* per runtime, the report history rows
    polled      \* per runtime, the command its open poll request has listed

controlVars == <<status, capable, head, commands, observed, history, polled>>

-----------------------------------------------------------------------------
(* Types *)

Statuses == {"ABSENT", "ACTIVE", "REVOKED"}

CommandRows == [rev : 1..MaxRevision, state : {"PENDING", "ACKNOWLEDGED", "FAILED"},
                delivered : BOOLEAN]
NoCommand == [rev |-> 0, state |-> "NONE", delivered |-> FALSE]
Commands == CommandRows \cup {NoCommand}

Reports == [report : ReportIds, command : ReleaseIds, rev : 1..MaxRevision,
            state : ReportStates, applied : AnyRef]
Histories == [body : Reports, outcome : {"ACCEPTED", "STALE"}]

ControlTypeOK ==
    /\ status \in [Runtimes -> Statuses]
    /\ capable \in [Runtimes -> BOOLEAN]
    /\ head \in AnyRef
    /\ commands \in [Runtimes -> [ReleaseIds -> Commands]]
    /\ observed \in [Runtimes -> Observations]
    /\ history \in [Runtimes -> SUBSET Histories]
    /\ polled \in [Runtimes -> AnyRef]

ControlInit ==
    /\ status = [r \in Runtimes |-> "ABSENT"]
    /\ capable = [r \in Runtimes |-> FALSE]
    /\ head = NoRef
    /\ commands = [r \in Runtimes |-> [id \in ReleaseIds |-> NoCommand]]
    /\ observed = [r \in Runtimes |-> NoObservation]
    /\ history = [r \in Runtimes |-> {}]
    /\ polled = [r \in Runtimes |-> NoRef]

-----------------------------------------------------------------------------
(* Registration and capabilities *)

\* A provisioned runtime is registered ACTIVE for the Gateway; a retired one
\* is never registered again under its id.
RegisterRuntime(r) ==
    /\ status[r] = "ABSENT"
    /\ status' = [status EXCEPT ![r] = "ACTIVE"]
    /\ UNCHANGED <<capable, head, commands, observed, history, polled>>

RetireRuntime(r) ==
    /\ status[r] = "ACTIVE"
    /\ status' = [status EXCEPT ![r] = "REVOKED"]
    /\ UNCHANGED <<capable, head, commands, observed, history, polled>>

SaveCapabilities(r) ==
    /\ status[r] = "ACTIVE"
    /\ capable' = [capable EXCEPT ![r] = TRUE]
    /\ UNCHANGED <<status, head, commands, observed, history, polled>>

-----------------------------------------------------------------------------
(* Committing a release *)

\* The runtimes a release is compiled for.
Group == {r \in Runtimes : status[r] = "ACTIVE" /\ capable[r]}

\* The head after release id is saved: a new release takes the next revision.
NextHead(id) ==
    IF head.id = id THEN head ELSE [id |-> id, rev |-> head.rev + 1]

\* A release a runtime already has a command for must carry the same
\* reference, or the transaction fails with RUNTIME_AGGREGATE_COMMAND_IMMUTABLE.
CommandImmutable(r, ref) ==
    commands[r][ref.id].state # "NONE" => commands[r][ref.id].rev = ref.rev

\* The command row of runtime r for ref after enqueueing: an existing row is
\* returned as it is, whatever its state.
Enqueued(r, ref) ==
    IF commands[r][ref.id].state # "NONE"
    THEN commands[r][ref.id]
    ELSE [rev |-> ref.rev, state |-> "PENDING", delivered |-> FALSE]

\* Compiling, saving and enqueueing release id for the whole group, for a
\* publication, a policy change or a renewal, in one transaction.
CommitRelease(id) ==
    LET ref == NextHead(id) IN
    /\ Group # {}
    /\ ref.rev <= MaxRevision
    /\ \A r \in Group : CommandImmutable(r, ref)
    /\ head' = ref
    /\ commands' = [r \in Runtimes |->
                      IF r \in Group
                      THEN [commands[r] EXCEPT ![id] = Enqueued(r, ref)]
                      ELSE commands[r]]
    /\ UNCHANGED <<status, capable, observed, history, polled>>

-----------------------------------------------------------------------------
(* Polling a command *)

\* A terminal observation at this revision or a later one hides the command.
Masked(r, rev) ==
    /\ observed[r].state \in {"READY", "DEGRADED"}
    /\ observed[r].rev >= rev

\* Mutation of Pending: a command delivered once is not listed again.
PendingUndelivered(r) ==
    {id \in ReleaseIds :
        /\ status[r] = "ACTIVE"
        /\ commands[r][id].state = "PENDING"
        /\ ~ commands[r][id].delivered
        /\ ~ Masked(r, commands[r][id].rev)}

Pending(r) ==
    {id \in ReleaseIds :
        /\ status[r] = "ACTIVE"
        /\ commands[r][id].state = "PENDING"
        /\ ~ Masked(r, commands[r][id].rev)}

\* The newest pending command: the one row the query returns.
Newest(r, id) ==
    /\ id \in Pending(r)
    /\ \A other \in Pending(r) : commands[r][other].rev <= commands[r][id].rev

PollList(r) ==
    /\ status[r] = "ACTIVE"
    /\ capable[r]
    /\ polled[r] = NoRef
    /\ \E id \in ReleaseIds :
         /\ Newest(r, id)
         /\ polled' = [polled EXCEPT ![r] = [id |-> id, rev |-> commands[r][id].rev]]
    /\ UNCHANGED <<status, capable, head, commands, observed, history>>

\* Marking the listed command delivered; the response then carries it.
PollDeliver(r) ==
    /\ polled[r] # NoRef
    /\ commands[r][polled[r].id].state # "FAILED"
    /\ commands' = [commands EXCEPT ![r][polled[r].id].delivered = TRUE]
    /\ polled' = [polled EXCEPT ![r] = NoRef]
    /\ UNCHANGED <<status, capable, head, observed, history>>

\* The command failed after it was listed: RUNTIME_COMMAND_STATE_CONFLICT.
PollConflict(r) ==
    /\ polled[r] # NoRef
    /\ commands[r][polled[r].id].state = "FAILED"
    /\ polled' = [polled EXCEPT ![r] = NoRef]
    /\ UNCHANGED <<status, capable, head, commands, observed, history>>

-----------------------------------------------------------------------------
(* Recording a report *)

Desired(r, rep) == [id |-> rep.command, rev |-> commands[r][rep.command].rev]

\* What the protocol's parser asks of a report: READY names the release of
\* its own revision, UNKNOWN names none.
Parsed(rep) ==
    /\ rep.state = "READY" => rep.applied # NoRef /\ rep.applied.rev = rep.rev
    /\ rep.state = "UNKNOWN" => rep.applied = NoRef

\* Mutation of Verified: a report that is not READY may name any release.
VerifiedUnretained(r, rep) ==
    /\ rep.rev = commands[r][rep.command].rev
    /\ rep.state = "READY" => rep.applied = Desired(r, rep)

\* The report answers this command; READY applied the commanded release, any
\* other state may only retain the release the Platform already trusts.
Verified(r, rep) ==
    /\ rep.rev = commands[r][rep.command].rev
    /\ IF rep.state = "READY"
       THEN rep.applied = Desired(r, rep)
       ELSE /\ rep.state = "APPLYING" => rep.applied # Desired(r, rep)
            /\ rep.applied \in {NoRef, observed[r].applied}

\* Mutation of Stale: revisions are compared only within one command.
StaleSameCommand(r, rep) ==
    rep.command = observed[r].command /\ rep.rev < observed[r].rev

Stale(r, rep) == rep.rev < observed[r].rev

\* A report of the observed revision may not change the applied release,
\* except that READY completes an APPLYING or UNKNOWN observation.
Completes(r, rep) ==
    /\ commands[r][rep.command].state = "PENDING"
    /\ observed[r].command = rep.command
    /\ observed[r].state \in {"APPLYING", "UNKNOWN"}
    /\ rep.state = "READY"
    /\ rep.applied = Desired(r, rep)

ReleaseConflict(r, rep) ==
    /\ rep.rev = observed[r].rev
    /\ observed[r].applied # NoRef
    /\ rep.applied \notin {NoRef, observed[r].applied}
    /\ ~ Completes(r, rep)

\* The conditions under which the report gets a history row.  A report id seen
\* before changes nothing, and neither does any report that is refused.
Recordable(r, rep) ==
    /\ status[r] = "ACTIVE"
    /\ Parsed(rep)
    /\ \A h \in history[r] : h.body.report # rep.report
    /\ commands[r][rep.command].state # "NONE"
    /\ Verified(r, rep)
    /\ ~ ReleaseConflict(r, rep)

RecordStale(r, rep) ==
    /\ Recordable(r, rep)
    /\ Stale(r, rep)
    /\ history' = [history EXCEPT ![r] = @ \cup {[body |-> rep, outcome |-> "STALE"]}]
    /\ UNCHANGED <<status, capable, head, commands, observed, polled>>

Settled(state, report) ==
    IF state # "PENDING" THEN state
    ELSE CASE report = "READY" -> "ACKNOWLEDGED"
           [] report = "DEGRADED" -> "FAILED"
           [] OTHER -> state

\* The observation and the command after an accepted report: a report without
\* a release retains the one the Platform trusts.
ApplyReport(r, rep) ==
    /\ observed' = [observed EXCEPT ![r] =
         [command |-> rep.command, rev |-> rep.rev, state |-> rep.state,
          applied |-> IF rep.applied # NoRef THEN rep.applied ELSE observed[r].applied]]
    /\ commands' = [commands EXCEPT ![r][rep.command].state = Settled(@, rep.state)]

RecordAccepted(r, rep) ==
    /\ Recordable(r, rep)
    /\ ~ Stale(r, rep)
    /\ history' = [history EXCEPT ![r] = @ \cup {[body |-> rep, outcome |-> "ACCEPTED"]}]
    /\ ApplyReport(r, rep)
    /\ UNCHANGED <<status, capable, head, polled>>

-----------------------------------------------------------------------------

ControlNext ==
    \/ \E r \in Runtimes : \/ RegisterRuntime(r)
                           \/ RetireRuntime(r)
                           \/ SaveCapabilities(r)
                           \/ PollList(r)
                           \/ PollDeliver(r)
                           \/ PollConflict(r)
    \/ \E id \in ReleaseIds : CommitRelease(id)
    \/ \E r \in Runtimes : \E rep \in Reports :
         RecordStale(r, rep) \/ RecordAccepted(r, rep)

ControlSpec == ControlInit /\ [][ControlNext]_controlVars

-----------------------------------------------------------------------------
(* Properties *)

\* The inductive strengthening of the invariants below.  A listed command is a
\* row of the command table, with the revision the poll read.
PolledIsCommand ==
    \A r \in Runtimes :
        polled[r] # NoRef =>
            /\ commands[r][polled[r].id].state # "NONE"
            /\ commands[r][polled[r].id].rev = polled[r].rev

\* A command of the head's revision is a command for the head's release.
HeadNamesRelease ==
    \A r \in Runtimes : \A id \in ReleaseIds :
        commands[r][id].state # "NONE" =>
            /\ commands[r][id].rev <= head.rev
            /\ commands[r][id].rev = head.rev => id = head.id

\* The applied release is never newer than the observation that carries it.
AppliedNotAhead == \A r \in Runtimes : observed[r].applied.rev <= observed[r].rev

\* A head revision names one release: no two commands, of the same runtime or
\* of two replicas, carry the same revision for different releases
\* (saveWithTransaction and the enqueue loop of commit).
RevisionNamesRelease ==
    \A r, s \in Runtimes : \A a, b \in ReleaseIds :
        /\ commands[r][a].state # "NONE"
        /\ commands[s][b].state # "NONE"
        /\ commands[r][a].rev = commands[s][b].rev
        => a = b

\* The release the Platform believes a runtime runs was at some time reported
\* READY by that runtime, in an accepted report for that very release: the
\* rollback handler relies on it ("re-delivering a package the Runtime never
\* proved it could apply would not be a recovery").
AppliedWasProven ==
    \A r \in Runtimes :
        observed[r].applied # NoRef =>
            \E h \in history[r] : /\ h.outcome = "ACCEPTED"
                                  /\ h.body.state = "READY"
                                  /\ h.body.applied = observed[r].applied

\* A command is ACKNOWLEDGED only if the runtime reported its release READY,
\* and FAILED only if it reported the command DEGRADED (recordReport).
SettledByReport ==
    \A r \in Runtimes : \A id \in ReleaseIds :
        /\ commands[r][id].state = "ACKNOWLEDGED" =>
             \E h \in history[r] : /\ h.outcome = "ACCEPTED"
                                   /\ h.body.state = "READY"
                                   /\ h.body.applied = [id |-> id, rev |-> commands[r][id].rev]
        /\ commands[r][id].state = "FAILED" =>
             \E h \in history[r] : /\ h.outcome = "ACCEPTED"
                                   /\ h.body.state = "DEGRADED"
                                   /\ h.body.command = id

ControlInv ==
    /\ ControlTypeOK
    /\ PolledIsCommand
    /\ HeadNamesRelease
    /\ RevisionNamesRelease
    /\ AppliedNotAhead
    /\ AppliedWasProven
    /\ SettledByReport

\* Whatever a runtime reports and in whatever order its reports arrive, the
\* observed revision and the applied revision of a runtime never go back.
ObservedNeverRegresses ==
    [][\A r \in Runtimes : /\ observed'[r].rev >= observed[r].rev
                           /\ observed'[r].applied.rev >= observed[r].applied.rev]_controlVars

\* A command that was acknowledged or failed keeps that outcome, and its
\* revision never changes once it is enqueued.
CommandsAreFinal ==
    [][\A r \in Runtimes : \A id \in ReleaseIds :
         /\ commands[r][id].state \in {"ACKNOWLEDGED", "FAILED"} =>
              commands'[r][id].state = commands[r][id].state
         /\ commands[r][id].state # "NONE" =>
              commands'[r][id].rev = commands[r][id].rev]_controlVars

(* Whatever reports arrive, late, repeated or out of order, a revision     *)
(* names one release, what the Platform takes as applied was proven by a   *)
(* report of that runtime, and a command is settled only by a report about *)
(* it.                                                                     *)
ControlSafe ==
    /\ ControlTypeOK /\ RevisionNamesRelease /\ AppliedWasProven /\ SettledByReport

=============================================================================
