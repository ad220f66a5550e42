-------------------------- MODULE GatewayDelivery --------------------------
(***************************************************************************)
(* Release delivery end to end: the Platform's store, one Gateway Runtime  *)
(* (Self) that polls it, and the reports on their way between them.        *)
(*                                                                         *)
(* A report is posted once, under a fresh id.  The request may be lost, or *)
(* the runtime may stop waiting for the answer (30 seconds) or die while   *)
(* the Platform has yet to process it: the report then takes effect late,  *)
(* after newer ones.  Because ids are fresh the Platform's check for       *)
(* duplicates never fires here, and the history rows, which nothing else   *)
(* reads, are left out: history stays empty.                               *)
(*                                                                         *)
(* Other replicas register, retire and negotiate, so that the head may     *)
(* move while Self is not part of the group; their reports touch only      *)
(* their own rows and are left to GatewayRuntimeControl.                   *)
(***************************************************************************)
EXTENDS GatewayRuntimeControl, GatewayRuntime

CONSTANT Self       \* the runtime whose controller is modelled

ASSUME SelfAssumption == Self \in Runtimes /\ None \notin ReportIds

VARIABLES
    net,        \* the posted reports the Platform has not processed
    posted      \* the id of the report the controller awaits an answer to

vars == <<controlVars, runtimeVars, net, posted>>

DeliveryTypeOK ==
    /\ ControlTypeOK
    /\ RuntimeTypeOK
    /\ net \subseteq Reports
    /\ posted \in ReportIds \cup {None}

DeliveryInit ==
    /\ ControlInit
    /\ RuntimeInit
    /\ net = {}
    /\ posted = None

-----------------------------------------------------------------------------
(* The Platform on its own *)

Platform ==
    /\ \/ \E r \in Runtimes : RegisterRuntime(r) \/ RetireRuntime(r)
       \/ \E r \in Runtimes \ {Self} : SaveCapabilities(r)
       \/ \E id \in ReleaseIds : CommitRelease(id)
    /\ UNCHANGED <<runtimeVars, net, posted>>

-----------------------------------------------------------------------------
(* The controller on its own *)

\* What the Platform requires of a request of the controller.
Admitted == status[Self] = "ACTIVE"

\* The package of a command is served to an active runtime only.
FetchRefused ==
    /\ step = "command"
    /\ Applicable
    /\ ~ Admitted
    /\ EndDegraded
    /\ UNCHANGED faults

Controller ==
    /\ \/ RestoreNothing \/ RestoreBegin \/ RestoreRejected
       \/ RefuseCommand \/ AlreadyApplied \/ FetchRefused
       \/ Admitted /\ BeginApply
       \/ AdvancePointer
       \/ \E s \in Sidecars \ ready : SidecarReady(s)
       \/ ApplyRoutes \/ PromoteLkg \/ RestoreDone \/ SaveState
    /\ UNCHANGED <<controlVars, net, posted>>

ControllerFaults ==
    /\ FetchFails \/ ApplyFails \/ RestoreFails
    /\ UNCHANGED <<controlVars, net, posted>>

Dies ==
    /\ Crash
    /\ posted' = None
    /\ UNCHANGED <<controlVars, net>>

-----------------------------------------------------------------------------
(* The controller's requests *)

\* Capabilities are negotiated before the loop starts, at every start: the
\* second time changes nothing.
Negotiate ==
    /\ step = "idle"
    /\ SaveCapabilities(Self)
    /\ UNCHANGED <<runtimeVars, net, posted>>

\* Until the Platform admits the runtime it only tries again.
AwaitAdmission ==
    /\ step = "idle"
    /\ ~ capable[Self]
    /\ ~ Admitted
    /\ UNCHANGED vars

\* The Platform has finished with an abandoned poll before the next begins.
StartPoll ==
    /\ capable[Self]
    /\ polled[Self] = NoRef
    /\ BeginPoll
    /\ UNCHANGED <<controlVars, net, posted>>

\* The Platform lists the newest pending command ...
ListCommand ==
    /\ step = "polling"
    /\ PollList(Self)
    /\ UNCHANGED <<runtimeVars, net, posted>>

\* ... marks it delivered, and answers if the controller still waits.
AnswerPoll ==
    /\ PollDeliver(Self)
    /\ IF step = "polling" THEN Receive(polled[Self]) ELSE UNCHANGED runtimeVars
    /\ UNCHANGED <<net, posted>>

AnswerConflict ==
    /\ PollConflict(Self)
    /\ IF step = "polling" THEN NothingToDo ELSE UNCHANGED runtimeVars
    /\ UNCHANGED <<net, posted>>

\* A poll the Platform refuses, or that finds no pending command.
EmptyPoll ==
    /\ polled[Self] = NoRef
    /\ Pending(Self) = {}

AnswerNothing ==
    /\ EmptyPoll
    /\ NothingToDo
    /\ UNCHANGED <<controlVars, net, posted>>

\* Every 30 seconds without a command the current release is reported.
AnswerAndReport ==
    /\ EmptyPoll
    /\ Admitted
    /\ ReportCurrent
    /\ UNCHANGED <<controlVars, net, posted>>

AbandonPoll ==
    /\ PollFails
    /\ UNCHANGED <<controlVars, net, posted>>

-----------------------------------------------------------------------------
(* Reports in flight *)

InFlight == {rep.report : rep \in net}

SendReport ==
    /\ PostReport
    /\ InFlight # ReportIds
    /\ LET id == CHOOSE p \in ReportIds \ InFlight : TRUE IN
         /\ net' = net \cup {[report |-> id, command |-> out.command, rev |-> out.rev,
                              state |-> out.state, applied |-> out.applied]}
         /\ posted' = id
    /\ UNCHANGED controlVars

\* The report leaves the network, and its sender, if it waits, gets an answer.
Answer(rep) ==
    /\ net' = net \ {rep}
    /\ IF posted = rep.report
       THEN ReportAnswered /\ posted' = None
       ELSE UNCHANGED <<runtimeVars, posted>>

\* The Platform processes a report, late or not.
AcceptReport(rep) ==
    /\ Recordable(Self, rep)
    /\ ~ Stale(Self, rep)
    /\ ApplyReport(Self, rep)
    /\ UNCHANGED <<status, capable, head, history, polled>>
    /\ Answer(rep)

DiscardReport(rep) ==
    /\ ~ Recordable(Self, rep) \/ Stale(Self, rep)
    /\ UNCHANGED controlVars
    /\ Answer(rep)

ProcessReport(p) ==
    \E rep \in net : rep.report = p /\ (AcceptReport(rep) \/ DiscardReport(rep))

\* The request fails: it never arrived, or it is still being processed.
LoseReport ==
    /\ ReportFails
    /\ posted' = None
    /\ \/ UNCHANGED net
       \/ net' = {rep \in net : rep.report # posted}
    /\ UNCHANGED controlVars

-----------------------------------------------------------------------------

DeliveryNext ==
    \/ Platform
    \/ Controller \/ ControllerFaults \/ Dies
    \/ Negotiate \/ AwaitAdmission \/ StartPoll \/ ListCommand \/ AnswerPoll \/ AnswerConflict
    \/ AnswerNothing \/ AnswerAndReport \/ AbandonPoll
    \/ SendReport \/ LoseReport
    \/ \E p \in ReportIds : ProcessReport(p)

DeliverySpec == DeliveryInit /\ [][DeliveryNext]_vars

\* Faults are bounded, so they end.  The controller's loop and the Platform's
\* handlers run on, and the loop reports every 30 seconds however many polls
\* come back empty.
Fairness ==
    /\ WF_vars(Controller)
    /\ WF_vars(Negotiate)
    /\ WF_vars(StartPoll)
    /\ WF_vars(ListCommand)
    /\ WF_vars(AnswerPoll \/ AnswerConflict \/ AnswerNothing)
    /\ SF_vars(AnswerAndReport)
    /\ WF_vars(SendReport)
    /\ \A p \in ReportIds : WF_vars(ProcessReport(p))

FairDelivery == DeliverySpec /\ Fairness

-----------------------------------------------------------------------------
(* Properties *)

\* The Platform never believes more than is durable at the runtime: the release
\* it trusts, and every release it counts as acknowledged, is at most as new as
\* the state file, and at the same revision is the same release, through
\* crashes, lost answers and late reports (recordReport, applyCommand).
PlatformNotAhead ==
    /\ observed[Self].applied.rev <= saved.rev
    /\ observed[Self].applied.rev = saved.rev => observed[Self].applied = saved
    /\ \A id \in ReleaseIds :
         commands[Self][id].state = "ACKNOWLEDGED" => commands[Self][id].rev <= saved.rev

\* The runtime is never offered a release older than what it runs or than its
\* authority floor, nor another release of the same revision, although polls
\* are two transactions and reports arrive late: the refusals of applyCommand
\* are never needed against this Platform (listPending, markDelivered).
OfferedIsCurrent ==
    step = "command" =>
        /\ FloorAllows(task)
        /\ task = cur \/ Applicable

\* The abstract promise of delivery (GatewayRollout): a release is published,
\* then installed, then trusted, and none of these is undone.
Rollout == INSTANCE GatewayRollout WITH
    published <- head.rev, installed <- saved.rev, trusted <- observed[Self].applied.rev

Refines == Rollout!RolloutSpec

\* The command of the newest release is settled in the end, unless a newer
\* release replaces it or the runtime is retired: no loss, crash or failed
\* apply leaves it pending for ever.
HeadSettles ==
    \A id \in ReleaseIds :
        commands[Self][id].state = "PENDING" /\ head.id = id
        ~> \/ commands[Self][id].state # "PENDING"
           \/ head.id # id
           \/ status[Self] = "REVOKED"

\* The same for a release whose command the Platform has not recorded as
\* failed: lost and late reports are made up for by the periodic report.
ObservedConvergesUnlessFailed ==
    <>[](status[Self] = "ACTIVE" /\ cur # NoRef /\ commands[Self][cur.id].state # "FAILED"
            => observed[Self].applied = cur)

(* Through crashes, lost answers and late reports the Platform never       *)
(* believes more than the runtime has on disk, and never offers it         *)
(* anything older than what it runs.                                       *)
DeliverySafe ==
    /\ DeliveryTypeOK /\ PlatformNotAhead /\ OfferedIsCurrent

=============================================================================
