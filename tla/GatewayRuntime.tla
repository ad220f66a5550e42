--------------------------- MODULE GatewayRuntime ---------------------------
(***************************************************************************)
(* One Gateway Runtime: the controller process that applies a desired      *)
(* release and reports it, with the files and the Kubernetes objects it    *)
(* leaves behind.                                                          *)
(*                                                                         *)
(* A release passes five durable marks, in this order: the authority floor *)
(* (no older generation may be applied, and the entitlements it revokes    *)
(* stay revoked), the policy pointer `current' the sidecars load, the      *)
(* native routes, the pointer `lkg', and the controller's own state file.  *)
(* Each write is an atomic rename, and the process may die between any     *)
(* two, or an apply may fail there.  After a restart the controller        *)
(* re-applies the state file.                                              *)
(*                                                                         *)
(* Here the Platform is any sequence of commands with valid signatures, in *)
(* any order; GatewayDelivery.tla composes the controller with the store   *)
(* of the Platform.  The apply steps are those of the Kubernetes applier.  *)
(* A pointer file holds a release id, and the directory of that release    *)
(* the command with its revision: pointer and lkg are the reference the    *)
(* two give together.                                                      *)
(***************************************************************************)
EXTENDS GatewayReleases, FiniteSets

CONSTANTS
    Entitlements,   \* entitlement ids
    Revokes,        \* the entitlements a release's bundle lists as revoked
    MaxFaults       \* bound on crashes, failed applies and failed requests

ASSUME RuntimeAssumption ==
    /\ Revokes \in [ReleaseIds -> SUBSET Entitlements]
    /\ MaxFaults \in Nat

VARIABLES
    floor,      \* authority-floor.json: the generation ...
    revoked,    \* ... and the revoked entitlements
    pointer,    \* policy/current
    routes,     \* the release whose routes are applied
    lkg,        \* policy/lkg
    saved,      \* current.json: the release the controller applied last
    cur,        \* currentState: the same, in memory
    task,       \* the release being applied
    step,       \* where the controller is
    restoring,  \* whether the apply is the one of a restart
    ready,      \* the sidecars that have answered for the release being applied
    out,        \* the report to deliver
    faults      \* how many faults have happened

durableVars == <<floor, revoked, pointer, routes, lkg, saved>>
processVars == <<cur, task, step, restoring, ready, out>>
runtimeVars == <<durableVars, processVars, faults>>

-----------------------------------------------------------------------------
(* Types *)

Sidecars == {"AUTHORIZER", "PROCESSOR"}

Steps == {"down", "idle", "polling", "command", "prerequisites", "sidecars", "routed",
          "applied", "report", "sent"}

RuntimeTypeOK ==
    /\ floor \in 0..MaxRevision
    /\ revoked \subseteq Entitlements
    /\ {pointer, routes, lkg, saved, cur, task} \subseteq AnyRef
    /\ step \in Steps
    /\ restoring \in BOOLEAN
    /\ ready \subseteq Sidecars
    /\ out \in Observations
    /\ faults \in 0..MaxFaults

RuntimeInit ==
    /\ floor = 0
    /\ revoked = {}
    /\ pointer = NoRef /\ routes = NoRef /\ lkg = NoRef /\ saved = NoRef
    /\ cur = NoRef /\ task = NoRef
    /\ step = "down"
    /\ restoring = FALSE
    /\ ready = {}
    /\ out = NoObservation
    /\ faults = 0

-----------------------------------------------------------------------------
(* Faults *)

\* Every step that models a failure of the environment counts against the bound.
Fault ==
    /\ faults < MaxFaults
    /\ faults' = faults + 1

\* The process dies: what is in memory is gone, what was renamed into place is
\* not.
Crash ==
    /\ step # "down"
    /\ Fault
    /\ step' = "down"
    /\ cur' = NoRef /\ task' = NoRef
    /\ restoring' = FALSE
    /\ ready' = {}
    /\ out' = NoObservation
    /\ UNCHANGED durableVars

-----------------------------------------------------------------------------
(* Starting: restore *)

\* The floor that a release's generation may not fall below.
FloorAllows(ref) == ref.rev >= floor

\* Mutation of AdvanceFloor: the floor follows the release, down as well.
AdvanceFloorUnchecked(ref) ==
    /\ floor' = ref.rev
    /\ revoked' = revoked \cup Revokes[ref.id]

\* Raising the floor to a release and adding its revocations.
AdvanceFloor(ref) ==
    /\ FloorAllows(ref)
    /\ floor' = ref.rev
    /\ revoked' = revoked \cup Revokes[ref.id]

\* Nothing was ever applied: the loop starts without a current release.
RestoreNothing ==
    /\ step = "down"
    /\ saved = NoRef
    /\ step' = "idle"
    /\ UNCHANGED <<durableVars, cur, task, restoring, ready, out, faults>>

\* The state file is re-applied like a command's release.
RestoreBegin ==
    /\ step = "down"
    /\ saved # NoRef
    /\ AdvanceFloor(saved)
    /\ task' = saved
    /\ restoring' = TRUE
    /\ step' = "prerequisites"
    /\ UNCHANGED <<pointer, routes, lkg, saved, cur, ready, out, faults>>

\* A release that was desired but failed has raised the floor above the state
\* file: the persisted release is rejected and the loop starts without one.
RestoreRejected ==
    /\ step = "down"
    /\ saved # NoRef
    /\ ~ FloorAllows(saved)
    /\ step' = "idle"
    /\ UNCHANGED <<durableVars, cur, task, restoring, ready, out, faults>>

-----------------------------------------------------------------------------
(* Commands *)

\* The loop asks the Platform for a command ...
BeginPoll ==
    /\ step = "idle"
    /\ step' = "polling"
    /\ UNCHANGED <<durableVars, cur, task, restoring, ready, out, faults>>

\* ... and is given one, ...
Receive(ref) ==
    /\ step = "polling"
    /\ task' = ref
    /\ step' = "command"
    /\ UNCHANGED <<durableVars, cur, restoring, ready, out, faults>>

\* ... or the request fails or times out.
PollFails ==
    /\ step = "polling"
    /\ Fault
    /\ step' = "idle"
    /\ UNCHANGED <<durableVars, cur, task, restoring, ready, out>>

\* The observation of the task: READY with the release itself, or DEGRADED
\* with the release the controller still holds.
Ready == [command |-> task.id, rev |-> task.rev, state |-> "READY", applied |-> task]
Degraded == [command |-> task.id, rev |-> task.rev, state |-> "DEGRADED", applied |-> cur]

\* The applier is given only a release newer than the one in memory.
Applicable == cur = NoRef \/ task.rev > cur.rev

\* The catch of applyCommand: the task ends as a DEGRADED report.
EndDegraded ==
    /\ out' = Degraded
    /\ task' = NoRef
    /\ step' = "report"
    /\ ready' = {}
    /\ UNCHANGED <<durableVars, cur, restoring>>

\* A command older than the current release, one of its revision for another
\* release, or one below the floor is answered DEGRADED.
RefuseCommand ==
    /\ step = "command"
    /\ task # cur
    /\ ~ Applicable \/ ~ FloorAllows(task)
    /\ EndDegraded
    /\ UNCHANGED faults

\* Mutation of AlreadyApplied: a command for the current release is ignored.
AlreadyAppliedSilently ==
    /\ step = "command"
    /\ task = cur
    /\ task' = NoRef
    /\ step' = "idle"
    /\ UNCHANGED <<durableVars, cur, restoring, ready, out, faults>>

\* The current release again: nothing is applied, and READY is reported.
AlreadyApplied ==
    /\ step = "command"
    /\ task = cur
    /\ out' = Ready
    /\ task' = NoRef
    /\ step' = "report"
    /\ UNCHANGED <<durableVars, cur, restoring, ready, faults>>

FetchFails ==
    /\ step = "command"
    /\ Applicable
    /\ Fault
    /\ EndDegraded

\* The package is fetched and verified and the floor raised before anything of
\* the release is applied.
BeginApply ==
    /\ step = "command"
    /\ Applicable
    /\ AdvanceFloor(task)
    /\ step' = "prerequisites"
    /\ UNCHANGED <<pointer, routes, lkg, saved, cur, task, restoring, ready, out, faults>>

-----------------------------------------------------------------------------
(* Applying a release *)

\* Mutation of AdvancePointer: both pointers move at once.
AdvanceBothPointers ==
    /\ step = "prerequisites"
    /\ pointer' = task
    /\ lkg' = task
    /\ ready' = {}
    /\ step' = "sidecars"
    /\ UNCHANGED <<floor, revoked, routes, saved, cur, task, restoring, out, faults>>

\* Backends and policies are admitted, then the policy pointer moves.
AdvancePointer ==
    /\ step = "prerequisites"
    /\ pointer' = task
    /\ ready' = {}
    /\ step' = "sidecars"
    /\ UNCHANGED <<floor, revoked, routes, lkg, saved, cur, task, restoring, out, faults>>

\* A sidecar's readiness endpoint names the release being applied.
SidecarReady(s) ==
    /\ step = "sidecars"
    /\ ready' = ready \cup {s}
    /\ UNCHANGED <<durableVars, cur, task, step, restoring, out, faults>>

\* Routes are applied, and stale resources deleted, once both have.
ApplyRoutes ==
    /\ step = "sidecars"
    /\ ready = Sidecars
    /\ routes' = task
    /\ step' = "routed"
    /\ UNCHANGED <<floor, revoked, pointer, lkg, saved, cur, task, restoring, ready, out, faults>>

PromoteLkg ==
    /\ step = "routed"
    /\ lkg' = task
    /\ ready' = {}
    /\ step' = "applied"
    /\ UNCHANGED <<floor, revoked, pointer, routes, saved, cur, task, restoring, out, faults>>

\* The end of a restart's apply: the release becomes the one in memory.
RestoreDone ==
    /\ step = "applied"
    /\ restoring
    /\ cur' = task
    /\ task' = NoRef
    /\ restoring' = FALSE
    /\ step' = "idle"
    /\ UNCHANGED <<durableVars, ready, out, faults>>

\* Mutation of SaveState: READY is reported and the state file left behind.
SaveStateInMemory ==
    /\ step = "applied"
    /\ ~ restoring
    /\ cur' = task
    /\ out' = Ready
    /\ task' = NoRef
    /\ step' = "report"
    /\ UNCHANGED <<durableVars, restoring, ready, faults>>

\* The end of a command's: the state file, then memory, then READY.
SaveState ==
    /\ step = "applied"
    /\ ~ restoring
    /\ saved' = task
    /\ cur' = task
    /\ out' = Ready
    /\ task' = NoRef
    /\ step' = "report"
    /\ UNCHANGED <<floor, revoked, pointer, routes, lkg, restoring, ready, faults>>

\* Any part of the apply, or writing the state file, may fail.  What was
\* written before stays as it is.
ApplyFails ==
    /\ step \in {"prerequisites", "sidecars", "routed", "applied"}
    /\ ~ restoring
    /\ Fault
    /\ EndDegraded

\* A restart's apply that fails is only logged.
RestoreFails ==
    /\ step \in {"prerequisites", "sidecars", "routed"}
    /\ restoring
    /\ Fault
    /\ task' = NoRef
    /\ restoring' = FALSE
    /\ ready' = {}
    /\ step' = "idle"
    /\ UNCHANGED <<durableVars, cur, out>>

-----------------------------------------------------------------------------
(* Reports *)

\* With no command waiting the loop reports the current release again.
ReportCurrent ==
    /\ step = "polling"
    /\ cur # NoRef
    /\ out' = [command |-> cur.id, rev |-> cur.rev, state |-> "READY", applied |-> cur]
    /\ step' = "report"
    /\ UNCHANGED <<durableVars, cur, task, restoring, ready, faults>>

\* There is no command and nothing to report.
NothingToDo ==
    /\ step = "polling"
    /\ step' = "idle"
    /\ UNCHANGED <<durableVars, cur, task, restoring, ready, out, faults>>

\* The report is posted, once.
PostReport ==
    /\ step = "report"
    /\ step' = "sent"
    /\ UNCHANGED <<durableVars, cur, task, restoring, ready, out, faults>>

\* The answer, whatever it says, ends the iteration of the loop ...
ReportAnswered ==
    /\ step = "sent"
    /\ step' = "idle"
    /\ out' = NoObservation
    /\ UNCHANGED <<durableVars, cur, task, restoring, ready, faults>>

\* ... and so does a request that fails or times out.
ReportFails ==
    /\ step = "sent"
    /\ Fault
    /\ step' = "idle"
    /\ out' = NoObservation
    /\ UNCHANGED <<durableVars, cur, task, restoring, ready>>

-----------------------------------------------------------------------------

\* The controller's own steps while it applies a release.
Apply ==
    \/ RestoreNothing \/ RestoreBegin \/ RestoreRejected
    \/ RefuseCommand \/ AlreadyApplied \/ FetchFails \/ BeginApply
    \/ AdvancePointer
    \/ \E s \in Sidecars : SidecarReady(s)
    \/ ApplyRoutes \/ PromoteLkg \/ RestoreDone \/ SaveState \/ ApplyFails \/ RestoreFails

\* The Platform signs a release id for a runtime under one revision only
\* (CommandsAreFinal in GatewayRuntimeControl).
Signed(ref) == \A mark \in {pointer, routes, lkg, saved, cur} : mark.id = ref.id => mark = ref

RuntimeNext ==
    \/ Crash
    \/ Apply
    \/ BeginPoll
    \/ \E ref \in Refs : Signed(ref) /\ Receive(ref)
    \/ PollFails \/ ReportCurrent \/ NothingToDo
    \/ PostReport \/ ReportAnswered \/ ReportFails

RuntimeSpec == RuntimeInit /\ [][RuntimeNext]_runtimeVars

-----------------------------------------------------------------------------
(* Properties *)

\* Whatever commands arrive and wherever the process dies or an apply fails,
\* the marks of a release are never out of order: the state file is not ahead
\* of LKG, LKG not ahead of the routes, the routes not ahead of the policy the
\* sidecars load, and nothing is ahead of the authority floor (the order of
\* applyCommand and of the Kubernetes applier).
PromotionOrder ==
    /\ saved.rev <= lkg.rev
    /\ lkg.rev <= routes.rev
    /\ routes.rev <= pointer.rev
    /\ pointer.rev <= floor

\* A READY report stands for a release that survives a crash of the process
\* that sent it: it is the release in the state file (save precedes report).
ReadyIsDurable == out.state = "READY" => out.applied = saved

\* The entitlements revoked by any release that sidecars may load, as current
\* or as LKG, or that a restart may re-apply, are in the floor.
RevocationsCovered ==
    \A ref \in {pointer, routes, lkg, saved} \ {NoRef} : Revokes[ref.id] \subseteq revoked

\* The inductive strengthening of the invariants above.  How far the release
\* being applied has come: floor, policy pointer, routes and LKG in turn.
TaskProgress ==
    /\ step \in {"command", "prerequisites", "sidecars", "routed", "applied"} => task \in Refs
    /\ step \in {"prerequisites", "sidecars", "routed", "applied"} =>
         floor = task.rev /\ Revokes[task.id] \subseteq revoked
    /\ step \in {"sidecars", "routed", "applied"} => pointer = task
    /\ step \in {"routed", "applied"} => routes = task
    /\ step = "applied" => lkg = task

\* The release in memory is the one in the state file, and a restart applies
\* that one.
MemoryIsSaved ==
    /\ cur # NoRef => cur = saved
    /\ restoring => /\ step \in {"prerequisites", "sidecars", "routed", "applied"}
                     /\ task = saved

RuntimeInv ==
    /\ RuntimeTypeOK
    /\ TaskProgress
    /\ MemoryIsSaved
    /\ PromotionOrder
    /\ ReadyIsDurable
    /\ RevocationsCovered

\* No step, restarts and retries included, moves a mark to an older release or
\* makes a revocation disappear (advanceAuthorityFloor).
MarksNeverRegress ==
    [][/\ floor' >= floor
       /\ revoked \subseteq revoked'
       /\ pointer'.rev >= pointer.rev
       /\ routes'.rev >= routes.rev
       /\ lkg'.rev >= lkg.rev
       /\ saved'.rev >= saved.rev]_runtimeVars

(* Wherever the process dies or an apply fails, the marks of a release     *)
(* stay in order, what was reported READY survives, and no release that    *)
(* may be loaded or re-applied revokes more than the floor does.           *)
RuntimeSafe ==
    /\ RuntimeTypeOK /\ PromotionOrder /\ ReadyIsDurable /\ RevocationsCovered

=============================================================================
