------------------------------- MODULE LocalAigw -------------------------------
(***************************************************************************)
(* The local applier of the Gateway Runtime controller                     *)
(* (runtimes/gateway/controller/local-aigw.ts): it serves a release with a *)
(* detached process tree (the AI gateway and the Envoy workers it starts), *)
(* beside an authorizer and a processor that outlive releases and read the *)
(* policy pointers `current` and `lkg`.                                    *)
(*                                                                         *)
(* One apply runs at a time, but processes die whenever they like and the  *)
(* exit callback of the active child runs between any two awaits of it.    *)
(* The controller itself may crash; its processes then stay behind.        *)
(***************************************************************************)
EXTENDS Integers, FiniteSets

CONSTANTS
    MaxRelease,  \* releases are their head revisions 1 .. MaxRelease
    Empty,       \* the releases without projections
    MaxRuns,     \* bound on the process trees started
    MaxLives,    \* bound on the lives of the controller
    MaxExits     \* bound on the processes that die unasked

ASSUME AigwAssumption ==
    /\ MaxRelease \in Nat \ {0} /\ MaxRuns \in Nat /\ MaxLives \in Nat \ {0} /\ MaxExits \in Nat
    /\ Empty \subseteq 1 .. MaxRelease

VARIABLES
    tree,         \* run -> its process tree: release, life it was started in, parent, workers
    runs,         \* trees started so far
    life,         \* the controller process: 1, 2, ...
    exits,        \* unasked deaths so far
    phase,        \* where the controller is in apply or close
    job,          \* the release being applied
    child,        \* the tree this apply has spawned
    active,       \* let active
    cleanup,      \* the tree of let activeCleanup, 0 if undefined
    aigwSidecar,  \* the authorizer and the processor: the child process, and one left by an earlier life
    aigwSeen,     \* history: the sidecars that were listening at some time of this apply
    lost,         \* history: trees the controller has lost: it crashed, or they survived SIGKILL
    obs,          \* let observationReleaseId
    aigwSource,   \* release -> the state of its activity source
    current,      \* the pointer files of the policy root
    aigwLkg,
    backed,       \* history: the sidecars seen by the apply that wrote lkg
    aigwFloor,    \* the authority floor file
    aigwSaved,    \* the state file
    applied,      \* let currentState of the runtime
    report        \* the last observation the runtime signed

disk == <<aigwSource, current, aigwLkg, backed, aigwFloor, aigwSaved>>
process == <<tree, runs, exits, aigwSidecar, lost>>
control == <<phase, job, child, active, cleanup, obs, aigwSeen>>
aigwVars == <<disk, process, control, life, applied, report>>

Releases == 1 .. MaxRelease
Runs == 1 .. MaxRuns
AigwSidecars == {"authorizer", "processor"}

(* A tree that was never started. *)
NoTree == [release |-> 0, life |-> 0, parent |-> "none", workers |-> "none", served |-> FALSE]

Alive(t) == tree[t].parent = "up" \/ tree[t].workers \in {"starting", "ready"}

(* A process listens on the port of the sidecar. *)
Listening(s) == aigwSidecar[s].own = "up" \/ aigwSidecar[s].orphan

(* The child object says the process runs: exitCode is null. A process     *)
(* that was killed by a signal has no exit code either.                    *)
NotExited(s) == aigwSidecar[s].own \in {"up", "killed"}

AigwInit ==
    /\ tree = [t \in Runs |-> NoTree] /\ runs = 0 /\ life = 1 /\ exits = 0
    /\ phase = "boot" /\ job = 0 /\ child = 0 /\ active = 0 /\ cleanup = 0
    /\ aigwSidecar = [s \in AigwSidecars |-> [own |-> "none", orphan |-> FALSE]]
    /\ aigwSeen = {} /\ lost = {} /\ obs = 0
    /\ aigwSource = [r \in Releases |-> "none"]
    /\ current = 0 /\ aigwLkg = 0 /\ backed = {} /\ aigwFloor = 0 /\ aigwSaved = 0
    /\ applied = 0 /\ report = [state |-> "NONE", release |-> 0]

(***************************************************************************)
(* The runtime: restore, commands, reports.                                *)
(***************************************************************************)

(* advanceAuthorityFloor refuses a generation below the floor. *)
AboveFloor(r) == r >= aigwFloor

(* apply starts: the activity sources, then the release. *)
Start(r) ==
    /\ aigwFloor' = r /\ job' = r /\ child' = 0
    /\ aigwSeen' = {s \in AigwSidecars : Listening(s)}
    /\ phase' = IF r \in Empty THEN "stop" ELSE "prepare"

(* restore at boot: the saved release is applied again. *)
Restore ==
    /\ phase = "boot" /\ aigwSaved # 0 /\ AboveFloor(aigwSaved) /\ Start(aigwSaved)
    /\ UNCHANGED <<process, active, cleanup, obs, aigwSource, current, aigwLkg, backed, aigwSaved, life, applied, report>>

(* Nothing is saved, or what is saved is rejected. *)
NoRestore ==
    /\ phase = "boot" /\ (aigwSaved = 0 \/ ~AboveFloor(aigwSaved))
    /\ phase' = "idle"
    /\ UNCHANGED <<disk, process, job, child, active, cleanup, obs, aigwSeen, life, applied, report>>

(* A command for a newer release. *)
ApplyCommand(r) ==
    /\ phase = "idle" /\ r > applied /\ AboveFloor(r) /\ Start(r)
    /\ UNCHANGED <<process, active, cleanup, obs, aigwSource, current, aigwLkg, backed, aigwSaved, life, applied, report>>

(* A command for the applied release, or the periodic report: READY, with  *)
(* the components observed when it was applied.                            *)
AigwReportCurrent ==
    /\ phase = "idle" /\ applied # 0
    /\ report' = [state |-> "READY", release |-> applied]
    /\ UNCHANGED <<disk, process, control, life, applied>>

(* apply throws: DEGRADED, with the release applied before. Without one, a *)
(* DEGRADED report and a restore that is only logged are not told apart.   *)
Degrade == report' = IF applied = 0 THEN report ELSE [state |-> "DEGRADED", release |-> applied]

(***************************************************************************)
(* apply.                                                                  *)
(***************************************************************************)

(* materializePolicyRelease and prepareAigwRuntimeCache. *)
Prepare ==
    /\ phase = "prepare"
    /\ phase' = "authorizer" /\ obs' = IF obs = 0 THEN job ELSE obs
    /\ UNCHANGED <<disk, process, job, child, active, cleanup, aigwSeen, life, applied, report>>

AwaitSidecar == [authorizer |-> "await-authorizer", processor |-> "await-processor"]

AfterSidecar == [authorizer |-> "processor", processor |-> "stop"]

(* ensureAuthorizer, ensureProcessor: nothing to do while the child object *)
(* says it runs. The processor first takes its port from whoever has it.   *)
Ensure(s) ==
    /\ phase = s
    /\ IF NotExited(s)
       THEN phase' = AfterSidecar[s] /\ UNCHANGED <<aigwSidecar, aigwSeen>>
       ELSE /\ aigwSidecar' = [aigwSidecar EXCEPT ![s] = [own |-> "up", orphan |-> s = "authorizer" /\ @.orphan]]
            /\ phase' = AwaitSidecar[s] /\ aigwSeen' = aigwSeen
    /\ UNCHANGED <<disk, tree, runs, exits, lost, job, child, active, cleanup, obs, life, applied, report>>

(* waitForListener: someone listens on the port, the child has no exit     *)
(* code.                                                                   *)
AigwSidecarReady(s) ==
    /\ phase = AwaitSidecar[s] /\ NotExited(s) /\ Listening(s)
    /\ phase' = AfterSidecar[s] /\ aigwSeen' = aigwSeen \cup {s}
    /\ UNCHANGED <<disk, process, job, child, active, cleanup, obs, life, applied, report>>

(* stopActiveProcessTree: join the cleanup under way or start one. *)
StopBegin ==
    /\ phase = "stop"
    /\ phase' = "stopping"
    /\ cleanup' = IF cleanup # 0 THEN cleanup ELSE active
    /\ child' = active
    /\ UNCHANGED <<disk, process, job, active, obs, aigwSeen, life, applied, report>>

(* The cleanup has ended. *)
StopEnd ==
    /\ phase = "stopping" /\ cleanup = 0
    /\ active' = IF active = child THEN 0 ELSE active
    /\ child' = 0
    /\ phase' = IF job = 0 THEN "close" ELSE IF job \in Empty THEN "save" ELSE "register"
    /\ UNCHANGED <<disk, process, job, cleanup, obs, aigwSeen, life, applied, report>>

(* activitySources.register opens the source of the release. *)
Register ==
    /\ phase = "register"
    /\ aigwSource' = [aigwSource EXCEPT ![job] = "OPEN"] /\ obs' = job /\ phase' = "point"
    /\ UNCHANGED <<current, aigwLkg, backed, aigwFloor, aigwSaved, process, job, child, active, cleanup, aigwSeen, life, applied, report>>

PointCurrent ==
    /\ phase = "point"
    /\ current' = job /\ phase' = "spawn"
    /\ UNCHANGED <<aigwSource, aigwLkg, backed, aigwFloor, aigwSaved, process, job, child, active, cleanup, obs, aigwSeen, life, applied, report>>

(* A runtime directory and a run id of its own, and the process. *)
Spawn ==
    /\ phase = "spawn" /\ runs < MaxRuns
    /\ runs' = runs + 1 /\ child' = runs + 1 /\ phase' = "health"
    /\ tree' = [tree EXCEPT ![runs + 1] = [release |-> job, life |-> life, parent |-> "up",
                                           workers |-> "starting", served |-> FALSE]]
    /\ UNCHANGED <<disk, exits, aigwSidecar, lost, job, active, cleanup, obs, aigwSeen, life, applied, report>>

(* waitForHealth: the admin port is the same for every run, so any parent  *)
(* that lives may answer.                                                  *)
Health ==
    /\ phase = "health" /\ tree[child].parent # "exited"
    /\ \E t \in 1 .. runs : tree[t].parent = "up"
    /\ phase' = "ready"
    /\ UNCHANGED <<disk, process, job, child, active, cleanup, obs, aigwSeen, life, applied, report>>

(* The admin address waitForEnvoyRunReadiness polls is the one this run    *)
(* wrote in its own directory.                                             *)
EnvoyAnswers == tree[child].workers = "ready"

EnvoyReady ==
    /\ phase = "ready" /\ tree[child].parent # "exited" /\ EnvoyAnswers
    /\ phase' = "promote"
    /\ UNCHANGED <<disk, process, job, child, active, cleanup, obs, aigwSeen, life, applied, report>>

WriteLkg ==
    /\ phase = "promote"
    /\ aigwLkg' = job /\ backed' = aigwSeen /\ phase' = "activate"
    /\ UNCHANGED <<aigwSource, current, aigwFloor, aigwSaved, process, job, child, active, cleanup, obs, aigwSeen, life, applied, report>>

(* active = child, and apply returns. *)
Activate ==
    /\ phase = "activate"
    /\ active' = child /\ phase' = "save"
    /\ UNCHANGED <<disk, process, job, child, cleanup, obs, aigwSeen, life, applied, report>>

(* state.save, then READY. *)
Save ==
    /\ phase = "save"
    /\ aigwSaved' = job /\ applied' = job /\ phase' = "idle" /\ job' = 0 /\ child' = 0
    /\ report' = [state |-> "READY", release |-> job]
    /\ UNCHANGED <<aigwSource, current, aigwLkg, backed, aigwFloor, process, active, cleanup, obs, aigwSeen, life>>

(* A step throws: preparation, a sidecar that exits or is not ready in     *)
(* time, the configuration, a file.                                        *)
Fail ==
    /\ \/ phase \in {"prepare", "await-authorizer", "await-processor", "processor", "register", "point", "spawn", "save"}
       \/ phase = "stop" /\ job # 0
    /\ Degrade /\ phase' = "idle" /\ job' = 0 /\ child' = 0
    /\ UNCHANGED <<disk, process, active, cleanup, obs, aigwSeen, life, applied>>

(* The new tree exits or is not ready in time: it is reaped before apply   *)
(* throws.                                                                 *)
FailChild ==
    /\ phase \in {"health", "ready", "promote"}
    /\ phase' = "failing" /\ cleanup' = IF cleanup # 0 THEN cleanup ELSE child
    /\ UNCHANGED <<disk, process, job, child, active, obs, aigwSeen, life, applied, report>>

FailChildEnd ==
    /\ phase = "failing" /\ cleanup = 0
    /\ Degrade /\ phase' = "idle" /\ job' = 0 /\ child' = 0
    /\ UNCHANGED <<disk, process, active, cleanup, obs, aigwSeen, life, applied>>

(***************************************************************************)
(* reapProcessTree(child): SIGTERM and SIGKILL to the group until it is    *)
(* gone, then the source of its release is sealed.                         *)
(***************************************************************************)

(* The exit callback of a child: only the active one is reaped, and a      *)
(* cleanup that runs is joined.                                            *)
OnExit(t) ==
    IF active = t /\ tree[t].life = life
    THEN active' = 0 /\ cleanup' = IF cleanup # 0 THEN cleanup ELSE t
    ELSE UNCHANGED <<active, cleanup>>

KillParent ==
    /\ cleanup # 0 /\ tree[cleanup].parent = "up"
    /\ tree' = [tree EXCEPT ![cleanup].parent = "killed"]
    /\ OnExit(cleanup)
    /\ UNCHANGED <<disk, runs, exits, aigwSidecar, lost, phase, job, child, obs, aigwSeen, life, applied, report>>

KillWorkers ==
    /\ cleanup # 0 /\ tree[cleanup].workers \in {"starting", "ready"}
    /\ tree' = [tree EXCEPT ![cleanup].workers = "down"]
    /\ UNCHANGED <<disk, runs, exits, aigwSidecar, lost, control, life, applied, report>>

ForgetObserved(r) == obs' = IF obs = r THEN 0 ELSE obs

(* Mutant: the source is sealed when the parent is gone. *)
ReapEndParent ==
    /\ cleanup # 0 /\ tree[cleanup].parent # "up"
    /\ aigwSource' = [aigwSource EXCEPT ![tree[cleanup].release] = "SEALED"]
    /\ ForgetObserved(tree[cleanup].release)
    /\ cleanup' = 0
    /\ UNCHANGED <<current, aigwLkg, backed, aigwFloor, aigwSaved, process, phase, job, child, active, aigwSeen, life, applied, report>>

ReapEnd ==
    /\ cleanup # 0 /\ ~Alive(cleanup)
    /\ aigwSource' = [aigwSource EXCEPT ![tree[cleanup].release] = "SEALED"]
    /\ ForgetObserved(tree[cleanup].release)
    /\ cleanup' = 0
    /\ UNCHANGED <<current, aigwLkg, backed, aigwFloor, aigwSaved, process, phase, job, child, active, aigwSeen, life, applied, report>>

(* Part of the group does not die, or the source cannot be sealed. Whoever *)
(* waits for the cleanup fails with it; a failing apply only warns.        *)
ReapFails ==
    /\ cleanup # 0 /\ cleanup' = 0
    /\ lost' = IF Alive(cleanup) THEN lost \cup {cleanup} ELSE lost
    /\ IF phase = "stopping"
       THEN IF job = 0
            THEN phase' = "dead" /\ UNCHANGED <<job, child, report>>
            ELSE Degrade /\ phase' = "idle" /\ job' = 0 /\ child' = 0
       ELSE UNCHANGED <<phase, job, child, report>>
    /\ UNCHANGED <<disk, tree, runs, exits, aigwSidecar, active, obs, aigwSeen, life, applied>>

(***************************************************************************)
(* Shutdown, crash, and the processes themselves.                          *)
(***************************************************************************)

(* close, once the main loop has ended. *)
Close ==
    /\ phase \in {"boot", "idle"}
    /\ phase' = "stop" /\ job' = 0
    /\ UNCHANGED <<disk, process, child, active, cleanup, obs, aigwSeen, life, applied, report>>

(* The sidecars are stopped after the gateway. *)
CloseEnd ==
    /\ phase = "close"
    /\ aigwSidecar' = [s \in AigwSidecars |-> [aigwSidecar[s] EXCEPT !.own = IF @ = "up" THEN "exited" ELSE @]]
    /\ phase' = "closed"
    /\ UNCHANGED <<disk, tree, runs, exits, lost, job, child, active, cleanup, obs, aigwSeen, life, applied, report>>

(* The controller dies; what it has started does not. *)
AigwCrash ==
    /\ phase \notin {"closed", "dead"} /\ life < MaxLives
    /\ phase' = "dead"
    /\ UNCHANGED <<disk, process, job, child, active, cleanup, obs, aigwSeen, life, applied, report>>

(* A new controller process. *)
Reboot ==
    /\ phase \in {"closed", "dead"} /\ life < MaxLives
    /\ life' = life + 1 /\ phase' = "boot"
    /\ job' = 0 /\ child' = 0 /\ active' = 0 /\ cleanup' = 0 /\ obs' = 0 /\ aigwSeen' = {}
    /\ lost' = lost \cup {t \in Runs : Alive(t)}
    /\ aigwSidecar' = [s \in AigwSidecars |-> [own |-> "none", orphan |-> Listening(s)]]
    /\ applied' = 0 /\ report' = [state |-> "NONE", release |-> 0]
    /\ UNCHANGED <<disk, tree, runs, exits>>

(* The workers of a run come up and write their admin address. *)
WorkersReady(t) ==
    /\ tree[t].workers = "starting"
    /\ tree' = [tree EXCEPT ![t].workers = "ready", ![t].served = TRUE]
    /\ UNCHANGED <<disk, runs, exits, aigwSidecar, lost, control, life, applied, report>>

(* A parent or the workers of a tree die unasked. *)
ParentExits(t) ==
    /\ tree[t].parent = "up" /\ exits < MaxExits /\ exits' = exits + 1
    /\ \E how \in {"exited", "killed"} : tree' = [tree EXCEPT ![t].parent = how]
    /\ IF phase = "dead" THEN UNCHANGED <<active, cleanup>> ELSE OnExit(t)
    /\ UNCHANGED <<disk, runs, aigwSidecar, lost, phase, job, child, obs, aigwSeen, life, applied, report>>

WorkersDie(t) ==
    /\ tree[t].workers \in {"starting", "ready"} /\ exits < MaxExits /\ exits' = exits + 1
    /\ tree' = [tree EXCEPT ![t].workers = "down"]
    /\ UNCHANGED <<disk, runs, aigwSidecar, lost, control, life, applied, report>>

(* A sidecar exits with a code or is killed by a signal. *)
SidecarDies(s) ==
    /\ aigwSidecar[s].own = "up" /\ exits < MaxExits /\ exits' = exits + 1
    /\ \E how \in {"exited", "killed"} : aigwSidecar' = [aigwSidecar EXCEPT ![s].own = how]
    /\ UNCHANGED <<disk, tree, runs, lost, control, life, applied, report>>

AigwApply ==
    \/ Prepare \/ StopBegin \/ StopEnd \/ Register \/ PointCurrent \/ Spawn \/ Health \/ EnvoyReady
    \/ WriteLkg \/ Activate \/ Save \/ FailChildEnd
    \/ \E s \in AigwSidecars : Ensure(s) \/ AigwSidecarReady(s)

Reap == KillParent \/ KillWorkers \/ ReapEnd

AigwNext ==
    \/ Restore \/ NoRestore \/ AigwReportCurrent \/ Close \/ CloseEnd \/ AigwCrash \/ Reboot
    \/ \E r \in Releases : ApplyCommand(r)
    \/ AigwApply \/ Fail \/ FailChild \/ (phase # "dead" /\ (Reap \/ ReapFails))
    \/ \E t \in 1 .. runs : WorkersReady(t) \/ ParentExits(t) \/ WorkersDie(t)
    \/ \E s \in AigwSidecars : SidecarDies(s)

AigwSpec == AigwInit /\ [][AigwNext]_aigwVars

Phases == {"boot", "idle", "prepare", "authorizer", "processor", "await-authorizer", "await-processor",
           "stop", "stopping", "register", "point", "spawn", "health", "ready", "promote", "activate",
           "save", "failing", "close", "closed", "dead"}

(* Types. A child is spawned only in the phases that wait for it; obs and  *)
(* the pointers name releases.                                             *)
AigwTypeOK ==
    /\ tree \in [Runs -> [release : 0 .. MaxRelease, life : 0 .. MaxLives,
                          parent : {"none", "up", "exited", "killed"},
                          workers : {"none", "starting", "ready", "down"}, served : BOOLEAN]]
    /\ runs \in 0 .. MaxRuns /\ life \in 1 .. MaxLives /\ exits \in 0 .. MaxExits
    /\ phase \in Phases /\ job \in 0 .. MaxRelease
    /\ {child, active, cleanup} \subseteq 0 .. runs
    /\ aigwSidecar \in [AigwSidecars -> [own : {"none", "up", "exited", "killed"}, orphan : BOOLEAN]]
    /\ aigwSeen \subseteq AigwSidecars /\ backed \subseteq AigwSidecars /\ lost \subseteq Runs
    /\ aigwSource \in [Releases -> {"none", "OPEN", "SEALED"}]
    /\ {obs, current, aigwLkg, aigwFloor, aigwSaved, applied} \subseteq 0 .. MaxRelease
    /\ report \in [state : {"NONE", "READY", "DEGRADED"}, release : 0 .. MaxRelease]
    /\ phase \in {"health", "ready", "promote", "activate"} => child # 0 /\ tree[child].life = life

(* Two process trees never serve at once: a tree that lives is the newest  *)
(* one, unless its controller crashed or it survived SIGKILL. The code     *)
(* stops the old tree, and joins a cleanup the exit callback has started,  *)
(* before it spawns.                                                       *)
OneGateway == \A t \in 1 .. runs : Alive(t) => t = runs \/ t \in lost

(* activeCleanup is one promise for all callers: whoever joins it waits    *)
(* for the tree it means, because a cleanup never runs while another tree  *)
(* is active or has been spawned.                                          *)
CleanupMeant ==
    cleanup # 0 => /\ active \in {0, cleanup}
                   /\ phase \in {"health", "ready", "promote", "activate", "save"} =>
                        child \in {0, cleanup}

(* The pointer lkg names a release that one of its own runs was ready for: *)
(* the admin address that is polled is that of the run, not of a listener  *)
(* an earlier controller left behind.                                      *)
LkgServed == aigwLkg # 0 => \E t \in 1 .. runs : tree[t].release = aigwLkg /\ tree[t].served

(* The source of a release is sealed, and its log given up as final, only  *)
(* when the tree that writes it is gone.                                   *)
SealedGone ==
    \A t \in 1 .. runs : Alive(t) /\ t \notin lost => aigwSource[tree[t].release] = "OPEN"

(* The pointers the sidecars follow never go back, through failures,       *)
(* crashes and restores, and lkg never gets ahead of current.              *)
PointersForward ==
    /\ aigwLkg <= current /\ current <= aigwFloor
    /\ applied \notin Empty => applied <= current

(* close leaves no process of this life behind, except what survived       *)
(* SIGKILL.                                                                *)
ClosedClean ==
    phase = "closed" => /\ \A t \in 1 .. runs : Alive(t) => t \in lost
                        /\ \A s \in AigwSidecars : aigwSidecar[s].own # "up"

(* Whatever dies whenever, and wherever the exit callback runs between two *)
(* awaits of an apply: one process tree serves, the pointers only move     *)
(* forward to releases that were served, and nothing is left behind.       *)
AigwSafe ==
    /\ AigwTypeOK /\ OneGateway /\ CleanupMeant /\ LkgServed /\ SealedGone
    /\ PointersForward /\ ClosedClean

================================================================================
