----------------------- MODULE GatewayPolicySidecars -----------------------
(***************************************************************************)
(* The policy sidecars of a Gateway Runtime and a request that passes      *)
(* them, while the controller of GatewayRuntime.tla writes the files they  *)
(* read.                                                                   *)
(*                                                                         *)
(* For every request the authorizer and then the processor load a policy   *)
(* release from disk: read a pointer, read and verify the release's        *)
(* directory, read the pointer again; first by `current', then by `lkg'.   *)
(* The authorizer then reads the authority floor and drops the rules it    *)
(* revokes.  Every read is an await, and the controller may write between  *)
(* any two of them.                                                        *)
(*                                                                         *)
(* Requests share no state, so one in flight at a time stands for all.     *)
(* Verification of signatures, hashes and metadata fails only for a        *)
(* directory that is half written; time is the set of expired releases.    *)
(***************************************************************************)
EXTENDS GatewayRuntime

CONSTANT
    Grants          \* the entitlements a release's bundle has rules for

ASSUME GrantsAssumption == Grants \in [ReleaseIds -> SUBSET Entitlements]

VARIABLES
    dir,        \* releases/<id>: absent, being written, or whole
    written,    \* whether the apply in progress has written its directory
    expired,    \* the releases past the expiry of their manifest
    stage,      \* where the request is
    sidecar,    \* the sidecar that holds it
    source,     \* the pointer that sidecar loads by
    loading,    \* the release that pointer named
    authorized, \* the release the request was authorized by
    rules,      \* the entitlements granted by that decision
    base,       \* history: the revision of LKG when the request arrived
    seen        \* history: what the floor revoked when the release was loaded

filesVars == <<dir, written, expired>>
requestVars == <<stage, sidecar, source, loading, authorized, rules, base, seen>>
sidecarsVars == <<runtimeVars, filesVars, requestVars>>

Stages == {"none", "pointer", "release", "recheck", "floor", "served", "denied"}

SidecarsTypeOK ==
    /\ dir \in [ReleaseIds -> {"absent", "writing", "whole"}]
    /\ written \in BOOLEAN
    /\ expired \subseteq ReleaseIds
    /\ stage \in Stages
    /\ sidecar \in Sidecars
    /\ source \in {"CURRENT", "LKG"}
    /\ loading \in AnyRef /\ authorized \in AnyRef
    /\ rules \subseteq Entitlements
    /\ base \in 0..MaxRevision
    /\ seen \subseteq Entitlements

SidecarsInit ==
    /\ RuntimeInit
    /\ dir = [id \in ReleaseIds |-> "absent"]
    /\ written = FALSE
    /\ expired = {}
    /\ stage = "none"
    /\ sidecar = "AUTHORIZER"
    /\ source = "CURRENT"
    /\ loading = NoRef /\ authorized = NoRef
    /\ rules = {}
    /\ base = 0
    /\ seen = {}

-----------------------------------------------------------------------------
(* The controller *)

\* An apply rewrites the files of its release in place, those of a release
\* the pointers already name included; a write cut short stays as it is ...
BeginWrite ==
    /\ step = "prerequisites"
    /\ ~ written
    /\ dir[task.id] # "writing"
    /\ dir' = [dir EXCEPT ![task.id] = "writing"]
    /\ UNCHANGED <<runtimeVars, written, expired, requestVars>>

\* ... until the next apply of that release completes it.
EndWrite ==
    /\ step = "prerequisites"
    /\ ~ written
    /\ dir[task.id] = "writing"
    /\ dir' = [dir EXCEPT ![task.id] = "whole"]
    /\ written' = TRUE
    /\ UNCHANGED <<runtimeVars, expired, requestVars>>

\* A step of the controller.  The pointer moves once the directory is written,
\* and a sidecar's readiness names a release that it can load.
ControllerStep ==
    /\ RuntimeNext
    /\ step = "prerequisites" /\ step' = "sidecars" => written
    /\ ~ (ready' \subseteq ready) => dir[task.id] = "whole" /\ task.id \notin expired
    /\ written' = FALSE
    /\ UNCHANGED <<dir, expired, requestVars>>

Expire(id) ==
    /\ id \notin expired
    /\ expired' = expired \cup {id}
    /\ UNCHANGED <<runtimeVars, dir, written, requestVars>>

-----------------------------------------------------------------------------
(* Loading a release *)

\* A request reaches the authorizer.
Arrive ==
    /\ stage \in {"none", "served", "denied"}
    /\ stage' = "pointer"
    /\ sidecar' = "AUTHORIZER"
    /\ source' = "CURRENT"
    /\ loading' = NoRef /\ authorized' = NoRef
    /\ rules' = {}
    /\ base' = lkg.rev
    /\ seen' = {}
    /\ UNCHANGED <<runtimeVars, filesVars>>

\* The release the pointer at hand names.
Pointed == IF source = "CURRENT" THEN pointer ELSE lkg

\* A load by `current' that fails is tried once more by `lkg'; if that fails
\* too, the request is denied as unavailable.
LoadFails ==
    /\ \/ source = "CURRENT" /\ source' = "LKG" /\ stage' = "pointer"
       \/ source = "LKG" /\ stage' = "denied" /\ UNCHANGED source
    /\ loading' = NoRef
    /\ UNCHANGED <<runtimeVars, filesVars, sidecar, authorized, rules, base, seen>>

ReadPointer ==
    /\ stage = "pointer"
    /\ Pointed # NoRef
    /\ loading' = Pointed
    /\ stage' = "release"
    /\ UNCHANGED <<runtimeVars, filesVars, sidecar, source, authorized, rules, base, seen>>

ReadPointerFails ==
    /\ stage = "pointer"
    /\ Pointed = NoRef
    /\ LoadFails

\* The directory is read, verified and found current.  One that is being
\* written may be read before the file at hand is truncated, or after.
LoadRelease ==
    /\ stage = "release"
    /\ dir[loading.id] \in {"whole", "writing"}
    /\ loading.id \notin expired
    /\ stage' = "recheck"
    /\ UNCHANGED <<runtimeVars, filesVars, sidecar, source, loading, authorized, rules, base, seen>>

LoadReleaseFails ==
    /\ stage = "release"
    /\ dir[loading.id] # "whole" \/ loading.id \in expired
    /\ LoadFails

\* The pointer moved while the release was read.
PointerChanged ==
    /\ stage = "recheck"
    /\ Pointed # loading
    /\ LoadFails

-----------------------------------------------------------------------------
(* The authorizer *)

BundleLoaded ==
    /\ stage = "recheck"
    /\ sidecar = "AUTHORIZER"
    /\ Pointed = loading
    /\ seen' = revoked
    /\ stage' = "floor"
    /\ UNCHANGED <<runtimeVars, filesVars, sidecar, source, loading, authorized, rules, base>>

\* Mutation of ApplyFloor: only the last known good release is held to it.
ApplyFloorToLkg == Grants[loading.id] \ (IF source = "LKG" THEN revoked ELSE {})

\* applyAuthorityFloor: the rules whose entitlement is not revoked.
ApplyFloor == Grants[loading.id] \ revoked

\* The floor is read after the release, and the decision made on what it
\* leaves: the request goes on to the processor, or is denied.
Authorize ==
    /\ stage = "floor"
    /\ ApplyFloor # {}
    /\ rules' = ApplyFloor
    /\ authorized' = loading
    /\ sidecar' = "PROCESSOR"
    /\ source' = "CURRENT"
    /\ loading' = NoRef
    /\ stage' = "pointer"
    /\ UNCHANGED <<runtimeVars, filesVars, base, seen>>

Deny ==
    /\ stage = "floor"
    /\ stage' = "denied"
    /\ UNCHANGED <<runtimeVars, filesVars, sidecar, source, loading, authorized, rules, base, seen>>

-----------------------------------------------------------------------------
(* The processor *)

\* The release must be the one the authorizer's headers name.
Process ==
    /\ stage = "recheck"
    /\ sidecar = "PROCESSOR"
    /\ Pointed = loading
    /\ stage' = IF loading = authorized THEN "served" ELSE "denied"
    /\ UNCHANGED <<runtimeVars, filesVars, sidecar, source, loading, authorized, rules, base, seen>>

-----------------------------------------------------------------------------

SidecarsNext ==
    \/ ControllerStep
    \/ BeginWrite \/ EndWrite
    \/ \E id \in ReleaseIds : Expire(id)
    \/ Arrive
    \/ ReadPointer \/ ReadPointerFails \/ LoadRelease \/ LoadReleaseFails \/ PointerChanged
    \/ BundleLoaded \/ Authorize \/ Deny
    \/ Process

SidecarsSpec == SidecarsInit /\ [][SidecarsNext]_sidecarsVars

-----------------------------------------------------------------------------
(* Properties *)

\* A decision grants nothing that a release the gateway had begun to apply by
\* the time the policy was loaded revokes, whichever pointer the policy came
\* from and however late the floor was read (bundle-store.ts, current).
RevokedStaysDenied == sidecar = "PROCESSOR" => rules \cap seen = {}

\* However the pointers move while it is in flight, a request is authorized by
\* no release older than the one that was last known good when it arrived.
NotOlderThanLkg == sidecar = "PROCESSOR" => authorized.rev >= base

\* A request is served only if it was authorized and processed under one
\* release, and the release the processor loaded grants what was authorized
\* (ext_proc's comparison with the trusted release headers).
OneReleasePerRequest ==
    stage = "served" => loading = authorized /\ rules \subseteq Grants[loading.id]

\* The inductive strengthening of the three: what a load in progress and a
\* decision already made are known to satisfy.
RequestInv ==
    /\ base <= lkg.rev
    /\ seen \subseteq revoked
    /\ stage \in {"release", "recheck", "floor"} => loading \in Refs /\ loading.rev >= base
    /\ stage = "floor" => sidecar = "AUTHORIZER"
    /\ stage = "served" => sidecar = "PROCESSOR" /\ loading = authorized
    /\ sidecar = "PROCESSOR" =>
         /\ authorized \in Refs
         /\ authorized.rev >= base
         /\ rules \subseteq Grants[authorized.id]
         /\ rules \cap seen = {}

SidecarsInv ==
    /\ RuntimeInv
    /\ SidecarsTypeOK
    /\ RequestInv

(* However the controller writes between the reads of a request, the       *)
(* request is granted nothing that was revoked, is decided by no release   *)
(* older than the last known good one, and passes both sidecars under one  *)
(* release.                                                                *)
SidecarsSafe ==
    /\ SidecarsTypeOK /\ RevokedStaysDenied /\ NotOlderThanLkg /\ OneReleasePerRequest

=============================================================================
