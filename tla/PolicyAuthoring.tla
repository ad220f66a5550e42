--------------------------- MODULE PolicyAuthoring ---------------------------
(***************************************************************************)
(* One policy and its authoring: the draft that administrators save,       *)
(* validate, review and publish, the revisions it becomes, and, for the    *)
(* policy of a Resource capability (its enforcement chain), the release of *)
(* the Gateway that serves the Resource.                                   *)
(*                                                                         *)
(* The three kinds of policy share the draft store.  RESOURCE: an          *)
(* enforcement chain.  RUNTIME: a runtime policy, which can be switched on *)
(* and off.  BOT: the rules of the first-party bot, which exist from the   *)
(* start.                                                                  *)
(*                                                                         *)
(* A request names the version and the content of the draft its actor has  *)
(* seen.  Saving a draft is two steps (the handler compares the base       *)
(* revision before the transaction begins) and so is publishing one: the   *)
(* transaction first locks the draft and looks for an active Gateway, then *)
(* writes.  Connections and the compilation of the chain are left out: a   *)
(* draft that does not compile is not published.                           *)
(***************************************************************************)
EXTENDS Naturals, FiniteSets, FiniteSetsExt

CONSTANTS
    Kinds,         \* the kinds of policy looked at
    Actors,        \* administrators
    Contents,      \* what a policy may say
    Default,       \* what provisioning writes
    SeedRevision,  \* the bot policy's revision, under which provisioning saves a chain
    MaxVersions,   \* bound on versions of the draft
    MaxRevision,   \* bound on revisions of the policy
    MaxSettings,   \* bound on changes of the authoring settings
    NoOne          \* no actor

ASSUME PolicyAssumption ==
    /\ Kinds \subseteq {"RESOURCE", "RUNTIME", "BOT"} /\ NoOne \notin Actors
    /\ Default \notin Contents
    /\ MaxVersions \in Nat /\ MaxRevision \in Nat \ {0} /\ MaxSettings \in Nat
    /\ SeedRevision \in 1..MaxRevision

VARIABLES
    kind,         \* which of the three kinds the policy is; it stays
    draft,        \* the draft, if there is one
    lastVersion,  \* the last version given to a draft
    settings,     \* revision of the authoring settings, whether reviewers must be distinct
    strict,       \* history: a distinct reviewer was required ever since the draft was saved
    views,        \* what each actor has seen of the draft
    saving,       \* what each save has read
    revisions,    \* the policy's revisions
    provision,    \* where provisioning stands
    writer,       \* the transaction that writes a revision
    policyPub,    \* the Resource's newest publication, whether one is live, the chain frozen
    carried,      \* the chain in the Gateway's release
    reviewed      \* history: what was reviewed, as the reviewer had seen it

policyVars == <<kind, draft, lastVersion, settings, strict, views, saving, revisions, provision,
                writer, policyPub, carried, reviewed>>

Texts == Contents \cup {Default}
Numbers == 0..MaxRevision

NoDraft == [version |-> 0, base |-> 0, content |-> Default, by |-> NoOne, life |-> "NONE", reviewer |-> NoOne]
NoView == [version |-> 0, base |-> 0, content |-> Default]
NoSave == [step |-> "idle", base |-> 0, content |-> Default]
NoRevision == [content |-> Default, enabled |-> FALSE, origin |-> "NONE", base |-> 0,
               by |-> NoOne, reviewer |-> NoOne, strict |-> FALSE]
Seed == [NoRevision EXCEPT !.origin = "SYSTEM", !.enabled = TRUE]
PolicyIdle == [origin |-> "NONE", gateway |-> FALSE]

PolicyView == [version : 0..MaxVersions, base : Numbers, content : Texts]

PolicyTypeOK ==
    /\ draft \in [version : 0..MaxVersions, base : Numbers, content : Texts,
                  by : Actors \cup {NoOne}, life : {"NONE", "DRAFT", "VALIDATED", "REVIEWED"},
                  reviewer : Actors \cup {NoOne}]
    /\ lastVersion \in 0..MaxVersions
    /\ settings \in [rev : 0..MaxSettings, distinct : BOOLEAN]
    /\ strict \in BOOLEAN
    /\ views \in [Actors -> PolicyView]
    /\ saving \in [Actors -> [step : {"idle", "read"}, base : Numbers, content : Texts]]
    /\ revisions \in [1..MaxRevision ->
                        [content : Texts, enabled : BOOLEAN, origin : {"NONE", "DRAFT", "SYSTEM", "SWITCH"},
                         base : Numbers, by : Actors \cup {NoOne}, reviewer : Actors \cup {NoOne},
                         strict : BOOLEAN]]
    /\ provision \in {"idle", "read", "writing", "done"}
    /\ writer \in [origin : {"NONE", "DRAFT", "SYSTEM"}, gateway : BOOLEAN]
    /\ policyPub \in [newest : {"NONE", "OPEN", "ASKED", "LIVE"}, live : BOOLEAN, frozen : Numbers]
    /\ carried \in Numbers
    /\ reviewed \in SUBSET [by : Actors, view : PolicyView]

PolicyInit ==
    /\ kind \in Kinds /\ draft = NoDraft /\ lastVersion = 0
    /\ settings = [rev |-> 0, distinct |-> FALSE] /\ strict = FALSE
    /\ views = [a \in Actors |-> NoView] /\ saving = [a \in Actors |-> NoSave]
    /\ revisions = [n \in 1..MaxRevision |-> IF kind = "BOT" /\ n = 1 THEN Seed ELSE NoRevision]
    /\ provision = "idle" /\ writer = PolicyIdle
    /\ policyPub = [newest |-> "NONE", live |-> FALSE, frozen |-> 0]
    /\ carried = 0 /\ reviewed = {}

-----------------------------------------------------------------------------
(* The draft                                                               *)

Present == {n \in 1..MaxRevision : revisions[n].origin # "NONE"}
PolicyLatest == IF Present = {} THEN 0 ELSE Max(Present)

\* The transaction that publishes a draft holds its lock.
DraftFree == writer.origin # "DRAFT"

\* An actor reads the draft, or that there is none.
Get(a) ==
    /\ views' = [views EXCEPT ![a] = [version |-> draft.version, base |-> draft.base, content |-> draft.content]]
    /\ UNCHANGED <<draft, lastVersion, settings, strict, saving, revisions, provision, writer, policyPub, carried, reviewed>>

\* The handler of a save compares the base it is given with the latest revision;
\* a runtime policy's draft may have base 0 at any time.
ReadBase(a, content) ==
    /\ saving[a].step = "idle"
    /\ \E base \in {PolicyLatest} \cup (IF kind = "RUNTIME" THEN {0} ELSE {}) :
          saving' = [saving EXCEPT ![a] = [step |-> "read", base |-> base, content |-> content]]
    /\ UNCHANGED <<draft, lastVersion, settings, strict, views, revisions, provision, writer, policyPub, carried, reviewed>>

\* createDraft: no evidence is taken over from the draft before.
Saved(a) == [version |-> lastVersion + 1, base |-> saving[a].base, content |-> saving[a].content,
             by |-> a, life |-> "DRAFT", reviewer |-> NoOne]

\* Save: the version must be the one the actor has seen (0 if there was none).
PolicySave(a) ==
    /\ saving[a].step = "read" /\ DraftFree
    /\ \/ /\ draft.version = views[a].version /\ lastVersion < MaxVersions
          /\ draft' = Saved(a)
          /\ lastVersion' = lastVersion + 1 /\ strict' = settings.distinct
       \/ /\ draft.version # views[a].version
          /\ UNCHANGED <<draft, lastVersion, strict>>
    /\ saving' = [saving EXCEPT ![a] = NoSave]
    /\ UNCHANGED <<settings, views, revisions, provision, writer, policyPub, carried, reviewed>>

\* assertExpectedPolicyDraft: the version and the content are the ones seen.
Expected(a) ==
    /\ draft # NoDraft
    /\ draft.version = views[a].version /\ draft.content = views[a].content

Validate(a) ==
    /\ DraftFree /\ Expected(a) /\ draft.life = "DRAFT"
    /\ draft' = [draft EXCEPT !.life = "VALIDATED"]
    /\ UNCHANGED <<lastVersion, settings, strict, views, saving, revisions, provision, writer, policyPub, carried, reviewed>>

\* The setting is read when a validated draft is reviewed.
Separate(a) == settings.distinct => a # draft.by

\* Review: a reviewed draft is only confirmed, by who reviewed it.
Review(a) ==
    /\ DraftFree /\ Expected(a) /\ draft.life = "VALIDATED" /\ Separate(a)
    /\ draft' = [draft EXCEPT !.life = "REVIEWED", !.reviewer = a]
    /\ reviewed' = reviewed \cup {[by |-> a, view |-> views[a]]}
    /\ UNCHANGED <<lastVersion, settings, strict, views, saving, revisions, provision, writer, policyPub, carried>>

\* Remove: the row stays, with the last version.
Remove(a) ==
    /\ DraftFree /\ draft # NoDraft /\ draft.version = views[a].version
    /\ draft' = NoDraft
    /\ UNCHANGED <<lastVersion, settings, strict, views, saving, revisions, provision, writer, policyPub, carried, reviewed>>

\* SaveAuthoringSettings, from the revision that is current.
SaveSettings(distinct) ==
    /\ settings.rev < MaxSettings
    /\ settings' = [rev |-> settings.rev + 1, distinct |-> distinct]
    /\ strict' = (strict /\ distinct)
    /\ UNCHANGED <<draft, lastVersion, views, saving, revisions, provision, writer, policyPub, carried, reviewed>>

-----------------------------------------------------------------------------
(* Revisions                                                               *)

\* activeGatewayForResource: the newest publication is live.
ActiveGateway == policyPub.newest = "LIVE"

\* requireReviewedPolicyDraft.
PolicyPublishable(a) == writer = PolicyIdle /\ Expected(a) /\ draft.life = "REVIEWED"

\* Mutation of BaseCurrent: the base of the draft is not compared.
BaseAny == TRUE

\* The latest revision is still the base of the draft.
BaseCurrent == draft.base = PolicyLatest

\* PublishDraft locks the draft; for a Resource also the policy, and the Gateway
\* that is active.
LockDraft(a) ==
    /\ PolicyPublishable(a)
    /\ kind = "RESOURCE" => BaseCurrent
    /\ writer' = [origin |-> "DRAFT", gateway |-> ActiveGateway]
    /\ UNCHANGED <<draft, lastVersion, settings, strict, views, saving, revisions, provision, policyPub, carried, reviewed>>

\* The Gateway that is active after the write was active, and locked, before.
Unmoved == ActiveGateway => writer.gateway

\* The release of the active Gateway is built again, with the latest chain.
Reconcile(n) == carried' = IF ActiveGateway THEN n ELSE carried

Write(n, revision) ==
    /\ revisions' = [revisions EXCEPT ![n] = revision]
    /\ Reconcile(n)

Enabled == IF PolicyLatest = 0 THEN TRUE ELSE revisions[PolicyLatest].enabled

Writable == BaseCurrent /\ PolicyLatest < MaxRevision /\ Unmoved

\* PublishDraft writes the revision and empties the draft.
PublishDraft ==
    /\ writer.origin = "DRAFT" /\ Writable
    /\ Write(PolicyLatest + 1, [content |-> draft.content, enabled |-> Enabled, origin |-> "DRAFT",
                          base |-> draft.base, by |-> draft.by, reviewer |-> draft.reviewer,
                          strict |-> strict])
    /\ draft' = NoDraft /\ writer' = PolicyIdle
    /\ UNCHANGED <<lastVersion, settings, strict, views, saving, provision, policyPub, reviewed>>

\* POLICY_REVISION_CONFLICT or ENFORCEMENT_CHAIN_PUBLICATION_CHANGED: the
\* transaction is rolled back.
PublishFails ==
    /\ writer.origin = "DRAFT" /\ ~ Writable
    /\ writer' = PolicyIdle
    /\ UNCHANGED <<draft, lastVersion, settings, strict, views, saving, revisions, provision, policyPub, carried, reviewed>>

\* A runtime or bot policy is switched on or off: a revision with the same rules.
SetEnabled(on) ==
    /\ kind \in {"RUNTIME", "BOT"} /\ PolicyLatest \in 1..(MaxRevision - 1)
    /\ Write(PolicyLatest + 1, [NoRevision EXCEPT !.content = revisions[PolicyLatest].content,
                                            !.enabled = on, !.origin = "SWITCH"])
    /\ UNCHANGED <<draft, lastVersion, settings, strict, views, saving, provision, writer, policyPub, reviewed>>

\* Provisioning finds no policy.
ProvisionRead ==
    /\ kind \in {"RESOURCE", "RUNTIME"} /\ provision = "idle" /\ PolicyLatest = 0
    /\ provision' = "read"
    /\ UNCHANGED <<draft, lastVersion, settings, strict, views, saving, revisions, writer, policyPub, carried, reviewed>>

\* Its save locks the policy and looks for the Gateway.
ProvisionLock ==
    /\ provision = "read" /\ writer = PolicyIdle
    /\ provision' = "writing" /\ writer' = [origin |-> "SYSTEM", gateway |-> ActiveGateway]
    /\ UNCHANGED <<draft, lastVersion, settings, strict, views, saving, revisions, policyPub, carried, reviewed>>

ProvisionedAs == IF kind = "RESOURCE" THEN SeedRevision ELSE 1

\* A chain is saved under the revision of the bot policy, if there is none under
\* it; a runtime policy is published if there is still none.
Provisionable ==
    /\ revisions[ProvisionedAs] = NoRevision /\ Unmoved
    /\ kind = "RUNTIME" => PolicyLatest = 0

Provision ==
    /\ provision = "writing"
    /\ IF Provisionable
       THEN Write(ProvisionedAs, Seed)
       ELSE UNCHANGED <<revisions, carried>>
    /\ provision' = "done" /\ writer' = PolicyIdle
    /\ UNCHANGED <<draft, lastVersion, settings, strict, views, saving, policyPub, reviewed>>

-----------------------------------------------------------------------------
(* The Resource's publications and its Gateway                             *)

GatewayFree == ~ writer.gateway

\* A request for review freezes the latest chain; the newest publication is used
\* again, or a successor opened when it is live.
PolicyRequestReview ==
    /\ kind = "RESOURCE" /\ policyPub.newest # "ASKED" /\ PolicyLatest > 0
    /\ policyPub' = [policyPub EXCEPT !.newest = "ASKED", !.frozen = PolicyLatest]
    /\ UNCHANGED <<draft, lastVersion, settings, strict, views, saving, revisions, provision, writer, carried, reviewed>>

\* assertFrozenInputs: the latest chain is the one in the snapshot.
PolicyFrozen == policyPub.frozen = PolicyLatest

\* commitBuild publishes, with a release of the Gateway.
CommitBuild ==
    /\ policyPub.newest = "ASKED" /\ PolicyFrozen /\ GatewayFree
    /\ policyPub' = [policyPub EXCEPT !.newest = "LIVE", !.live = TRUE]
    /\ carried' = policyPub.frozen
    /\ UNCHANGED <<draft, lastVersion, settings, strict, views, saving, revisions, provision, writer, reviewed>>

\* The review rejects, or the build fails: the publication stays, unpublished.
PolicyEndReview ==
    /\ policyPub.newest = "ASKED"
    /\ policyPub' = [policyPub EXCEPT !.newest = "OPEN"]
    /\ UNCHANGED <<draft, lastVersion, settings, strict, views, saving, revisions, provision, writer, carried, reviewed>>

\* The release is built again for another reason (a renewal, a grant, a key).
RenewRelease ==
    /\ policyPub.live /\ carried # PolicyLatest /\ GatewayFree
    /\ carried' = PolicyLatest
    /\ UNCHANGED <<draft, lastVersion, settings, strict, views, saving, revisions, provision, writer, policyPub, reviewed>>

PolicyNext ==
    \/ \E a \in Actors : \/ Get(a) \/ PolicySave(a) \/ Validate(a) \/ Review(a) \/ Remove(a)
                         \/ LockDraft(a)
                         \/ \E content \in Contents : ReadBase(a, content)
    \/ \E on \in BOOLEAN : SaveSettings(on) \/ SetEnabled(on)
    \/ PublishDraft \/ PublishFails \/ ProvisionRead \/ ProvisionLock \/ Provision
    \/ PolicyRequestReview \/ CommitBuild \/ PolicyEndReview \/ RenewRelease

PolicySpec == PolicyInit /\ [][PolicyNext /\ UNCHANGED kind]_policyVars

-----------------------------------------------------------------------------
(* Properties                                                              *)

\* What a draft became as a revision, and what it was based on, is what its
\* reviewer had seen: no save slips in between the review and the publication,
\* and no version is given out twice.  (The digest a request names covers the
\* content only; the base is covered by the version alone.)
PublishedAsReviewed ==
    \A n \in Present : revisions[n].origin = "DRAFT" =>
        \E r \in reviewed : /\ r.by = revisions[n].reviewer
                            /\ r.view.content = revisions[n].content
                            /\ r.view.base = revisions[n].base

\* A reviewed draft is what its reviewer saw, base included.
ReviewedAsSeen ==
    draft.life = "REVIEWED" =>
        [by |-> draft.reviewer,
         view |-> [version |-> draft.version, base |-> draft.base, content |-> draft.content]] \in reviewed

\* A published draft replaces the revision its author started from: no revision
\* that came in between (a switch, a provisioned policy) is lost unseen.
BuiltOnPredecessor ==
    \A n \in Present : revisions[n].origin = "DRAFT" =>
        revisions[n].base = n - 1 /\ (n > 1 => n - 1 \in Present)

\* When a distinct reviewer was required ever since a draft was saved, someone
\* else than who saved it reviewed what was published.
DistinctReviewer ==
    \A n \in Present : revisions[n].origin = "DRAFT" /\ revisions[n].strict =>
        revisions[n].reviewer # revisions[n].by

\* The Gateway of a Resource whose newest publication is live enforces the latest
\* chain, whichever of a publication and a chain was written first.
NewestEnforced == ActiveGateway => carried = PolicyLatest

(* Whoever saves, switches settings or provisions meanwhile, a revision    *)
(* says what a reviewer saw and approved, builds on the one before it, and *)
(* is the one the Gateway's release carries once it is published.          *)
PolicySafe ==
    /\ PolicyTypeOK /\ PublishedAsReviewed /\ ReviewedAsSeen /\ BuiltOnPredecessor
    /\ DistinctReviewer /\ NewestEnforced

=============================================================================
