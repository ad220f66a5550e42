------------------------- MODULE ResourcePublication -------------------------
(***************************************************************************)
(* Publishing a Resource: its row and its publications, the requests for   *)
(* review that freeze a snapshot of what is to be published, and the       *)
(* reviews that reject it or build and commit it.                          *)
(*                                                                         *)
(* A request reads the Resource and its inputs, then asks for a            *)
(* publication to use, then saves the snapshot: three steps, between which *)
(* anything may happen.  A review reads the request, claims the build,     *)
(* compiles the snapshot and commits it.  Each step is one transaction.    *)
(* The publications of a Resource are a sequence in the order of their     *)
(* endpoint revisions; all operations work on the newest.                  *)
(***************************************************************************)
EXTENDS Naturals, Sequences, FiniteSets

CONSTANTS
    Requesters,       \* requests for review under way at once
    Reviewers,        \* reviews under way at once
    MaxPublications,  \* bound on publications
    MaxEdits,         \* bound on edits of the Resource and of its inputs
    MaxScans,         \* bound on health scans
    MaxIds,           \* bound on request and attempt ids
    MaxEndpoints,     \* bound on publications that come from setting an endpoint
    MaxSetbacks,      \* bound on rejections, build errors, retries and crashes
    MayCrash          \* whether a review may die

ASSUME PublicationAssumption ==
    /\ MaxPublications \in Nat \ {0} /\ MaxEdits \in Nat /\ MaxScans \in Nat
    /\ MaxIds \in Nat /\ MaxEndpoints \in 0 .. MaxPublications /\ MaxSetbacks \in Nat /\ MayCrash \in BOOLEAN

VARIABLES
    resource,  \* the Resource: lifecycle, row revision, governed content
    inputs,    \* connections, models and chain: configuration, health observed
    pubs,      \* its publications, by endpoint revision
    asking,    \* what each request has read and been given
    reviews,   \* what each review has read and claimed
    ids,       \* request and attempt ids given out
    setbacks   \* rejections, errors, retries and crashes so far

publicationVars == <<resource, inputs, pubs, asking, reviews, ids, setbacks>>

PublicationLifecycles == {"DRAFT", "PUBLISHED", "DEPRECATED", "RETIRED"}
Revisions == 0..(MaxEdits + 4)
Snapshots == [rev : Revisions, content : Revisions, lifecycle : PublicationLifecycles,
              config : 0..MaxEdits, health : 0..MaxScans]
NoSnapshot == [rev |-> 0, content |-> 0, lifecycle |-> "DRAFT", config |-> 0, health |-> 0]

Failures == {"NONE", "STALE", "ERROR"}

Publications ==
    [state : PublicationLifecycles \cup {"PENDING_REVIEW"},
     build : {"IDLE", "PENDING_REVIEW", "BUILDING", "FAILED", "READY"},
     rev : Revisions, snap : Snapshots, request : 0..MaxIds, attempt : 0..MaxIds,
     answer : {"NONE", "PENDING", "APPROVED", "REJECTED"},
     failure : Failures]

Draft == [state |-> "DRAFT", build |-> "IDLE", rev |-> resource.rev, snap |-> NoSnapshot,
          request |-> 0, attempt |-> 0, answer |-> "NONE", failure |-> "NONE"]

Unasked == [step |-> "idle", read |-> NoSnapshot, pending |-> FALSE, pub |-> 0, rev |-> 0]
Unreviewed == [step |-> "idle", request |-> 0, attempt |-> 0, snap |-> NoSnapshot, why |-> "NONE"]

PublicationTypeOK ==
    /\ resource \in [lifecycle : PublicationLifecycles, rev : Revisions, content : Revisions]
    /\ inputs \in [config : 0..MaxEdits, health : 0..MaxScans]
    /\ pubs \in Seq(Publications) /\ Len(pubs) <= MaxPublications
    /\ asking \in [Requesters -> [step : {"idle", "read", "prepared"}, read : Snapshots,
                                  pending : BOOLEAN, pub : 0..MaxPublications, rev : Revisions]]
    /\ reviews \in [Reviewers -> [step : {"idle", "read", "claimed", "compiled", "failed"},
                                  request : 0..MaxIds, attempt : 0..MaxIds,
                                  snap : Snapshots, why : Failures]]
    /\ ids \in 0..MaxIds /\ setbacks \in 0..MaxSetbacks

PublicationInit ==
    /\ resource = [lifecycle |-> "DRAFT", rev |-> 1, content |-> 1]
    /\ inputs = [config |-> 0, health |-> 0]
    /\ pubs = <<>>
    /\ asking = [q \in Requesters |-> Unasked]
    /\ reviews = [v \in Reviewers |-> Unreviewed]
    /\ ids = 0 /\ setbacks = 0

-----------------------------------------------------------------------------
(* The Resource and its inputs                                             *)

Newest == Len(pubs)
Pristine(p) == p.state = "DRAFT" /\ p.build = "IDLE" /\ p.request = 0 /\ p.snap = NoSnapshot
Edits == inputs.config + resource.content

\* Publications whose review has not begun follow the Resource.
AdvanceDrafts(rev) ==
    [i \in DOMAIN pubs |-> IF Pristine(pubs[i]) THEN [pubs[i] EXCEPT !.rev = rev] ELSE pubs[i]]

\* A draft Resource is edited.
UpdateResource ==
    /\ resource.lifecycle = "DRAFT" /\ Edits <= MaxEdits
    /\ resource' = [resource EXCEPT !.rev = @ + 1, !.content = @ + 1]
    /\ pubs' = AdvanceDrafts(resource.rev + 1)
    /\ UNCHANGED <<inputs, asking, reviews, ids, setbacks>>

\* A draft Resource is given an endpoint: a new publication.
SetPublicationEndpoint ==
    /\ resource.lifecycle = "DRAFT" /\ Newest < MaxEndpoints
    /\ pubs' = Append(pubs, Draft)
    /\ UNCHANGED <<resource, inputs, asking, reviews, ids, setbacks>>

\* What is published follows the Resource.
Follow(lifecycle) ==
    [i \in DOMAIN pubs |->
        IF pubs[i].state \in {"PUBLISHED", "DEPRECATED"}
        THEN [pubs[i] EXCEPT !.state = lifecycle] ELSE pubs[i]]

\* A published Resource is deprecated, a deprecated one retired.
PublicationSetLifecycle(lifecycle) ==
    /\ <<resource.lifecycle, lifecycle>> \in {<<"PUBLISHED", "DEPRECATED">>, <<"DEPRECATED", "RETIRED">>}
    /\ resource' = [resource EXCEPT !.lifecycle = lifecycle, !.rev = @ + 1]
    /\ pubs' = Follow(lifecycle)
    /\ UNCHANGED <<inputs, asking, reviews, ids, setbacks>>

\* A connection, a model, a mapping or the enforcement chain changes.
Reconfigure ==
    /\ Edits <= MaxEdits
    /\ inputs' = [inputs EXCEPT !.config = @ + 1]
    /\ UNCHANGED <<resource, pubs, asking, reviews, ids, setbacks>>

\* The gateway's health scan observes the connections of what is published:
\* when they were observed, and at which revision, is part of their rows.
HealthScan ==
    /\ inputs.health < MaxScans
    /\ \E i \in DOMAIN pubs : pubs[i].state \in {"PUBLISHED", "DEPRECATED"}
    /\ inputs' = [inputs EXCEPT !.health = @ + 1]
    /\ UNCHANGED <<resource, pubs, asking, reviews, ids, setbacks>>

-----------------------------------------------------------------------------
(* A request for review                                                    *)

Asking(q, step) == asking[q].step = step
EndAsking(q) == asking' = [asking EXCEPT ![q] = Unasked]

\* requestReview reads the Resource, with its latest request, and the inputs.
\* (The inputs are read after the Resource; an edit between the two reads is an
\* edit after both.)
ReadInputs(q) ==
    /\ Asking(q, "idle") /\ pubs # <<>>
    /\ asking' = [asking EXCEPT ![q] =
                    [Unasked EXCEPT
                        !.step = "read",
                        !.read = [NoSnapshot EXCEPT !.content = resource.content,
                                                    !.lifecycle = resource.lifecycle,
                                                    !.config = inputs.config,
                                                    !.health = inputs.health],
                        !.pending = pubs[Newest].answer = "PENDING" /\ pubs[Newest].failure = "NONE"]]
    /\ UNCHANGED <<resource, inputs, pubs, reviews, ids, setbacks>>

PublicationGive(q, i, rev) ==
    asking' = [asking EXCEPT ![q] = IF @.pending THEN Unasked
                                    ELSE [@ EXCEPT !.step = "prepared", !.pub = i, !.rev = rev]]

\* The newest publication is used again unless it is published or its build
\* failed; then a successor is appended.
Reusable(p) == p.state = "DRAFT" \/ (p.state = "PENDING_REVIEW" /\ p.build # "FAILED")

\* preparePublicationReference: the publication the snapshot is for and the
\* revision it stands for.  A request that found one pending ends here.
Prepare(q) ==
    /\ Asking(q, "read")
    /\ LET p == pubs[Newest] IN
       \/ /\ resource.lifecycle \in {"DRAFT", "PUBLISHED"} /\ Reusable(p)
          /\ pubs' = IF Pristine(p) THEN [pubs EXCEPT ![Newest].rev = resource.rev] ELSE pubs
          /\ PublicationGive(q, Newest, pubs'[Newest].rev)
       \/ /\ resource.lifecycle \in {"DRAFT", "PUBLISHED"} /\ ~ Reusable(p)
          /\ p.state \in {"PENDING_REVIEW", "PUBLISHED"} /\ Newest < MaxPublications
          /\ pubs' = Append(pubs, Draft)
          /\ PublicationGive(q, Newest + 1, resource.rev)
       \/ /\ resource.lifecycle \in {"DEPRECATED", "RETIRED"}
          /\ PublicationGive(q, Newest, p.rev)
          /\ UNCHANGED pubs
    /\ UNCHANGED <<resource, inputs, reviews, ids, setbacks>>

Snapshot(q) == [asking[q].read EXCEPT !.rev = asking[q].rev]

\* saveReviewSnapshot: a draft of the revision the request was given takes the
\* snapshot.  The content is not compared the first time it is saved.
PublicationSave(q) ==
    /\ Asking(q, "prepared")
    /\ LET i == asking[q].pub IN
       IF pubs[i].rev = asking[q].rev /\ pubs[i].state = "DRAFT"
       THEN /\ ids < MaxIds /\ ids' = ids + 1
            /\ pubs' = [pubs EXCEPT ![i].state = "PENDING_REVIEW", ![i].build = "PENDING_REVIEW",
                                    ![i].snap = Snapshot(q), ![i].request = ids + 1,
                                    ![i].answer = "PENDING", ![i].attempt = 0, ![i].failure = "NONE"]
       ELSE UNCHANGED <<pubs, ids>>
    /\ EndAsking(q)
    /\ UNCHANGED <<resource, inputs, reviews, setbacks>>

-----------------------------------------------------------------------------
(* A review                                                                *)

Reviewing(v, step) == reviews[v].step = step
PublicationEndReview(v) == reviews' = [reviews EXCEPT ![v] = Unreviewed]

\* getRequest: the newest publication's request, which must be pending.
ReadRequest(v) ==
    /\ Reviewing(v, "idle") /\ pubs # <<>>
    /\ pubs[Newest].answer = "PENDING"
    /\ reviews' = [reviews EXCEPT ![v].step = "read", ![v].request = pubs[Newest].request]
    /\ UNCHANGED <<resource, inputs, pubs, asking, ids, setbacks>>

\* The newest publication still has the request the review is about.
IsAsked(v) == pubs[Newest].request = reviews[v].request /\ pubs[Newest].answer = "PENDING"

PublicationClaimable(v) == IsAsked(v) /\ pubs[Newest].build \in {"PENDING_REVIEW", "FAILED"}

SetBack == setbacks < MaxSetbacks /\ setbacks' = setbacks + 1

\* reject: back to a draft that keeps the rejected request.
PublicationReject(v) ==
    /\ Reviewing(v, "read") /\ PublicationClaimable(v) /\ SetBack
    /\ pubs' = [pubs EXCEPT ![Newest].state = "DRAFT", ![Newest].build = "IDLE",
                            ![Newest].snap = NoSnapshot, ![Newest].answer = "REJECTED",
                            ![Newest].attempt = 0, ![Newest].failure = "NONE"]
    /\ PublicationEndReview(v)
    /\ UNCHANGED <<resource, inputs, asking, ids>>

\* claimBuild: a new attempt.
PublicationClaim(v) ==
    /\ Reviewing(v, "read") /\ PublicationClaimable(v)
    /\ ids < MaxIds /\ ids' = ids + 1
    /\ IF pubs[Newest].build = "FAILED" THEN SetBack ELSE UNCHANGED setbacks
    /\ pubs' = [pubs EXCEPT ![Newest].build = "BUILDING", ![Newest].attempt = ids + 1,
                            ![Newest].failure = "NONE"]
    /\ reviews' = [reviews EXCEPT ![v].step = "claimed", ![v].attempt = ids + 1,
                                  ![v].snap = pubs[Newest].snap]
    /\ UNCHANGED <<resource, inputs, asking>>

\* The request was answered, replaced or claimed in the meantime.
Refused(v) ==
    /\ Reviewing(v, "read") /\ ~ PublicationClaimable(v)
    /\ PublicationEndReview(v)
    /\ UNCHANGED <<resource, inputs, pubs, asking, ids, setbacks>>

Compile(v) ==
    /\ Reviewing(v, "claimed")
    /\ reviews' = [reviews EXCEPT ![v].step = "compiled"]
    /\ UNCHANGED <<resource, inputs, pubs, asking, ids, setbacks>>

PublicationActive(v) == IsAsked(v) /\ pubs[Newest].build = "BUILDING" /\ pubs[Newest].attempt = reviews[v].attempt

\* assertFrozenInputs: everything is as the snapshot has it.  The Resource is
\* compared by its revision, the rest by its content.
PublicationFrozen(snap) ==
    /\ resource.lifecycle \in {"DRAFT", "PUBLISHED"} /\ resource.rev = snap.rev
    /\ snap.config = inputs.config /\ snap.health = inputs.health

\* Mutation of Publish: the predecessor is not retired.
PublishBeside(i) ==
    [pubs EXCEPT ![i].state = "PUBLISHED", ![i].build = "READY", ![i].answer = "APPROVED"]

\* The publication and its request are final; a predecessor is retired.
PublicationPublish(i) ==
    [j \in DOMAIN pubs |->
        IF j = i
        THEN [pubs[j] EXCEPT !.state = "PUBLISHED", !.build = "READY", !.answer = "APPROVED"]
        ELSE IF pubs[i].snap.lifecycle # "DRAFT" /\ pubs[j].state = "PUBLISHED"
             THEN [pubs[j] EXCEPT !.state = "RETIRED"] ELSE pubs[j]]

Committable(v) ==
    LET snap == pubs[Newest].snap IN
    /\ PublicationActive(v) /\ PublicationFrozen(snap) /\ pubs[Newest].rev = snap.rev
    /\ resource.lifecycle = snap.lifecycle

\* commitBuild, with the release it delivers in the same transaction.
PublicationCommit(v) ==
    /\ Reviewing(v, "compiled") /\ Committable(v)
    /\ resource' = IF pubs[Newest].snap.lifecycle = "DRAFT"
                   THEN [resource EXCEPT !.lifecycle = "PUBLISHED", !.rev = @ + 1] ELSE resource
    /\ pubs' = PublicationPublish(Newest)
    /\ PublicationEndReview(v)
    /\ UNCHANGED <<inputs, asking, ids, setbacks>>

BuildFails(v, why) ==
    /\ reviews' = [reviews EXCEPT ![v].step = "failed", ![v].why = why]
    /\ UNCHANGED <<resource, inputs, pubs, asking, ids>>

\* The compiler refuses the snapshot, or the release cannot be delivered.
BuildErrors(v) == (Reviewing(v, "claimed") \/ Reviewing(v, "compiled")) /\ SetBack /\ BuildFails(v, "ERROR")

\* The commit finds the snapshot stale, or the build no longer the review's.
CommitFails(v) ==
    /\ Reviewing(v, "compiled") /\ ~ Committable(v)
    /\ BuildFails(v, IF PublicationActive(v) THEN "STALE" ELSE "ERROR")
    /\ UNCHANGED setbacks

Marked(v) == PublicationActive(v)

\* markBuildFailed, in a transaction of its own: only the review's own attempt.
MarkBuildFailed(v) ==
    /\ Reviewing(v, "failed")
    /\ pubs' = IF Marked(v)
               THEN [pubs EXCEPT ![Newest].build = "FAILED",
                                 ![Newest].failure = reviews[v].why]
               ELSE pubs
    /\ PublicationEndReview(v)
    /\ UNCHANGED <<resource, inputs, asking, ids, setbacks>>

\* The process that reviews dies; nothing takes its build over.
PublicationCrash(v) ==
    /\ MayCrash /\ ~ Reviewing(v, "idle") /\ SetBack
    /\ PublicationEndReview(v)
    /\ UNCHANGED <<resource, inputs, pubs, asking, ids>>

Ask(q) == ReadInputs(q) \/ Prepare(q) \/ PublicationSave(q)
PublicationApprove(v) ==
    ReadRequest(v) \/ PublicationClaim(v) \/ Refused(v) \/ Compile(v) \/ PublicationCommit(v) \/ CommitFails(v)
    \/ MarkBuildFailed(v)

PublicationNext ==
    \/ UpdateResource \/ SetPublicationEndpoint \/ Reconfigure \/ HealthScan
    \/ \E lifecycle \in PublicationLifecycles : PublicationSetLifecycle(lifecycle)
    \/ \E q \in Requesters : Ask(q)
    \/ \E v \in Reviewers : PublicationApprove(v) \/ PublicationReject(v) \/ BuildErrors(v) \/ PublicationCrash(v)

PublicationSpec == PublicationInit /\ [][PublicationNext]_publicationVars

-----------------------------------------------------------------------------
(* Properties                                                              *)

With(states) == {i \in DOMAIN pubs : pubs[i].state \in states}

\* A published Resource has exactly one published publication, a deprecated one
\* exactly one deprecated, any other none (commitBuild, setLifecycle): through
\* requests that read the Resource as a draft and are saved after it was
\* published, and endpoints set while a build is under way.
OnePublication ==
    /\ resource.lifecycle \in {"PUBLISHED", "DEPRECATED"} =>
           Cardinality(With({"PUBLISHED", "DEPRECATED"})) = 1 /\ With({resource.lifecycle}) # {}
    /\ resource.lifecycle \in {"DRAFT", "RETIRED"} => With({"PUBLISHED", "DEPRECATED"}) = {}

\* The build a review has claimed stays its own, with the snapshot it claimed,
\* until the review ends it or the Resource gets a newer endpoint.
ClaimIsKept ==
    \A v \in Reviewers :
        reviews[v].step \in {"claimed", "compiled"} =>
            \E i \in DOMAIN pubs :
                /\ pubs[i].attempt = reviews[v].attempt /\ pubs[i].build = "BUILDING"
                /\ pubs[i].snap = reviews[v].snap

\* What is published was approved as it was frozen, for the revision the
\* Resource has: nothing governed changes between the request and the commit,
\* and nothing after it (updateResource, commitBuild).
PublishedRevisionFixed ==
    \A i \in With({"PUBLISHED"}) :
        /\ pubs[i].answer = "APPROVED" /\ pubs[i].snap.rev = pubs[i].rev
        /\ resource.rev = pubs[i].snap.rev + (IF pubs[i].snap.lifecycle = "DRAFT" THEN 1 ELSE 0)

(* Requests and reviews that read, build and write in separate             *)
(* transactions publish one revision at a time, each as it was reviewed,   *)
(* and no two reviews build the same publication.                          *)
PublicationSafe ==
    /\ PublicationTypeOK /\ OnePublication /\ ClaimIsKept /\ PublishedRevisionFixed

=============================================================================
