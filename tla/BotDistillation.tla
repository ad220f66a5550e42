-------------------------- MODULE BotDistillation --------------------------
(***************************************************************************)
(* The distillation of a turn of a Bot into a candidate of knowledge.  The *)
(* Bot server keeps an inbox with a row per revision of the turn; it has   *)
(* the turn's content classified, submits a marker for it to the platform, *)
(* claims the marker under a lease, compares the content again and tells   *)
(* the outcome.  An outcome is saved in the row before it is told, and     *)
(* told again after a restart.  The turn may change at any moment: by live *)
(* events, or by an import of the runtime's history.                       *)
(*                                                                         *)
(* A request may be served after its caller has given up.  Digests stand   *)
(* for contents; a lease's token is a number that nothing else holds.      *)
(***************************************************************************)
EXTENDS Naturals, FiniteSets

CONSTANTS
    DistillationMaxRevision,  \* bound on revisions of the turn
    DistillationMaxAttempts,  \* claims of a marker before it fails
    DistillationMaxFaults,    \* bound on ends of the process and on answers that are lost
    Deletes                   \* whether the Bot may be deleted

ASSUME DistillationAssumption ==
    /\ DistillationMaxRevision \in Nat \ {0} /\ DistillationMaxAttempts \in Nat \ {0} /\ DistillationMaxFaults \in Nat
    /\ Deletes \in BOOLEAN

VARIABLES
    stored,                 \* the turn as it is stored: revision and content
    was,                    \* per revision, the content the turn had
    distillationRows,       \* per revision, the inbox's row
    worker,                 \* what the worker is at
    net,                    \* the requests that are not served
    markers,                \* per revision, the platform's marker
    knowledge,              \* per marker, the content of its candidate
    owned,                  \* whether the Bot server has the Bot, and has not archived it
    distillationTombstone,  \* whether the platform has cancelled the Bot's distillation
    judged,                 \* what the classifier said of which content
    distillationFaults      \* how often a process ended or an answer was lost

distVars == <<stored, was, distillationRows, worker, net, markers, knowledge, owned, distillationTombstone, judged, distillationFaults>>

Revisions == 1..DistillationMaxRevision
Contents == {"partial", "a", "b"}
Triages == {"unrelated", "x", "y"}
Ready(content) == content # "partial"

DistillationNoRow == [state |-> "NONE", marker |-> 0, triage |-> "none", outcome |-> "none", token |-> 0]
NoMarker == [state |-> "NONE", content |-> "partial", triage |-> "none", attempts |-> 0,
             waiting |-> FALSE, token |-> 0, lease |-> "none"]
DistillationIdle == [pc |-> "idle", row |-> 0, marker |-> 0, revision |-> 0, content |-> "partial",
         outcome |-> "none", token |-> 0, answer |-> "none"]

Due == {"PENDING", "WAITING_HISTORY"}
Targets == {"SUBMITTED", "WAITING_HISTORY"}
Unsettled == {"PENDING", "WAITING", "PROCESSING"}
Outcomes == {"CANDIDATE", "WAITING", "CHANGED", "NOT_FOUND"}

DistillationTypeOK ==
    /\ stored \in [revision : Revisions, content : Contents]
    /\ was \in [Revisions -> Contents]
    /\ distillationRows \in [Revisions -> [state : Due \cup {"NONE", "SUBMITTED", "CANDIDATE", "UNRELATED", "FAILED", "NOT_FOUND"},
                               marker : 0..DistillationMaxRevision, triage : Triages \cup {"none"},
                               outcome : Outcomes \cup {"none"}, token : Nat]]
    /\ worker.pc \in {"idle", "backfill", "classify", "submit", "claim", "status", "complete", "replay"}
    /\ markers \in [Revisions -> [state : Unsettled \cup {"NONE", "CANDIDATE", "FAILED"}, content : Contents,
                                  triage : Triages \cup {"none"}, attempts : 0..DistillationMaxAttempts, waiting : BOOLEAN,
                                  token : Nat, lease : {"none", "held", "expired"}]]
    /\ knowledge \in [Revisions -> Contents \cup {"none"}]
    /\ owned \in BOOLEAN /\ distillationTombstone \in BOOLEAN /\ distillationFaults \in 0..DistillationMaxFaults

DistillationInit ==
    /\ stored = [revision |-> 1, content |-> "partial"]
    /\ was = [r \in Revisions |-> "partial"]
    /\ distillationRows = [r \in Revisions |-> DistillationNoRow]
    /\ worker = DistillationIdle /\ net = {}
    /\ markers = [r \in Revisions |-> NoMarker]
    /\ knowledge = [r \in Revisions |-> "none"]
    /\ owned = TRUE /\ distillationTombstone = FALSE /\ judged = {} /\ distillationFaults = 0

-----------------------------------------------------------------------------
(* The turn and the inbox                                                  *)

\* Insert or ignore.
Enqueue(rs, r) == IF rs[r].state = "NONE" THEN [rs EXCEPT ![r] = [DistillationNoRow EXCEPT !.state = "PENDING"]] ELSE rs

NewRevision(content) ==
    /\ stored.revision < DistillationMaxRevision /\ content # stored.content
    /\ stored' = [revision |-> stored.revision + 1, content |-> content]
    /\ was' = [was EXCEPT ![stored.revision + 1] = content]
    /\ UNCHANGED <<worker, net, markers, knowledge, owned, distillationTombstone, judged, distillationFaults>>

\* note: a turn that is completed is queued.
LiveChange(content) ==
    /\ owned /\ NewRevision(content)
    /\ distillationRows' = IF Ready(content) THEN Enqueue(distillationRows, stored.revision + 1) ELSE distillationRows

\* A turn whose distillation is over is queued again.
HistoryImported(content) ==
    /\ NewRevision(content)
    /\ distillationRows' = IF owned /\ \E r \in Revisions : distillationRows[r].state \in {"UNRELATED", "CANDIDATE", "NOT_FOUND"}
               THEN Enqueue(distillationRows, stored.revision + 1) ELSE distillationRows

\* A stored turn without a row is queued.
FirstSeen ==
    /\ worker = DistillationIdle /\ owned /\ Ready(stored.content)
    /\ \A r \in Revisions : distillationRows[r].state = "NONE"
    /\ distillationRows' = Enqueue(distillationRows, stored.revision)
    /\ UNCHANGED <<stored, was, worker, net, markers, knowledge, owned, distillationTombstone, judged, distillationFaults>>

\* A row takes the turn's revision, unless another row has it.
Adopt(rs, r) ==
    LET now == stored.revision
    IN  IF r = now THEN rs
        ELSE [rs EXCEPT ![r] = DistillationNoRow,
                        ![now] = IF rs[now].state = "NONE" THEN [rs[r] EXCEPT !.triage = "none"] ELSE @]

Adopted(r) == r = stored.revision \/ distillationRows[stored.revision].state = "NONE"

\* A turn that changed meanwhile is queued again, unless its content is the
\* one that was accepted.
EnqueueChanged(rs, r, digest) ==
    IF stored.revision = r \/ (Ready(stored.content) /\ stored.content = digest) THEN rs
    ELSE Enqueue(rs, stored.revision)

-----------------------------------------------------------------------------
(* The worker: rows that are due                                           *)

Send(w, request) == worker' = w /\ net' = net \cup {request}
Rest == worker' = DistillationIdle /\ UNCHANGED net

Submission(r, triage) == [kind |-> "submit", revision |-> r, content |-> stored.content, triage |-> triage]

TakeRow(r) ==
    /\ worker = DistillationIdle /\ owned /\ distillationRows[r].state \in Due /\ distillationRows[r].marker = 0
    /\ LET now == stored.revision
           rs == Adopt(distillationRows, r)
       IN  /\ distillationRows' = rs
           /\ IF ~ Adopted(r) THEN Rest
              ELSE IF ~ Ready(stored.content)
              THEN worker' = [DistillationIdle EXCEPT !.pc = "backfill", !.row = now] /\ UNCHANGED net
              ELSE IF rs[now].triage # "none"
              THEN Send([DistillationIdle EXCEPT !.pc = "submit", !.row = now, !.content = stored.content],
                        Submission(now, rs[now].triage))
              ELSE worker' = [DistillationIdle EXCEPT !.pc = "classify", !.row = now, !.content = stored.content]
                   /\ UNCHANGED net
    /\ UNCHANGED <<stored, was, markers, knowledge, owned, distillationTombstone, judged, distillationFaults>>

\* The runtime's history has been looked through, once more or in vain.
BackfilledRow(found) ==
    /\ worker.pc = "backfill" /\ worker.marker = 0
    /\ LET rs == Adopt(distillationRows, worker.row)
       IN  distillationRows' = IF ~ owned THEN distillationRows
                   ELSE IF ~ Adopted(worker.row) \/ Ready(stored.content) THEN rs
                   ELSE [rs EXCEPT ![stored.revision].state =
                          IF found THEN "WAITING_HISTORY" ELSE "NOT_FOUND"]
    /\ Rest
    /\ UNCHANGED <<stored, was, markers, knowledge, owned, distillationTombstone, judged, distillationFaults>>

\* Mutation of Same: only the revision the row was taken at is looked at.
SameTaken(r) == distillationRows[r].state # "NONE"

\* The turn is the one that was classified.
Same(r) == stored.revision = r /\ stored.content = worker.content

Remember(r, triage) == [distillationRows EXCEPT ![r].triage = triage]

Classified(triage) ==
    /\ worker.pc = "classify"
    /\ judged' = judged \cup {<<worker.content, triage>>}
    /\ LET r == worker.row
       IN  IF ~ Same(r)
           THEN /\ distillationRows' = IF Adopted(r) /\ ~ Ready(stored.content)
                           THEN [Adopt(distillationRows, r) EXCEPT ![stored.revision].state = "WAITING_HISTORY"]
                           ELSE Adopt(distillationRows, r)
                /\ Rest
           ELSE IF triage = "unrelated" THEN distillationRows' = [distillationRows EXCEPT ![r].state = "UNRELATED"] /\ Rest
           ELSE IF ~ owned THEN Rest /\ UNCHANGED distillationRows
           ELSE /\ distillationRows' = Remember(r, triage)
                /\ Send([worker EXCEPT !.pc = "submit", !.revision = 0], Submission(r, triage))
    /\ UNCHANGED <<stored, was, markers, knowledge, owned, distillationTombstone, distillationFaults>>

\* The platform has the marker, new or from an earlier submission.
Submitted ==
    /\ worker.pc = "submit" /\ worker.answer \in {"PENDING", "WAITING", "PROCESSING", "CANDIDATE", "FAILED"}
    /\ LET r == worker.row
           to == IF worker.answer \in {"CANDIDATE", "FAILED"} THEN worker.answer ELSE "SUBMITTED"
           rs == [distillationRows EXCEPT ![r].state = to, ![r].marker = r]
       IN  distillationRows' = IF to = "SUBMITTED" THEN rs ELSE EnqueueChanged(rs, r, worker.content)
    /\ Rest
    /\ UNCHANGED <<stored, was, markers, knowledge, owned, distillationTombstone, judged, distillationFaults>>

\* A submission that is refused is tried again, and given up in the end.
SubmissionRefused ==
    /\ worker.pc = "submit" /\ worker.answer \in {"deleted", "conflict"}
    /\ \/ UNCHANGED distillationRows
       \/ distillationRows' = EnqueueChanged([distillationRows EXCEPT ![worker.row].state = "FAILED"], worker.row, worker.content)
    /\ Rest
    /\ UNCHANGED <<stored, was, markers, knowledge, owned, distillationTombstone, judged, distillationFaults>>

-----------------------------------------------------------------------------
(* The worker: claims and outcomes                                         *)

Told(r) == distillationRows[r].outcome # "none" /\ distillationRows[r].state \in Targets /\ distillationRows[r].marker # 0
Least(S) == CHOOSE s \in S : \A t \in S : s <= t

Completion(m, token, outcome, content) ==
    [kind |-> "complete", marker |-> m, token |-> token, outcome |-> outcome, content |-> content]

\* An outcome that was saved is told again before anything is claimed.
Replay(r) ==
    /\ worker = DistillationIdle /\ owned /\ Told(r)
    /\ LET row == distillationRows[r]
           w == [DistillationIdle EXCEPT !.pc = "replay", !.row = r, !.marker = row.marker, !.revision = stored.revision,
                             !.content = markers[row.marker].content, !.outcome = row.outcome, !.token = row.token]
       IN  Send(w, Completion(row.marker, row.token, row.outcome, w.content))
    /\ UNCHANGED <<stored, was, distillationRows, markers, knowledge, owned, distillationTombstone, judged, distillationFaults>>

Claim ==
    /\ worker = DistillationIdle /\ owned /\ ~ \E r \in Revisions : Told(r)
    /\ Send([DistillationIdle EXCEPT !.pc = "claim"], [kind |-> "claim"])
    /\ UNCHANGED <<stored, was, distillationRows, markers, knowledge, owned, distillationTombstone, judged, distillationFaults>>

\* A marker is claimed: its outcome depends on the turn as it is now, and is
\* saved in the marker's row, if there is one, before it is told.
Claimed(found) ==
    /\ worker.pc = "claim" /\ worker.answer = "claimed"
    /\ IF ~ owned THEN Rest /\ UNCHANGED distillationRows
       ELSE LET m == worker.marker
                linked == {r \in Revisions : distillationRows[r].marker = m}
                r == IF linked = {} THEN 0 ELSE Least(linked)
                outcome == IF ~ Ready(stored.content) THEN IF found THEN "WAITING" ELSE "NOT_FOUND"
                           ELSE IF stored.content = worker.content THEN "CANDIDATE" ELSE "CHANGED"
                w == [worker EXCEPT !.pc = "complete", !.row = r, !.revision = stored.revision,
                                    !.outcome = outcome, !.answer = "none"]
            IN  /\ distillationRows' = IF r = 0 THEN distillationRows
                           ELSE [distillationRows EXCEPT ![r].outcome = outcome, ![r].token = worker.token]
                /\ Send(w, Completion(m, worker.token, outcome, worker.content))
    /\ UNCHANGED <<stored, was, markers, knowledge, owned, distillationTombstone, judged, distillationFaults>>

\* There is nothing to claim: the platform may have settled a marker by itself.
NothingClaimed ==
    /\ worker.pc = "claim" /\ worker.answer = "empty"
    /\ LET open == {r \in Revisions : distillationRows[r].state \in Targets /\ distillationRows[r].marker # 0}
       IN  worker' = IF open = {} THEN DistillationIdle ELSE [DistillationIdle EXCEPT !.pc = "status", !.row = Least(open)]
    /\ UNCHANGED <<stored, was, distillationRows, net, markers, knowledge, owned, distillationTombstone, judged, distillationFaults>>

\* reconcileSettledMarker
DistillationReconcile ==
    /\ worker.pc = "status"
    /\ LET r == worker.row
           state == markers[distillationRows[r].marker].state
       IN  distillationRows' = IF ~ owned \/ state \in Unsettled THEN distillationRows
                   ELSE EnqueueChanged([distillationRows EXCEPT ![r].state = state], r, "none")
    /\ Rest
    /\ UNCHANGED <<stored, was, markers, knowledge, owned, distillationTombstone, judged, distillationFaults>>

Settled(outcome) ==
    CASE outcome = "CANDIDATE" -> "CANDIDATE" [] outcome = "WAITING" -> "WAITING_HISTORY"
      [] outcome = "NOT_FOUND" -> "NOT_FOUND" [] OTHER -> "FAILED"

\* completeInboxRow: the outcome was taken, and the row has it.
CompleteRow(rs, r, outcome, content) ==
    LET done == [rs EXCEPT ![r].state = Settled(outcome), ![r].outcome = "none", ![r].token = 0]
    IN  CASE outcome = "WAITING" -> done
          [] outcome = "CANDIDATE" -> EnqueueChanged(done, r, content)
          [] OTHER -> EnqueueChanged(done, r, "none")

\* A candidate of a marker without a row has a row of its own.
RecordCandidate(rs) ==
    LET r == worker.revision
        recorded == [rs EXCEPT ![r] = [DistillationNoRow EXCEPT !.state = "CANDIDATE", !.marker = worker.marker]]
    IN  IF worker.outcome = "CANDIDATE" THEN EnqueueChanged(recorded, r, worker.content) ELSE rs

\* The outcome is told.  A turn that is not there in full is looked for.
Completed ==
    /\ worker.pc \in {"complete", "replay"} /\ worker.answer = "ok"
    /\ distillationRows' = IF worker.row = 0 THEN RecordCandidate(distillationRows)
               ELSE CompleteRow(distillationRows, worker.row, worker.outcome, worker.content)
    /\ worker' = IF worker.outcome = "WAITING" THEN [DistillationIdle EXCEPT !.pc = "backfill", !.marker = worker.marker]
                 ELSE DistillationIdle
    /\ UNCHANGED <<stored, was, net, markers, knowledge, owned, distillationTombstone, judged, distillationFaults>>

BackfilledMarker ==
    /\ worker.pc = "backfill" /\ worker.marker # 0
    /\ Rest
    /\ UNCHANGED <<stored, was, distillationRows, markers, knowledge, owned, distillationTombstone, judged, distillationFaults>>

Discard(r) == [distillationRows EXCEPT ![r].outcome = "none", ![r].token = 0]

\* The lease is not the worker's any more.  A saved outcome is given up when it
\* is refused again.
CompletionRefused ==
    /\ worker.pc \in {"complete", "replay"} /\ worker.answer = "conflict"
    /\ distillationRows' = IF worker.pc = "replay" THEN Discard(worker.row) ELSE distillationRows
    /\ Rest
    /\ UNCHANGED <<stored, was, markers, knowledge, owned, distillationTombstone, judged, distillationFaults>>

\* The answer is lost, or the classifier or the platform is not there.
GiveUp ==
    /\ worker.pc # "idle" /\ distillationFaults < DistillationMaxFaults
    /\ distillationFaults' = distillationFaults + 1
    /\ Rest
    /\ UNCHANGED <<stored, was, distillationRows, markers, knowledge, owned, distillationTombstone, judged>>

-----------------------------------------------------------------------------
(* The platform                                                            *)

\* The request is served, and answered if its caller still waits.
Answer(request, waits, w) ==
    /\ net' = net \ {request}
    /\ worker' = IF waits /\ worker.answer = "none" THEN w ELSE worker

\* createMarker: once per revision; a second one must say the same.
ServeSubmit(q) ==
    /\ q.kind = "submit"
    /\ LET m == markers[q.revision]
           same == m.content = q.content /\ m.triage = q.triage
       IN  /\ markers' = IF distillationTombstone \/ m.state # "NONE" THEN markers
                         ELSE [markers EXCEPT ![q.revision] = [NoMarker EXCEPT !.state = "PENDING",
                                                !.content = q.content, !.triage = q.triage]]
           /\ Answer(q, worker.pc = "submit" /\ worker.row = q.revision,
                     [worker EXCEPT !.answer = IF distillationTombstone THEN "deleted"
                                               ELSE IF m.state = "NONE" THEN "PENDING"
                                               ELSE IF same THEN m.state ELSE "conflict"])
    /\ UNCHANGED <<stored, was, distillationRows, knowledge, owned, distillationTombstone, judged, distillationFaults>>

Claimable(m) == m.state = "PENDING" \/ m.state = "WAITING" \/ (m.state = "PROCESSING" /\ m.lease = "expired")

Exhausted(m) == m.attempts >= DistillationMaxAttempts /\ ~ m.waiting /\ Claimable(m)

\* A token that no marker, row, request or answer holds.
Fresh ==
    LET used == {markers[r].token : r \in Revisions} \cup {distillationRows[r].token : r \in Revisions}
                \cup {q.token : q \in {n \in net : n.kind = "complete"}} \cup {worker.token, 0}
    IN  Least((0..Cardinality(used)) \ used)

Lease(m) == Fresh

\* claim: markers that were claimed too often fail; one of the others is leased.
ServeClaim(q) ==
    /\ q.kind = "claim"
    /\ LET ms == [r \in Revisions |-> IF Exhausted(markers[r]) THEN [markers[r] EXCEPT !.state = "FAILED"]
                                      ELSE markers[r]]
           waits == worker.pc = "claim"
           open == {r \in Revisions : Claimable(ms[r])}
       IN  \/ /\ \A r \in open : ms[r].state = "WAITING"  \* none, or not yet
              /\ markers' = ms
              /\ Answer(q, waits, [worker EXCEPT !.answer = "empty"])
           \/ \E r \in open :
                LET token == Lease(ms[r])
                IN  /\ markers' = [ms EXCEPT ![r].state = "PROCESSING", ![r].token = token, ![r].lease = "held",
                                             ![r].attempts = IF ms[r].waiting THEN @ ELSE @ + 1]
                    /\ Answer(q, waits, [worker EXCEPT !.answer = "claimed", !.marker = r, !.token = token,
                                                       !.content = ms[r].content])
    /\ UNCHANGED <<stored, was, distillationRows, knowledge, owned, distillationTombstone, judged, distillationFaults>>

DistillationOutcome(q) == CASE q.outcome = "CANDIDATE" -> "CANDIDATE" [] q.outcome = "WAITING" -> "WAITING" [] OTHER -> "FAILED"

Accepts(m, q) == m.state = "PROCESSING" /\ m.token = q.token /\ m.lease = "held"

\* An outcome that was taken is taken again.
Again(m, q) == m.state = DistillationOutcome(q) /\ m.token = q.token /\ m.lease # "expired"

\* complete: the outcome of the current lease, or the one that was taken.
ServeComplete(q) ==
    /\ q.kind = "complete"
    /\ LET m == markers[q.marker]
           taken == ~ Again(m, q) /\ Accepts(m, q)
       IN  /\ markers' = IF ~ taken THEN markers
                         ELSE [markers EXCEPT ![q.marker].state = DistillationOutcome(q), ![q.marker].lease = "none",
                                              ![q.marker].waiting = DistillationOutcome(q) = "WAITING"]
           /\ knowledge' = IF taken /\ q.outcome = "CANDIDATE"
                           THEN [knowledge EXCEPT ![q.marker] = m.content] ELSE knowledge
           /\ Answer(q, worker.pc \in {"complete", "replay"} /\ worker.marker = q.marker /\ worker.token = q.token,
                     [worker EXCEPT !.answer = IF Again(m, q) \/ taken THEN "ok" ELSE "conflict"])
    /\ UNCHANGED <<stored, was, distillationRows, owned, distillationTombstone, judged, distillationFaults>>

LeaseExpires(r) ==
    /\ markers[r].lease = "held"
    /\ markers' = [markers EXCEPT ![r].lease = "expired"]
    /\ UNCHANGED <<stored, was, distillationRows, worker, net, knowledge, owned, distillationTombstone, judged, distillationFaults>>

-----------------------------------------------------------------------------
(* The Bot and the process                                                 *)

\* The Bot is archived before its distillation is cancelled, and given back
\* only if it was not.
Archive(back) ==
    /\ Deletes /\ owned = ~ back /\ (back => ~ distillationTombstone)
    /\ owned' = back
    /\ UNCHANGED <<stored, was, distillationRows, worker, net, markers, knowledge, distillationTombstone, judged, distillationFaults>>

\* cancelBot
DistillationCancelBot ==
    /\ Deletes /\ ~ owned /\ ~ distillationTombstone
    /\ distillationTombstone' = TRUE
    /\ markers' = [r \in Revisions |->
         IF markers[r].state \in Unsettled
         THEN [markers[r] EXCEPT !.state = "FAILED", !.token = 0, !.lease = "none"] ELSE markers[r]]
    /\ UNCHANGED <<stored, was, distillationRows, worker, net, knowledge, owned, judged, distillationFaults>>

-----------------------------------------------------------------------------
Work ==
    \/ FirstSeen \/ Claim \/ NothingClaimed \/ DistillationReconcile \/ Submitted \/ SubmissionRefused
    \/ Completed \/ BackfilledMarker \/ CompletionRefused
    \/ \E r \in Revisions : TakeRow(r) \/ Replay(r)
    \/ \E triage \in Triages : Classified(triage)
    \/ \E found \in BOOLEAN : BackfilledRow(found) \/ Claimed(found)

DistillationServe == \E q \in net : ServeSubmit(q) \/ ServeClaim(q) \/ ServeComplete(q)
Expires == \E r \in Revisions : LeaseExpires(r)

Changes ==
    \/ \E content \in Contents : LiveChange(content) \/ HistoryImported(content)
    \/ \E back \in BOOLEAN : Archive(back)
    \/ DistillationCancelBot

DistillationNext == Work \/ GiveUp \/ DistillationServe \/ Expires \/ Changes

DistillationSpec == DistillationInit /\ [][DistillationNext]_distVars

-----------------------------------------------------------------------------
(* Properties                                                              *)

\* A marker has the content its revision of the turn had and what the
\* classifier said of that content; its candidate has the same content.  The
\* turn may change while it is classified (tick, snapshotChanged).
MarkerIsOfItsSource ==
    \A r \in Revisions :
        /\ markers[r].state # "NONE" =>
             markers[r].content = was[r] /\ <<markers[r].content, markers[r].triage>> \in judged
        /\ knowledge[r] # "none" => knowledge[r] = was[r]

\* A marker has a candidate exactly if it says so, and only one that was
\* claimed and not failed has (complete).
CandidateOfMarker == \A r \in Revisions : knowledge[r] # "none" <=> markers[r].state = "CANDIDATE"

\* A row that is over agrees with its marker, however many answers were lost
\* and leases ran out (saveCompletion, reconcileSettledMarker).
InboxAgrees ==
    \A r \in Revisions :
        distillationRows[r].marker # 0 =>
            /\ distillationRows[r].state = "CANDIDATE" => markers[distillationRows[r].marker].state = "CANDIDATE"
            /\ distillationRows[r].state \in {"FAILED", "NOT_FOUND"} => markers[distillationRows[r].marker].state = "FAILED"

\* A submission never contradicts an earlier one of the same revision, whose
\* answer was lost (saveClassifier before submit).
NeverConflicts == worker.pc = "submit" => worker.answer # "conflict"

\* A deleted Bot has no marker that is still open: no request that is served
\* late leaves one (createMarker, cancelBot).
DeletedHasNoWork == distillationTombstone => \A r \in Revisions : markers[r].state \notin Unsettled

(* While the turn changes under the worker, answers are lost and the Bot   *)
(* is deleted, the platform's marker and candidate are of the content they *)
(* name, the inbox agrees with them, and a deleted Bot has no work.        *)
DistillationSafe ==
    /\ DistillationTypeOK /\ MarkerIsOfItsSource /\ CandidateOfMarker /\ InboxAgrees
    /\ NeverConflicts /\ DeletedHasNoWork

=============================================================================
