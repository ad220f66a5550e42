----------------------- MODULE GatewayDeliveryProofs -----------------------
(***************************************************************************)
(* Proofs about the release store, about what runs at a gateway and about  *)
(* the delivery of releases to it, for any runtimes, releases, revisions,  *)
(* report ids, entitlements, replicas, reports in flight and faults.       *)
(*                                                                         *)
(* The release store: a revision names one release, what is applied was    *)
(* reported, and a rollback answers only with what was reported READY.     *)
(* The controller: the marks of a release stay in order and never go back, *)
(* whatever commands arrive.  The sidecars: what a request is granted,     *)
(* however the controller's writes interleave with their reads.  The local *)
(* applier: the processes it starts and the files it leaves, for any       *)
(* process trees, lives of the controller and unasked deaths.              *)
(*                                                                         *)
(* Delivery end to end: the Platform never believes more than the runtime  *)
(* has on disk, never offers it anything older than what it runs, and      *)
(* together they implement GatewayRollout.                                 *)
(***************************************************************************)
EXTENDS GatewayDelivery, GatewayRollback, GatewayPolicySidecars, LocalAigw, TLAPS

-----------------------------------------------------------------------------
(* The release store: typing *)

\* The head a commit writes is a reference of the release it saves.
LEMMA NextHeadType ==
    ASSUME NEW id \in ReleaseIds, head \in AnyRef, NextHead(id).rev <= MaxRevision
    PROVE  /\ NextHead(id) \in Refs
           /\ NextHead(id).id = id
           /\ head.rev <= NextHead(id).rev
           /\ NextHead(id).rev <= head.rev + 1
<1>1. head.rev \in 0..MaxRevision
  BY ReleaseAssumption DEF AnyRef, Refs, NoRef
<1>2. CASE head.id = id
  <2>1. head # NoRef
    BY <1>2, ReleaseAssumption DEF NoRef
  <2>2. head \in Refs /\ NextHead(id) = head
    BY <1>2, <2>1 DEF AnyRef, NextHead
  <2> QED
    BY <1>1, <1>2, <2>2, ReleaseAssumption
<1>3. CASE head.id # id
  <2>1. NextHead(id) = [id |-> id, rev |-> head.rev + 1]
    BY <1>3 DEF NextHead
  <2> QED
    BY <1>1, <2>1, ReleaseAssumption DEF Refs
<1> QED
  BY <1>2, <1>3

\* A command whose state is not NONE is a row of the command table.
LEMMA CommandRow ==
    ASSUME ControlTypeOK, NEW r \in Runtimes, NEW id \in ReleaseIds,
           commands[r][id].state # "NONE"
    PROVE  commands[r][id] \in CommandRows
BY DEF ControlTypeOK, Commands, NoCommand

\* The empty tables of a new deployment are well-formed.
LEMMA TypeInit == ControlInit => ControlTypeOK
BY ReleaseAssumption DEF ControlInit, ControlTypeOK, Statuses, AnyRef, NoRef, Commands, NoCommand,
   Observations, NoObservation, ReportStates, Histories

\* Applying a report to a command that exists leaves well-formed rows.
LEMMA TypeReport ==
    ASSUME ControlTypeOK, NEW r \in Runtimes, NEW rep \in Reports,
           commands[r][rep.command].state # "NONE", ApplyReport(r, rep)
    PROVE  /\ observed' \in [Runtimes -> Observations]
           /\ commands' \in [Runtimes -> [ReleaseIds -> Commands]]
<1> USE DEF ControlTypeOK
<1>1. rep.command \in ReleaseIds /\ rep.rev \in 0..MaxRevision /\ rep.state \in ReportStates
      /\ rep.applied \in AnyRef
  BY ReleaseAssumption DEF Reports
<1>2. observed' \in [Runtimes -> Observations]
  BY <1>1 DEF ApplyReport, Observations
<1>3. commands' \in [Runtimes -> [ReleaseIds -> Commands]]
  <2>1. commands[r][rep.command] \in CommandRows
    BY <1>1, CommandRow
  <2>2. [commands[r][rep.command] EXCEPT !.state = Settled(@, rep.state)] \in CommandRows
    BY <1>1, <2>1 DEF CommandRows, Settled
  <2> QED
    BY <1>1, <2>2 DEF ApplyReport, Commands
<1> QED
  BY <1>2, <1>3

\* Every transaction of the store keeps its rows well-formed.
LEMMA TypeStep == ControlTypeOK /\ PolledIsCommand /\ [ControlNext]_controlVars => ControlTypeOK'
<1> SUFFICES ASSUME ControlTypeOK, PolledIsCommand, [ControlNext]_controlVars
             PROVE  ControlTypeOK'
  OBVIOUS
<1> USE DEF ControlTypeOK
<1>1. ASSUME NEW r \in Runtimes, RegisterRuntime(r) \/ RetireRuntime(r)
      PROVE  ControlTypeOK'
  BY <1>1 DEF RegisterRuntime, RetireRuntime, Statuses
<1>2. ASSUME NEW r \in Runtimes, SaveCapabilities(r)
      PROVE  ControlTypeOK'
  BY <1>2 DEF SaveCapabilities
<1>3. ASSUME NEW id \in ReleaseIds, CommitRelease(id)
      PROVE  ControlTypeOK'
  <2> DEFINE ref == NextHead(id)
  <2>1. ref \in Refs /\ ref.id = id
    BY <1>3, NextHeadType DEF CommitRelease
  <2>2. \A r \in Runtimes : Enqueued(r, ref) \in Commands
    BY <2>1 DEF Enqueued, Commands, CommandRows, Refs
  <2>3. commands' \in [Runtimes -> [ReleaseIds -> Commands]]
    BY <1>3, <2>2 DEF CommitRelease
  <2> QED
    BY <1>3, <2>1, <2>3 DEF CommitRelease, AnyRef
<1>4. ASSUME NEW r \in Runtimes, PollList(r)
      PROVE  ControlTypeOK'
  <2>1. PICK id \in ReleaseIds :
          /\ Newest(r, id)
          /\ polled' = [polled EXCEPT ![r] = [id |-> id, rev |-> commands[r][id].rev]]
    BY <1>4 DEF PollList
  <2>2. [id |-> id, rev |-> commands[r][id].rev] \in AnyRef
    <3>1. commands[r][id] \in CommandRows
      BY <2>1, CommandRow DEF Newest, Pending
    <3> QED
      BY <3>1 DEF CommandRows, AnyRef, Refs
  <2> QED
    BY <1>4, <2>1, <2>2 DEF PollList
<1>5. ASSUME NEW r \in Runtimes, PollDeliver(r)
      PROVE  ControlTypeOK'
  <2>1. polled[r].id \in ReleaseIds
    BY <1>5 DEF PollDeliver, AnyRef, Refs
  <2>2. commands' \in [Runtimes -> [ReleaseIds -> Commands]]
    <3> DEFINE id == polled[r].id
    <3>1. commands[r][id] \in CommandRows
      BY <1>5, <2>1, CommandRow DEF PollDeliver, PolledIsCommand
    <3>2. [commands[r][id] EXCEPT !.delivered = TRUE] \in Commands
      BY <3>1 DEF CommandRows, Commands
    <3> QED
      BY <1>5, <2>1, <3>2 DEF PollDeliver
  <2> QED
    BY <1>5, <2>2 DEF PollDeliver, AnyRef
<1>6. ASSUME NEW r \in Runtimes, PollConflict(r)
      PROVE  ControlTypeOK'
  BY <1>6 DEF PollConflict, AnyRef
<1>7. ASSUME NEW r \in Runtimes, NEW rep \in Reports, RecordStale(r, rep)
      PROVE  ControlTypeOK'
  BY <1>7 DEF RecordStale, Histories
<1>8. ASSUME NEW r \in Runtimes, NEW rep \in Reports, RecordAccepted(r, rep)
      PROVE  ControlTypeOK'
  <2>1. observed' \in [Runtimes -> Observations] /\ commands' \in [Runtimes -> [ReleaseIds -> Commands]]
    BY <1>8, TypeReport DEF RecordAccepted, Recordable
  <2> QED
    BY <1>8, <2>1 DEF RecordAccepted, ApplyReport, Histories
<1>9. CASE UNCHANGED controlVars
  BY <1>9 DEF controlVars
<1> QED
  BY <1>1, <1>2, <1>3, <1>4, <1>5, <1>6, <1>7, <1>8, <1>9 DEF ControlNext

-----------------------------------------------------------------------------
(* The release store: the inductive invariant *)

\* What the rows themselves say of each other, the report history apart.
RowsInv ==
    /\ ControlTypeOK
    /\ PolledIsCommand
    /\ HeadNamesRelease
    /\ RevisionNamesRelease
    /\ AppliedNotAhead

\* The empty tables satisfy the invariant.
LEMMA InvInit == ControlInit => ControlInv
<1> SUFFICES ASSUME ControlInit PROVE ControlInv
  OBVIOUS
<1>1. ControlTypeOK
  BY TypeInit
<1>2. PolledIsCommand /\ HeadNamesRelease /\ RevisionNamesRelease /\ SettledByReport
  BY DEF ControlInit, PolledIsCommand, HeadNamesRelease, RevisionNamesRelease, SettledByReport, NoCommand
<1>3. AppliedNotAhead /\ AppliedWasProven
  BY DEF ControlInit, AppliedNotAhead, AppliedWasProven, NoObservation, NoRef
<1> QED
  BY <1>1, <1>2, <1>3 DEF ControlInv

\* What a commit does to the command rows.
LEMMA CommitRows ==
    ASSUME ControlTypeOK, NEW id \in ReleaseIds, CommitRelease(id),
           NEW r \in Runtimes, NEW a \in ReleaseIds
    PROVE  \/ commands'[r][a] = commands[r][a]
           \/ /\ a = id
              /\ commands[r][a].state = "NONE"
              /\ commands'[r][a] = [rev |-> NextHead(id).rev, state |-> "PENDING", delivered |-> FALSE]
<1>1. NextHead(id).id = id
  BY NextHeadType DEF CommitRelease, ControlTypeOK
<1> QED
  BY <1>1 DEF CommitRelease, ControlTypeOK, Enqueued

\* A commit keeps what the rows say: only a new revision gets new rows.
LEMMA RowsCommit ==
    ASSUME RowsInv, NEW id \in ReleaseIds, CommitRelease(id)
    PROVE  PolledIsCommand' /\ HeadNamesRelease' /\ RevisionNamesRelease' /\ AppliedNotAhead'
<1> DEFINE ref == NextHead(id)
<1>0. ControlTypeOK
  BY DEF RowsInv
<1>1. head' = ref /\ ref.id = id /\ ref \in Refs
      /\ head.rev <= ref.rev /\ ref.rev <= head.rev + 1
  BY <1>0, NextHeadType DEF CommitRelease, ControlTypeOK
<1>2. \A r \in Runtimes, a \in ReleaseIds :
        \/ commands'[r][a] = commands[r][a]
        \/ /\ a = id
           /\ commands[r][a].state = "NONE"
           /\ commands'[r][a] = [rev |-> ref.rev, state |-> "PENDING", delivered |-> FALSE]
  BY <1>0, CommitRows
<1>3. observed' = observed /\ polled' = polled
  BY DEF CommitRelease
<1> HIDE DEF ref
<1>4. PolledIsCommand'
  <2> SUFFICES ASSUME NEW r \in Runtimes, polled[r] # NoRef
               PROVE  /\ commands'[r][polled[r].id].state # "NONE"
                      /\ commands'[r][polled[r].id].rev = polled[r].rev
    BY <1>3 DEF PolledIsCommand
  <2>1. polled[r].id \in ReleaseIds
    BY <1>0 DEF ControlTypeOK, AnyRef, Refs
  <2>2. commands[r][polled[r].id].state # "NONE" /\ commands[r][polled[r].id].rev = polled[r].rev
    BY DEF RowsInv, PolledIsCommand
  <2> QED
    BY <1>2, <2>1, <2>2
<1>5. HeadNamesRelease'
  <2> SUFFICES ASSUME NEW r \in Runtimes, NEW a \in ReleaseIds, commands'[r][a].state # "NONE"
               PROVE  /\ commands'[r][a].rev <= ref.rev
                      /\ commands'[r][a].rev = ref.rev => a = id
    BY <1>1 DEF HeadNamesRelease
  <2>1. CASE commands'[r][a] = commands[r][a]
    <3>1. commands[r][a].rev \in 1..MaxRevision
      BY <1>0, <2>1, CommandRow DEF CommandRows
    <3>2. head.rev \in 0..MaxRevision
      BY <1>0, ReleaseAssumption DEF ControlTypeOK, AnyRef, Refs, NoRef
    <3>3. commands[r][a].rev <= head.rev /\ (commands[r][a].rev = head.rev => a = head.id)
      BY <2>1 DEF RowsInv, HeadNamesRelease
    <3>4. head.id = id \/ ref.rev = head.rev + 1
      BY <1>1 DEF ref, NextHead
    <3>5. head.id = id => ref = head
      BY DEF ref, NextHead
    <3> QED
      BY <2>1, <3>1, <3>2, <3>3, <3>4, <3>5, ReleaseAssumption
  <2>2. CASE a = id /\ commands'[r][a].rev = ref.rev
    BY <1>1, <2>2, ReleaseAssumption DEF Refs
  <2>3. commands'[r][a] = commands[r][a] \/ (a = id /\ commands'[r][a].rev = ref.rev)
    BY <1>2
  <2> QED
    BY <2>1, <2>2, <2>3
<1>6. RevisionNamesRelease'
  <2> SUFFICES ASSUME NEW r \in Runtimes, NEW s \in Runtimes, NEW a \in ReleaseIds, NEW b \in ReleaseIds,
                      commands'[r][a].state # "NONE", commands'[s][b].state # "NONE",
                      commands'[r][a].rev = commands'[s][b].rev
               PROVE  a = b
    BY DEF RevisionNamesRelease
  <2>1. CASE commands'[r][a] = commands[r][a] /\ commands'[s][b] = commands[s][b]
    <3>1. RevisionNamesRelease
      BY DEF RowsInv
    <3> QED
      BY <2>1, <3>1 DEF RevisionNamesRelease
  <2>2. CASE commands'[r][a].rev = ref.rev
    <3>1. commands'[s][b].rev = ref.rev
      BY <2>2
    <3> QED
      BY <1>1, <1>5, <2>2, <3>1 DEF HeadNamesRelease
  <2>3. commands'[r][a] = commands[r][a] \/ commands'[r][a].rev = ref.rev
    BY <1>2
  <2>4. commands'[s][b] = commands[s][b] \/ commands'[s][b].rev = ref.rev
    BY <1>2
  <2> QED
    BY <2>1, <2>2, <2>3, <2>4
<1>7. AppliedNotAhead'
  BY <1>3 DEF RowsInv, AppliedNotAhead
<1> QED
  BY <1>4, <1>5, <1>6, <1>7

\* A step that keeps the head, the observations, and the state and revision of
\* every command keeps what the rows say.
LEMMA RowsFrame ==
    ASSUME RowsInv, head' = head, observed' = observed,
           \A r \in Runtimes, a \in ReleaseIds :
              commands'[r][a].rev = commands[r][a].rev /\ commands'[r][a].state = commands[r][a].state
    PROVE  HeadNamesRelease' /\ RevisionNamesRelease' /\ AppliedNotAhead'
<1>1. HeadNamesRelease'
  BY DEF RowsInv, HeadNamesRelease
<1>2. RevisionNamesRelease'
  BY DEF RowsInv, RevisionNamesRelease
<1>3. AppliedNotAhead'
  BY DEF RowsInv, AppliedNotAhead
<1> QED
  BY <1>1, <1>2, <1>3

\* What applying a report that answers its command does to the rows.
LEMMA ReportRows ==
    ASSUME ControlTypeOK, NEW r \in Runtimes, NEW rep \in Reports,
           commands[r][rep.command].state # "NONE", ApplyReport(r, rep)
    PROVE  /\ \A s \in Runtimes, a \in ReleaseIds :
                 /\ commands'[s][a].rev = commands[s][a].rev
                 /\ s # r \/ a # rep.command => commands'[s][a].state = commands[s][a].state
                 /\ commands'[s][a].state # "NONE" <=> commands[s][a].state # "NONE"
           /\ commands'[r][rep.command].state = Settled(commands[r][rep.command].state, rep.state)
           /\ observed'[r].rev = rep.rev /\ observed'[r].state = rep.state
           /\ observed'[r].applied = IF rep.applied # NoRef THEN rep.applied ELSE observed[r].applied
           /\ \A s \in Runtimes \ {r} : observed'[s] = observed[s]
<1> DEFINE id == rep.command
<1>1. id \in ReleaseIds
  BY DEF Reports
<1>2. commands[r][id] \in CommandRows
  BY <1>1, CommandRow
<1>3. \A s \in Runtimes, a \in ReleaseIds :
        /\ commands'[s][a].rev = commands[s][a].rev
        /\ s # r \/ a # id => commands'[s][a].state = commands[s][a].state
  BY <1>1, <1>2 DEF ApplyReport, ControlTypeOK, CommandRows
<1>4. commands'[r][id].state = Settled(commands[r][id].state, rep.state)
  BY <1>1, <1>2 DEF ApplyReport, ControlTypeOK, CommandRows
<1>5. commands'[r][id].state # "NONE"
  BY <1>4 DEF Settled
<1>6. /\ observed'[r].rev = rep.rev /\ observed'[r].state = rep.state
      /\ observed'[r].applied = IF rep.applied # NoRef THEN rep.applied ELSE observed[r].applied
      /\ \A s \in Runtimes \ {r} : observed'[s] = observed[s]
  BY DEF ApplyReport, ControlTypeOK
<1> QED
  BY <1>3, <1>4, <1>5, <1>6

\* The same for what the rows say: the report carries the revision of its
\* command, and is not older than the observation it replaces.
LEMMA RowsReport ==
    ASSUME RowsInv, NEW r \in Runtimes, NEW rep \in Reports,
           commands[r][rep.command].state # "NONE", Verified(r, rep), ~ Stale(r, rep),
           ApplyReport(r, rep), head' = head, polled' = polled
    PROVE  PolledIsCommand' /\ HeadNamesRelease' /\ RevisionNamesRelease' /\ AppliedNotAhead'
<1> DEFINE id == rep.command
<1>0. ControlTypeOK
  BY DEF RowsInv
<1>1. id \in ReleaseIds /\ rep.rev \in 1..MaxRevision /\ rep.applied \in AnyRef
  BY DEF Reports
<1>2. \A s \in Runtimes, a \in ReleaseIds :
        /\ commands'[s][a].rev = commands[s][a].rev
        /\ commands'[s][a].state # "NONE" <=> commands[s][a].state # "NONE"
  BY <1>0, ReportRows
<1>3. /\ observed'[r].rev = rep.rev
      /\ observed'[r].applied = IF rep.applied # NoRef THEN rep.applied ELSE observed[r].applied
      /\ \A s \in Runtimes \ {r} : observed'[s] = observed[s]
  BY <1>0, ReportRows
<1>4. PolledIsCommand'
  <2> SUFFICES ASSUME NEW s \in Runtimes, polled[s] # NoRef
               PROVE  /\ commands'[s][polled[s].id].state # "NONE"
                      /\ commands'[s][polled[s].id].rev = polled[s].rev
    BY DEF PolledIsCommand
  <2>1. polled[s].id \in ReleaseIds
    BY <1>0 DEF ControlTypeOK, AnyRef, Refs
  <2> QED
    BY <1>2, <2>1 DEF RowsInv, PolledIsCommand
<1>5. HeadNamesRelease'
  BY <1>2 DEF RowsInv, HeadNamesRelease
<1>6. RevisionNamesRelease'
  BY <1>2 DEF RowsInv, RevisionNamesRelease
<1>7. AppliedNotAhead'
  <2>1. observed[r].rev \in 0..MaxRevision /\ observed[r].applied.rev \in 0..MaxRevision
    BY <1>0, ReleaseAssumption DEF ControlTypeOK, Observations, AnyRef, Refs, NoRef
  <2>2. observed[r].applied.rev <= observed[r].rev /\ observed[r].rev <= rep.rev
    BY <1>1, <2>1 DEF RowsInv, AppliedNotAhead, Stale
  <2>3. rep.applied # NoRef => rep.applied = observed[r].applied \/ rep.applied.rev = rep.rev
    BY DEF Verified, Desired
  <2>4. observed'[r].applied.rev <= observed'[r].rev
    BY <1>1, <1>3, <2>1, <2>2, <2>3
  <2> QED
    BY <1>3, <2>4 DEF RowsInv, AppliedNotAhead
<1> QED
  BY <1>4, <1>5, <1>6, <1>7

\* What the rows say is inductive by itself: one step per transaction.
LEMMA RowsStep == RowsInv /\ [ControlNext]_controlVars => RowsInv'
<1> SUFFICES ASSUME RowsInv, [ControlNext]_controlVars
             PROVE  RowsInv'
  OBVIOUS
<1>0. ControlTypeOK /\ PolledIsCommand /\ ControlTypeOK'
  BY TypeStep DEF RowsInv
<1>1. ASSUME NEW r \in Runtimes, RegisterRuntime(r) \/ RetireRuntime(r) \/ SaveCapabilities(r)
      PROVE  RowsInv'
  <2>1. head' = head /\ observed' = observed /\ commands' = commands
        /\ polled' = polled
    BY <1>1 DEF RegisterRuntime, RetireRuntime, SaveCapabilities
  <2>2. PolledIsCommand'
    BY <1>0, <2>1 DEF PolledIsCommand
  <2> QED
    BY <1>0, <2>1, <2>2, RowsFrame DEF RowsInv
<1>2. ASSUME NEW id \in ReleaseIds, CommitRelease(id)
      PROVE  RowsInv'
  BY <1>0, <1>2, RowsCommit DEF RowsInv
<1>3. ASSUME NEW r \in Runtimes, PollList(r)
      PROVE  RowsInv'
  <2>1. PICK id \in ReleaseIds :
          /\ Newest(r, id)
          /\ polled' = [polled EXCEPT ![r] = [id |-> id, rev |-> commands[r][id].rev]]
    BY <1>3 DEF PollList
  <2>2. commands[r][id].state = "PENDING"
    BY <2>1 DEF Newest, Pending
  <2>3. head' = head /\ observed' = observed /\ commands' = commands
    BY <1>3 DEF PollList
  <2>4. PolledIsCommand'
    BY <1>0, <2>1, <2>2, <2>3 DEF PolledIsCommand, ControlTypeOK
  <2> QED
    BY <1>0, <2>3, <2>4, RowsFrame DEF RowsInv
<1>4. ASSUME NEW r \in Runtimes, PollDeliver(r)
      PROVE  RowsInv'
  <2> DEFINE id == polled[r].id
  <2>1. id \in ReleaseIds
    BY <1>0, <1>4 DEF PollDeliver, ControlTypeOK, AnyRef, Refs
  <2>2. commands[r][id] \in CommandRows
    BY <1>0, <1>4, <2>1, CommandRow DEF PollDeliver, PolledIsCommand
  <2>3. \A s \in Runtimes, a \in ReleaseIds :
          commands'[s][a].rev = commands[s][a].rev /\ commands'[s][a].state = commands[s][a].state
    BY <1>0, <1>4, <2>1, <2>2 DEF PollDeliver, ControlTypeOK, CommandRows
  <2>4. head' = head /\ observed' = observed
    BY <1>4 DEF PollDeliver
  <2>5. PolledIsCommand'
    <3> SUFFICES ASSUME NEW s \in Runtimes, polled'[s] # NoRef
                 PROVE  /\ commands'[s][polled'[s].id].state # "NONE"
                        /\ commands'[s][polled'[s].id].rev = polled'[s].rev
      BY DEF PolledIsCommand
    <3>1. polled'[s] = polled[s]
      BY <1>0, <1>4 DEF PollDeliver, ControlTypeOK
    <3>2. polled[s].id \in ReleaseIds
      BY <1>0, <3>1 DEF ControlTypeOK, AnyRef, Refs
    <3> QED
      BY <1>0, <2>3, <3>1, <3>2 DEF PolledIsCommand
  <2> QED
    BY <1>0, <2>3, <2>4, <2>5, RowsFrame DEF RowsInv
<1>5. ASSUME NEW r \in Runtimes, PollConflict(r)
      PROVE  RowsInv'
  <2>1. head' = head /\ observed' = observed /\ commands' = commands
    BY <1>5 DEF PollConflict
  <2>2. PolledIsCommand'
    BY <1>0, <1>5, <2>1 DEF PollConflict, PolledIsCommand, ControlTypeOK
  <2> QED
    BY <1>0, <2>1, <2>2, RowsFrame DEF RowsInv
<1>6. ASSUME NEW r \in Runtimes, NEW rep \in Reports, RecordStale(r, rep)
      PROVE  RowsInv'
  <2>1. head' = head /\ observed' = observed /\ commands' = commands /\ polled' = polled
    BY <1>6 DEF RecordStale
  <2>3. PolledIsCommand'
    BY <1>0, <2>1 DEF PolledIsCommand
  <2> QED
    BY <1>0, <2>1, <2>3, RowsFrame DEF RowsInv
<1>7. ASSUME NEW r \in Runtimes, NEW rep \in Reports, RecordAccepted(r, rep)
      PROVE  RowsInv'
  BY <1>0, <1>7, RowsReport DEF RowsInv, RecordAccepted, Recordable
<1>8. CASE UNCHANGED controlVars
  BY <1>8 DEF controlVars, RowsInv, ControlTypeOK, PolledIsCommand, HeadNamesRelease,
     RevisionNamesRelease, AppliedNotAhead
<1> QED
  BY <1>1, <1>2, <1>3, <1>4, <1>5, <1>6, <1>7, <1>8 DEF ControlNext

\* The history justifies what the rows claim: an accepted report touches one
\* command and one observation, and its own row in the history backs both.
LEMMA HistoryRecord ==
    ASSUME ControlInv, NEW r \in Runtimes, NEW rep \in Reports, RecordAccepted(r, rep)
    PROVE  AppliedWasProven' /\ SettledByReport'
<1> DEFINE id == rep.command
           row == [body |-> rep, outcome |-> "ACCEPTED"]
<1>0. ControlTypeOK
  BY DEF ControlInv
<1>1. id \in ReleaseIds
  BY DEF Reports
<1>2. Verified(r, rep) /\ commands[r][id].state # "NONE"
  BY DEF RecordAccepted, Recordable
<1>3. /\ \A s \in Runtimes, a \in ReleaseIds :
           /\ commands'[s][a].rev = commands[s][a].rev
           /\ s # r \/ a # id => commands'[s][a].state = commands[s][a].state
      /\ commands'[r][id].state = Settled(commands[r][id].state, rep.state)
      /\ observed'[r].applied = IF rep.applied # NoRef THEN rep.applied ELSE observed[r].applied
      /\ \A s \in Runtimes \ {r} : observed'[s] = observed[s]
  BY <1>0, <1>2, ReportRows DEF RecordAccepted
<1>4. /\ row \in history'[r]
      /\ \A s \in Runtimes : history[s] \subseteq history'[s]
  BY <1>0 DEF RecordAccepted, ControlTypeOK
<1>5. rep.applied # NoRef => rep.applied = observed[r].applied \/ rep.state = "READY"
  BY <1>2 DEF Verified
<1>6. AppliedWasProven'
  <2> SUFFICES ASSUME NEW s \in Runtimes, observed'[s].applied # NoRef
               PROVE  \E h \in history'[s] : /\ h.outcome = "ACCEPTED"
                                             /\ h.body.state = "READY"
                                             /\ h.body.applied = observed'[s].applied
    BY DEF AppliedWasProven
  <2>1. CASE observed'[s].applied = observed[s].applied
    BY <1>4, <2>1 DEF ControlInv, AppliedWasProven
  <2>2. CASE s = r /\ rep.state = "READY" /\ observed'[s].applied = rep.applied
    BY <1>4, <2>2
  <2>3. CASE s # r
    BY <1>3, <2>1, <2>3
  <2> QED
    BY <1>3, <1>5, <2>1, <2>2, <2>3
<1>7. SettledByReport'
  <2> SUFFICES ASSUME NEW s \in Runtimes, NEW a \in ReleaseIds
               PROVE  SettledByReport!(s)!(a)'
    BY DEF SettledByReport
  <2>1. CASE commands'[s][a].state = commands[s][a].state
    BY <1>3, <1>4, <2>1 DEF ControlInv, SettledByReport
  <2>2. CASE s = r /\ a = id /\ rep.state = "READY" /\ commands'[r][id].state = "ACKNOWLEDGED"
    <3>1. rep.applied = [id |-> id, rev |-> commands'[r][id].rev]
      BY <1>1, <1>2, <1>3, <2>2 DEF Verified, Desired
    <3> QED
      BY <1>4, <2>2, <3>1
  <2>3. CASE s = r /\ a = id /\ rep.state = "DEGRADED" /\ commands'[r][id].state = "FAILED"
    BY <1>4, <2>3
  <2> QED
    BY <1>3, <2>1, <2>2, <2>3 DEF Settled
<1> QED
  BY <1>6, <1>7

\* A step that changes no observation, takes no justification away and settles
\* no command leaves what there is justified.
LEMMA HistoryFrame ==
    ASSUME ControlInv, observed' = observed,
           \A r \in Runtimes : history[r] \subseteq history'[r],
           \A r \in Runtimes, a \in ReleaseIds :
              \/ commands'[r][a].state = "PENDING"
              \/ commands'[r][a].rev = commands[r][a].rev /\ commands'[r][a].state = commands[r][a].state
    PROVE  AppliedWasProven' /\ SettledByReport'
<1>1. AppliedWasProven'
  BY DEF ControlInv, AppliedWasProven
<1>2. SettledByReport'
  BY DEF ControlInv, SettledByReport
<1> QED
  BY <1>1, <1>2

\* The invariant is inductive.
LEMMA InvStep == ControlInv /\ [ControlNext]_controlVars => ControlInv'
<1> SUFFICES ASSUME ControlInv, [ControlNext]_controlVars
             PROVE  ControlInv'
  OBVIOUS
<1>1. ControlTypeOK /\ PolledIsCommand /\ RowsInv /\ RowsInv'
  BY RowsStep DEF ControlInv, RowsInv
<1>2. ASSUME NEW r \in Runtimes, NEW rep \in Reports, RecordAccepted(r, rep)
      PROVE  AppliedWasProven' /\ SettledByReport'
  BY <1>2, HistoryRecord
<1>3. ASSUME NEW id \in ReleaseIds, CommitRelease(id)
      PROVE  AppliedWasProven' /\ SettledByReport'
  <2>1. \A r \in Runtimes, a \in ReleaseIds :
          \/ commands'[r][a] = commands[r][a]
          \/ commands'[r][a] = [rev |-> NextHead(id).rev, state |-> "PENDING", delivered |-> FALSE]
    BY <1>1, <1>3, CommitRows
  <2>2. observed' = observed /\ history' = history
    BY <1>3 DEF CommitRelease
  <2> QED
    BY <2>1, <2>2, HistoryFrame
<1>4. ASSUME NEW r \in Runtimes, PollDeliver(r)
      PROVE  AppliedWasProven' /\ SettledByReport'
  <2>1. polled[r].id \in ReleaseIds
    BY <1>1, <1>4 DEF PollDeliver, ControlTypeOK, AnyRef, Refs
  <2>2. commands[r][polled[r].id] \in CommandRows
    BY <1>1, <1>4, <2>1, CommandRow DEF PollDeliver, PolledIsCommand
  <2>3. \A s \in Runtimes, a \in ReleaseIds :
          commands'[s][a].rev = commands[s][a].rev /\ commands'[s][a].state = commands[s][a].state
    BY <1>1, <1>4, <2>1, <2>2 DEF PollDeliver, ControlTypeOK, CommandRows
  <2>4. observed' = observed /\ history' = history
    BY <1>4 DEF PollDeliver
  <2> QED
    BY <2>3, <2>4, HistoryFrame
<1>5. ASSUME NEW r \in Runtimes, NEW rep \in Reports, RecordStale(r, rep)
      PROVE  AppliedWasProven' /\ SettledByReport'
  <2>1. observed' = observed /\ commands' = commands
    BY <1>5 DEF RecordStale
  <2>2. \A s \in Runtimes : history[s] \subseteq history'[s]
    BY <1>1, <1>5 DEF RecordStale, ControlTypeOK
  <2> QED
    BY <2>1, <2>2, HistoryFrame
<1>6. ASSUME observed' = observed, history' = history, commands' = commands
      PROVE  AppliedWasProven' /\ SettledByReport'
  BY <1>6, HistoryFrame
<1>7. AppliedWasProven' /\ SettledByReport'
  BY <1>2, <1>3, <1>4, <1>5, <1>6 DEF ControlNext, controlVars, RegisterRuntime, RetireRuntime,
     SaveCapabilities, PollList, PollConflict
<1> QED
  BY <1>1, <1>7 DEF ControlInv, RowsInv

\* The inductive invariant holds in every reachable state of the store.
THEOREM ControlInvariance == ControlSpec => []ControlInv
BY InvInit, InvStep, PTL DEF ControlSpec

\* What the store promises, in one: its rows are well-formed, a revision names one
\* release, a release counts as applied only when its runtime proved it, and a
\* command is settled by a report for it.
THEOREM StoreIsSafe == ControlSpec => []ControlSafe
<1>1. ControlInv => ControlSafe
  BY DEF ControlInv, ControlSafe
<1> QED
  BY <1>1, ControlInvariance, PTL

\* Every row of the store stays well-formed.
THEOREM ControlTypeCorrect == ControlSpec => []ControlTypeOK
<1>1. ControlInv => ControlTypeOK
  BY DEF ControlInv
<1> QED
  BY <1>1, ControlInvariance, PTL

\* A head revision names one release, for every runtime.
THEOREM RevisionsNameReleases == ControlSpec => []RevisionNamesRelease
<1>1. ControlInv => RevisionNamesRelease
  BY DEF ControlInv
<1> QED
  BY <1>1, ControlInvariance, PTL

\* The applied release of every runtime was reported READY by that runtime.
THEOREM AppliedReleasesProven == ControlSpec => []AppliedWasProven
<1>1. ControlInv => AppliedWasProven
  BY DEF ControlInv
<1> QED
  BY <1>1, ControlInvariance, PTL

\* A command's outcome is backed by an accepted report of its runtime.
THEOREM CommandsSettledByReports == ControlSpec => []SettledByReport
<1>1. ControlInv => SettledByReport
  BY DEF ControlInv
<1> QED
  BY <1>1, ControlInvariance, PTL

-----------------------------------------------------------------------------
(* The release store: action properties *)

\* Whatever reports arrive, no observed or applied revision goes back.
THEOREM ObservationsMonotone == ControlSpec => ObservedNeverRegresses
<1> DEFINE Monotone == \A r \in Runtimes :
             /\ observed'[r].rev >= observed[r].rev
             /\ observed'[r].applied.rev >= observed[r].applied.rev
<1>1. ASSUME ControlInv, [ControlNext]_controlVars
      PROVE  Monotone
  <2>0. ControlTypeOK
    BY <1>1 DEF ControlInv
  <2>1. \A r \in Runtimes : observed[r].rev \in 0..MaxRevision /\ observed[r].applied.rev \in 0..MaxRevision
    BY <2>0, ReleaseAssumption DEF ControlTypeOK, Observations, AnyRef, Refs, NoRef
  <2>2. CASE observed' = observed
    BY <2>1, <2>2
  <2>3. ASSUME NEW r \in Runtimes, NEW rep \in Reports, RecordAccepted(r, rep)
        PROVE  Monotone
    <3>1. /\ observed'[r].rev = rep.rev
          /\ observed'[r].applied = IF rep.applied # NoRef THEN rep.applied ELSE observed[r].applied
          /\ \A s \in Runtimes \ {r} : observed'[s] = observed[s]
      BY <2>0, <2>3 DEF RecordAccepted, ApplyReport, ControlTypeOK
    <3>2. rep.rev \in 1..MaxRevision
      BY DEF Reports
    <3>3. Verified(r, rep) /\ ~ Stale(r, rep)
      BY <2>3 DEF RecordAccepted, ApplyReport, Recordable
    <3>4. observed[r].rev <= rep.rev
      BY <2>1, <3>2, <3>3 DEF Stale
    <3>5. observed[r].applied.rev <= observed[r].rev
      BY <1>1 DEF ControlInv, AppliedNotAhead
    <3>6. rep.applied # NoRef => rep.applied = observed[r].applied \/ rep.applied.rev = rep.rev
      BY <3>3 DEF Verified, Desired
    <3>7. observed'[r].applied.rev >= observed[r].applied.rev
      BY <2>1, <3>1, <3>2, <3>4, <3>5, <3>6
    <3>8. ASSUME NEW s \in Runtimes
          PROVE  /\ observed'[s].rev >= observed[s].rev
                 /\ observed'[s].applied.rev >= observed[s].applied.rev
      <4>1. CASE s = r
        BY <2>1, <3>1, <3>2, <3>4, <3>7, <4>1
      <4>2. CASE s # r
        BY <2>1, <3>1, <4>2
      <4> QED
        BY <4>1, <4>2
    <3> QED
      BY <3>8
  <2> QED
    BY <1>1, <2>2, <2>3 DEF ControlNext, controlVars, RegisterRuntime, RetireRuntime, SaveCapabilities,
       CommitRelease, PollList, PollDeliver, PollConflict, RecordStale
<1> QED
  BY <1>1, ControlInvariance, PTL DEF ControlSpec, ObservedNeverRegresses

\* A settled command keeps its outcome and every command its revision.
THEOREM CommandsFinal == ControlSpec => CommandsAreFinal
<1> DEFINE Final == \A r \in Runtimes : \A id \in ReleaseIds :
             /\ commands[r][id].state \in {"ACKNOWLEDGED", "FAILED"} =>
                  commands'[r][id].state = commands[r][id].state
             /\ commands[r][id].state # "NONE" =>
                  commands'[r][id].rev = commands[r][id].rev
<1>1. ASSUME ControlInv, [ControlNext]_controlVars
      PROVE  Final
  <2>0. ControlTypeOK
    BY <1>1 DEF ControlInv
  <2>1. CASE commands' = commands
    BY <2>1
  <2>2. ASSUME NEW id \in ReleaseIds, CommitRelease(id)
        PROVE  Final
    <3>1. \A r \in Runtimes, a \in ReleaseIds :
            commands[r][a].state # "NONE" => commands'[r][a] = commands[r][a]
      BY <2>0, <2>2, CommitRows
    <3> QED
      BY <3>1
  <2>3. ASSUME NEW r \in Runtimes, PollDeliver(r)
        PROVE  Final
    <3>1. polled[r].id \in ReleaseIds
      BY <2>0, <2>3 DEF PollDeliver, ControlTypeOK, AnyRef, Refs
    <3>2. commands[r][polled[r].id] \in CommandRows
      BY <1>1, <2>0, <2>3, <3>1, CommandRow DEF PollDeliver, ControlInv, PolledIsCommand
    <3> QED
      BY <2>0, <2>3, <3>1, <3>2 DEF PollDeliver, ControlTypeOK, CommandRows
  <2>4. ASSUME NEW r \in Runtimes, NEW rep \in Reports, RecordAccepted(r, rep)
        PROVE  Final
    <3>1. rep.command \in ReleaseIds
      BY DEF Reports
    <3>2. commands[r][rep.command] \in CommandRows
      BY <2>0, <2>4, <3>1, CommandRow DEF RecordAccepted, ApplyReport, Recordable
    <3> QED
      BY <2>0, <2>4, <3>1, <3>2 DEF RecordAccepted, ApplyReport, ControlTypeOK, CommandRows, Settled
  <2> QED
    BY <1>1, <2>1, <2>2, <2>3, <2>4 DEF ControlNext, controlVars, RegisterRuntime, RetireRuntime,
       SaveCapabilities, PollList, PollConflict, RecordStale
<1> QED
  BY <1>1, ControlInvariance, PTL DEF ControlSpec, CommandsAreFinal

-----------------------------------------------------------------------------
(* Rollback                                                                *)

\* A release that was reported READY has its command row, of the revision that
\* was reported: nothing deletes a command.
ReadyIsCommand ==
    \A r \in Runtimes : \A h \in history[r] :
        h.body.state = "READY" =>
            /\ h.body.applied \in Refs
            /\ commands[r][h.body.applied.id].state # "NONE"
            /\ commands[r][h.body.applied.id].rev = h.body.applied.rev

RollbackInv == ControlInv /\ RollbackTypeOK /\ ReadyIsCommand /\ RollbackTargetProven

\* Command rows stay, with their revision, and the history only grows.
LEMMA StoreKeeps ==
    ASSUME ControlInv, [ControlNext]_controlVars, NEW r \in Runtimes
    PROVE  /\ history[r] \subseteq history'[r]
           /\ \A id \in ReleaseIds : commands[r][id].state # "NONE" =>
                 commands'[r][id].state # "NONE" /\ commands'[r][id].rev = commands[r][id].rev
<1> USE DEF ControlInv, ControlTypeOK
<1>1. ASSUME NEW s \in Runtimes,
             RegisterRuntime(s) \/ RetireRuntime(s) \/ SaveCapabilities(s) \/ PollList(s) \/ PollConflict(s)
      PROVE  UNCHANGED <<commands, history>>
  BY <1>1 DEF RegisterRuntime, RetireRuntime, SaveCapabilities, PollList, PollConflict
<1>2. ASSUME NEW s \in Runtimes, PollDeliver(s)
      PROVE  /\ UNCHANGED history
             /\ \A id \in ReleaseIds : commands'[r][id].state = commands[r][id].state
                                       /\ commands'[r][id].rev = commands[r][id].rev
  <2>1. polled[s].id \in ReleaseIds
    BY <1>2 DEF PollDeliver, AnyRef, Refs
  <2>2. commands[s][polled[s].id] \in CommandRows
    BY <1>2, <2>1, CommandRow DEF PollDeliver, PolledIsCommand
  <2> QED
    BY <1>2, <2>1, <2>2 DEF PollDeliver, CommandRows
<1>3. ASSUME NEW id \in ReleaseIds, CommitRelease(id)
      PROVE  /\ UNCHANGED history
             /\ \A i \in ReleaseIds : commands[r][i].state # "NONE" => commands'[r][i] = commands[r][i]
  <2>1. NextHead(id).id = id
    BY <1>3, NextHeadType DEF CommitRelease
  <2> QED
    BY <1>3, <2>1 DEF CommitRelease, Enqueued
<1>4. ASSUME NEW s \in Runtimes, NEW rep \in Reports, RecordStale(s, rep)
      PROVE  UNCHANGED commands /\ history[r] \subseteq history'[r]
  BY <1>4 DEF RecordStale
<1>5. ASSUME NEW s \in Runtimes, NEW rep \in Reports, RecordAccepted(s, rep)
      PROVE  /\ history[r] \subseteq history'[r]
             /\ \A id \in ReleaseIds : commands[r][id].state # "NONE" =>
                  commands'[r][id].state # "NONE" /\ commands'[r][id].rev = commands[r][id].rev
  <2>1. rep.command \in ReleaseIds /\ commands[s][rep.command] \in CommandRows
    BY <1>5, CommandRow DEF RecordAccepted, Recordable, Reports
  <2>2. commands' = [commands EXCEPT ![s] = [commands[s] EXCEPT ![rep.command] =
                       [commands[s][rep.command] EXCEPT !.state = Settled(commands[s][rep.command].state, rep.state)]]]
    BY <1>5, <2>1 DEF RecordAccepted, ApplyReport
  <2> QED
    BY <1>5, <2>1, <2>2 DEF RecordAccepted, CommandRows, Settled
<1>6. CASE UNCHANGED controlVars
  BY <1>6 DEF controlVars
<1> QED
  BY <1>1, <1>2, <1>3, <1>4, <1>5, <1>6 DEF ControlNext

\* A report that is added to the history has its command row.
LEMMA ReadyKept ==
    ASSUME ControlInv, ReadyIsCommand, [ControlNext]_controlVars
    PROVE  ReadyIsCommand'
<1> SUFFICES ASSUME NEW r \in Runtimes, NEW h \in history'[r], h.body.state = "READY"
             PROVE  /\ h.body.applied \in Refs
                    /\ commands'[r][h.body.applied.id].state # "NONE"
                    /\ commands'[r][h.body.applied.id].rev = h.body.applied.rev
  BY DEF ReadyIsCommand
<1>1. CASE h \in history[r]
  <2>1. h.body.applied \in Refs /\ h.body.applied.id \in ReleaseIds
    BY <1>1 DEF ReadyIsCommand, Refs
  <2> QED
    BY <1>1, <2>1, StoreKeeps DEF ReadyIsCommand
<1>2. CASE h \notin history[r]
  <2>1. PICK rep \in Reports : Recordable(r, rep) /\ h.body = rep
    <3>1. PICK s \in Runtimes, rep \in Reports : RecordStale(s, rep) \/ RecordAccepted(s, rep)
      BY <1>2, Zenon DEF ControlNext, controlVars, RegisterRuntime, RetireRuntime, SaveCapabilities,
           PollList, PollDeliver, PollConflict, CommitRelease
    <3>2. s = r /\ h.body = rep
      BY <1>2, <3>1 DEF RecordStale, RecordAccepted, ControlInv, ControlTypeOK
    <3> QED
      BY <3>1, <3>2 DEF RecordStale, RecordAccepted
  <2>2. rep.command \in ReleaseIds /\ commands[r][rep.command] \in CommandRows
    BY <2>1, CommandRow DEF Recordable, Reports, ControlInv
  <2>3. rep.applied = [id |-> rep.command, rev |-> commands[r][rep.command].rev]
    BY <2>1 DEF Recordable, Verified, Desired
  <2>4. /\ commands'[r][rep.command].state # "NONE"
        /\ commands'[r][rep.command].rev = commands[r][rep.command].rev
    BY <2>1, <2>2, StoreKeeps DEF Recordable
  <2> QED
    BY <2>1, <2>2, <2>3, <2>4 DEF Refs, CommandRows
<1> QED
  BY <1>1, <1>2

\* Every step of the store or of a rollback keeps the invariant.  A rollback
\* finds the command of the release it asks for, so it changes no command.
LEMMA RollbackStep ==
    RollbackInv /\ [RollbackNext]_<<controlVars, rollbackVars>> => RollbackInv'
<1> SUFFICES ASSUME RollbackInv, [RollbackNext]_<<controlVars, rollbackVars>>
             PROVE  RollbackInv'
  OBVIOUS
<1> USE DEF RollbackInv
<1>1. CASE [ControlNext]_controlVars /\ UNCHANGED rollbackVars
  <2>1. ControlInv'
    BY <1>1, InvStep
  <2>2. ReadyIsCommand'
    BY <1>1, ReadyKept
  <2>3. RollbackTargetProven'
    BY <1>1, StoreKeeps DEF RollbackTargetProven, rollbackVars
  <2>4. RollbackTypeOK'
    BY <1>1, <2>1 DEF RollbackTypeOK, rollbackVars, ControlInv
  <2> QED
    BY <2>1, <2>2, <2>3, <2>4
<1>2. ASSUME UNCHANGED controlVars
      PROVE  ControlInv' /\ ReadyIsCommand' /\ ControlTypeOK'
  BY <1>2, InvStep, ReadyKept DEF ControlInv
<1>3. ASSUME NEW r \in Runtimes, NEW revision \in 1..MaxRevision, RollbackRead(r, revision)
      PROVE  RollbackInv'
  <2>1. \E h \in history[r] : h.outcome = "ACCEPTED" /\ h.body.state = "READY" /\ h.body.applied = target'[r]
    BY <1>3 DEF RollbackRead, RollbackTypeOK, ControlInv, AppliedWasProven
  <2>2. RollbackTargetProven'
    BY <1>3, <2>1 DEF RollbackRead, RollbackTypeOK, RollbackTargetProven, controlVars
  <2>3. RollbackTypeOK'
    BY <1>2, <1>3 DEF RollbackRead, RollbackTypeOK, ControlTypeOK, Observations
  <2> QED
    BY <1>2, <1>3, <2>2, <2>3 DEF RollbackRead
<1>4. ASSUME NEW r \in Runtimes, RollbackEnqueue(r)
      PROVE  RollbackInv'
  <2>1. /\ target[r] \in Refs
        /\ commands[r][target[r].id].state # "NONE"
    <3>1. PICK h \in history[r] : h.body.state = "READY" /\ h.body.applied = target[r]
      BY <1>4 DEF RollbackEnqueue, RollbackTargetProven
    <3> QED
      BY <3>1 DEF ReadyIsCommand
  <2>2. commands' = commands
    <3>1. commands' = [commands EXCEPT ![r][target[r].id] = commands[r][target[r].id]]
      BY <1>4, <2>1 DEF RollbackEnqueue, Enqueued
    <3> QED
      BY <2>1, <3>1 DEF RollbackTypeOK, ControlTypeOK, Refs
  <2>3. UNCHANGED controlVars
    BY <1>4, <2>2 DEF RollbackEnqueue, controlVars
  <2>4. RollbackTargetProven'
    BY <1>4, <2>3 DEF RollbackEnqueue, RollbackTypeOK, RollbackTargetProven, controlVars
  <2>5. RollbackTypeOK'
    BY <1>2, <1>4, <2>1, <2>3 DEF RollbackEnqueue, RollbackTypeOK, AnyRef
  <2> QED
    BY <1>2, <2>3, <2>4, <2>5
<1>5. ASSUME NEW r \in Runtimes, RollbackRefused(r)
      PROVE  RollbackInv'
  <2>1. RollbackTargetProven'
    BY <1>5 DEF RollbackRefused, RollbackTypeOK, RollbackTargetProven, controlVars
  <2>2. RollbackTypeOK'
    BY <1>2, <1>5 DEF RollbackRefused, RollbackTypeOK, AnyRef
  <2> QED
    BY <1>2, <1>5, <2>1, <2>2 DEF RollbackRefused
<1> QED
  BY <1>1, <1>3, <1>4, <1>5 DEF RollbackNext, controlVars, rollbackVars

\* However many reports, commits and retirements come between the two
\* transactions of a rollback, it answers only with a release that the runtime
\* itself reported READY.
THEOREM RollbackIsSafe == RollbackSpec => []RollbackSafe
<1>1. RollbackInit => RollbackInv
  <2> SUFFICES ASSUME RollbackInit PROVE RollbackInv
    OBVIOUS
  <2>1. ControlInv
    BY InvInit DEF RollbackInit
  <2>2. RollbackTypeOK
    BY <2>1 DEF RollbackInit, RollbackTypeOK, ControlInv, AnyRef
  <2>3. ReadyIsCommand /\ RollbackTargetProven
    BY DEF RollbackInit, ControlInit, ReadyIsCommand, RollbackTargetProven
  <2> QED
    BY <2>1, <2>2, <2>3 DEF RollbackInv
<1>2. RollbackInv => RollbackSafe
  BY DEF RollbackInv, RollbackSafe
<1> QED
  BY <1>1, <1>2, RollbackStep, PTL DEF RollbackSpec

-----------------------------------------------------------------------------
(* The controller *)

\* The reference for no release is none of the references, and its revision is
\* below every other.
LEMMA RefTypes ==
    /\ NoRef \notin Refs
    /\ NoRef.rev = 0 /\ NoRef.id = None
    /\ \A ref \in Refs : ref.id \in ReleaseIds /\ ref.rev \in Nat /\ ref.rev >= 1
                         /\ ref.rev \in 0..MaxRevision
    /\ \A ref \in AnyRef : ref.rev \in 0..MaxRevision /\ ref.rev \in Nat
                           /\ ref.id \in ReleaseIds \cup {None}
  BY ReleaseAssumption DEF Refs, NoRef, AnyRef

\* No report is a well-formed observation that is not READY.
LEMMA NoObservationType ==
    /\ NoObservation \in Observations
    /\ NoObservation.state = "NONE"
  BY ReleaseAssumption DEF NoObservation, Observations, AnyRef

\* The observations the controller reports are well formed.
LEMMA ReportTypes ==
    ASSUME task \in AnyRef, cur \in AnyRef
    PROVE  /\ Ready \in Observations /\ Ready.state = "READY" /\ Ready.applied = task
           /\ Degraded \in Observations /\ Degraded.state = "DEGRADED"
  BY RefTypes DEF Ready, Degraded, Observations, ReportStates

-----------------------------------------------------------------------------
(* The invariant *)

\* The controller before its first start satisfies the invariant.
LEMMA RuntimeInvInit == RuntimeInit => RuntimeInv
<1> SUFFICES ASSUME RuntimeInit PROVE RuntimeInv
  OBVIOUS
<1>1. restoring \in BOOLEAN /\ ~ restoring
  BY Zenon DEF RuntimeInit
<1>2. RuntimeTypeOK
  BY <1>1, ReleaseAssumption, RuntimeAssumption, NoObservationType
  DEF RuntimeInit, RuntimeTypeOK, AnyRef, Steps
<1>3. TaskProgress /\ MemoryIsSaved
  BY <1>1 DEF RuntimeInit, TaskProgress, MemoryIsSaved
<1>4. PromotionOrder /\ ReadyIsDurable /\ RevocationsCovered
  BY RefTypes, NoObservationType
  DEF RuntimeInit, PromotionOrder, ReadyIsDurable, RevocationsCovered
<1> QED
  BY <1>2, <1>3, <1>4 DEF RuntimeInv

\* Every step of the controller, its faults included, keeps the invariant.
LEMMA RuntimeInvStep == RuntimeInv /\ [RuntimeNext]_runtimeVars => RuntimeInv'
<1> SUFFICES ASSUME RuntimeInv, [RuntimeNext]_runtimeVars
             PROVE  RuntimeInv'
  OBVIOUS
<1> USE ReleaseAssumption, RuntimeAssumption, RefTypes, NoObservationType, ReportTypes
    DEF RuntimeInv, RuntimeTypeOK, TaskProgress, MemoryIsSaved, PromotionOrder, ReadyIsDurable,
        RevocationsCovered, AnyRef, Steps, Sidecars, durableVars
<1>1. CASE RestoreNothing
  BY <1>1 DEF RestoreNothing
<1>2. CASE RestoreBegin
  BY <1>2 DEF RestoreBegin, AdvanceFloor, FloorAllows
<1>3. CASE RestoreRejected
  BY <1>3 DEF RestoreRejected
<1>4. CASE RefuseCommand
  BY <1>4 DEF RefuseCommand, EndDegraded
<1>5. CASE AlreadyApplied
  BY <1>5 DEF AlreadyApplied
<1>6. CASE FetchFails
  BY <1>6 DEF FetchFails, EndDegraded, Fault
<1>7. CASE BeginApply
  BY <1>7 DEF BeginApply, AdvanceFloor, FloorAllows
<1>8. CASE AdvancePointer
  BY <1>8 DEF AdvancePointer
<1>9. ASSUME NEW s \in Sidecars, SidecarReady(s) PROVE RuntimeInv'
  BY <1>9 DEF SidecarReady
<1>10. CASE ApplyRoutes
  BY <1>10 DEF ApplyRoutes
<1>11. CASE PromoteLkg
  BY <1>11 DEF PromoteLkg
<1>12. CASE RestoreDone
  BY <1>12 DEF RestoreDone
<1>13. CASE SaveState
  BY <1>13 DEF SaveState
<1>14. CASE ApplyFails
  BY <1>14 DEF ApplyFails, EndDegraded, Fault
<1>15. CASE RestoreFails
  <2>1. restoring' \in BOOLEAN /\ ~ restoring'
    BY <1>15, Zenon DEF RestoreFails
  <2>2. faults' \in 0..MaxFaults
    BY <1>15 DEF RestoreFails, Fault
  <2>3. RuntimeTypeOK'
    BY <1>15, <2>1, <2>2 DEF RestoreFails
  <2> QED
    BY <1>15, <2>1, <2>3 DEF RestoreFails
<1>16. CASE Crash
  <2>1. restoring' \in BOOLEAN /\ ~ restoring'
    BY <1>16, Zenon DEF Crash
  <2>2. faults' \in 0..MaxFaults
    BY <1>16 DEF Crash, Fault
  <2>3. RuntimeTypeOK'
    BY <1>16, <2>1, <2>2 DEF Crash
  <2> QED
    BY <1>16, <2>1, <2>3 DEF Crash
<1>17. CASE BeginPoll
  BY <1>17 DEF BeginPoll
<1>18. ASSUME NEW ref \in Refs, Receive(ref) PROVE RuntimeInv'
  BY <1>18 DEF Receive
<1>19. CASE PollFails
  BY <1>19 DEF PollFails, Fault
<1>20. CASE ReportCurrent
  <2>1. out' \in Observations /\ out'.applied = cur
    BY <1>20 DEF ReportCurrent, Observations, ReportStates
  <2> QED
    BY <1>20, <2>1 DEF ReportCurrent
<1>21. CASE NothingToDo
  BY <1>21 DEF NothingToDo
<1>22. CASE PostReport
  BY <1>22 DEF PostReport
<1>23. CASE ReportAnswered
  BY <1>23 DEF ReportAnswered
<1>24. CASE ReportFails
  BY <1>24 DEF ReportFails, Fault
<1>25. CASE UNCHANGED runtimeVars
  BY <1>25 DEF runtimeVars, processVars
<1> QED
  BY <1>1, <1>2, <1>3, <1>4, <1>5, <1>6, <1>7, <1>8, <1>9, <1>10, <1>11, <1>12, <1>13,
     <1>14, <1>15, <1>16, <1>17, <1>18, <1>19, <1>20, <1>21, <1>22, <1>23, <1>24, <1>25
  DEF RuntimeNext, Apply

\* The invariant holds in every reachable state of a controller.
THEOREM RuntimeInvariance == RuntimeSpec => []RuntimeInv
<1>1. RuntimeInit => RuntimeInv
  BY RuntimeInvInit
<1>2. RuntimeInv /\ [RuntimeNext]_runtimeVars => RuntimeInv'
  BY RuntimeInvStep
<1> QED
  BY <1>1, <1>2, PTL DEF RuntimeSpec

\* The marks of a release are in order wherever an apply fails or the process
\* dies: state file, LKG, routes, policy pointer, authority floor.
THEOREM MarksInOrder == RuntimeSpec => []PromotionOrder
<1>1. RuntimeInv => PromotionOrder
  BY DEF RuntimeInv
<1> QED
  BY <1>1, RuntimeInvariance, PTL

\* A READY report always stands for the release in the state file.
THEOREM ReadyReportsDurable == RuntimeSpec => []ReadyIsDurable
<1>1. RuntimeInv => ReadyIsDurable
  BY DEF RuntimeInv
<1> QED
  BY <1>1, RuntimeInvariance, PTL

\* Every entitlement revoked by a release that may still be loaded or
\* re-applied is in the authority floor.
THEOREM RevocationsInFloor == RuntimeSpec => []RevocationsCovered
<1>1. RuntimeInv => RevocationsCovered
  BY DEF RuntimeInv
<1> QED
  BY <1>1, RuntimeInvariance, PTL

\* What a controller keeps through failed applies, retries and restarts, in one.
THEOREM RuntimeIsSafe == RuntimeSpec => []RuntimeSafe
<1>1. RuntimeInv => RuntimeSafe
  BY DEF RuntimeInv, RuntimeSafe
<1> QED
  BY <1>1, RuntimeInvariance, PTL

\* One step of a controller in a state of the invariant moves no mark back.
LEMMA MarksStep ==
    ASSUME RuntimeInv, [RuntimeNext]_runtimeVars
    PROVE  /\ floor' >= floor
           /\ revoked \subseteq revoked'
           /\ pointer'.rev >= pointer.rev
           /\ routes'.rev >= routes.rev
           /\ lkg'.rev >= lkg.rev
           /\ saved'.rev >= saved.rev
<1>1. /\ floor \in Nat
      /\ pointer.rev \in Nat /\ routes.rev \in Nat /\ lkg.rev \in Nat /\ saved.rev \in Nat
  BY RefTypes, ReleaseAssumption DEF RuntimeInv, RuntimeTypeOK
<1>2. PromotionOrder /\ TaskProgress
  BY DEF RuntimeInv
<1>3. CASE UNCHANGED durableVars
  BY <1>1, <1>3 DEF durableVars
<1>4. CASE RestoreBegin
  <2>1. saved.rev >= floor
    BY <1>4 DEF RestoreBegin, AdvanceFloor, FloorAllows
  <2> QED
    BY <1>1, <1>4, <2>1 DEF RestoreBegin, AdvanceFloor
<1>5. CASE BeginApply
  BY <1>1, <1>5 DEF BeginApply, AdvanceFloor, FloorAllows
<1>6. CASE AdvancePointer
  BY <1>1, <1>2, <1>6 DEF AdvancePointer, PromotionOrder, TaskProgress
<1>7. CASE ApplyRoutes
  BY <1>1, <1>2, <1>7 DEF ApplyRoutes, PromotionOrder, TaskProgress
<1>8. CASE PromoteLkg
  BY <1>1, <1>2, <1>8 DEF PromoteLkg, PromotionOrder, TaskProgress
<1>9. CASE SaveState
  BY <1>1, <1>2, <1>9 DEF SaveState, PromotionOrder, TaskProgress
<1>10. \/ UNCHANGED durableVars
       \/ RestoreBegin \/ BeginApply \/ AdvancePointer \/ ApplyRoutes \/ PromoteLkg \/ SaveState
  BY DEF RuntimeNext, Apply, runtimeVars, Crash, RestoreNothing, RestoreRejected, RefuseCommand,
     EndDegraded, AlreadyApplied, FetchFails, SidecarReady, RestoreDone, ApplyFails, RestoreFails,
     BeginPoll, Receive, PollFails, ReportCurrent, NothingToDo, PostReport, ReportAnswered,
     ReportFails
<1> QED
  BY <1>3, <1>4, <1>5, <1>6, <1>7, <1>8, <1>9, <1>10

\* No step, restarts and retries included, moves a mark to an older release or
\* drops a revocation.
THEOREM MarksMonotone == RuntimeSpec => MarksNeverRegress
<1>1. RuntimeInv /\ [RuntimeNext]_runtimeVars
        => [/\ floor' >= floor
            /\ revoked \subseteq revoked'
            /\ pointer'.rev >= pointer.rev
            /\ routes'.rev >= routes.rev
            /\ lkg'.rev >= lkg.rev
            /\ saved'.rev >= saved.rev]_runtimeVars
  BY MarksStep
<1> QED
  BY <1>1, RuntimeInvariance, PTL DEF RuntimeSpec, MarksNeverRegress

-----------------------------------------------------------------------------
(* The sidecars *)

\* The controller of this module takes only steps of GatewayRuntime, and the
\* sidecars, the clock and the writing of a directory take none of them.
LEMMA ControllerSteps == SidecarsNext => RuntimeNext \/ UNCHANGED runtimeVars
  BY DEF SidecarsNext, ControllerStep, BeginWrite, EndWrite, Expire, Arrive, ReadPointer,
     ReadPointerFails, LoadRelease, LoadReleaseFails, PointerChanged, LoadFails, BundleLoaded,
     Authorize, Deny, Process

\* The release a pointer names is a reference, and no older than LKG.
LEMMA PointedType ==
    ASSUME RuntimeInv
    PROVE  Pointed \in AnyRef /\ Pointed.rev >= lkg.rev
<1>1. pointer \in AnyRef /\ lkg \in AnyRef /\ routes \in AnyRef
  BY DEF RuntimeInv, RuntimeTypeOK
<1>2. pointer.rev \in Nat /\ lkg.rev \in Nat /\ routes.rev \in Nat
  BY <1>1, RefTypes
<1>3. pointer.rev >= lkg.rev
  BY <1>2 DEF RuntimeInv, PromotionOrder
<1> QED
  BY <1>1, <1>2, <1>3 DEF Pointed

\* Before the first request the invariant holds.
LEMMA SidecarsInvInit == SidecarsInit => SidecarsInv
<1> SUFFICES ASSUME SidecarsInit PROVE SidecarsInv
  OBVIOUS
<1>1. RuntimeInv
  BY RuntimeInvInit DEF SidecarsInit
<1>2. written \in BOOLEAN
  BY Zenon DEF SidecarsInit
<1>3. SidecarsTypeOK
  BY <1>2, ReleaseAssumption DEF SidecarsInit, SidecarsTypeOK, Stages, Sidecars, AnyRef
<1>4. RequestInv
  BY <1>1, RefTypes DEF SidecarsInit, RuntimeInit, RequestInv
<1> QED
  BY <1>1, <1>3, <1>4 DEF SidecarsInv

\* A step of the controller leaves the request alone: LKG and the floor only
\* grow, so what was known of the request stays known.
LEMMA ControllerKeepsRequest ==
    ASSUME SidecarsInv, [RuntimeNext]_runtimeVars, RuntimeInv', UNCHANGED requestVars
    PROVE  RequestInv'
<1>1. lkg'.rev >= lkg.rev /\ revoked \subseteq revoked'
  BY MarksStep DEF SidecarsInv
<1>2. lkg.rev \in Nat /\ lkg'.rev \in Nat /\ base \in Nat
  BY RefTypes, ReleaseAssumption DEF SidecarsInv, RuntimeInv, RuntimeTypeOK, SidecarsTypeOK
<1> QED
  BY <1>1, <1>2 DEF SidecarsInv, RequestInv, requestVars

\* A failed load goes on with the other pointer or ends the request.
LEMMA LoadFailsKeepsInv ==
    ASSUME SidecarsInv, LoadFails, RuntimeInv',
           stage \in {"pointer", "release", "recheck"}
    PROVE  SidecarsInv'
<1>1. SidecarsTypeOK'
  BY DEF SidecarsInv, SidecarsTypeOK, LoadFails, filesVars, Stages, AnyRef
<1>2. RequestInv'
  BY DEF SidecarsInv, RequestInv, LoadFails, runtimeVars, durableVars
<1> QED
  BY <1>1, <1>2 DEF SidecarsInv

\* Every step of the controller and of the request keeps the invariant.
LEMMA SidecarsInvStep == SidecarsInv /\ [SidecarsNext]_sidecarsVars => SidecarsInv'
<1> SUFFICES ASSUME SidecarsInv, [SidecarsNext]_sidecarsVars
             PROVE  SidecarsInv'
  OBVIOUS
<1>1. [RuntimeNext]_runtimeVars
  BY ControllerSteps DEF sidecarsVars
<1>2. RuntimeInv'
  BY <1>1, RuntimeInvStep DEF SidecarsInv
<1>3. RuntimeInv /\ SidecarsTypeOK /\ RequestInv
  BY DEF SidecarsInv
<1>4. CASE UNCHANGED requestVars
  <2>1. RequestInv'
    BY <1>1, <1>2, <1>4, ControllerKeepsRequest
  <2>2. dir' \in [ReleaseIds -> {"absent", "writing", "whole"}]
    BY <1>3, <1>4 DEF SidecarsNext, SidecarsTypeOK, ControllerStep, BeginWrite, EndWrite, Expire,
       Arrive, ReadPointer, ReadPointerFails, LoadRelease, LoadReleaseFails, PointerChanged,
       LoadFails, BundleLoaded, Authorize, Deny, Process, filesVars, sidecarsVars
  <2>3. expired' \subseteq ReleaseIds
    BY <1>3, <1>4 DEF SidecarsNext, SidecarsTypeOK, ControllerStep, BeginWrite, EndWrite, Expire,
       Arrive, ReadPointer, ReadPointerFails, LoadRelease, LoadReleaseFails, PointerChanged,
       LoadFails, BundleLoaded, Authorize, Deny, Process, filesVars, sidecarsVars
  <2>4. written' \in BOOLEAN
    BY <1>3, <1>4, Zenon DEF SidecarsNext, SidecarsTypeOK, ControllerStep, BeginWrite, EndWrite, Expire,
       Arrive, ReadPointer, ReadPointerFails, LoadRelease, LoadReleaseFails, PointerChanged,
       LoadFails, BundleLoaded, Authorize, Deny, Process, filesVars, sidecarsVars
  <2>5. SidecarsTypeOK'
    BY <1>3, <1>4, <2>2, <2>3, <2>4 DEF SidecarsTypeOK, requestVars
  <2> QED
    BY <1>2, <2>1, <2>5 DEF SidecarsInv
<1>5. CASE Arrive
  <2>1. lkg.rev \in 0..MaxRevision /\ lkg' = lkg /\ revoked' = revoked
    BY <1>3, <1>5, RefTypes DEF RuntimeInv, RuntimeTypeOK, Arrive, runtimeVars, durableVars
  <2>2. SidecarsTypeOK'
    BY <1>3, <1>5, <2>1 DEF SidecarsTypeOK, Arrive, filesVars, Stages, Sidecars, AnyRef
  <2>3. RequestInv'
    BY <1>3, <1>5, <2>1, ReleaseAssumption DEF RequestInv, Arrive
  <2> QED
    BY <1>2, <2>2, <2>3 DEF SidecarsInv
<1>6. CASE ReadPointer
  <2>1. Pointed \in Refs /\ Pointed.rev >= lkg.rev
    BY <1>3, <1>6, PointedType DEF ReadPointer, AnyRef
  <2>2. Pointed.rev \in Nat /\ lkg.rev \in Nat /\ base \in Nat
    BY <1>3, <2>1, RefTypes, ReleaseAssumption
    DEF RuntimeInv, RuntimeTypeOK, SidecarsTypeOK
  <2>3. SidecarsTypeOK'
    BY <1>3, <1>6, <2>1 DEF SidecarsTypeOK, ReadPointer, filesVars, Stages, AnyRef
  <2>4. RequestInv'
    BY <1>3, <1>6, <2>1, <2>2 DEF RequestInv, ReadPointer, runtimeVars, durableVars
  <2> QED
    BY <1>2, <2>3, <2>4 DEF SidecarsInv
<1>7. CASE ReadPointerFails \/ LoadReleaseFails \/ PointerChanged
  BY <1>2, <1>7, LoadFailsKeepsInv DEF ReadPointerFails, LoadReleaseFails, PointerChanged
<1>8. CASE LoadRelease
  <2>1. SidecarsTypeOK'
    BY <1>3, <1>8 DEF SidecarsTypeOK, LoadRelease, filesVars, Stages
  <2>2. RequestInv'
    BY <1>3, <1>8 DEF RequestInv, LoadRelease, runtimeVars, durableVars
  <2> QED
    BY <1>2, <2>1, <2>2 DEF SidecarsInv
<1>9. CASE BundleLoaded
  <2>1. SidecarsTypeOK'
    BY <1>3, <1>9 DEF RuntimeInv, RuntimeTypeOK, SidecarsTypeOK, BundleLoaded, filesVars, Stages
  <2>2. RequestInv'
    BY <1>3, <1>9 DEF RequestInv, BundleLoaded, runtimeVars, durableVars
  <2> QED
    BY <1>2, <2>1, <2>2 DEF SidecarsInv
<1>10. CASE Authorize
  <2>1. loading \in Refs /\ loading.rev >= base /\ seen \subseteq revoked
    BY <1>3, <1>10 DEF RequestInv, Authorize
  <2>2. ApplyFloor \subseteq Grants[loading.id] /\ ApplyFloor \cap seen = {}
    BY <2>1 DEF ApplyFloor
  <2>3. ApplyFloor \subseteq Entitlements
    BY <2>1, <2>2, RefTypes, GrantsAssumption
  <2>4. SidecarsTypeOK'
    BY <1>3, <1>10, <2>1, <2>3
    DEF SidecarsTypeOK, Authorize, filesVars, Stages, Sidecars, AnyRef
  <2>5. RequestInv'
    BY <1>3, <1>10, <2>1, <2>2 DEF RequestInv, Authorize, runtimeVars, durableVars
  <2> QED
    BY <1>2, <2>4, <2>5 DEF SidecarsInv
<1>11. CASE Deny
  <2>1. SidecarsTypeOK'
    BY <1>3, <1>11 DEF SidecarsTypeOK, Deny, filesVars, Stages
  <2>2. RequestInv'
    BY <1>3, <1>11 DEF RequestInv, Deny, runtimeVars, durableVars
  <2> QED
    BY <1>2, <2>1, <2>2 DEF SidecarsInv
<1>12. CASE Process
  <2>1. SidecarsTypeOK'
    BY <1>3, <1>12 DEF SidecarsTypeOK, Process, filesVars, Stages
  <2>2. RequestInv'
    BY <1>3, <1>12 DEF RequestInv, Process, runtimeVars, durableVars
  <2> QED
    BY <1>2, <2>1, <2>2 DEF SidecarsInv
<1> QED
  BY <1>4, <1>5, <1>6, <1>7, <1>8, <1>9, <1>10, <1>11, <1>12
  DEF SidecarsNext, ControllerStep, BeginWrite, EndWrite, Expire, sidecarsVars

-----------------------------------------------------------------------------

\* The invariant holds in every reachable state.
THEOREM SidecarsInvariance == SidecarsSpec => []SidecarsInv
<1>1. SidecarsInit => SidecarsInv
  BY SidecarsInvInit
<1>2. SidecarsInv /\ [SidecarsNext]_sidecarsVars => SidecarsInv'
  BY SidecarsInvStep
<1> QED
  BY <1>1, <1>2, PTL DEF SidecarsSpec

\* An entitlement revoked before a request's policy was loaded is not granted
\* to it, by whichever pointer the policy was found.
THEOREM RevocationsEnforced == SidecarsSpec => []RevokedStaysDenied
<1>1. SidecarsInv => RevokedStaysDenied
  BY DEF SidecarsInv, RequestInv, RevokedStaysDenied
<1> QED
  BY <1>1, SidecarsInvariance, PTL

\* No request is authorized by a release older than the one that was last
\* known good when it arrived.
THEOREM PolicyIsRecent == SidecarsSpec => []NotOlderThanLkg
<1>1. SidecarsInv => NotOlderThanLkg
  BY DEF SidecarsInv, RequestInv, NotOlderThanLkg
<1> QED
  BY <1>1, SidecarsInvariance, PTL

\* A request is authorized and processed under one release.
THEOREM ReleasesAgree == SidecarsSpec => []OneReleasePerRequest
<1>1. SidecarsInv => OneReleasePerRequest
  BY DEF SidecarsInv, RequestInv, OneReleasePerRequest
<1> QED
  BY <1>1, SidecarsInvariance, PTL

\* What a request may rely on while the controller writes, in one.
THEOREM SidecarsAreSafe == SidecarsSpec => []SidecarsSafe
<1>1. SidecarsInv => SidecarsTypeOK
  BY DEF SidecarsInv
<1> QED
  BY <1>1, SidecarsInvariance, RevocationsEnforced, PolicyIsRecent, ReleasesAgree, PTL
  DEF SidecarsSafe

\* The controller of this composition is the one of GatewayRuntime: its
\* theorems hold here too.
THEOREM SidecarsRefineRuntime == SidecarsSpec => RuntimeSpec
<1>1. SidecarsInit => RuntimeInit
  BY DEF SidecarsInit
<1>2. [SidecarsNext]_sidecarsVars => [RuntimeNext]_runtimeVars
  BY ControllerSteps DEF sidecarsVars
<1> QED
  BY <1>1, <1>2, PTL DEF SidecarsSpec, RuntimeSpec

-----------------------------------------------------------------------------
(* The local applier *)

Spawned == {"health", "ready", "promote", "activate"}
Applying == {"prepare", "authorizer", "processor", "await-authorizer", "await-processor",
             "register", "point", "spawn", "save", "failing"} \cup Spawned

\* The types the proof needs, by the part of the state they are about.
TreeShape ==
    tree \in [Runs -> [release : 0 .. MaxRelease, life : 0 .. MaxLives,
                       parent : {"none", "up", "exited", "killed"},
                       workers : {"none", "starting", "ready", "down"}, served : BOOLEAN]]
SidecarShape ==
    aigwSidecar \in [AigwSidecars -> [own : {"none", "up", "exited", "killed"}, orphan : BOOLEAN]]
ReportShape == report \in [state : {"NONE", "READY", "DEGRADED"}, release : 0 .. MaxRelease]
ControlShape ==
    /\ runs \in 0 .. MaxRuns /\ life \in 1 .. MaxLives /\ exits \in 0 .. MaxExits
    /\ phase \in Phases /\ job \in 0 .. MaxRelease
    /\ child \in 0 .. runs /\ active \in 0 .. runs /\ cleanup \in 0 .. runs
    /\ aigwSeen \subseteq AigwSidecars /\ lost \subseteq Runs /\ obs \in 0 .. MaxRelease
DiskShape ==
    /\ aigwSource \in [Releases -> {"none", "OPEN", "SEALED"}] /\ backed \subseteq AigwSidecars
    /\ current \in 0 .. MaxRelease /\ aigwLkg \in 0 .. MaxRelease
    /\ aigwFloor \in 0 .. MaxRelease /\ aigwSaved \in 0 .. MaxRelease /\ applied \in 0 .. MaxRelease
AigwShape == TreeShape /\ SidecarShape /\ ReportShape /\ ControlShape /\ DiskShape

\* What lives and is not given up is what the controller will stop.
Owned ==
    phase # "dead" => \A t \in 1 .. runs : Alive(t) /\ t \notin lost =>
                         t \in {active, cleanup} \/ (phase \in Spawned /\ t = child)

\* What each phase knows of the trees: which are active, being stopped, or new.
PhaseTrees ==
    /\ cleanup # 0 => active \in {0, cleanup}
    /\ phase \in {"register", "point", "spawn", "close", "closed"} \cup Spawned => active = 0 /\ cleanup = 0
    /\ phase = "stopping" => /\ active \in {0, child}
                             /\ cleanup = 0 => \A t \in 1 .. runs : Alive(t) => t \in lost
    /\ phase = "save" => active \in {0, child} /\ cleanup \in {0, child}
    /\ phase = "failing" => active = 0 /\ cleanup \in {0, child}

\* The tree an apply has spawned.
NewTree ==
    phase \in Spawned => /\ child \in 1 .. runs
                         /\ tree[child].release = job /\ tree[child].life = life
                         /\ phase \in {"promote", "activate"} => tree[child].served

\* What an apply has written so far.
PhaseFiles ==
    /\ job # 0 => aigwFloor = job
    /\ phase \in Applying => job # 0
    /\ phase \in {"point", "spawn"} \cup Spawned => aigwSource[job] = "OPEN"
    /\ phase \in {"spawn"} \cup Spawned => current = job
    /\ phase = "save" /\ job \notin Empty => current = job

\* Workers that are ready have served.
ServedTrees == \A t \in 1 .. runs : tree[t].workers = "ready" => tree[t].served

\* A closed controller has stopped its sidecars.
SidecarsStopped == phase = "closed" => \A s \in AigwSidecars : aigwSidecar[s].own # "up"

TreesInv == Owned /\ PhaseTrees /\ NewTree /\ OneGateway /\ SealedGone /\ ServedTrees
FilesInv == PhaseFiles /\ LkgServed /\ PointersForward /\ SidecarsStopped

AigwInv == AigwShape /\ TreesInv /\ FilesInv

\* A tree's fields, and the trees started.
LEMMA TreeFields ==
    ASSUME AigwShape
    PROVE  /\ runs \in Nat /\ MaxRuns \in Nat /\ MaxRelease \in Nat /\ 1 .. runs \subseteq Runs
           /\ life \in Nat /\ job \in Nat /\ aigwFloor \in Nat /\ current \in Nat /\ aigwLkg \in Nat
           /\ applied \in Nat /\ aigwSaved \in Nat
           /\ \A t \in Runs : /\ tree[t].release \in 0 .. MaxRelease /\ tree[t].served \in BOOLEAN
                              /\ tree[t].parent \in {"none", "up", "exited", "killed"}
                              /\ tree[t].workers \in {"none", "starting", "ready", "down"}
  BY AigwAssumption DEF AigwShape, TreeShape, ControlShape, DiskShape, Runs

\* Before the first apply.
LEMMA AigwInvInit == AigwInit => AigwInv
<1> SUFFICES ASSUME AigwInit PROVE AigwInv
  OBVIOUS
<1>1. PICK no \in BOOLEAN :
        /\ tree = [t \in Runs |-> [release |-> 0, life |-> 0, parent |-> "none", workers |-> "none", served |-> no]]
        /\ aigwSidecar = [s \in AigwSidecars |-> [own |-> "none", orphan |-> no]]
  BY Zenon DEF AigwInit, NoTree
<1>2. AigwShape
  BY <1>1, AigwAssumption DEF AigwInit, AigwShape, TreeShape, SidecarShape, ReportShape,
     ControlShape, DiskShape, Phases
<1>3. TreesInv
  BY DEF AigwInit, TreesInv, Owned, PhaseTrees, NewTree, OneGateway, SealedGone, ServedTrees,
     Spawned
<1>4. FilesInv
  BY DEF AigwInit, FilesInv, PhaseFiles, LkgServed, PointersForward, SidecarsStopped, Applying,
     Spawned
<1> QED
  BY <1>2, <1>3, <1>4 DEF AigwInv

\* While no tree, source or pointer changes, what is known of them stays.
LEMMA StillTrees ==
    ASSUME AigwInv, UNCHANGED <<tree, runs, lost, aigwSource>>
    PROVE  OneGateway' /\ SealedGone' /\ ServedTrees'
  BY DEF AigwInv, TreesInv, OneGateway, SealedGone, ServedTrees, Alive

\* Nor does what lkg names.
LEMMA StillFiles ==
    ASSUME AigwInv, UNCHANGED <<tree, runs, aigwLkg>>
    PROVE  LkgServed'
  BY DEF AigwInv, FilesInv, LkgServed

\* The steps that only move the controller on.
Quiet ==
    \/ NoRestore \/ AigwReportCurrent \/ Prepare \/ Health \/ EnvoyReady \/ Fail \/ FailChildEnd
    \/ Close \/ AigwCrash \/ \E s \in AigwSidecars : AigwSidecarReady(s)

\* They change neither the processes nor the files.
LEMMA QuietKeeps ==
    ASSUME AigwInv, Quiet
    PROVE  AigwInv'
<1>1. UNCHANGED <<disk, process, active, cleanup, life, applied>>
  BY DEF Quiet, NoRestore, AigwReportCurrent, Prepare, Health, EnvoyReady, Fail, FailChildEnd,
     Close, AigwCrash, AigwSidecarReady, control
<1>2. report' \in [state : {"NONE", "READY", "DEGRADED"}, release : 0 .. MaxRelease]
  BY <1>1 DEF AigwInv, AigwShape, ReportShape, DiskShape, Quiet, NoRestore, AigwReportCurrent,
     Prepare, Health, EnvoyReady, Fail, FailChildEnd, Close, AigwCrash, AigwSidecarReady, Degrade
<1>3. job' \in {0, job} /\ child' \in {0, child} /\ aigwSeen' \subseteq AigwSidecars /\ obs' \in {obs, job}
  BY <1>1 DEF AigwInv, AigwShape, ControlShape, Quiet, NoRestore, AigwReportCurrent, Prepare,
     Health, EnvoyReady, Fail, FailChildEnd, Close, AigwCrash, AigwSidecarReady, control
<1>4. phase' \in Phases
  BY <1>1 DEF AigwInv, Quiet, NoRestore, AigwReportCurrent, Prepare, Health, EnvoyReady, Fail,
     FailChildEnd, Close, AigwCrash, AigwSidecarReady, control, Phases, AfterSidecar, AigwSidecars
<1>5. AigwShape'
  BY <1>1, <1>2, <1>3, <1>4, TreeFields DEF AigwInv, AigwShape, TreeShape, SidecarShape,
     ReportShape, ControlShape, DiskShape, disk, process
<1>6. Owned'
  BY <1>1 DEF AigwInv, TreesInv, Owned, Quiet, NoRestore, AigwReportCurrent, Prepare, Health,
     EnvoyReady, Fail, FailChildEnd, Close, AigwCrash, AigwSidecarReady, process, Alive, Spawned,
     AwaitSidecar, AigwSidecars
<1>7. PhaseTrees'
  BY <1>1 DEF AigwInv, TreesInv, PhaseTrees, Quiet, NoRestore, AigwReportCurrent, Prepare, Health,
     EnvoyReady, Fail, FailChildEnd, Close, AigwCrash, AigwSidecarReady, control, Spawned,
     AfterSidecar, AigwSidecars
<1>8. NewTree'
  BY <1>1 DEF AigwInv, TreesInv, NewTree, Quiet, NoRestore, AigwReportCurrent, Prepare, Health,
     EnvoyReady, Fail, FailChildEnd, Close, AigwCrash, AigwSidecarReady, process, control, Spawned,
     AfterSidecar, AigwSidecars, ServedTrees, EnvoyAnswers
<1>9. PhaseFiles'
  BY <1>1 DEF AigwInv, FilesInv, PhaseFiles, Quiet, NoRestore, AigwReportCurrent, Prepare, Health,
     EnvoyReady, Fail, FailChildEnd, Close, AigwCrash, AigwSidecarReady, disk, control, Spawned,
     Applying, AfterSidecar, AwaitSidecar, AigwSidecars
<1>10. PointersForward'
  BY <1>1 DEF AigwInv, FilesInv, PointersForward, disk
<1>11. SidecarsStopped'
  BY <1>1 DEF AigwInv, SidecarsStopped, Quiet, NoRestore, AigwReportCurrent, Prepare, Health,
     EnvoyReady, Fail, FailChildEnd, Close, AigwCrash, AigwSidecarReady, control, AfterSidecar,
     AigwSidecars
<1> QED
  BY <1>1, <1>5, <1>6, <1>7, <1>8, <1>9, <1>10, <1>11, StillTrees, StillFiles DEF AigwInv, TreesInv,
     FilesInv, disk, process

\* An apply starts, at a boot or for a command.
LEMMA StartKeeps ==
    ASSUME AigwInv, Restore \/ (\E r \in Releases : ApplyCommand(r))
    PROVE  AigwInv'
<1> USE DEF Restore, ApplyCommand, Start, AboveFloor, disk, process, control, Alive, Spawned
<1>1. AigwShape'
  <2>1. TreeShape'
    BY DEF AigwInv, AigwShape, TreeShape
  <2>2. SidecarShape'
    BY DEF AigwInv, AigwShape, SidecarShape
  <2>3. ReportShape'
    BY DEF AigwInv, AigwShape, ReportShape
  <2>4. ControlShape'
    <3>1. job' \in 0 .. MaxRelease /\ aigwSeen' \subseteq AigwSidecars /\ phase' \in {"stop", "prepare"}
      BY DEF AigwInv, AigwShape, DiskShape, Releases
    <3>2. child' = 0 /\ UNCHANGED <<runs, life, exits, active, cleanup, lost, obs>>
      OBVIOUS
    <3> HIDE DEF Restore, ApplyCommand, Start
    <3> QED
      BY <3>1, <3>2 DEF AigwInv, AigwShape, ControlShape, Phases
  <2>5. DiskShape'
    BY DEF AigwInv, AigwShape, DiskShape, Releases
  <2> QED
    BY <2>1, <2>2, <2>3, <2>4, <2>5 DEF AigwShape
<1>2. Owned'
  BY DEF AigwInv, TreesInv, Owned
<1>3. PhaseTrees'
  BY DEF AigwInv, TreesInv, PhaseTrees
<1>4. NewTree'
  BY DEF AigwInv, TreesInv, NewTree
<1>5. OneGateway' /\ SealedGone' /\ ServedTrees'
  BY StillTrees
<1>6. PhaseFiles'
  BY TreeFields DEF AigwInv, PhaseFiles
<1>7. LkgServed'
  BY StillFiles
<1>8. PointersForward'
  BY TreeFields DEF AigwInv, FilesInv, PointersForward, Releases
<1>9. SidecarsStopped'
  BY DEF AigwInv, FilesInv, SidecarsStopped
<1> QED
  BY <1>1, <1>2, <1>3, <1>4, <1>5, <1>6, <1>7, <1>8, <1>9 DEF AigwInv, TreesInv, FilesInv

\* A sidecar is started, unless its child object says it runs.
LEMMA EnsureKeeps ==
    ASSUME AigwInv, NEW s \in AigwSidecars, Ensure(s)
    PROVE  AigwInv'
<1> USE DEF Ensure, AigwSidecars, AfterSidecar, AwaitSidecar, disk, process, control, Alive, Spawned
<1>1. \/ aigwSidecar' = aigwSidecar
      \/ \E v \in BOOLEAN : aigwSidecar' = [aigwSidecar EXCEPT ![s] = [own |-> "up", orphan |-> v]]
  BY Zenon
<1>2. AigwShape'
  <2>1. TreeShape'
    BY DEF AigwInv, AigwShape, TreeShape
  <2>2. SidecarShape'
    <3> HIDE DEF Ensure
    <3> QED
      BY <1>1 DEF AigwInv, AigwShape, SidecarShape
  <2>3. ReportShape'
    BY DEF AigwInv, AigwShape, ReportShape
  <2>4. ControlShape'
    <3>1. phase' \in {"processor", "stop", "await-authorizer", "await-processor"} /\ aigwSeen' = aigwSeen
      OBVIOUS
    <3>2. UNCHANGED <<runs, life, exits, job, child, active, cleanup, lost, obs>>
      OBVIOUS
    <3> HIDE DEF Ensure
    <3> QED
      BY <3>1, <3>2 DEF AigwInv, AigwShape, ControlShape, Phases
  <2>5. DiskShape'
    BY DEF AigwInv, AigwShape, DiskShape
  <2> QED
    BY <2>1, <2>2, <2>3, <2>4, <2>5 DEF AigwShape
<1>3. Owned'
  BY DEF AigwInv, TreesInv, Owned
<1>4. PhaseTrees'
  BY DEF AigwInv, TreesInv, PhaseTrees
<1>5. NewTree'
  BY DEF AigwInv, TreesInv, NewTree
<1>6. OneGateway' /\ SealedGone' /\ ServedTrees'
  BY StillTrees
<1>7. PhaseFiles'
  BY DEF AigwInv, FilesInv, PhaseFiles, Applying
<1>8. LkgServed'
  BY StillFiles
<1>9. PointersForward'
  BY DEF AigwInv, FilesInv, PointersForward
<1>10. SidecarsStopped'
  BY DEF AigwInv, FilesInv, SidecarsStopped
<1> QED
  BY <1>2, <1>3, <1>4, <1>5, <1>6, <1>7, <1>8, <1>9, <1>10 DEF AigwInv, TreesInv, FilesInv

\* The active tree is stopped.
LEMMA StopKeeps ==
    ASSUME AigwInv, StopBegin \/ StopEnd
    PROVE  AigwInv'
<1> USE DEF StopBegin, StopEnd, disk, process, control, Alive, Spawned
<1>1. AigwShape'
  <2>1. TreeShape'
    BY DEF AigwInv, AigwShape, TreeShape
  <2>2. SidecarShape'
    BY DEF AigwInv, AigwShape, SidecarShape
  <2>3. ReportShape'
    BY DEF AigwInv, AigwShape, ReportShape
  <2>4. ControlShape'
    BY DEF AigwInv, AigwShape, ControlShape, Phases
  <2>5. DiskShape'
    BY DEF AigwInv, AigwShape, DiskShape
  <2> QED
    BY <2>1, <2>2, <2>3, <2>4, <2>5 DEF AigwShape
<1>2. Owned'
  BY DEF AigwInv, TreesInv, Owned, PhaseTrees
<1>3. PhaseTrees'
  BY DEF AigwInv, TreesInv, PhaseTrees, Owned
<1>4. NewTree'
  BY DEF AigwInv, TreesInv, NewTree
<1>5. OneGateway' /\ SealedGone' /\ ServedTrees'
  BY StillTrees
<1>6. PhaseFiles'
  BY DEF AigwInv, FilesInv, PhaseFiles, Applying
<1>7. LkgServed'
  BY StillFiles
<1>8. PointersForward'
  BY DEF AigwInv, FilesInv, PointersForward
<1>9. SidecarsStopped'
  BY DEF AigwInv, FilesInv, SidecarsStopped
<1> QED
  BY <1>1, <1>2, <1>3, <1>4, <1>5, <1>6, <1>7, <1>8, <1>9 DEF AigwInv, TreesInv, FilesInv

\* The source of the release is opened.
LEMMA RegisterKeeps ==
    ASSUME AigwInv, Register
    PROVE  AigwInv'
<1> USE DEF Register, disk, process, control, Alive, Spawned
<1>1. AigwShape'
  <2>1. TreeShape'
    BY DEF AigwInv, AigwShape, TreeShape
  <2>2. SidecarShape'
    BY DEF AigwInv, AigwShape, SidecarShape
  <2>3. ReportShape'
    BY DEF AigwInv, AigwShape, ReportShape
  <2>4. ControlShape'
    BY DEF AigwInv, AigwShape, ControlShape, Phases
  <2>5. DiskShape'
    BY DEF AigwInv, AigwShape, DiskShape
  <2> QED
    BY <2>1, <2>2, <2>3, <2>4, <2>5 DEF AigwShape
<1>2. Owned'
  BY DEF AigwInv, TreesInv, Owned
<1>3. PhaseTrees'
  BY DEF AigwInv, TreesInv, PhaseTrees
<1>4. NewTree'
  BY DEF AigwInv, TreesInv, NewTree
<1>5. OneGateway'
  BY DEF AigwInv, TreesInv, OneGateway
<1>6. SealedGone'
  BY DEF AigwInv, TreesInv, SealedGone
<1>7. ServedTrees'
  BY DEF AigwInv, TreesInv, ServedTrees
<1>8. PhaseFiles'
  BY DEF AigwInv, AigwShape, DiskShape, FilesInv, PhaseFiles, Applying, Releases
<1>9. LkgServed'
  BY StillFiles
<1>10. PointersForward'
  BY DEF AigwInv, FilesInv, PointersForward
<1>11. SidecarsStopped'
  BY DEF AigwInv, FilesInv, SidecarsStopped
<1> QED
  BY <1>1, <1>2, <1>3, <1>4, <1>5, <1>6, <1>7, <1>8, <1>9, <1>10, <1>11 DEF AigwInv, TreesInv,
     FilesInv

\* The pointer current moves, the new tree becomes the active one, the release is saved.
LEMMA PointKeeps ==
    ASSUME AigwInv, PointCurrent \/ Activate \/ Save
    PROVE  AigwInv'
<1> USE DEF PointCurrent, Activate, Save, disk, process, control, Alive, Spawned
<1>1. AigwShape'
  <2>1. TreeShape'
    BY DEF AigwInv, AigwShape, TreeShape
  <2>2. SidecarShape'
    BY DEF AigwInv, AigwShape, SidecarShape
  <2>3. ReportShape'
    BY DEF AigwInv, AigwShape, ReportShape, ControlShape
  <2>4. ControlShape'
    <3>1. /\ phase' \in {"spawn", "save", "idle"} /\ job' \in {0, job} /\ child' \in {0, child}
          /\ active' \in {child, active} /\ UNCHANGED <<runs, life, exits, cleanup, aigwSeen, lost, obs>>
      OBVIOUS
    <3> HIDE DEF PointCurrent, Activate, Save
    <3> QED
      BY <3>1, TreeFields DEF AigwInv, AigwShape, ControlShape, Phases
  <2>5. DiskShape'
    BY DEF AigwInv, AigwShape, DiskShape, ControlShape
  <2> QED
    BY <2>1, <2>2, <2>3, <2>4, <2>5 DEF AigwShape
<1>2. Owned'
  BY DEF AigwInv, TreesInv, Owned, PhaseTrees
<1>3. PhaseTrees'
  BY DEF AigwInv, TreesInv, PhaseTrees
<1>4. NewTree'
  BY DEF AigwInv, TreesInv, NewTree
<1>5. OneGateway' /\ SealedGone' /\ ServedTrees'
  BY StillTrees
<1>6. PhaseFiles'
  BY DEF AigwInv, FilesInv, PhaseFiles, Applying
<1>7. LkgServed'
  BY StillFiles
<1>8. PointersForward'
  BY TreeFields DEF AigwInv, FilesInv, PointersForward, PhaseFiles, Applying
<1>9. SidecarsStopped'
  BY DEF AigwInv, FilesInv, SidecarsStopped
<1> QED
  BY <1>1, <1>2, <1>3, <1>4, <1>5, <1>6, <1>7, <1>8, <1>9 DEF AigwInv, TreesInv, FilesInv

\* The pointer lkg moves to a release its own tree was ready for.
LEMMA WriteLkgKeeps ==
    ASSUME AigwInv, WriteLkg
    PROVE  AigwInv'
<1> USE DEF WriteLkg, disk, process, control, Alive, Spawned
<1>1. AigwShape'
  <2>1. TreeShape'
    BY DEF AigwInv, AigwShape, TreeShape
  <2>2. SidecarShape'
    BY DEF AigwInv, AigwShape, SidecarShape
  <2>3. ReportShape'
    BY DEF AigwInv, AigwShape, ReportShape
  <2>4. ControlShape'
    BY DEF AigwInv, AigwShape, ControlShape, Phases
  <2>5. DiskShape'
    BY DEF AigwInv, AigwShape, DiskShape, ControlShape
  <2> QED
    BY <2>1, <2>2, <2>3, <2>4, <2>5 DEF AigwShape
<1>2. Owned'
  BY DEF AigwInv, TreesInv, Owned
<1>3. PhaseTrees'
  BY DEF AigwInv, TreesInv, PhaseTrees
<1>4. NewTree'
  BY DEF AigwInv, TreesInv, NewTree
<1>5. OneGateway' /\ SealedGone' /\ ServedTrees'
  BY StillTrees
<1>6. PhaseFiles'
  BY DEF AigwInv, FilesInv, PhaseFiles, Applying
<1>7. LkgServed'
  BY DEF AigwInv, LkgServed, TreesInv, NewTree
<1>8. PointersForward'
  BY DEF AigwInv, FilesInv, PointersForward, PhaseFiles
<1>9. SidecarsStopped'
  BY DEF AigwInv, FilesInv, SidecarsStopped
<1> QED
  BY <1>1, <1>2, <1>3, <1>4, <1>5, <1>6, <1>7, <1>8, <1>9 DEF AigwInv, TreesInv, FilesInv

\* A process tree is started: every older one that lives was given up.
LEMMA SpawnKeeps ==
    ASSUME AigwInv, Spawn
    PROVE  AigwInv'
<1> USE DEF disk, process, control, Alive, Spawned
<1>1. /\ phase = "spawn" /\ phase' = "health" /\ runs < MaxRuns /\ runs' = runs + 1 /\ child' = runs + 1
      /\ UNCHANGED <<disk, exits, aigwSidecar, lost, job, active, cleanup, obs, aigwSeen, life, applied, report>>
  BY Zenon DEF Spawn
<1>2. runs \in Nat /\ runs + 1 \in Runs /\ child' \in Runs /\ 1 .. runs' = (1 .. runs) \cup {runs + 1}
  BY <1>1, TreeFields DEF Runs, AigwInv
<1>3. PICK no \in BOOLEAN :
        tree' = [tree EXCEPT ![runs + 1] = [release |-> job, life |-> life, parent |-> "up",
                                            workers |-> "starting", served |-> no]]
  BY Zenon DEF Spawn
<1>4. TreeShape'
  BY <1>1, <1>2, <1>3 DEF AigwInv, AigwShape, TreeShape, ControlShape
<1>5. /\ tree'[runs + 1].release = job /\ tree'[runs + 1].life = life /\ tree'[runs + 1].workers = "starting"
      /\ \A t \in 1 .. runs : tree'[t] = tree[t]
  BY <1>2, <1>3 DEF AigwInv, AigwShape, TreeShape
<1>6. \A t \in 1 .. runs : Alive(t) => t \in lost
  BY <1>1 DEF AigwInv, TreesInv, Owned, PhaseTrees
<1>7. AigwShape'
  <2>1. TreeShape'
    BY <1>4
  <2>2. SidecarShape'
    BY <1>1 DEF AigwInv, AigwShape, SidecarShape
  <2>3. ReportShape'
    BY <1>1 DEF AigwInv, AigwShape, ReportShape
  <2>4. ControlShape'
    BY <1>1, <1>2, TreeFields DEF AigwInv, AigwShape, ControlShape, Phases
  <2>5. DiskShape'
    BY <1>1, <1>2 DEF AigwInv, AigwShape, DiskShape
  <2> QED
    BY <2>1, <2>2, <2>3, <2>4, <2>5 DEF AigwShape
<1>8. Owned'
  BY <1>1, <1>2, <1>5, <1>6 DEF AigwInv, TreesInv, Owned
<1>9. PhaseTrees'
  BY <1>1, <1>2, <1>5, <1>6 DEF AigwInv, TreesInv, PhaseTrees
<1>10. NewTree'
  BY <1>1, <1>2, <1>5, <1>6 DEF AigwInv, TreesInv, NewTree
<1>11. OneGateway'
  BY <1>1, <1>2, <1>5, <1>6 DEF AigwInv, TreesInv, OneGateway
<1>12. SealedGone'
  BY <1>1, <1>2, <1>5, <1>6 DEF AigwInv, SealedGone, FilesInv, PhaseFiles
<1>13. ServedTrees'
  BY <1>1, <1>2, <1>5, <1>6 DEF AigwInv, TreesInv, ServedTrees
<1>14. PhaseFiles'
  BY <1>1, <1>2, <1>5, <1>6 DEF AigwInv, FilesInv, PhaseFiles, Applying
<1>15. LkgServed'
  BY <1>1, <1>2, <1>5, <1>6 DEF AigwInv, FilesInv, LkgServed
<1>16. PointersForward'
  BY <1>1, <1>2, <1>5, <1>6 DEF AigwInv, FilesInv, PointersForward
<1>17. SidecarsStopped'
  BY <1>1 DEF AigwInv, FilesInv, SidecarsStopped
<1> QED
  BY <1>7, <1>8, <1>9, <1>10, <1>11, <1>12, <1>13, <1>14, <1>15, <1>16, <1>17 DEF AigwInv, TreesInv,
     FilesInv

\* The new tree is not ready: it is handed to a cleanup.
LEMMA FailChildKeeps ==
    ASSUME AigwInv, FailChild
    PROVE  AigwInv'
<1> USE DEF FailChild, disk, process, control, Alive, Spawned
<1>1. AigwShape'
  <2>1. TreeShape'
    BY DEF AigwInv, AigwShape, TreeShape
  <2>2. SidecarShape'
    BY DEF AigwInv, AigwShape, SidecarShape
  <2>3. ReportShape'
    BY DEF AigwInv, AigwShape, ReportShape
  <2>4. ControlShape'
    BY DEF AigwInv, AigwShape, ControlShape, Phases
  <2>5. DiskShape'
    BY DEF AigwInv, AigwShape, DiskShape
  <2> QED
    BY <2>1, <2>2, <2>3, <2>4, <2>5 DEF AigwShape
<1>2. Owned'
  BY DEF AigwInv, TreesInv, Owned, PhaseTrees
<1>3. PhaseTrees'
  BY DEF AigwInv, TreesInv, PhaseTrees
<1>4. NewTree'
  BY DEF AigwInv, TreesInv, NewTree
<1>5. OneGateway' /\ SealedGone' /\ ServedTrees'
  BY StillTrees
<1>6. PhaseFiles'
  BY DEF AigwInv, FilesInv, PhaseFiles, Applying
<1>7. LkgServed'
  BY StillFiles
<1>8. PointersForward'
  BY DEF AigwInv, FilesInv, PointersForward
<1>9. SidecarsStopped'
  BY DEF AigwInv, FilesInv, SidecarsStopped
<1> QED
  BY <1>1, <1>2, <1>3, <1>4, <1>5, <1>6, <1>7, <1>8, <1>9 DEF AigwInv, TreesInv, FilesInv

\* A cleanup kills the parent of its tree; the exit callback joins it.
LEMMA KillParentKeeps ==
    ASSUME AigwInv, phase # "dead", KillParent
    PROVE  AigwInv'
<1> USE DEF KillParent, OnExit, disk, process, control, Alive, Spawned
<1>1. AigwShape'
  <2>1. TreeShape'
    BY DEF AigwInv, AigwShape, TreeShape
  <2>2. SidecarShape'
    BY DEF AigwInv, AigwShape, SidecarShape
  <2>3. ReportShape'
    BY DEF AigwInv, AigwShape, ReportShape
  <2>4. ControlShape'
    BY DEF AigwInv, AigwShape, ControlShape
  <2>5. DiskShape'
    BY DEF AigwInv, AigwShape, DiskShape
  <2> QED
    BY <2>1, <2>2, <2>3, <2>4, <2>5 DEF AigwShape
<1>2. Owned'
  BY DEF AigwInv, TreesInv, Owned
<1>3. PhaseTrees'
  BY DEF AigwInv, TreesInv, PhaseTrees
<1>4. NewTree'
  BY DEF AigwInv, TreesInv, NewTree
<1>5. OneGateway'
  BY DEF AigwInv, TreesInv, OneGateway
<1>6. SealedGone'
  BY DEF AigwInv, TreesInv, SealedGone
<1>7. ServedTrees'
  BY DEF AigwInv, TreesInv, ServedTrees
<1>8. PhaseFiles'
  BY DEF AigwInv, FilesInv, PhaseFiles
<1>9. LkgServed'
  BY DEF AigwInv, FilesInv, LkgServed
<1>10. PointersForward'
  BY DEF AigwInv, FilesInv, PointersForward
<1>11. SidecarsStopped'
  BY DEF AigwInv, FilesInv, SidecarsStopped
<1> QED
  BY <1>1, <1>2, <1>3, <1>4, <1>5, <1>6, <1>7, <1>8, <1>9, <1>10, <1>11 DEF AigwInv, TreesInv,
     FilesInv

\* A cleanup kills the workers of its tree.
LEMMA KillWorkersKeeps ==
    ASSUME AigwInv, KillWorkers
    PROVE  AigwInv'
<1> USE DEF KillWorkers, disk, process, control, Alive, Spawned
<1>1. AigwShape'
  <2>1. TreeShape'
    BY DEF AigwInv, AigwShape, TreeShape
  <2>2. SidecarShape'
    BY DEF AigwInv, AigwShape, SidecarShape
  <2>3. ReportShape'
    BY DEF AigwInv, AigwShape, ReportShape
  <2>4. ControlShape'
    BY DEF AigwInv, AigwShape, ControlShape
  <2>5. DiskShape'
    BY DEF AigwInv, AigwShape, DiskShape
  <2> QED
    BY <2>1, <2>2, <2>3, <2>4, <2>5 DEF AigwShape
<1>2. Owned'
  BY DEF AigwInv, TreesInv, Owned
<1>3. PhaseTrees'
  BY DEF AigwInv, TreesInv, PhaseTrees
<1>4. NewTree'
  BY DEF AigwInv, TreesInv, NewTree
<1>5. OneGateway'
  BY DEF AigwInv, TreesInv, OneGateway
<1>6. SealedGone'
  BY DEF AigwInv, TreesInv, SealedGone
<1>7. ServedTrees'
  BY DEF AigwInv, TreesInv, ServedTrees
<1>8. PhaseFiles'
  BY DEF AigwInv, FilesInv, PhaseFiles
<1>9. LkgServed'
  BY DEF AigwInv, FilesInv, LkgServed
<1>10. PointersForward'
  BY DEF AigwInv, FilesInv, PointersForward
<1>11. SidecarsStopped'
  BY DEF AigwInv, FilesInv, SidecarsStopped
<1> QED
  BY <1>1, <1>2, <1>3, <1>4, <1>5, <1>6, <1>7, <1>8, <1>9, <1>10, <1>11 DEF AigwInv, TreesInv,
     FilesInv

\* A cleanup ends: no tree of this controller is left, so what is sealed is final.
LEMMA ReapEndKeeps ==
    ASSUME AigwInv, phase # "dead", ReapEnd
    PROVE  AigwInv'
<1> USE DEF ReapEnd, ForgetObserved, disk, process, control, Alive, Spawned
<1>1. AigwShape'
  <2>1. TreeShape'
    BY DEF AigwInv, AigwShape, TreeShape
  <2>2. SidecarShape'
    BY DEF AigwInv, AigwShape, SidecarShape
  <2>3. ReportShape'
    BY DEF AigwInv, AigwShape, ReportShape
  <2>4. ControlShape'
    BY TreeFields DEF AigwInv, AigwShape, ControlShape
  <2>5. DiskShape'
    BY DEF AigwInv, AigwShape, DiskShape
  <2> QED
    BY <2>1, <2>2, <2>3, <2>4, <2>5 DEF AigwShape
<1>2. Owned'
  BY DEF AigwInv, TreesInv, Owned
<1>3. PhaseTrees'
  BY DEF AigwInv, TreesInv, PhaseTrees, Owned
<1>4. NewTree'
  BY DEF AigwInv, TreesInv, NewTree
<1>5. OneGateway'
  BY DEF AigwInv, TreesInv, OneGateway
<1>6. SealedGone'
  <2>1. \A t \in 1 .. runs : Alive(t) => t \in lost
    BY DEF AigwInv, TreesInv, Owned, PhaseTrees
  <2>2. \A t \in 1 .. runs' : Alive(t)' => t \in lost'
    BY <2>1
  <2> QED
    BY <2>2 DEF SealedGone
<1>7. ServedTrees'
  BY DEF AigwInv, TreesInv, ServedTrees
<1>8. PhaseFiles'
  BY DEF AigwInv, FilesInv, PhaseFiles, TreesInv, PhaseTrees
<1>9. LkgServed'
  BY StillFiles
<1>10. PointersForward'
  BY DEF AigwInv, FilesInv, PointersForward
<1>11. SidecarsStopped'
  BY DEF AigwInv, FilesInv, SidecarsStopped
<1> QED
  BY <1>1, <1>2, <1>3, <1>4, <1>5, <1>6, <1>7, <1>8, <1>9, <1>10, <1>11 DEF AigwInv, TreesInv,
     FilesInv

\* A cleanup fails: what it leaves alive is lost.
LEMMA ReapFailsKeeps ==
    ASSUME AigwInv, phase # "dead", ReapFails
    PROVE  AigwInv'
<1> USE DEF ReapFails, Degrade, disk, process, control, Alive, Spawned
<1>1. AigwShape'
  <2>1. TreeShape'
    BY DEF AigwInv, AigwShape, TreeShape
  <2>2. SidecarShape'
    BY DEF AigwInv, AigwShape, SidecarShape
  <2>3. ReportShape'
    BY DEF AigwInv, AigwShape, ReportShape, DiskShape
  <2>4. ControlShape'
    BY TreeFields DEF AigwInv, AigwShape, ControlShape, Phases
  <2>5. DiskShape'
    BY DEF AigwInv, AigwShape, DiskShape
  <2> QED
    BY <2>1, <2>2, <2>3, <2>4, <2>5 DEF AigwShape
<1>2. Owned'
  BY DEF AigwInv, TreesInv, Owned
<1>3. PhaseTrees'
  BY DEF AigwInv, TreesInv, PhaseTrees
<1>4. NewTree'
  BY DEF AigwInv, TreesInv, NewTree
<1>5. OneGateway'
  BY DEF AigwInv, TreesInv, OneGateway
<1>6. SealedGone'
  BY DEF AigwInv, TreesInv, SealedGone
<1>7. ServedTrees'
  BY DEF AigwInv, TreesInv, ServedTrees
<1>8. PhaseFiles'
  BY DEF AigwInv, FilesInv, PhaseFiles, Applying
<1>9. LkgServed'
  BY StillFiles
<1>10. PointersForward'
  BY DEF AigwInv, FilesInv, PointersForward
<1>11. SidecarsStopped'
  BY DEF AigwInv, FilesInv, SidecarsStopped
<1> QED
  BY <1>1, <1>2, <1>3, <1>4, <1>5, <1>6, <1>7, <1>8, <1>9, <1>10, <1>11 DEF AigwInv, TreesInv,
     FilesInv

\* The sidecars are stopped.
LEMMA CloseEndKeeps ==
    ASSUME AigwInv, CloseEnd
    PROVE  AigwInv'
<1> USE DEF CloseEnd, disk, process, control, Alive, Spawned
<1>1. AigwShape'
  <2>1. TreeShape'
    BY DEF AigwInv, AigwShape, TreeShape
  <2>2. SidecarShape'
    BY DEF AigwInv, AigwShape, SidecarShape
  <2>3. ReportShape'
    BY DEF AigwInv, AigwShape, ReportShape
  <2>4. ControlShape'
    BY DEF AigwInv, AigwShape, ControlShape, Phases
  <2>5. DiskShape'
    BY DEF AigwInv, AigwShape, DiskShape
  <2> QED
    BY <2>1, <2>2, <2>3, <2>4, <2>5 DEF AigwShape
<1>2. Owned'
  BY DEF AigwInv, TreesInv, Owned
<1>3. PhaseTrees'
  BY DEF AigwInv, TreesInv, PhaseTrees
<1>4. NewTree'
  BY DEF AigwInv, TreesInv, NewTree
<1>5. OneGateway' /\ SealedGone' /\ ServedTrees'
  BY StillTrees
<1>6. PhaseFiles'
  BY DEF AigwInv, FilesInv, PhaseFiles, Applying
<1>7. LkgServed'
  BY StillFiles
<1>8. PointersForward'
  BY DEF AigwInv, FilesInv, PointersForward
<1>9. SidecarsStopped'
  BY DEF AigwInv, AigwShape, SidecarShape, SidecarsStopped
<1> QED
  BY <1>1, <1>2, <1>3, <1>4, <1>5, <1>6, <1>7, <1>8, <1>9 DEF AigwInv, TreesInv, FilesInv

\* A new controller process knows of no tree; what lives is lost.
LEMMA RebootKeeps ==
    ASSUME AigwInv, Reboot
    PROVE  AigwInv'
<1> USE DEF Reboot, disk, process, control, Alive, Spawned
<1>1. PICK left \in [AigwSidecars -> BOOLEAN] :
        aigwSidecar' = [s \in AigwSidecars |-> [own |-> "none", orphan |-> left[s]]]
  <2>1. [s \in AigwSidecars |-> Listening(s)] \in [AigwSidecars -> BOOLEAN]
    BY Zenon DEF AigwInv, Listening
  <2> QED
    BY <2>1, Zenon
<1>2. /\ phase' = "boot" /\ life < MaxLives /\ life' = life + 1 /\ lost' = lost \cup {t \in Runs : Alive(t)}
      /\ job' = 0 /\ child' = 0 /\ active' = 0 /\ cleanup' = 0 /\ obs' = 0 /\ aigwSeen' = {}
      /\ report' = [state |-> "NONE", release |-> 0] /\ runs' = runs /\ exits' = exits
  BY Zenon
<1>3. AigwShape'
  <2>1. TreeShape'
    BY DEF AigwInv, AigwShape, TreeShape
  <2>2. SidecarShape'
    <3> HIDE DEF Reboot
    <3> QED
      BY <1>1 DEF SidecarShape
  <2>3. ReportShape'
    <3> HIDE DEF Reboot
    <3> QED
      BY <1>2, AigwAssumption DEF ReportShape
  <2>4. ControlShape'
    <3> HIDE DEF Reboot
    <3>1. lost' \subseteq Runs
      BY <1>2 DEF AigwInv, AigwShape, ControlShape
    <3>2. life' \in 1 .. MaxLives /\ 0 \in 0 .. MaxRelease /\ 0 \in 0 .. runs
      BY <1>2, AigwAssumption, TreeFields DEF AigwInv
    <3> QED
      BY <1>2, <3>1, <3>2 DEF AigwInv, AigwShape, ControlShape, Phases
  <2>5. DiskShape'
    BY AigwAssumption DEF AigwInv, AigwShape, DiskShape
  <2> QED
    BY <2>1, <2>2, <2>3, <2>4, <2>5 DEF AigwShape
<1>4. Owned'
  BY TreeFields DEF AigwInv, Owned
<1>5. PhaseTrees'
  BY DEF AigwInv, TreesInv, PhaseTrees
<1>6. NewTree'
  BY DEF AigwInv, TreesInv, NewTree
<1>7. OneGateway'
  BY DEF AigwInv, TreesInv, OneGateway
<1>8. SealedGone'
  BY DEF AigwInv, TreesInv, SealedGone
<1>9. ServedTrees'
  BY DEF AigwInv, TreesInv, ServedTrees
<1>10. PhaseFiles'
  BY DEF AigwInv, PhaseFiles, Applying
<1>11. LkgServed'
  BY StillFiles
<1>12. PointersForward'
  BY TreeFields DEF AigwInv, FilesInv, PointersForward
<1>13. SidecarsStopped'
  BY DEF AigwInv, FilesInv, SidecarsStopped
<1> QED
  BY <1>3, <1>4, <1>5, <1>6, <1>7, <1>8, <1>9, <1>10, <1>11, <1>12, <1>13 DEF AigwInv, TreesInv,
     FilesInv

\* The workers of a tree come up.
LEMMA WorkersReadyKeeps ==
    ASSUME AigwInv, NEW w \in 1 .. runs, WorkersReady(w)
    PROVE  AigwInv'
<1> USE DEF disk, process, control, Alive, Spawned
<1>1. /\ tree[w].workers = "starting"
      /\ UNCHANGED <<disk, runs, exits, aigwSidecar, lost, control, life, applied, report>>
  BY Zenon DEF WorkersReady
<1>2. PICK yes \in BOOLEAN : yes /\ tree' = [tree EXCEPT ![w].workers = "ready", ![w].served = yes]
  BY Zenon DEF WorkersReady
<1>3. TreeShape'
  <2> DEFINE Trees == [release : 0..MaxRelease, life : 0..MaxLives, parent : {"none", "up", "exited", "killed"},
                       workers : {"none", "starting", "ready", "down"}, served : BOOLEAN]
             after == [tree[w] EXCEPT !.workers = "ready", !.served = yes]
  <2>1. w \in Runs /\ tree \in [Runs -> Trees]
    BY TreeFields DEF AigwInv, AigwShape, TreeShape
  <2>2. after \in Trees
    <3>1. tree[w] \in Trees
      BY <2>1
    <3> QED
      BY <3>1
  <2>3. tree' = [tree EXCEPT ![w] = after]
    BY <1>2, <2>1
  <2> HIDE DEF Trees, after
  <2>4. tree' \in [Runs -> Trees]
    BY <2>1, <2>2, <2>3
  <2> QED
    BY <2>4 DEF TreeShape, Trees
<1>4. /\ tree'[w].workers = "ready" /\ tree'[w].served
      /\ \A t \in 1 .. runs : /\ tree'[t].release = tree[t].release /\ tree'[t].life = tree[t].life
                              /\ tree'[t].parent = tree[t].parent
                              /\ t # w => tree'[t] = tree[t]
  BY <1>2, TreeFields DEF AigwInv, AigwShape, TreeShape
<1>5. AigwShape'
  <2>1. TreeShape'
    BY <1>3
  <2>2. SidecarShape'
    BY <1>1 DEF AigwInv, AigwShape, SidecarShape
  <2>3. ReportShape'
    BY <1>1 DEF AigwInv, AigwShape, ReportShape
  <2>4. ControlShape'
    BY <1>1 DEF AigwInv, AigwShape, ControlShape
  <2>5. DiskShape'
    BY <1>1 DEF AigwInv, AigwShape, DiskShape
  <2> QED
    BY <2>1, <2>2, <2>3, <2>4, <2>5 DEF AigwShape
<1>6. Owned'
  BY <1>1, <1>4 DEF AigwInv, TreesInv, Owned
<1>7. PhaseTrees'
  BY <1>1, <1>4 DEF AigwInv, TreesInv, PhaseTrees
<1>8. NewTree'
  BY <1>1, <1>4 DEF AigwInv, TreesInv, NewTree
<1>9. OneGateway'
  BY <1>1, <1>4 DEF AigwInv, TreesInv, OneGateway
<1>10. SealedGone'
  <2>1. \A t \in 1 .. runs : Alive(t)' => Alive(t)
    BY <1>1, <1>4
  <2>2. \A t \in 1 .. runs : Alive(t)' /\ t \notin lost => aigwSource[tree[t].release] = "OPEN"
    BY <2>1 DEF AigwInv, TreesInv, SealedGone
  <2> QED
    BY <1>1, <1>4, <2>2 DEF SealedGone
<1>11. ServedTrees'
  BY <1>1, <1>4 DEF AigwInv, TreesInv, ServedTrees
<1>12. PhaseFiles'
  BY <1>1, <1>4 DEF AigwInv, FilesInv, PhaseFiles
<1>13. LkgServed'
  BY <1>1, <1>4 DEF AigwInv, FilesInv, LkgServed
<1>14. PointersForward'
  BY <1>1, <1>4 DEF AigwInv, FilesInv, PointersForward
<1>15. SidecarsStopped'
  BY <1>1 DEF AigwInv, FilesInv, SidecarsStopped
<1> QED
  BY <1>5, <1>6, <1>7, <1>8, <1>9, <1>10, <1>11, <1>12, <1>13, <1>14, <1>15 DEF AigwInv, TreesInv,
     FilesInv

\* A parent dies unasked: the active one is handed to a cleanup.
LEMMA ParentExitsKeeps ==
    ASSUME AigwInv, NEW t \in 1 .. runs, ParentExits(t)
    PROVE  AigwInv'
<1> USE DEF ParentExits, OnExit, disk, process, control, Alive, Spawned
<1>1. AigwShape'
  <2>1. TreeShape'
    <3>1. PICK how \in {"exited", "killed"} : tree' = [tree EXCEPT ![t].parent = how]
      OBVIOUS
    <3> HIDE DEF ParentExits
    <3> QED
      BY <3>1 DEF AigwInv, AigwShape, TreeShape
  <2>2. SidecarShape'
    BY DEF AigwInv, AigwShape, SidecarShape
  <2>3. ReportShape'
    BY DEF AigwInv, AigwShape, ReportShape
  <2>4. ControlShape'
    BY AigwAssumption DEF AigwInv, AigwShape, ControlShape
  <2>5. DiskShape'
    BY DEF AigwInv, AigwShape, DiskShape
  <2> QED
    BY <2>1, <2>2, <2>3, <2>4, <2>5 DEF AigwShape
<1>2. Owned'
  BY DEF AigwInv, TreesInv, Owned, PhaseTrees
<1>3. PhaseTrees'
  BY DEF AigwInv, TreesInv, PhaseTrees
<1>4. NewTree'
  BY DEF AigwInv, TreesInv, NewTree
<1>5. OneGateway'
  BY DEF AigwInv, TreesInv, OneGateway
<1>6. SealedGone'
  BY DEF AigwInv, TreesInv, SealedGone
<1>7. ServedTrees'
  BY DEF AigwInv, TreesInv, ServedTrees
<1>8. PhaseFiles'
  BY DEF AigwInv, FilesInv, PhaseFiles
<1>9. LkgServed'
  BY DEF AigwInv, FilesInv, LkgServed
<1>10. PointersForward'
  BY DEF AigwInv, FilesInv, PointersForward
<1>11. SidecarsStopped'
  BY DEF AigwInv, FilesInv, SidecarsStopped
<1> QED
  BY <1>1, <1>2, <1>3, <1>4, <1>5, <1>6, <1>7, <1>8, <1>9, <1>10, <1>11 DEF AigwInv, TreesInv,
     FilesInv

\* The workers of a tree die unasked.
LEMMA WorkersDieKeeps ==
    ASSUME AigwInv, NEW t \in 1 .. runs, WorkersDie(t)
    PROVE  AigwInv'
<1> USE DEF WorkersDie, disk, process, control, Alive, Spawned
<1>1. AigwShape'
  <2>1. TreeShape'
    BY DEF AigwInv, AigwShape, TreeShape
  <2>2. SidecarShape'
    BY DEF AigwInv, AigwShape, SidecarShape
  <2>3. ReportShape'
    BY DEF AigwInv, AigwShape, ReportShape
  <2>4. ControlShape'
    BY AigwAssumption DEF AigwInv, AigwShape, ControlShape
  <2>5. DiskShape'
    BY DEF AigwInv, AigwShape, DiskShape
  <2> QED
    BY <2>1, <2>2, <2>3, <2>4, <2>5 DEF AigwShape
<1>2. Owned'
  BY DEF AigwInv, TreesInv, Owned
<1>3. PhaseTrees'
  BY DEF AigwInv, TreesInv, PhaseTrees
<1>4. NewTree'
  BY DEF AigwInv, TreesInv, NewTree
<1>5. OneGateway'
  BY DEF AigwInv, TreesInv, OneGateway
<1>6. SealedGone'
  BY DEF AigwInv, TreesInv, SealedGone
<1>7. ServedTrees'
  BY DEF AigwInv, TreesInv, ServedTrees
<1>8. PhaseFiles'
  BY DEF AigwInv, FilesInv, PhaseFiles
<1>9. LkgServed'
  BY DEF AigwInv, FilesInv, LkgServed
<1>10. PointersForward'
  BY DEF AigwInv, FilesInv, PointersForward
<1>11. SidecarsStopped'
  BY DEF AigwInv, FilesInv, SidecarsStopped
<1> QED
  BY <1>1, <1>2, <1>3, <1>4, <1>5, <1>6, <1>7, <1>8, <1>9, <1>10, <1>11 DEF AigwInv, TreesInv,
     FilesInv

\* A sidecar dies.
LEMMA SidecarDiesKeeps ==
    ASSUME AigwInv, NEW s \in AigwSidecars, SidecarDies(s)
    PROVE  AigwInv'
<1> USE DEF SidecarDies, disk, process, control, Alive, Spawned
<1>1. AigwShape'
  <2>1. TreeShape'
    BY DEF AigwInv, AigwShape, TreeShape
  <2>2. SidecarShape'
    BY DEF AigwInv, AigwShape, SidecarShape
  <2>3. ReportShape'
    BY DEF AigwInv, AigwShape, ReportShape
  <2>4. ControlShape'
    BY AigwAssumption DEF AigwInv, AigwShape, ControlShape
  <2>5. DiskShape'
    BY DEF AigwInv, AigwShape, DiskShape
  <2> QED
    BY <2>1, <2>2, <2>3, <2>4, <2>5 DEF AigwShape
<1>2. Owned'
  BY DEF AigwInv, TreesInv, Owned
<1>3. PhaseTrees'
  BY DEF AigwInv, TreesInv, PhaseTrees
<1>4. NewTree'
  BY DEF AigwInv, TreesInv, NewTree
<1>5. OneGateway' /\ SealedGone' /\ ServedTrees'
  BY StillTrees
<1>6. PhaseFiles'
  BY DEF AigwInv, FilesInv, PhaseFiles
<1>7. LkgServed'
  BY StillFiles
<1>8. PointersForward'
  BY DEF AigwInv, FilesInv, PointersForward
<1>9. SidecarsStopped'
  BY DEF AigwInv, FilesInv, SidecarsStopped
<1> QED
  BY <1>1, <1>2, <1>3, <1>4, <1>5, <1>6, <1>7, <1>8, <1>9 DEF AigwInv, TreesInv, FilesInv

\* Every step of the local applier keeps the invariant.
LEMMA AigwInvStep == AigwInv /\ [AigwNext]_aigwVars => AigwInv'
<1> SUFFICES ASSUME AigwInv, [AigwNext]_aigwVars PROVE AigwInv'
  OBVIOUS
<1>1. CASE Quiet
  BY <1>1, QuietKeeps
<1>2. CASE Restore \/ \E r \in Releases : ApplyCommand(r)
  BY <1>2, StartKeeps
<1>3. CASE \E s \in AigwSidecars : Ensure(s) \/ SidecarDies(s)
  BY <1>3, EnsureKeeps, SidecarDiesKeeps
<1>4. CASE StopBegin \/ StopEnd \/ Register \/ PointCurrent \/ Activate \/ Save \/ WriteLkg \/ Spawn \/ FailChild
  BY <1>4, StopKeeps, RegisterKeeps, PointKeeps, WriteLkgKeeps, SpawnKeeps, FailChildKeeps
<1>5. CASE phase # "dead" /\ (Reap \/ ReapFails)
  BY <1>5, KillParentKeeps, KillWorkersKeeps, ReapEndKeeps, ReapFailsKeeps DEF Reap
<1>6. CASE CloseEnd \/ Reboot
  BY <1>6, CloseEndKeeps, RebootKeeps
<1>7. CASE \E t \in 1 .. runs : WorkersReady(t) \/ ParentExits(t) \/ WorkersDie(t)
  BY <1>7, WorkersReadyKeeps, ParentExitsKeeps, WorkersDieKeeps
<1>8. CASE UNCHANGED aigwVars
  <2>1. AigwShape'
    BY <1>8 DEF AigwInv, AigwShape, TreeShape, SidecarShape, ReportShape, ControlShape, DiskShape,
       aigwVars, disk, process, control
  <2>2. Owned' /\ PhaseTrees' /\ NewTree'
    BY <1>8 DEF AigwInv, TreesInv, Owned, PhaseTrees, NewTree, Alive, aigwVars, process, control
  <2>3. PhaseFiles' /\ PointersForward' /\ SidecarsStopped'
    BY <1>8 DEF AigwInv, FilesInv, PhaseFiles, PointersForward, SidecarsStopped, aigwVars, disk,
       process, control
  <2> QED
    BY <1>8, <2>1, <2>2, <2>3, StillTrees, StillFiles DEF AigwInv, TreesInv, FilesInv, aigwVars,
       disk, process
<1> QED
  BY <1>1, <1>2, <1>3, <1>4, <1>5, <1>6, <1>7, <1>8, Zenon DEF AigwNext, AigwApply, Quiet

\* The invariant implies what the run checks.
LEMMA AigwInvSafe == AigwInv => AigwSafe
<1> SUFFICES ASSUME AigwInv PROVE AigwSafe
  OBVIOUS
<1>1. AigwTypeOK
  BY DEF AigwInv, AigwShape, TreeShape, SidecarShape, ReportShape, ControlShape, DiskShape,
     TreesInv, NewTree, Spawned, AigwTypeOK
<1>2. CleanupMeant
  BY DEF AigwInv, TreesInv, PhaseTrees, Spawned, CleanupMeant
<1>3. ClosedClean
  BY DEF AigwInv, TreesInv, FilesInv, Owned, PhaseTrees, SidecarsStopped, Spawned, ClosedClean
<1> QED
  BY <1>1, <1>2, <1>3 DEF AigwInv, TreesInv, FilesInv, AigwSafe

\* Whatever dies whenever, and wherever the exit callback of a child runs between
\* two awaits of an apply: one process tree serves, the pointers only move forward
\* to releases that were served, a log is sealed only when its writer is gone, and
\* close leaves nothing behind (local-aigw.ts), for any number of releases, trees,
\* crashes and deaths.
THEOREM AigwIsSafe == AigwSpec => []AigwSafe
<1>1. AigwSpec => []AigwInv
  BY AigwInvInit, AigwInvStep, PTL DEF AigwSpec
<1> QED
  BY <1>1, AigwInvSafe, PTL

-----------------------------------------------------------------------------
(* Delivery: the inductive invariant *)

\* The Platform has a command row for Self with this reference.
Commanded(ref) ==
    ref # NoRef => /\ commands[Self][ref.id].state # "NONE"
                   /\ commands[Self][ref.id].rev = ref.rev

\* Whatever Self has written, holds or was trusted with was commanded.
RefsCommanded ==
    \A ref \in {pointer, routes, lkg, saved, cur, task, observed[Self].applied} : Commanded(ref)

\* Reports say READY or DEGRADED of a command, and READY only of a release no
\* newer than the state file: those to be posted, and those in flight.
Terminal == {"READY", "DEGRADED"}

ReportsDurable ==
    /\ step \in {"report", "sent"} =>
         out.command \in ReleaseIds /\ out.rev \in 1..MaxRevision /\ out.state \in Terminal
    /\ \A rep \in net : /\ rep.state \in Terminal
                        /\ rep.state = "READY" => rep.applied.rev <= saved.rev

\* A settled command is not newer than the observation, which is terminal: it
\* hides every command up to its revision.
SettledIsHidden ==
    /\ observed[Self].rev # 0 => observed[Self].state \in Terminal
    /\ \A id \in ReleaseIds :
         commands[Self][id].state \in {"ACKNOWLEDGED", "FAILED"} =>
             commands[Self][id].rev <= observed[Self].rev

\* The floor stands at a commanded release, an open poll has listed nothing
\* below it, and none is open while the controller has a command in hand.
FloorCommanded ==
    /\ floor # 0 => \E id \in ReleaseIds : /\ commands[Self][id].state # "NONE"
                                           /\ commands[Self][id].rev = floor
    /\ polled[Self] # NoRef => polled[Self].rev >= floor
    /\ step = "command" => polled[Self] = NoRef /\ task.rev >= floor

\* The Platform trusts and counts as acknowledged only what is in the state
\* file or older.
TrustSaved ==
    /\ observed[Self].applied.rev <= saved.rev
    /\ \A id \in ReleaseIds :
         commands[Self][id].state = "ACKNOWLEDGED" => commands[Self][id].rev <= saved.rev

DeliveryInv ==
    /\ RowsInv /\ RuntimeInv
    /\ net \subseteq Reports
    /\ posted \in ReportIds \cup {None}
    /\ RefsCommanded /\ ReportsDurable /\ SettledIsHidden /\ FloorCommanded /\ TrustSaved

-----------------------------------------------------------------------------
(* References and commands *)

\* The types of what the composition shares.
LEMMA DeliveryTypes ==
    ASSUME DeliveryInv
    PROVE  /\ Self \in Runtimes
           /\ \A ref \in {pointer, routes, lkg, saved, cur, task, observed[Self].applied, polled[Self]} :
                ref \in AnyRef /\ ref.rev \in Nat
           /\ observed[Self].rev \in Nat /\ floor \in Nat
           /\ \A id \in ReleaseIds : commands[Self][id].rev \in Nat
<1>1. /\ Self \in Runtimes /\ ControlTypeOK /\ RuntimeTypeOK
  BY SelfAssumption DEF DeliveryInv, RowsInv, RuntimeInv
<1>2. observed[Self] \in Observations /\ polled[Self] \in AnyRef /\ commands[Self] \in [ReleaseIds -> Commands]
  BY <1>1 DEF ControlTypeOK
<1>3. observed[Self].applied \in AnyRef /\ observed[Self].rev \in Nat /\ floor \in Nat
  BY <1>1, <1>2, ReleaseAssumption DEF Observations, RuntimeTypeOK
<1>4. \A id \in ReleaseIds : commands[Self][id].rev \in Nat
  BY <1>2, ReleaseAssumption DEF Commands, CommandRows, NoCommand
<1> QED
  BY <1>1, <1>2, <1>3, <1>4, RefTypes DEF RuntimeTypeOK

\* Two references the Platform commanded under one revision are the same.
LEMMA SameRevision ==
    ASSUME RowsInv, NEW a \in AnyRef, NEW b \in AnyRef, Commanded(a), Commanded(b), a.rev = b.rev
    PROVE  a = b
<1>1. CASE a = NoRef \/ b = NoRef
  BY <1>1, RefTypes DEF AnyRef
<1>2. CASE a \in Refs /\ b \in Refs
  <2>1. /\ commands[Self][a.id].state # "NONE" /\ commands[Self][a.id].rev = a.rev
        /\ commands[Self][b.id].state # "NONE" /\ commands[Self][b.id].rev = b.rev
    BY <1>2, RefTypes DEF Commanded
  <2>2. a.id = b.id
    BY <1>2, <2>1, RefTypes, SelfAssumption DEF RowsInv, RevisionNamesRelease
  <2> QED
    BY <1>2, <2>2 DEF Refs
<1> QED
  BY <1>1, <1>2 DEF AnyRef

\* A commanded reference is published.
LEMMA CommandedPublished ==
    ASSUME RowsInv, NEW ref \in AnyRef, Commanded(ref)
    PROVE  ref.rev <= head.rev
<1>1. head.rev \in Nat
  BY RefTypes DEF RowsInv, ControlTypeOK
<1>2. CASE ref = NoRef
  BY <1>1, <1>2, RefTypes
<1>3. CASE ref \in Refs
  BY <1>3, RefTypes, SelfAssumption DEF Commanded, RowsInv, HeadNamesRelease
<1> QED
  BY <1>2, <1>3 DEF AnyRef

\* What the invariant says of the properties the run checks.
LEMMA DeliveryInvImplies == DeliveryInv => DeliveryTypeOK /\ PlatformNotAhead /\ OfferedIsCurrent
<1> SUFFICES ASSUME DeliveryInv PROVE DeliveryTypeOK /\ PlatformNotAhead /\ OfferedIsCurrent
  OBVIOUS
<1>1. DeliveryTypeOK
  BY DEF DeliveryInv, DeliveryTypeOK, RowsInv, RuntimeInv
<1>2. PlatformNotAhead
  <2>1. observed[Self].applied.rev = saved.rev => observed[Self].applied = saved
    BY DeliveryTypes, SameRevision DEF DeliveryInv, RefsCommanded
  <2> QED
    BY <2>1 DEF DeliveryInv, TrustSaved, PlatformNotAhead
<1>3. OfferedIsCurrent
  <2> SUFFICES ASSUME step = "command" PROVE FloorAllows(task) /\ (task = cur \/ Applicable)
    BY DEF OfferedIsCurrent
  <2>1. task.rev >= floor
    BY DEF DeliveryInv, FloorCommanded
  <2>2. cur = NoRef \/ cur.rev <= floor
    BY DeliveryTypes DEF DeliveryInv, RuntimeInv, MemoryIsSaved, PromotionOrder
  <2>3. CASE cur = NoRef
    BY <2>1, <2>3 DEF FloorAllows, Applicable
  <2>4. CASE cur # NoRef
    <3>1. task.rev > cur.rev \/ task.rev = cur.rev
      BY <2>1, <2>2, <2>4, DeliveryTypes
    <3>2. task.rev = cur.rev => task = cur
      BY DeliveryTypes, SameRevision DEF DeliveryInv, RefsCommanded
    <3> QED
      BY <2>1, <3>1, <3>2 DEF FloorAllows, Applicable
  <2> QED
    BY <2>3, <2>4
<1> QED
  BY <1>1, <1>2, <1>3

-----------------------------------------------------------------------------
(* The two sides *)

\* The transactions of the store other than the recording of a report.
StoreStep ==
    \/ \E r \in Runtimes : \/ RegisterRuntime(r) \/ RetireRuntime(r) \/ SaveCapabilities(r)
                           \/ PollList(r) \/ PollDeliver(r) \/ PollConflict(r)
    \/ \E id \in ReleaseIds : CommitRelease(id)

\* They keep every command row but for its delivery mark, and only add
\* PENDING ones.
LEMMA StoreKeepsRows ==
    ASSUME RowsInv, StoreStep
    PROVE  /\ RowsInv'
           /\ observed' = observed
           /\ \A id \in ReleaseIds :
                \/ /\ commands'[Self][id].state = commands[Self][id].state
                   /\ commands'[Self][id].rev = commands[Self][id].rev
                \/ commands[Self][id].state = "NONE" /\ commands'[Self][id].state = "PENDING"
<1> DEFINE Kept == \A id \in ReleaseIds :
             \/ /\ commands'[Self][id].state = commands[Self][id].state
                /\ commands'[Self][id].rev = commands[Self][id].rev
             \/ commands[Self][id].state = "NONE" /\ commands'[Self][id].state = "PENDING"
<1>1. ControlTypeOK /\ PolledIsCommand /\ Self \in Runtimes
  BY SelfAssumption DEF RowsInv
<1>2. ControlNext
  BY Zenon DEF StoreStep, ControlNext
<1>3. RowsInv'
  BY <1>2, RowsStep
<1>4. observed' = observed
  BY DEF StoreStep, RegisterRuntime, RetireRuntime, SaveCapabilities, PollList, PollDeliver,
     PollConflict, CommitRelease
<1>5. ASSUME commands' = commands PROVE Kept
  BY <1>5
<1>6. ASSUME NEW id \in ReleaseIds, CommitRelease(id) PROVE Kept
  <2>1. \A a \in ReleaseIds :
          \/ commands'[Self][a] = commands[Self][a]
          \/ /\ commands[Self][a].state = "NONE"
             /\ commands'[Self][a] = [rev |-> NextHead(id).rev, state |-> "PENDING", delivered |-> FALSE]
    BY <1>1, <1>6, CommitRows
  <2> QED
    BY <2>1
<1>7. ASSUME NEW r \in Runtimes, PollDeliver(r) PROVE Kept
  <2>1. polled[r].id \in ReleaseIds
    BY <1>1, <1>7 DEF PollDeliver, ControlTypeOK, AnyRef, Refs
  <2>2. commands[r][polled[r].id] \in CommandRows
    BY <1>1, <1>7, <2>1, CommandRow DEF PollDeliver, PolledIsCommand
  <2> QED
    BY <1>1, <1>7, <2>1, <2>2 DEF PollDeliver, ControlTypeOK, CommandRows
<1>8. Kept
  BY <1>5, <1>6, <1>7 DEF StoreStep, RegisterRuntime, RetireRuntime, SaveCapabilities, PollList,
     PollConflict
<1> QED
  BY <1>3, <1>4, <1>8

\* The steps of the controller other than receiving a command.
OwnStep ==
    \/ Crash \/ Apply \/ FetchRefused \/ BeginPoll \/ PollFails \/ ReportCurrent \/ NothingToDo
    \/ PostReport \/ ReportAnswered \/ ReportFails

\* A fetch the Platform refuses ends the task like any refusal.
LEMMA FetchRefusedKeeps ==
    ASSUME RuntimeInv, FetchRefused
    PROVE  RuntimeInv'
BY ReleaseAssumption, RuntimeAssumption, RefTypes, NoObservationType, ReportTypes
DEF RuntimeInv, RuntimeTypeOK, TaskProgress, MemoryIsSaved, PromotionOrder, ReadyIsDurable,
    RevocationsCovered, AnyRef, Steps, Sidecars, durableVars, FetchRefused, EndDegraded

\* What a step of the controller does to its marks, its floor, its task and
\* its report.
LEMMA OwnStepKeeps ==
    ASSUME RuntimeInv, OwnStep
    PROVE  /\ RuntimeInv'
           /\ saved'.rev >= saved.rev
           /\ {pointer', routes', lkg', saved', cur', task'}
                 \subseteq {pointer, routes, lkg, saved, cur, task, NoRef}
           /\ floor' = floor \/ (floor' = task.rev /\ step = "command")
           /\ step' # "command"
           /\ step' \in {"report", "sent"} =>
                \/ step \in {"report", "sent"} /\ out' = out
                \/ out'.command \in ReleaseIds /\ out'.rev \in 1..MaxRevision /\ out'.state \in Terminal
<1>1. RuntimeNext \/ FetchRefused
  BY Zenon DEF OwnStep, RuntimeNext
<1>2. RuntimeInv'
  BY <1>1, RuntimeInvStep, FetchRefusedKeeps
<1>3. saved'.rev >= saved.rev
  <2>1. CASE RuntimeNext
    BY <2>1, MarksStep
  <2>2. CASE FetchRefused
    BY <2>2, RefTypes DEF FetchRefused, EndDegraded, durableVars, RuntimeInv, RuntimeTypeOK
  <2> QED
    BY <1>1, <2>1, <2>2
<1> DEFINE Rest ==
           /\ {pointer', routes', lkg', saved', cur', task'}
                 \subseteq {pointer, routes, lkg, saved, cur, task, NoRef}
           /\ floor' = floor \/ (floor' = task.rev /\ step = "command")
           /\ step' # "command"
           /\ step' \in {"report", "sent"} =>
                \/ step \in {"report", "sent"} /\ out' = out
                \/ out'.command \in ReleaseIds /\ out'.rev \in 1..MaxRevision /\ out'.state \in Terminal
<1> USE DEF durableVars, Terminal
<1>4. ASSUME FetchRefused \/ RefuseCommand \/ FetchFails \/ ApplyFails PROVE Rest
  <2>1. task \in Refs
    BY <1>4 DEF FetchRefused, RefuseCommand, FetchFails, ApplyFails, RuntimeInv, TaskProgress
  <2>2. EndDegraded
    BY <1>4 DEF FetchRefused, RefuseCommand, FetchFails, ApplyFails
  <2> QED
    BY <2>1, <2>2, RefTypes DEF EndDegraded, Degraded, Refs
<1>5. ASSUME AlreadyApplied \/ SaveState PROVE Rest
  <2>1. task \in Refs
    BY <1>5 DEF AlreadyApplied, SaveState, RuntimeInv, TaskProgress
  <2> QED
    BY <1>5, <2>1, RefTypes DEF AlreadyApplied, SaveState, Ready, Refs
<1>6. ASSUME ReportCurrent PROVE Rest
  <2>1. cur \in Refs
    BY <1>6 DEF ReportCurrent, RuntimeInv, RuntimeTypeOK, AnyRef
  <2> QED
    BY <1>6, <2>1 DEF ReportCurrent, Refs
<1>7. ASSUME RestoreBegin PROVE Rest
  <2>1. floor' = floor
    BY <1>7, RefTypes, ReleaseAssumption
    DEF RestoreBegin, AdvanceFloor, FloorAllows, RuntimeInv, RuntimeTypeOK, PromotionOrder
  <2> QED
    BY <1>7, <2>1 DEF RestoreBegin, AdvanceFloor
<1>8. ASSUME BeginApply PROVE Rest
  BY <1>8 DEF BeginApply, AdvanceFloor
<1>9. ASSUME RestoreNothing \/ RestoreRejected \/ AdvancePointer \/ (\E t \in Sidecars : SidecarReady(t))
             \/ ApplyRoutes \/ PromoteLkg \/ RestoreDone \/ RestoreFails
      PROVE  Rest
  BY <1>9 DEF RestoreNothing, RestoreRejected, AdvancePointer, SidecarReady, ApplyRoutes, PromoteLkg,
     RestoreDone, RestoreFails
<1>10. ASSUME Crash \/ BeginPoll \/ PollFails \/ NothingToDo \/ PostReport \/ ReportAnswered \/ ReportFails
       PROVE  Rest
  BY <1>10 DEF Crash, BeginPoll, PollFails, NothingToDo, PostReport, ReportAnswered, ReportFails
<1>11. Rest
  BY <1>4, <1>5, <1>6, <1>7, <1>8, <1>9, <1>10, Zenon DEF OwnStep, Apply
<1> QED
  BY <1>2, <1>3, <1>11

-----------------------------------------------------------------------------
(* The invariant is inductive *)

\* A command a poll lists is not older than the floor: either the floor's own
\* command is still pending, and a newer one would only be later, or it is
\* settled, and the terminal observation hides all up to it.
LEMMA ListedNotBehind ==
    ASSUME DeliveryInv, PollList(Self)
    PROVE  polled'[Self] # NoRef /\ polled'[Self].rev >= floor
<1>1. PICK id \in ReleaseIds :
        /\ Newest(Self, id)
        /\ polled' = [polled EXCEPT ![Self] = [id |-> id, rev |-> commands[Self][id].rev]]
  BY DEF PollList
<1>2. polled'[Self] = [id |-> id, rev |-> commands[Self][id].rev]
  BY <1>1, SelfAssumption DEF DeliveryInv, RowsInv, ControlTypeOK
<1>3. commands[Self][id] \in CommandRows /\ ~ Masked(Self, commands[Self][id].rev)
  BY <1>1, CommandRow, SelfAssumption DEF Newest, Pending, DeliveryInv, RowsInv
<1>4. commands[Self][id].rev \in Nat /\ commands[Self][id].rev >= 1
  BY <1>3, ReleaseAssumption DEF CommandRows
<1>5. commands[Self][id].rev >= floor
  <2>0. CASE floor = 0
    BY <1>4, <2>0
  <2>1. CASE floor # 0 /\ observed[Self].rev >= floor
    <3>1. observed[Self].state \in Terminal
      BY <2>1, DeliveryTypes DEF DeliveryInv, SettledIsHidden
    <3>2. ~ (observed[Self].rev >= commands[Self][id].rev)
      BY <1>3, <3>1 DEF Masked, Terminal
    <3> QED
      BY <1>4, <2>1, <3>2, DeliveryTypes
  <2>2. CASE floor # 0 /\ ~ (observed[Self].rev >= floor)
    <3>1. PICK a \in ReleaseIds : commands[Self][a].state # "NONE" /\ commands[Self][a].rev = floor
      BY <2>2 DEF DeliveryInv, FloorCommanded
    <3>2. commands[Self][a] \in CommandRows
      BY <3>1, CommandRow, SelfAssumption DEF DeliveryInv, RowsInv
    <3>3. commands[Self][a].state \notin {"ACKNOWLEDGED", "FAILED"}
      BY <2>2, <3>1, DeliveryTypes DEF DeliveryInv, SettledIsHidden
    <3>4. commands[Self][a].state = "PENDING"
      BY <3>2, <3>3 DEF CommandRows
    <3>5. a \in Pending(Self)
      BY <2>2, <3>1, <3>4 DEF Pending, Masked, PollList
    <3> QED
      BY <1>1, <3>1, <3>5 DEF Newest
  <2> QED
    BY <2>0, <2>1, <2>2
<1>6. polled'[Self] # NoRef
  BY <1>2, ReleaseAssumption DEF NoRef
<1> QED
  BY <1>2, <1>5, <1>6

\* What a step must do on each side to keep the invariant, reports that the
\* Platform accepts apart.
LEMMA StepKeeps ==
    ASSUME DeliveryInv, RowsInv', RuntimeInv',
           observed' = observed,
           \A id \in ReleaseIds :
             \/ /\ commands'[Self][id].state = commands[Self][id].state
                /\ commands'[Self][id].rev = commands[Self][id].rev
             \/ commands[Self][id].state = "NONE" /\ commands'[Self][id].state = "PENDING",
           saved'.rev >= saved.rev,
           {pointer', routes', lkg', saved', cur', task'}
              \subseteq {pointer, routes, lkg, saved, cur, task, NoRef, polled[Self]},
           floor' = floor \/ (floor' = task.rev /\ step = "command"),
           step' \in {"report", "sent"} =>
              \/ step \in {"report", "sent"} /\ out' = out
              \/ out'.command \in ReleaseIds /\ out'.rev \in 1..MaxRevision /\ out'.state \in Terminal,
           net' \subseteq Reports, posted' \in ReportIds \cup {None},
           \A rep \in net' : \/ rep \in net
                             \/ rep.state \in Terminal /\ (rep.state = "READY" => rep.applied = saved'),
           polled'[Self] # NoRef => polled'[Self].rev >= floor',
           step' = "command" => polled'[Self] = NoRef /\ task'.rev >= floor'
    PROVE  DeliveryInv'
<1>0. /\ RowsInv /\ RuntimeInv /\ RefsCommanded /\ ReportsDurable /\ SettledIsHidden
      /\ FloorCommanded /\ TrustSaved
  BY DEF DeliveryInv
<1>1. \A id \in ReleaseIds : commands[Self][id].state # "NONE" =>
        commands'[Self][id].state # "NONE" /\ commands'[Self][id].rev = commands[Self][id].rev
  OBVIOUS
<1>2. \A ref \in AnyRef : Commanded(ref) =>
        (ref # NoRef => /\ commands'[Self][ref.id].state # "NONE"
                        /\ commands'[Self][ref.id].rev = ref.rev)
  BY <1>1, RefTypes DEF Commanded, AnyRef
<1>3. \A ref \in {pointer, routes, lkg, saved, cur, task, NoRef, polled[Self], observed[Self].applied} :
        ref \in AnyRef /\ Commanded(ref)
  <2>1. Commanded(NoRef) /\ NoRef \in AnyRef
    BY DEF Commanded, AnyRef
  <2>2. Commanded(polled[Self])
    BY <1>0, SelfAssumption DEF RowsInv, PolledIsCommand, Commanded
  <2> QED
    BY <1>0, <2>1, <2>2, DeliveryTypes DEF RefsCommanded
<1>4. RefsCommanded'
  <2>1. \A ref \in {pointer', routes', lkg', saved', cur', task', observed'[Self].applied} :
          ref \in {pointer, routes, lkg, saved, cur, task, NoRef, polled[Self], observed[Self].applied}
    OBVIOUS
  <2>2. \A ref \in {pointer', routes', lkg', saved', cur', task', observed'[Self].applied} :
          ref # NoRef => /\ commands'[Self][ref.id].state # "NONE"
                         /\ commands'[Self][ref.id].rev = ref.rev
    BY <1>2, <1>3, <2>1
  <2> QED
    BY <2>2 DEF RefsCommanded, Commanded
<1>5. \A rep \in net : rep \in Reports /\ rep.applied.rev \in Nat
  BY RefTypes DEF DeliveryInv, Reports
<1>6. saved.rev \in Nat /\ saved'.rev \in Nat
  BY DeliveryTypes, RefTypes DEF RuntimeInv, RuntimeTypeOK
<1>7. ReportsDurable'
  <2>1. \A rep \in net' : /\ rep.state \in Terminal
                          /\ rep.state = "READY" => rep.applied.rev <= saved'.rev
    <3> SUFFICES ASSUME NEW rep \in net'
                 PROVE  /\ rep.state \in Terminal
                        /\ rep.state = "READY" => rep.applied.rev <= saved'.rev
      OBVIOUS
    <3>1. CASE rep \in net
      <4>1. rep.state \in Terminal /\ (rep.state = "READY" => rep.applied.rev <= saved.rev)
        BY <1>0, <3>1 DEF ReportsDurable
      <4>2. rep.applied.rev \in Nat
        BY <1>5, <3>1
      <4> QED
        BY <1>6, <4>1, <4>2
    <3>2. CASE rep.state \in Terminal /\ (rep.state = "READY" => rep.applied = saved')
      BY <1>6, <3>2
    <3> QED
      BY <3>1, <3>2
  <2>2. step' \in {"report", "sent"} =>
          out'.command \in ReleaseIds /\ out'.rev \in 1..MaxRevision /\ out'.state \in Terminal
    BY <1>0 DEF ReportsDurable
  <2> QED
    BY <2>1, <2>2 DEF ReportsDurable
<1>8. SettledIsHidden'
  BY <1>0 DEF SettledIsHidden
<1>9. FloorCommanded'
  <2>1. CASE floor' = floor
    BY <1>0, <1>1, <2>1 DEF FloorCommanded
  <2>2. CASE floor' = task.rev /\ step = "command"
    <3>1. task \in Refs
      BY <1>0, <2>2 DEF RuntimeInv, TaskProgress
    <3>2. commands'[Self][task.id].state # "NONE" /\ commands'[Self][task.id].rev = floor'
      BY <1>2, <1>3, <2>2, <3>1, RefTypes
    <3> QED
      BY <2>2, <3>1, <3>2, RefTypes DEF FloorCommanded
  <2> QED
    BY <2>1, <2>2
<1>10. TrustSaved'
  <2>1. observed'[Self].applied.rev <= saved'.rev
    BY <1>0, <1>6, DeliveryTypes DEF TrustSaved
  <2>2. ASSUME NEW id \in ReleaseIds, commands'[Self][id].state = "ACKNOWLEDGED"
        PROVE  commands'[Self][id].rev <= saved'.rev
    <3>1. commands[Self][id].state = "ACKNOWLEDGED" /\ commands'[Self][id].rev = commands[Self][id].rev
      BY <2>2
    <3> QED
      BY <1>0, <1>6, <3>1, DeliveryTypes DEF TrustSaved
  <2> QED
    BY <2>1, <2>2 DEF TrustSaved
<1> QED
  BY <1>4, <1>7, <1>8, <1>9, <1>10 DEF DeliveryInv

\* A transaction of the store while the controller does nothing.
LEMMA StoreAlone ==
    ASSUME DeliveryInv, StoreStep, UNCHANGED <<runtimeVars, net, posted>>,
           polled'[Self] # NoRef => polled'[Self].rev >= floor,
           step = "command" => polled'[Self] = NoRef
    PROVE  DeliveryInv'
<1>1. RowsInv /\ RuntimeInv
  BY DEF DeliveryInv
<1>2. /\ pointer' = pointer /\ routes' = routes /\ lkg' = lkg /\ saved' = saved /\ cur' = cur
      /\ task' = task /\ floor' = floor /\ revoked' = revoked /\ step' = step /\ out' = out
      /\ restoring' = restoring /\ ready' = ready /\ faults' = faults /\ net' = net /\ posted' = posted
  BY DEF runtimeVars, durableVars, processVars
<1>3. RuntimeInv'
  BY <1>1, <1>2 DEF RuntimeInv, RuntimeTypeOK, TaskProgress, MemoryIsSaved, PromotionOrder, ReadyIsDurable,
     RevocationsCovered
<1>4. saved'.rev >= saved.rev
  BY <1>2, DeliveryTypes
<1>5. net' \subseteq Reports /\ posted' \in ReportIds \cup {None}
      /\ (step = "command" => task'.rev >= floor')
  BY <1>2 DEF DeliveryInv, FloorCommanded
<1> QED
  BY <1>1, <1>2, <1>3, <1>4, <1>5, StoreKeepsRows, StepKeeps

\* A step of the controller while the store does nothing.
LEMMA OwnAlone ==
    ASSUME DeliveryInv, OwnStep, UNCHANGED controlVars,
           net' \subseteq Reports, posted' \in ReportIds \cup {None},
           \A rep \in net' : \/ rep \in net
                             \/ rep.state \in Terminal /\ (rep.state = "READY" => rep.applied = saved')
    PROVE  DeliveryInv'
<1>1. RowsInv /\ RuntimeInv
  BY DEF DeliveryInv
<1>2. RowsInv' /\ observed' = observed /\ commands' = commands /\ polled' = polled
  BY <1>1, RowsStep DEF controlVars
<1>3. polled'[Self] # NoRef => polled'[Self].rev >= floor'
  BY <1>1, <1>2, OwnStepKeeps DEF DeliveryInv, FloorCommanded
<1> QED
  BY <1>1, <1>2, <1>3, OwnStepKeeps, StepKeeps

\* The controller sends what it has to report.
LEMMA SendReportKeeps ==
    ASSUME DeliveryInv, SendReport
    PROVE  DeliveryInv'
<1>1. InFlight \subseteq ReportIds
  BY DEF InFlight, DeliveryInv, Reports
<1>2. PICK id \in ReportIds :
        /\ net' = net \cup {[report |-> id, command |-> out.command, rev |-> out.rev,
                             state |-> out.state, applied |-> out.applied]}
        /\ posted' = id
  <2> DEFINE id == CHOOSE p \in ReportIds \ InFlight : TRUE
  <2>1. id \in ReportIds
    BY <1>1 DEF SendReport
  <2> QED
    BY <2>1 DEF SendReport
<1>3. /\ out.command \in ReleaseIds /\ out.rev \in 1..MaxRevision /\ out.state \in Terminal
      /\ out.applied \in AnyRef
      /\ out.state = "READY" => out.applied = saved
  BY DEF SendReport, PostReport, DeliveryInv, ReportsDurable, RuntimeInv, ReadyIsDurable, RuntimeTypeOK,
     Observations
<1>4. [report |-> id, command |-> out.command, rev |-> out.rev,
       state |-> out.state, applied |-> out.applied] \in Reports
  BY <1>3 DEF Reports, ReportStates, Terminal
<1>5. saved' = saved
  BY DEF SendReport, PostReport, durableVars
<1>6. /\ net' \subseteq Reports /\ posted' \in ReportIds \cup {None}
      /\ \A rep \in net' : \/ rep \in net
                           \/ rep.state \in Terminal /\ (rep.state = "READY" => rep.applied = saved')
  BY <1>2, <1>3, <1>4, <1>5 DEF DeliveryInv
<1>7. OwnStep /\ UNCHANGED controlVars
  BY Zenon DEF SendReport, OwnStep
<1> QED
  BY <1>6, <1>7, OwnAlone

\* The Platform answers a poll, with the listed command or with a conflict.
LEMMA AnswerPollKeeps ==
    ASSUME DeliveryInv, AnswerPoll \/ AnswerConflict
    PROVE  DeliveryInv'
<1>1. /\ Self \in Runtimes /\ StoreStep /\ polled'[Self] = NoRef /\ polled[Self] # NoRef
      /\ net' = net /\ posted' = posted
  BY SelfAssumption
  DEF AnswerPoll, AnswerConflict, PollDeliver, PollConflict, StoreStep, DeliveryInv, RowsInv, ControlTypeOK
<1>2. RowsInv /\ RuntimeInv /\ net' \subseteq Reports /\ posted' \in ReportIds \cup {None}
  BY <1>1 DEF DeliveryInv
<1>3. CASE UNCHANGED runtimeVars
  BY <1>1, <1>3, StoreAlone
<1>4. CASE NothingToDo
  <2>1. OwnStep
    BY <1>4 DEF OwnStep
  <2> QED
    BY <1>1, <1>2, <2>1, OwnStepKeeps, StoreKeepsRows, StepKeeps
<1>5. CASE Receive(polled[Self])
  <2>1. polled[Self] \in Refs /\ polled[Self].rev >= floor
    BY <1>1, DeliveryTypes DEF DeliveryInv, FloorCommanded, AnyRef
  <2>2. RuntimeInv'
    <3>1. \A ref \in {pointer, routes, lkg, saved, cur, polled[Self]} : ref \in AnyRef /\ Commanded(ref)
      BY <1>1, DeliveryTypes DEF DeliveryInv, RefsCommanded, RowsInv, PolledIsCommand, Commanded
    <3>2. Signed(polled[Self])
      <4> SUFFICES ASSUME NEW mark \in {pointer, routes, lkg, saved, cur}, mark.id = polled[Self].id
                   PROVE  mark = polled[Self]
        BY DEF Signed
      <4>1. mark # NoRef
        BY <2>1, RefTypes, ReleaseAssumption
      <4>2. mark.rev = polled[Self].rev
        BY <1>1, <3>1, <4>1 DEF Commanded
      <4> QED
        BY <1>2, <3>1, <4>2, SameRevision
    <3>3. RuntimeNext
      BY <1>5, <2>1, <3>2, Zenon DEF RuntimeNext
    <3> QED
      BY <1>2, <3>3, RuntimeInvStep
  <2>3. /\ pointer' = pointer /\ routes' = routes /\ lkg' = lkg /\ saved' = saved /\ cur' = cur
        /\ task' = polled[Self] /\ floor' = floor /\ step' = "command"
    BY <1>5 DEF Receive, durableVars
  <2>4. saved'.rev >= saved.rev
    BY <2>3, DeliveryTypes
  <2> QED
    BY <1>1, <1>2, <2>1, <2>2, <2>3, <2>4, StoreKeepsRows, StepKeeps
<1> QED
  BY <1>3, <1>4, <1>5 DEF AnswerPoll, AnswerConflict

\* The sender of a report gets its answer, or waits no more: nothing durable
\* changes.
LEMMA AnswerKeeps ==
    ASSUME DeliveryInv, NEW rep \in net, Answer(rep)
    PROVE  /\ RuntimeInv'
           /\ net' \subseteq net /\ net' \subseteq Reports /\ posted' \in ReportIds \cup {None}
           /\ pointer' = pointer /\ routes' = routes /\ lkg' = lkg /\ saved' = saved /\ cur' = cur
           /\ task' = task /\ floor' = floor
           /\ (step' = step /\ out' = out) \/ step' = "idle"
<1>1. OwnStep \/ UNCHANGED runtimeVars
  BY DEF Answer, OwnStep
<1>2. RuntimeInv'
  <2>1. CASE OwnStep
    BY <2>1, OwnStepKeeps DEF DeliveryInv
  <2>2. CASE UNCHANGED runtimeVars
    BY <2>2, RuntimeInvStep DEF DeliveryInv
  <2> QED
    BY <1>1, <2>1, <2>2
<1> QED
  BY <1>2 DEF Answer, DeliveryInv, ReportAnswered, durableVars, runtimeVars, processVars

\* The Platform refuses a report or finds it stale.
LEMMA DiscardKeeps ==
    ASSUME DeliveryInv, NEW rep \in net, DiscardReport(rep)
    PROVE  DeliveryInv'
<1>1. RowsInv' /\ observed' = observed /\ commands' = commands /\ polled' = polled
  BY RowsStep DEF DiscardReport, controlVars, DeliveryInv
<1>2. Answer(rep)
  BY DEF DiscardReport
<1>3. /\ RuntimeInv'
      /\ net' \subseteq net /\ net' \subseteq Reports /\ posted' \in ReportIds \cup {None}
      /\ pointer' = pointer /\ routes' = routes /\ lkg' = lkg /\ saved' = saved /\ cur' = cur
      /\ task' = task /\ floor' = floor
      /\ (step' = step /\ out' = out) \/ step' = "idle"
  BY <1>2, AnswerKeeps
<1>4. saved'.rev >= saved.rev
  BY <1>3, DeliveryTypes
<1>5. /\ polled'[Self] # NoRef => polled'[Self].rev >= floor'
      /\ step' = "command" => polled'[Self] = NoRef /\ task'.rev >= floor'
  BY <1>1, <1>3 DEF DeliveryInv, FloorCommanded
<1>6. step' \in {"report", "sent"} => step \in {"report", "sent"} /\ out' = out
  BY <1>3
<1> QED
  BY <1>1, <1>3, <1>4, <1>5, <1>6, StepKeeps

\* The Platform accepts a report, however late: READY names a release that is
\* in the state file or older, and any report settles no more than it hides.
LEMMA AcceptKeeps ==
    ASSUME DeliveryInv, NEW rep \in net, AcceptReport(rep)
    PROVE  DeliveryInv'
<1> DEFINE id == rep.command
<1>0. /\ RowsInv /\ ControlTypeOK /\ RefsCommanded /\ ReportsDurable /\ SettledIsHidden
      /\ FloorCommanded /\ TrustSaved /\ Self \in Runtimes /\ rep \in Reports
  BY SelfAssumption DEF DeliveryInv, RowsInv
<1>1. /\ commands[Self][id].state # "NONE" /\ Verified(Self, rep) /\ ~ Stale(Self, rep)
      /\ ApplyReport(Self, rep) /\ Answer(rep) /\ Parsed(rep)
      /\ head' = head /\ polled' = polled /\ status' = status /\ capable' = capable /\ history' = history
  BY DEF AcceptReport, Recordable
<1>2. /\ id \in ReleaseIds /\ rep.rev \in Nat /\ rep.rev >= 1 /\ rep.applied \in AnyRef
      /\ rep.state \in Terminal
      /\ rep.state = "READY" => rep.applied.rev <= saved.rev
  BY <1>0, ReleaseAssumption DEF Reports, ReportsDurable
<1>3. RowsInv'
  <2>1. PolledIsCommand' /\ HeadNamesRelease' /\ RevisionNamesRelease' /\ AppliedNotAhead'
    BY <1>0, <1>1, RowsReport
  <2>2. ControlTypeOK'
    BY <1>0, <1>1, TypeReport DEF ControlTypeOK
  <2> QED
    BY <2>1, <2>2 DEF RowsInv
<1>4. /\ \A a \in ReleaseIds :
           /\ commands'[Self][a].rev = commands[Self][a].rev
           /\ a # id => commands'[Self][a].state = commands[Self][a].state
           /\ commands'[Self][a].state # "NONE" <=> commands[Self][a].state # "NONE"
      /\ commands'[Self][id].state = Settled(commands[Self][id].state, rep.state)
      /\ observed'[Self].rev = rep.rev /\ observed'[Self].state = rep.state
      /\ observed'[Self].applied = IF rep.applied # NoRef THEN rep.applied ELSE observed[Self].applied
  BY <1>0, <1>1, ReportRows
<1>5. /\ RuntimeInv'
      /\ net' \subseteq net /\ net' \subseteq Reports /\ posted' \in ReportIds \cup {None}
      /\ pointer' = pointer /\ routes' = routes /\ lkg' = lkg /\ saved' = saved /\ cur' = cur
      /\ task' = task /\ floor' = floor
      /\ (step' = step /\ out' = out) \/ step' = "idle"
  BY <1>1, AnswerKeeps
<1>6. rep.rev = commands[Self][id].rev /\ observed[Self].rev <= rep.rev
  BY <1>0, <1>1, <1>2, DeliveryTypes DEF Verified, Stale
<1>7. \/ observed'[Self].applied = observed[Self].applied
      \/ /\ rep.state = "READY"
         /\ observed'[Self].applied = [id |-> id, rev |-> rep.rev]
         /\ observed'[Self].applied.rev <= saved.rev
  BY <1>1, <1>2, <1>4, <1>6 DEF Verified, Desired
<1>8. RefsCommanded'
  <2>1. \A ref \in AnyRef : Commanded(ref) =>
          (ref # NoRef => /\ commands'[Self][ref.id].state # "NONE"
                          /\ commands'[Self][ref.id].rev = ref.rev)
    BY <1>4, RefTypes DEF Commanded, AnyRef
  <2>2. \A ref \in {pointer, routes, lkg, saved, cur, task, observed[Self].applied} :
          ref # NoRef => /\ commands'[Self][ref.id].state # "NONE"
                         /\ commands'[Self][ref.id].rev = ref.rev
    BY <1>0, <2>1, DeliveryTypes DEF RefsCommanded
  <2>3. observed'[Self].applied # NoRef =>
          /\ commands'[Self][observed'[Self].applied.id].state # "NONE"
          /\ commands'[Self][observed'[Self].applied.id].rev = observed'[Self].applied.rev
    <3>1. CASE observed'[Self].applied = observed[Self].applied
      BY <2>2, <3>1
    <3>2. CASE observed'[Self].applied = [id |-> id, rev |-> rep.rev]
      BY <1>1, <1>2, <1>4, <1>6, <3>2
    <3> QED
      BY <1>7, <3>1, <3>2
  <2> QED
    BY <1>5, <2>2, <2>3 DEF RefsCommanded, Commanded
<1>9. ReportsDurable'
  BY <1>0, <1>5 DEF ReportsDurable
<1>10. SettledIsHidden'
  <2>1. observed'[Self].rev # 0 => observed'[Self].state \in Terminal
    BY <1>2, <1>4
  <2>2. ASSUME NEW a \in ReleaseIds, commands'[Self][a].state \in {"ACKNOWLEDGED", "FAILED"}
        PROVE  commands'[Self][a].rev <= observed'[Self].rev
    <3>1. CASE a = id
      BY <1>2, <1>4, <1>6, <3>1
    <3>2. CASE a # id
      <4>1. commands[Self][a].rev <= observed[Self].rev
        BY <1>0, <1>4, <2>2, <3>2 DEF SettledIsHidden
      <4> QED
        BY <1>2, <1>4, <1>6, <4>1, DeliveryTypes
    <3> QED
      BY <3>1, <3>2
  <2> QED
    BY <2>1, <2>2 DEF SettledIsHidden
<1>11. FloorCommanded'
  BY <1>0, <1>1, <1>4, <1>5 DEF FloorCommanded
<1>12. TrustSaved'
  <2>1. observed'[Self].applied.rev <= saved'.rev
    BY <1>0, <1>5, <1>7 DEF TrustSaved
  <2>2. ASSUME NEW a \in ReleaseIds, commands'[Self][a].state = "ACKNOWLEDGED"
        PROVE  commands'[Self][a].rev <= saved'.rev
    <3>1. CASE commands[Self][a].state = "ACKNOWLEDGED"
      BY <1>0, <1>4, <1>5, <3>1 DEF TrustSaved
    <3>2. CASE commands[Self][a].state # "ACKNOWLEDGED"
      <4>1. a = id /\ rep.state = "READY"
        BY <1>4, <2>2, <3>2 DEF Settled
      <4>2. rep.applied.rev = rep.rev
        BY <1>1, <4>1 DEF Parsed
      <4> QED
        BY <1>2, <1>4, <1>5, <1>6, <4>1, <4>2
    <3> QED
      BY <3>1, <3>2
  <2> QED
    BY <2>1, <2>2 DEF TrustSaved
<1> QED
  BY <1>3, <1>5, <1>8, <1>9, <1>10, <1>11, <1>12 DEF DeliveryInv

\* Every step of the composition keeps the invariant.
LEMMA DeliveryInvStep == DeliveryInv /\ [DeliveryNext]_vars => DeliveryInv'
<1> SUFFICES ASSUME DeliveryInv, [DeliveryNext]_vars PROVE DeliveryInv'
  OBVIOUS
<1>0. /\ Self \in Runtimes /\ RowsInv /\ RuntimeInv /\ ControlTypeOK
      /\ net \subseteq Reports /\ posted \in ReportIds \cup {None}
      /\ polled[Self] # NoRef => polled[Self].rev >= floor
      /\ step = "command" => polled[Self] = NoRef
  BY SelfAssumption DEF DeliveryInv, FloorCommanded, RowsInv
<1>1. ASSUME Platform \/ Negotiate PROVE DeliveryInv'
  <2>1. StoreStep /\ polled' = polled /\ UNCHANGED <<runtimeVars, net, posted>>
    BY <1>0, <1>1 DEF Platform, Negotiate, StoreStep, RegisterRuntime, RetireRuntime, SaveCapabilities,
       CommitRelease
  <2> QED
    BY <1>0, <2>1, StoreAlone
<1>2. ASSUME ListCommand PROVE DeliveryInv'
  <2>1. StoreStep /\ UNCHANGED <<runtimeVars, net, posted>> /\ step = "polling" /\ PollList(Self)
    BY <1>0, <1>2 DEF ListCommand, StoreStep
  <2> QED
    BY <1>0, <2>1, ListedNotBehind, StoreAlone
<1>3. ASSUME OwnStep, UNCHANGED controlVars, net' = net, posted' \in {posted, None} PROVE DeliveryInv'
  BY <1>0, <1>3, OwnAlone
<1>4. ASSUME Controller \/ ControllerFaults \/ Dies PROVE DeliveryInv'
  <2>1. OwnStep
    BY <1>4 DEF Controller, ControllerFaults, Dies, OwnStep, Apply
  <2> QED
    BY <1>3, <1>4, <2>1 DEF Controller, ControllerFaults, Dies
<1>5. ASSUME StartPoll \/ AnswerNothing \/ AnswerAndReport \/ AbandonPoll PROVE DeliveryInv'
  BY <1>3, <1>5 DEF StartPoll, AnswerNothing, AnswerAndReport, AbandonPoll, OwnStep
<1>6. ASSUME LoseReport PROVE DeliveryInv'
  <2>1. OwnStep /\ UNCHANGED controlVars /\ net' \subseteq net /\ posted' = None
    BY <1>6 DEF LoseReport, OwnStep
  <2> QED
    BY <1>0, <2>1, OwnAlone
<1>7. ASSUME NEW p \in ReportIds, ProcessReport(p) PROVE DeliveryInv'
  BY <1>7, AcceptKeeps, DiscardKeeps DEF ProcessReport
<1>8. ASSUME UNCHANGED vars PROVE DeliveryInv'
  <2>1. /\ RowsInv' /\ RuntimeInv'
    BY <1>0, <1>8, RowsStep, RuntimeInvStep DEF vars
  <2> QED
    BY <1>8, <2>1 DEF vars, controlVars, runtimeVars, durableVars, processVars, DeliveryInv, RefsCommanded,
       Commanded, ReportsDurable, SettledIsHidden, FloorCommanded, TrustSaved
<1> QED
  BY <1>1, <1>2, <1>4, <1>5, <1>6, <1>7, <1>8, AnswerPollKeeps, SendReportKeeps
  DEF DeliveryNext, AwaitAdmission

\* A deployment without releases or reports satisfies the invariant.
LEMMA DeliveryInvInit == DeliveryInit => DeliveryInv
<1> SUFFICES ASSUME DeliveryInit PROVE DeliveryInv
  OBVIOUS
<1>1. RowsInv /\ RuntimeInv
  BY InvInit, RuntimeInvInit DEF DeliveryInit, ControlInv, RowsInv
<1>2. /\ observed[Self] = NoObservation /\ polled[Self] = NoRef
      /\ commands[Self] = [id \in ReleaseIds |-> NoCommand]
  BY SelfAssumption DEF DeliveryInit, ControlInit
<1>3. RefsCommanded /\ ReportsDurable
  BY <1>2 DEF DeliveryInit, RuntimeInit, NoObservation, RefsCommanded, Commanded, ReportsDurable
<1>4. SettledIsHidden /\ TrustSaved
  BY <1>2, RefTypes DEF DeliveryInit, RuntimeInit, NoObservation, NoCommand, SettledIsHidden, TrustSaved
<1>5. FloorCommanded
  BY <1>2 DEF DeliveryInit, RuntimeInit, FloorCommanded
<1> QED
  BY <1>1, <1>3, <1>4, <1>5 DEF DeliveryInit, DeliveryInv

\* The invariant holds in every reachable state of delivery.
THEOREM DeliveryInvariance == DeliverySpec => []DeliveryInv
BY DeliveryInvInit, DeliveryInvStep, PTL DEF DeliverySpec

\* Through crashes, lost answers and late reports the Platform never believes
\* more than the runtime has on disk, and the runtime is never offered anything
\* older than what it runs or than its authority floor.
THEOREM DeliveryIsSafe == DeliverySpec => []DeliverySafe
<1>1. DeliveryInv => DeliverySafe
  BY DeliveryInvImplies DEF DeliverySafe
<1> QED
  BY <1>1, DeliveryInvariance, PTL

-----------------------------------------------------------------------------
(* Refinement of GatewayRollout *)

\* Before anything happens nothing is published, installed or trusted.
LEMMA RolloutInitially == DeliveryInit => Rollout!RolloutInit
BY SelfAssumption, RefTypes
DEF DeliveryInit, ControlInit, RuntimeInit, NoObservation, Rollout!RolloutInit

\* A commit publishes the next revision or none.
LEMMA CommitPublishes ==
    ASSUME DeliveryInv, StoreStep
    PROVE  head'.rev = head.rev \/ head'.rev = head.rev + 1
<1>1. ASSUME NEW id \in ReleaseIds, CommitRelease(id)
      PROVE  head'.rev = head.rev \/ head'.rev = head.rev + 1
  BY <1>1 DEF CommitRelease, NextHead
<1> QED
  BY <1>1 DEF StoreStep, RegisterRuntime, RetireRuntime, SaveCapabilities, PollList, PollDeliver, PollConflict

\* The controller installs only what is published.
LEMMA SaveInstalls ==
    ASSUME DeliveryInv, OwnStep
    PROVE  saved'.rev = saved.rev \/ saved'.rev \in (saved.rev + 1)..head.rev
<1>1. CASE saved' = saved
  BY <1>1
<1>2. CASE SaveState
  <2>1. saved' = task
    BY <1>2 DEF SaveState
  <2>2. saved'.rev >= saved.rev
    BY OwnStepKeeps DEF DeliveryInv
  <2>3. task.rev <= head.rev
    BY CommandedPublished, DeliveryTypes DEF DeliveryInv, RefsCommanded
  <2>4. head.rev \in Nat /\ task.rev \in Nat /\ saved.rev \in Nat
    BY DeliveryTypes, RefTypes DEF DeliveryInv, RowsInv, ControlTypeOK
  <2> QED
    BY <2>1, <2>2, <2>3, <2>4
<1> QED
  BY <1>1, <1>2 DEF OwnStep, Apply, durableVars, Crash, RestoreNothing, RestoreBegin, RestoreRejected, RefuseCommand,
     EndDegraded, AlreadyApplied, FetchFails, FetchRefused, BeginApply, AdvancePointer, SidecarReady,
     ApplyRoutes, PromoteLkg, RestoreDone, ApplyFails, RestoreFails, BeginPoll, PollFails,
     ReportCurrent, NothingToDo, PostReport, ReportAnswered, ReportFails

\* An accepted report makes the Platform trust only what is installed.
LEMMA AcceptTrusts ==
    ASSUME DeliveryInv, NEW rep \in net, AcceptReport(rep)
    PROVE  \/ observed'[Self].applied.rev = observed[Self].applied.rev
           \/ observed'[Self].applied.rev \in (observed[Self].applied.rev + 1)..saved.rev
<1>1. DeliveryInv' /\ saved' = saved
  BY AcceptKeeps, AnswerKeeps DEF AcceptReport
<1>2. observed'[Self].applied.rev <= saved.rev
  BY <1>1 DEF DeliveryInv, TrustSaved
<1>3. /\ rep \in Reports /\ Self \in Runtimes /\ ControlTypeOK /\ commands[Self][rep.command].state # "NONE"
      /\ Verified(Self, rep) /\ ~ Stale(Self, rep) /\ Parsed(rep) /\ ApplyReport(Self, rep)
  BY SelfAssumption DEF DeliveryInv, RowsInv, AcceptReport, Recordable
<1>4. observed'[Self].applied = IF rep.applied # NoRef THEN rep.applied ELSE observed[Self].applied
  BY <1>3, ReportRows
<1>5. rep.rev \in Nat /\ observed[Self].applied.rev <= observed[Self].rev /\ observed[Self].rev <= rep.rev
  BY <1>3, DeliveryTypes, ReleaseAssumption DEF Reports, Stale, DeliveryInv, RowsInv, AppliedNotAhead
<1>6. \/ observed'[Self].applied = observed[Self].applied
      \/ observed'[Self].applied.rev = rep.rev
  BY <1>3, <1>4 DEF Verified, Parsed
<1> QED
  BY <1>2, <1>5, <1>6, DeliveryTypes

\* Every step of delivery is a step of the abstract rollout or leaves it alone.
LEMMA RolloutStep ==
    ASSUME DeliveryInv, [DeliveryNext]_vars
    PROVE  [Rollout!RolloutNext]_(Rollout!rolloutVars)
<1> USE DEF Rollout!RolloutNext, Rollout!rolloutVars
<1> DEFINE Step == [Rollout!RolloutNext]_(Rollout!rolloutVars)
<1>1. ASSUME StoreStep, saved' = saved PROVE Step
  <2>1. observed' = observed
    BY <1>1, StoreKeepsRows DEF DeliveryInv
  <2> QED
    BY <1>1, <2>1, CommitPublishes DEF Rollout!Publish
<1>2. ASSUME OwnStep, head' = head, observed' = observed PROVE Step
  BY <1>2, SaveInstalls DEF Rollout!Install
<1>3. ASSUME head' = head, saved' = saved, observed' = observed PROVE Step
  BY <1>3
<1>4. ASSUME NEW rep \in net, AcceptReport(rep) PROVE Step
  <2>1. head' = head /\ saved' = saved
    BY <1>4, AnswerKeeps DEF AcceptReport
  <2> QED
    BY <1>4, <2>1, AcceptTrusts DEF Rollout!Trust
<1>5. ASSUME NEW rep \in net, DiscardReport(rep) PROVE Step
  <2>1. saved' = saved
    BY <1>5, AnswerKeeps DEF DiscardReport
  <2> QED
    BY <1>3, <1>5, <2>1 DEF DiscardReport, controlVars
<1>6. ASSUME AnswerPoll \/ AnswerConflict PROVE Step
  <2>1. StoreStep /\ saved' = saved
    BY <1>6, SelfAssumption DEF AnswerPoll, AnswerConflict, StoreStep, Receive, NothingToDo, runtimeVars, durableVars
  <2> QED
    BY <1>1, <2>1
<1>7. ASSUME Platform \/ Negotiate \/ ListCommand PROVE Step
  <2>1. StoreStep /\ saved' = saved
    BY <1>7, SelfAssumption DEF Platform, Negotiate, ListCommand, StoreStep, runtimeVars, durableVars
  <2> QED
    BY <1>1, <2>1
<1>8. ASSUME Controller \/ ControllerFaults \/ Dies PROVE Step
  <2>1. OwnStep
    BY <1>8 DEF Controller, ControllerFaults, Dies, OwnStep, Apply
  <2> QED
    BY <1>2, <1>8, <2>1 DEF Controller, ControllerFaults, Dies, controlVars
<1>9. ASSUME StartPoll \/ AnswerNothing \/ AnswerAndReport \/ AbandonPoll \/ SendReport \/ LoseReport PROVE Step
  BY <1>2, <1>9 DEF StartPoll, AnswerNothing, AnswerAndReport, AbandonPoll, SendReport, LoseReport, OwnStep,
     controlVars
<1>10. ASSUME UNCHANGED vars PROVE Step
  BY <1>3, <1>10 DEF vars, controlVars, runtimeVars, durableVars
<1> QED
  BY <1>4, <1>5, <1>6, <1>7, <1>8, <1>9, <1>10 DEF DeliveryNext, AwaitAdmission, ProcessReport

\* Delivery implements its abstract promise: published revisions are installed,
\* installed ones trusted, and none of the three is ever undone.
THEOREM DeliveryRefinesRollout == DeliverySpec => Refines
<1>1. DeliveryInit => Rollout!RolloutInit
  BY RolloutInitially
<1>2. DeliveryInv /\ [DeliveryNext]_vars => [Rollout!RolloutNext]_(Rollout!rolloutVars)
  BY RolloutStep
<1> QED
  BY <1>1, <1>2, DeliveryInvariance, PTL DEF DeliverySpec, Refines, Rollout!RolloutSpec
=============================================================================
