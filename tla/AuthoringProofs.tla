-------------------------- MODULE AuthoringProofs ---------------------------
(***************************************************************************)
(* What administrators decide about a policy and about the tools of an MCP *)
(* server, and the credentials that server takes, for any number of        *)
(* administrators, revisions, tools, runtimes, sessions, tokens and calls. *)
(*                                                                         *)
(* Policies.  A version stands for what was seen under it, a writer for    *)
(* the reviewed draft it holds, and only provisioning leaves a gap between *)
(* revisions, after which it does not run again.                           *)
(*                                                                         *)
(* Tools.  Only the newest discovery may be active, so what is posted is   *)
(* the newest observation; an approval that it does not bear out is taken  *)
(* back with it.                                                           *)
(*                                                                         *)
(* Credentials.  A token belongs to the site it was issued for: the        *)
(* invariant follows it through the session, the stored binding, what a    *)
(* call has read of either, and the seal that guards a refresh.            *)
(***************************************************************************)
EXTENDS PolicyAuthoring, McpDiscovery, McpOAuth, TLAPS

-----------------------------------------------------------------------------
(* The revisions of a policy *)

RevisionRows ==
    [content : Texts, enabled : BOOLEAN, origin : {"NONE", "DRAFT", "SYSTEM", "SWITCH"},
     base : Numbers, by : Actors \cup {NoOne}, reviewer : Actors \cup {NoOne}, strict : BOOLEAN]
DraftRows ==
    [version : 0..MaxVersions, base : Numbers, content : Texts, by : Actors \cup {NoOne},
     life : {"NONE", "DRAFT", "VALIDATED", "REVIEWED"}, reviewer : Actors \cup {NoOne}]
SaveRows == [step : {"idle", "read"}, base : Numbers, content : Texts]
Writers == [origin : {"NONE", "DRAFT", "SYSTEM"}, gateway : BOOLEAN]
PolicyPubs == [newest : {"NONE", "OPEN", "ASKED", "LIVE"}, live : BOOLEAN, frozen : Numbers]

\* A version says what was seen: whoever has seen the draft's version has seen
\* the draft, and a version that comes later was seen by nobody.
SeenByVersion ==
    /\ draft.version <= lastVersion /\ (draft.life = "NONE" <=> draft.version = 0)
    /\ \A a \in Actors :
        /\ views[a].version <= lastVersion
        /\ views[a].version = draft.version => views[a].base = draft.base /\ views[a].content = draft.content
        /\ views[a].version = 0 => views[a].base = 0 /\ views[a].content = Default
    /\ draft.life = "NONE" => draft.base = 0 /\ draft.content = Default

\* The setting that held since the draft was saved is the one that holds.
StrictSince ==
    /\ strict => settings.distinct
    /\ draft.life = "REVIEWED" /\ strict => draft.reviewer # draft.by

\* Who writes a revision holds the reviewed draft, or provisions.
WriterHolds ==
    /\ writer.origin = "DRAFT" => draft.life = "REVIEWED"
    /\ writer.origin = "SYSTEM" <=> provision = "writing"

\* There is a latest revision, and only provisioning leaves a gap.
RevisionsInOrder ==
    /\ Present # {} => \E n \in Present : \A m \in Present : n >= m
    /\ provision # "done" => \A n \in Present : \A m \in 1..n : m \in Present

PolicyInv ==
    /\ PolicySafe /\ SeenByVersion /\ StrictSince /\ WriterHolds /\ RevisionsInOrder
    /\ kind \in {"RESOURCE", "RUNTIME", "BOT"}

\* The parts of the type invariant.
LEMMA PolicyTypes ==
    ASSUME PolicyInv
    PROVE  /\ draft \in DraftRows /\ lastVersion \in 0..MaxVersions
           /\ settings \in [rev : 0..MaxSettings, distinct : BOOLEAN] /\ strict \in BOOLEAN
           /\ views \in [Actors -> PolicyView] /\ saving \in [Actors -> SaveRows]
           /\ revisions \in [1..MaxRevision -> RevisionRows]
           /\ provision \in {"idle", "read", "writing", "done"} /\ writer \in Writers
           /\ policyPub \in PolicyPubs /\ carried \in Numbers
           /\ reviewed \in SUBSET [by : Actors, view : PolicyView]
  BY DEF PolicyInv, PolicySafe, PolicyTypeOK, DraftRows, SaveRows, RevisionRows, Writers, PolicyPubs

LEMMA PolicyTyped ==
    ASSUME draft \in DraftRows, lastVersion \in 0..MaxVersions,
           settings \in [rev : 0..MaxSettings, distinct : BOOLEAN], strict \in BOOLEAN,
           views \in [Actors -> PolicyView], saving \in [Actors -> SaveRows],
           revisions \in [1..MaxRevision -> RevisionRows],
           provision \in {"idle", "read", "writing", "done"}, writer \in Writers,
           policyPub \in PolicyPubs, carried \in Numbers,
           reviewed \in SUBSET [by : Actors, view : PolicyView]
    PROVE  PolicyTypeOK
  BY DEF PolicyTypeOK, DraftRows, SaveRows, RevisionRows, Writers, PolicyPubs

LEMMA PolicyNumbers ==
    /\ MaxVersions \in Nat /\ MaxRevision \in Nat /\ MaxRevision >= 1 /\ MaxSettings \in Nat
    /\ SeedRevision \in 1..MaxRevision
  BY PolicyAssumption

\* The latest revision.
LEMMA PolicyLatestIs ==
    ASSUME PolicyInv
    PROVE  /\ PolicyLatest \in Numbers
           /\ Present = {} => PolicyLatest = 0
           /\ PolicyLatest # 0 => PolicyLatest \in Present
           /\ \A n \in Present : n <= PolicyLatest /\ n \in 1..MaxRevision
           /\ PolicyLatest = 0 => Present = {}
<1>1. CASE Present = {}
  BY <1>1, PolicyNumbers DEF PolicyLatest, Numbers
<1>2. CASE Present # {}
  <2>1. \E n \in Present : \A m \in Present : n >= m
    BY <1>2 DEF PolicyInv, RevisionsInOrder
  <2>2. Max(Present) \in Present /\ \A m \in Present : Max(Present) >= m
    BY <2>1 DEF Max
  <2>3. Present \subseteq 1..MaxRevision
    BY DEF Present
  <2>4. PolicyLatest = Max(Present)
    BY <1>2 DEF PolicyLatest
  <2> HIDE DEF Present
  <2> QED
    <3>1. PolicyLatest \in Present /\ \A m \in Present : PolicyLatest >= m
      BY <2>2, <2>4
    <3>2. PolicyLatest \in 1..MaxRevision
      BY <2>3, <3>1
    <3>3. PolicyLatest # 0 /\ PolicyLatest \in Numbers
      BY <3>2, PolicyNumbers DEF Numbers
    <3>4. \A n \in Present : n <= PolicyLatest /\ n \in 1..MaxRevision
      BY <2>3, <3>1, <3>2
    <3> QED
      BY <1>2, <3>1, <3>3, <3>4
<1> QED
  BY <1>1, <1>2

\* Nothing is written: what is said of the revisions stays.
LEMMA RevisionsKept ==
    ASSUME PolicyInv, revisions' = revisions, reviewed \subseteq reviewed', provision' # "done" => provision # "done"
    PROVE  /\ Present' = Present /\ PolicyLatest' = PolicyLatest
           /\ PublishedAsReviewed' /\ BuiltOnPredecessor' /\ DistinctReviewer' /\ RevisionsInOrder'
<1>1. Present' = Present
  BY Zenon DEF Present
<1>2. PolicyLatest' = PolicyLatest
  BY <1>1, Zenon DEF PolicyLatest
<1>3. PublishedAsReviewed'
  BY <1>1, Zenon DEF PolicyInv, PolicySafe, PublishedAsReviewed
<1>4. BuiltOnPredecessor' /\ DistinctReviewer'
  BY <1>1, Zenon DEF PolicyInv, PolicySafe, BuiltOnPredecessor, DistinctReviewer
<1>5. RevisionsInOrder'
  BY <1>1, Zenon DEF PolicyInv, RevisionsInOrder
<1> QED
  BY <1>1, <1>2, <1>3, <1>4, <1>5

\* The draft is left alone: what is said of it stays.
LEMMA DraftKept ==
    ASSUME PolicyInv, UNCHANGED <<draft, lastVersion, settings, strict, views, reviewed>>
    PROVE  SeenByVersion' /\ StrictSince' /\ ReviewedAsSeen'
<1>1. SeenByVersion'
  BY DEF PolicyInv, SeenByVersion
<1>2. StrictSince'
  BY Zenon DEF PolicyInv, StrictSince
<1>3. ReviewedAsSeen'
  BY Zenon DEF PolicyInv, PolicySafe, ReviewedAsSeen
<1> QED
  BY <1>1, <1>2, <1>3

\* A revision is written: it is the latest.
LEMMA RevisionWritten ==
    ASSUME PolicyInv, NEW n \in 1..MaxRevision, NEW row \in RevisionRows, n > PolicyLatest,
           row.origin # "NONE", revisions' = [revisions EXCEPT ![n] = row],
           provision' # "done" => provision # "done" /\ n = PolicyLatest + 1,
           reviewed' = reviewed,
           row.origin = "DRAFT" =>
             /\ row.base = n - 1 /\ (n > 1 => n - 1 \in Present)
             /\ row.strict => row.reviewer # row.by
             /\ \E r \in reviewed : r.by = row.reviewer /\ r.view.content = row.content /\ r.view.base = row.base
    PROVE  /\ revisions' \in [1..MaxRevision -> RevisionRows] /\ PolicyLatest' = n
           /\ PublishedAsReviewed' /\ BuiltOnPredecessor' /\ DistinctReviewer' /\ RevisionsInOrder'
<1>1. /\ revisions' \in [1..MaxRevision -> RevisionRows] /\ revisions'[n] = row
      /\ \A m \in 1..MaxRevision : m # n => revisions'[m] = revisions[m]
  BY PolicyTypes, Zenon
<1>2. n \notin Present /\ Present \subseteq 1..MaxRevision /\ PolicyLatest \in 0..MaxRevision
      /\ MaxRevision \in Nat
  BY PolicyLatestIs, PolicyNumbers DEF Numbers
<1>3. Present' = Present \cup {n}
  BY <1>1, Zenon DEF Present
<1>4. \A m \in Present : m <= n /\ m # n /\ m \in Nat
  BY <1>2, PolicyLatestIs
<1>5. PolicyLatest' = n
  <2>1. n \in Present' /\ \A m \in Present' : n >= m /\ m \in Nat
    BY <1>2, <1>3, <1>4
  <2>2. \A k \in Present' : (\A m \in Present' : k >= m) => k = n
    BY <2>1
  <2> QED
    BY <2>1, <2>2 DEF PolicyLatest, Max
<1>6. \A m \in Present : revisions'[m] = revisions[m]
  BY <1>1, <1>2
<1>7. PublishedAsReviewed'
  <2> SUFFICES ASSUME NEW m \in Present', revisions'[m].origin = "DRAFT"
               PROVE  \E r \in reviewed : /\ r.by = revisions'[m].reviewer
                                          /\ r.view.content = revisions'[m].content
                                          /\ r.view.base = revisions'[m].base
    BY Zenon DEF PublishedAsReviewed
  <2>1. CASE m = n
    BY <1>1, <2>1, Zenon
  <2>2. CASE m \in Present
    <3>1. revisions'[m] = revisions[m] /\ revisions[m].origin = "DRAFT"
      BY <1>6, <2>2
    <3>2. \E r \in reviewed : /\ r.by = revisions[m].reviewer
                               /\ r.view.content = revisions[m].content /\ r.view.base = revisions[m].base
      BY <2>2, <3>1, Zenon DEF PolicyInv, PolicySafe, PublishedAsReviewed
    <3> QED
      BY <3>1, <3>2, Zenon
  <2> QED
    BY <1>3, <2>1, <2>2
<1>8. BuiltOnPredecessor'
  BY <1>1, <1>3, <1>6, Zenon DEF PolicyInv, PolicySafe, BuiltOnPredecessor
<1>9. DistinctReviewer'
  <2> SUFFICES ASSUME NEW m \in Present', revisions'[m].origin = "DRAFT", revisions'[m].strict
               PROVE  revisions'[m].reviewer # revisions'[m].by
    BY Zenon DEF DistinctReviewer
  <2>1. CASE m = n
    BY <1>1, <2>1, Zenon
  <2>2. CASE m \in Present
    BY <1>6, <2>2, Zenon DEF PolicyInv, PolicySafe, DistinctReviewer
  <2> QED
    BY <1>3, <2>1, <2>2
<1>10. RevisionsInOrder'
  <2>1. \E k \in Present' : \A m \in Present' : k >= m
    BY <1>2, <1>3, <1>4
  <2>2. ASSUME provision' # "done" PROVE \A k \in Present' : \A m \in 1..k : m \in Present'
    <3>1. n = PolicyLatest + 1 /\ \A k \in Present : \A m \in 1..k : m \in Present
      BY <2>2 DEF PolicyInv, RevisionsInOrder
    <3>2. \A m \in 1..n : m # n => m \in 1..PolicyLatest
      BY <1>2, <3>1
    <3>3. \A m \in 1..PolicyLatest : m \in Present
      BY <1>2, <3>1, PolicyLatestIs
    <3> QED
      BY <1>3, <3>1, <3>2, <3>3
  <2> QED
    BY <2>1, <2>2 DEF RevisionsInOrder
<1> QED
  BY <1>1, <1>5, <1>7, <1>8, <1>9, <1>10

LEMMA RevisionTypes ==
    /\ NoRevision \in RevisionRows /\ NoRevision.origin = "NONE"
    /\ Seed \in RevisionRows /\ Seed.origin = "SYSTEM"
<1>1. PICK v \in BOOLEAN : NoRevision = [content |-> Default, enabled |-> v, origin |-> "NONE", base |-> 0,
                                         by |-> NoOne, reviewer |-> NoOne, strict |-> v]
  BY Zenon DEF NoRevision
<1>2. NoRevision \in RevisionRows /\ NoRevision.origin = "NONE"
  BY <1>1, PolicyNumbers DEF RevisionRows, Texts, Numbers
<1>3. PICK w \in BOOLEAN : Seed = [NoRevision EXCEPT !.origin = "SYSTEM", !.enabled = w]
  BY Zenon DEF Seed
<1>4. Seed \in RevisionRows /\ Seed.origin = "SYSTEM"
  BY <1>2, <1>3 DEF RevisionRows
<1> QED
  BY <1>2, <1>4

LEMMA DraftTypes ==
    /\ NoDraft \in DraftRows /\ NoDraft.version = 0 /\ NoDraft.life = "NONE"
    /\ NoDraft.base = 0 /\ NoDraft.content = Default
    /\ NoView \in PolicyView /\ NoView.version = 0 /\ NoView.base = 0 /\ NoView.content = Default
    /\ NoSave \in SaveRows
  BY PolicyNumbers DEF NoDraft, DraftRows, NoView, PolicyView, NoSave, SaveRows, Texts, Numbers

LEMMA WriterTypes == PolicyIdle \in Writers /\ PolicyIdle.origin = "NONE"
<1>1. PICK v \in BOOLEAN : PolicyIdle = [origin |-> "NONE", gateway |-> v]
  BY Zenon DEF PolicyIdle
<1> QED
  BY <1>1 DEF Writers

LEMMA PolicyInvInit == PolicyInit => PolicyInv
<1> SUFFICES ASSUME PolicyInit PROVE PolicyInv
  OBVIOUS
<1>1. /\ kind \in {"RESOURCE", "RUNTIME", "BOT"} /\ draft = NoDraft /\ lastVersion = 0
      /\ views = [a \in Actors |-> NoView] /\ saving = [a \in Actors |-> NoSave]
      /\ revisions = [n \in 1..MaxRevision |-> IF kind = "BOT" /\ n = 1 THEN Seed ELSE NoRevision]
      /\ provision = "idle" /\ writer = PolicyIdle /\ carried = 0 /\ reviewed = {}
  BY PolicyAssumption DEF PolicyInit
<1>2. /\ settings \in [rev : 0..MaxSettings, distinct : BOOLEAN] /\ strict \in BOOLEAN /\ ~ strict
  <2>1. PICK v \in BOOLEAN : settings = [rev |-> 0, distinct |-> v]
    BY Zenon DEF PolicyInit
  <2>2. strict \in BOOLEAN /\ ~ strict
    BY Zenon DEF PolicyInit
  <2> QED
    BY <2>1, <2>2, PolicyNumbers
<1>3. policyPub \in PolicyPubs /\ policyPub.newest = "NONE"
  <2>1. PICK v \in BOOLEAN : policyPub = [newest |-> "NONE", live |-> v, frozen |-> 0]
    BY Zenon DEF PolicyInit
  <2> QED
    BY <2>1, PolicyNumbers DEF PolicyPubs, Numbers
<1>4. \A n \in 1..MaxRevision : (revisions[n] = Seed /\ n = 1) \/ revisions[n] = NoRevision
  BY <1>1
<1>5. revisions \in [1..MaxRevision -> RevisionRows]
  BY <1>1, RevisionTypes
<1>6. /\ draft \in DraftRows /\ lastVersion \in 0..MaxVersions /\ views \in [Actors -> PolicyView]
      /\ saving \in [Actors -> SaveRows] /\ carried \in Numbers /\ writer \in Writers
      /\ reviewed \in SUBSET [by : Actors, view : PolicyView]
  BY <1>1, DraftTypes, WriterTypes, PolicyNumbers DEF Numbers
<1>7. PolicyTypeOK
  BY <1>1, <1>2, <1>3, <1>5, <1>6, PolicyTyped
<1>8. \A n \in Present : n = 1 /\ revisions[n].origin = "SYSTEM"
  BY <1>4, RevisionTypes DEF Present
<1>9. PublishedAsReviewed /\ BuiltOnPredecessor /\ DistinctReviewer
  BY <1>8 DEF PublishedAsReviewed, BuiltOnPredecessor, DistinctReviewer
<1>10. RevisionsInOrder
  <2>1. Present # {} => \E n \in Present : \A m \in Present : n >= m
    BY <1>8
  <2>2. \A n \in Present : \A m \in 1..n : m \in Present
    BY <1>8
  <2> QED
    BY <2>1, <2>2, Zenon DEF RevisionsInOrder
<1>11. SeenByVersion
  BY <1>1, DraftTypes DEF SeenByVersion
<1>12. StrictSince /\ ReviewedAsSeen
  <2>1. draft.life # "REVIEWED"
    BY <1>1, DraftTypes
  <2> QED
    BY <1>2, <2>1, Zenon DEF StrictSince, ReviewedAsSeen
<1>13. WriterHolds
  BY <1>1, WriterTypes DEF WriterHolds
<1>14. NewestEnforced
  BY <1>3 DEF NewestEnforced, ActiveGateway
<1> QED
  BY <1>1, <1>7, <1>9, <1>10, <1>11, <1>12, <1>13, <1>14 DEF PolicyInv, PolicySafe

-----------------------------------------------------------------------------
\* A step that writes no revision and leaves the Gateway alone.
LEMMA EditingKeeps ==
    ASSUME PolicyInv, UNCHANGED <<kind, revisions, policyPub, carried>>, reviewed \subseteq reviewed',
           provision' # "done" => provision # "done",
           PolicyTypeOK', SeenByVersion', StrictSince', ReviewedAsSeen', WriterHolds'
    PROVE  PolicyInv'
<1>1. /\ PolicyLatest' = PolicyLatest
      /\ PublishedAsReviewed' /\ BuiltOnPredecessor' /\ DistinctReviewer' /\ RevisionsInOrder'
  BY RevisionsKept
<1>2. NewestEnforced'
  BY <1>1, Zenon DEF NewestEnforced, ActiveGateway, PolicyInv, PolicySafe
<1> QED
  BY <1>1, <1>2 DEF PolicyInv, PolicySafe

\* The draft's part, when only what somebody has seen or is saving changes.
LEMMA GetKeeps ==
    ASSUME PolicyInv, NEW a \in Actors, Get(a), UNCHANGED kind
    PROVE  PolicyInv'
<1> DEFINE row == [version |-> draft.version, base |-> draft.base, content |-> draft.content]
<1>1. /\ views' = [views EXCEPT ![a] = row]
      /\ UNCHANGED <<draft, lastVersion, settings, strict, saving, revisions, provision, writer, policyPub, carried, reviewed>>
  BY DEF Get
<1>2. row \in PolicyView /\ row.version = draft.version /\ row.base = draft.base /\ row.content = draft.content
  BY PolicyTypes DEF PolicyView, DraftRows
<1> HIDE DEF row
<1>3. /\ views' \in [Actors -> PolicyView] /\ views'[a] = row
      /\ \A b \in Actors : b # a => views'[b] = views[b]
  BY <1>1, <1>2, PolicyTypes
<1>4. PolicyTypeOK'
  BY <1>1, <1>3 DEF PolicyInv, PolicySafe, PolicyTypeOK
<1>5. SeenByVersion'
  BY <1>1, <1>2, <1>3 DEF PolicyInv, SeenByVersion
<1>6. StrictSince' /\ ReviewedAsSeen' /\ WriterHolds'
  BY <1>1, Zenon DEF PolicyInv, PolicySafe, StrictSince, ReviewedAsSeen, WriterHolds
<1> QED
  BY <1>1, <1>4, <1>5, <1>6, EditingKeeps

LEMMA ReadBaseKeeps ==
    ASSUME PolicyInv, NEW a \in Actors, NEW content \in Contents, ReadBase(a, content), UNCHANGED kind
    PROVE  PolicyInv'
<1>1. UNCHANGED <<draft, lastVersion, settings, strict, views, revisions, provision, writer, policyPub, carried, reviewed>>
  BY DEF ReadBase
<1>2. PICK base \in {PolicyLatest} \cup (IF kind = "RUNTIME" THEN {0} ELSE {}) :
        saving' = [saving EXCEPT ![a] = [step |-> "read", base |-> base, content |-> content]]
  BY DEF ReadBase
<1>3. base \in Numbers
  BY <1>2, PolicyLatestIs, PolicyNumbers DEF Numbers
<1>4. [step |-> "read", base |-> base, content |-> content] \in SaveRows
  BY <1>3 DEF SaveRows, Texts
<1>5. saving' \in [Actors -> SaveRows]
  BY <1>2, <1>4, PolicyTypes
<1>6. PolicyTypeOK'
  BY <1>1, <1>5 DEF PolicyInv, PolicySafe, PolicyTypeOK, SaveRows
<1>7. WriterHolds'
  BY <1>1, Zenon DEF PolicyInv, WriterHolds
<1> QED
  BY <1>1, <1>6, <1>7, DraftKept, EditingKeeps

LEMMA SavingKeeps ==
    ASSUME PolicyInv, NEW a \in Actors, PolicySave(a), UNCHANGED kind
    PROVE  PolicyInv'
<1>1. /\ DraftFree /\ saving' = [saving EXCEPT ![a] = NoSave]
      /\ UNCHANGED <<settings, views, revisions, provision, writer, policyPub, carried, reviewed>>
  BY DEF PolicySave
<1>2. saving' \in [Actors -> SaveRows]
  BY <1>1, DraftTypes, PolicyTypes
<1>3. CASE UNCHANGED <<draft, lastVersion, strict>>
  <2>1. PolicyTypeOK'
    BY <1>1, <1>2, <1>3 DEF PolicyInv, PolicySafe, PolicyTypeOK, SaveRows
  <2>2. WriterHolds'
    BY <1>1, <1>3, Zenon DEF PolicyInv, WriterHolds
  <2> QED
    BY <1>1, <1>3, <2>1, <2>2, DraftKept, EditingKeeps
<1>4. CASE /\ lastVersion < MaxVersions /\ draft' = Saved(a)
           /\ lastVersion' = lastVersion + 1 /\ strict' = settings.distinct
  <2>1. /\ lastVersion \in 0..MaxVersions /\ saving[a] \in SaveRows /\ MaxVersions \in Nat
        /\ \A b \in Actors : views[b] \in PolicyView /\ views[b].version \in 0..MaxVersions
    BY PolicyTypes, PolicyNumbers DEF PolicyView
  <2>2. lastVersion + 1 \in 0..MaxVersions
    BY <1>4, <2>1
  <2>3. /\ draft' \in DraftRows /\ draft'.version = lastVersion + 1 /\ draft'.life = "DRAFT"
    BY <1>4, <2>1, <2>2 DEF Saved, DraftRows, SaveRows
  <2>4. strict' \in BOOLEAN /\ (strict' => settings'.distinct)
    <3>1. settings.distinct \in BOOLEAN
      BY PolicyTypes
    <3> QED
      BY <1>1, <1>4, <3>1, Zenon
  <2>5. PolicyTypeOK'
    <3>1. lastVersion' \in 0..MaxVersions
      BY <1>4, <2>2
    <3> QED
      BY <1>1, <1>2, <2>3, <2>4, <3>1, Zenon DEF PolicyInv, PolicySafe, PolicyTypeOK, SaveRows, DraftRows
  <2>6. SeenByVersion'
    <3>1. \A b \in Actors : /\ views[b].version <= lastVersion /\ views[b].version \in Nat
                            /\ views[b].version = 0 => views[b].base = 0 /\ views[b].content = Default
      BY <2>1 DEF PolicyInv, SeenByVersion
    <3>2. lastVersion \in Nat
      BY <2>1
    <3> QED
      BY <1>1, <1>4, <2>3, <3>1, <3>2 DEF SeenByVersion
  <2>7. StrictSince' /\ ReviewedAsSeen'
    BY <2>3, <2>4, Zenon DEF StrictSince, ReviewedAsSeen
  <2>8. WriterHolds'
    <3>1. writer'.origin # "DRAFT" /\ (writer'.origin = "SYSTEM" <=> provision' = "writing")
      BY <1>1, Zenon DEF DraftFree, PolicyInv, WriterHolds
    <3> QED
      BY <3>1 DEF WriterHolds
  <2> QED
    BY <1>1, <2>5, <2>6, <2>7, <2>8, EditingKeeps
<1> QED
  BY <1>3, <1>4 DEF PolicySave

\* There is no draft any more.
LEMMA EmptiedDraft ==
    ASSUME PolicyInv, draft' = NoDraft, UNCHANGED <<lastVersion, settings, strict, views, reviewed>>
    PROVE  SeenByVersion' /\ StrictSince' /\ ReviewedAsSeen'
<1>1. lastVersion \in Nat
  BY PolicyTypes, PolicyNumbers
<1>2. SeenByVersion'
  BY <1>1, DraftTypes DEF PolicyInv, SeenByVersion
<1>3. draft'.life # "REVIEWED"
  BY DraftTypes
<1>4. StrictSince' /\ ReviewedAsSeen'
  BY <1>3, Zenon DEF PolicyInv, StrictSince, ReviewedAsSeen
<1> QED
  BY <1>2, <1>4

\* A draft is validated, reviewed or removed by somebody who has seen it.
LEMMA ValidateKeeps ==
    ASSUME PolicyInv, NEW a \in Actors, Validate(a), UNCHANGED kind
    PROVE  PolicyInv'
<1>1. /\ DraftFree /\ draft.life = "DRAFT" /\ draft' = [draft EXCEPT !.life = "VALIDATED"]
      /\ UNCHANGED <<lastVersion, settings, strict, views, saving, revisions, provision, writer, policyPub, carried, reviewed>>
  BY DEF Validate
<1>2. /\ draft' \in DraftRows /\ draft'.life = "VALIDATED" /\ draft'.version = draft.version
      /\ draft'.base = draft.base /\ draft'.content = draft.content
  BY <1>1, PolicyTypes DEF DraftRows
<1>3. PolicyTypeOK'
  BY <1>1, <1>2 DEF PolicyInv, PolicySafe, PolicyTypeOK, DraftRows
<1>4. SeenByVersion'
  BY <1>1, <1>2 DEF PolicyInv, SeenByVersion
<1>5. StrictSince' /\ ReviewedAsSeen'
  BY <1>1, <1>2, Zenon DEF PolicyInv, StrictSince, ReviewedAsSeen
<1>6. WriterHolds'
  BY <1>1, Zenon DEF DraftFree, PolicyInv, WriterHolds
<1> QED
  BY <1>1, <1>3, <1>4, <1>5, <1>6, EditingKeeps

LEMMA ReviewKeeps ==
    ASSUME PolicyInv, NEW a \in Actors, Review(a), UNCHANGED kind
    PROVE  PolicyInv'
<1>1. /\ DraftFree /\ Expected(a) /\ draft.life = "VALIDATED" /\ Separate(a)
      /\ draft' = [draft EXCEPT !.life = "REVIEWED", !.reviewer = a]
      /\ reviewed' = reviewed \cup {[by |-> a, view |-> views[a]]}
      /\ UNCHANGED <<lastVersion, settings, strict, views, saving, revisions, provision, writer, policyPub, carried>>
  BY DEF Review
<1>2. /\ draft' \in DraftRows /\ draft'.life = "REVIEWED" /\ draft'.version = draft.version
      /\ draft'.base = draft.base /\ draft'.content = draft.content /\ draft'.by = draft.by /\ draft'.reviewer = a
  BY <1>1, PolicyTypes DEF DraftRows
<1>3. [by |-> a, view |-> views[a]] \in [by : Actors, view : PolicyView]
  BY PolicyTypes
<1>4. PolicyTypeOK'
  <2>1. reviewed' \in SUBSET [by : Actors, view : PolicyView]
    BY <1>1, <1>3, PolicyTypes
  <2> QED
    BY <1>1, <1>2, <2>1 DEF PolicyInv, PolicySafe, PolicyTypeOK, DraftRows
<1>5. SeenByVersion'
  BY <1>1, <1>2 DEF PolicyInv, SeenByVersion
<1>6. StrictSince'
  BY <1>1, <1>2, Zenon DEF Separate, PolicyInv, StrictSince
<1>7. ReviewedAsSeen'
  <2>1. /\ views[a].version = draft.version /\ views[a].base = draft.base /\ views[a].content = draft.content
    BY <1>1 DEF Expected, PolicyInv, SeenByVersion
  <2>2. views[a] = [version |-> draft.version, base |-> draft.base, content |-> draft.content]
    BY <2>1, PolicyTypes DEF PolicyView
  <2>3. [by |-> a, view |-> [version |-> draft.version, base |-> draft.base, content |-> draft.content]] \in reviewed'
    BY <1>1, <2>2
  <2> QED
    BY <1>2, <2>3 DEF ReviewedAsSeen
<1>8. WriterHolds'
  BY <1>1, Zenon DEF DraftFree, PolicyInv, WriterHolds
<1>9. reviewed \subseteq reviewed' /\ provision' = provision
  BY <1>1
<1> QED
  BY <1>1, <1>4, <1>5, <1>6, <1>7, <1>8, <1>9, EditingKeeps

LEMMA RemoveKeeps ==
    ASSUME PolicyInv, NEW a \in Actors, Remove(a), UNCHANGED kind
    PROVE  PolicyInv'
<1>1. /\ DraftFree /\ draft' = NoDraft
      /\ UNCHANGED <<lastVersion, settings, strict, views, saving, revisions, provision, writer, policyPub, carried, reviewed>>
  BY DEF Remove
<1>2. PolicyTypeOK'
  BY <1>1, DraftTypes DEF PolicyInv, PolicySafe, PolicyTypeOK, DraftRows
<1>3. SeenByVersion' /\ StrictSince' /\ ReviewedAsSeen'
  BY <1>1, EmptiedDraft
<1>4. WriterHolds'
  BY <1>1, Zenon DEF DraftFree, PolicyInv, WriterHolds
<1> QED
  BY <1>1, <1>2, <1>3, <1>4, EditingKeeps

LEMMA SettingsKeep ==
    ASSUME PolicyInv, NEW on \in BOOLEAN, SaveSettings(on), UNCHANGED kind
    PROVE  PolicyInv'
<1>1. /\ settings.rev < MaxSettings /\ settings' = [rev |-> settings.rev + 1, distinct |-> on]
      /\ UNCHANGED <<draft, lastVersion, views, saving, revisions, provision, writer, policyPub, carried, reviewed>>
  BY DEF SaveSettings
<1>2. strict' \in BOOLEAN /\ (strict' => strict /\ on)
  BY Zenon DEF SaveSettings
<1>3. settings' \in [rev : 0..MaxSettings, distinct : BOOLEAN] /\ settings'.distinct = on
  BY <1>1, PolicyTypes, PolicyNumbers
<1>4. PolicyTypeOK'
  BY <1>1, <1>2, <1>3 DEF PolicyInv, PolicySafe, PolicyTypeOK
<1>5. SeenByVersion'
  BY <1>1 DEF PolicyInv, SeenByVersion
<1>6. StrictSince'
  BY <1>1, <1>2, <1>3, Zenon DEF PolicyInv, StrictSince
<1>7. ReviewedAsSeen' /\ WriterHolds'
  BY <1>1, Zenon DEF PolicyInv, PolicySafe, ReviewedAsSeen, WriterHolds
<1> QED
  BY <1>1, <1>4, <1>5, <1>6, <1>7, EditingKeeps

\* A writer locks, gives up, or provisioning reads.
LEMMA LockKeeps ==
    ASSUME PolicyInv, UNCHANGED kind,
           ProvisionRead \/ ProvisionLock \/ PublishFails \/ \E a \in Actors : LockDraft(a)
    PROVE  PolicyInv'
<1>1. UNCHANGED <<draft, lastVersion, settings, strict, views, saving, revisions, policyPub, carried, reviewed>>
  BY DEF ProvisionRead, ProvisionLock, PublishFails, LockDraft
<1>2. /\ writer' \in Writers /\ provision' \in {"idle", "read", "writing", "done"} /\ WriterHolds'
      /\ provision' # "done" => provision # "done"
  <2>1. CASE ProvisionRead
    <3>1. writer' = writer /\ provision = "idle" /\ provision' = "read"
      BY <2>1 DEF ProvisionRead
    <3> QED
      BY <1>1, <3>1, PolicyTypes DEF PolicyInv, WriterHolds
  <2>2. CASE ProvisionLock
    <3>1. /\ provision = "read" /\ provision' = "writing"
          /\ \E v \in BOOLEAN : writer' = [origin |-> "SYSTEM", gateway |-> v]
      BY <2>2, Zenon DEF ProvisionLock, ActiveGateway
    <3> QED
      BY <3>1 DEF WriterHolds, Writers
  <2>3. CASE PublishFails
    <3>1. writer.origin = "DRAFT" /\ writer' = PolicyIdle /\ provision' = provision
      BY <2>3 DEF PublishFails
    <3>2. provision # "writing"
      BY <3>1 DEF PolicyInv, WriterHolds
    <3> QED
      BY <3>1, <3>2, WriterTypes, PolicyTypes DEF WriterHolds
  <2>4. CASE \E a \in Actors : LockDraft(a)
    <3>1. /\ writer = PolicyIdle /\ draft.life = "REVIEWED" /\ provision' = provision
          /\ \E v \in BOOLEAN : writer' = [origin |-> "DRAFT", gateway |-> v]
      BY <2>4, Zenon DEF LockDraft, PolicyPublishable, ActiveGateway
    <3>2. provision # "writing"
      BY <3>1, WriterTypes DEF PolicyInv, WriterHolds
    <3> QED
      BY <1>1, <3>1, <3>2, PolicyTypes DEF WriterHolds, Writers
  <2> QED
    BY <2>1, <2>2, <2>3, <2>4
<1>3. PolicyTypeOK'
  BY <1>1, <1>2 DEF PolicyInv, PolicySafe, PolicyTypeOK, Writers
<1>4. SeenByVersion' /\ StrictSince' /\ ReviewedAsSeen'
  BY <1>1, DraftKept
<1> QED
  BY <1>1, <1>2, <1>3, <1>4, EditingKeeps

-----------------------------------------------------------------------------
\* The Gateway follows what is written.
LEMMA ReconcileTypes ==
    ASSUME PolicyInv, NEW n \in 1..MaxRevision, Reconcile(n), policyPub' = policyPub, PolicyLatest' = n
    PROVE  carried' \in Numbers /\ NewestEnforced'
<1>1. n \in Numbers /\ carried \in Numbers
  BY PolicyTypes, PolicyNumbers DEF Numbers
<1>2. ActiveGateway' <=> ActiveGateway
  BY DEF ActiveGateway
<1>3. carried' = IF ActiveGateway THEN n ELSE carried
  BY DEF Reconcile
<1> QED
  BY <1>1, <1>2, <1>3 DEF NewestEnforced

LEMMA PublishKeeps ==
    ASSUME PolicyInv, PublishDraft, UNCHANGED kind
    PROVE  PolicyInv'
<1> DEFINE n == PolicyLatest + 1
<1>1. /\ writer.origin = "DRAFT" /\ draft.base = PolicyLatest /\ PolicyLatest < MaxRevision
      /\ draft' = NoDraft /\ writer' = PolicyIdle
      /\ UNCHANGED <<lastVersion, settings, strict, views, saving, provision, policyPub, reviewed>>
  BY DEF PublishDraft, Writable, BaseCurrent
<1>2. /\ n \in 1..MaxRevision /\ n > PolicyLatest /\ n - 1 = PolicyLatest /\ (n > 1 => n - 1 \in Present)
  BY <1>1, PolicyLatestIs, PolicyNumbers DEF Numbers
<1>3. draft.life = "REVIEWED" /\ draft \in DraftRows
  BY <1>1, PolicyTypes DEF PolicyInv, WriterHolds
<1>4. PICK row : /\ \E e \in BOOLEAN, f \in BOOLEAN :
                      row = [content |-> draft.content, enabled |-> e, origin |-> "DRAFT", base |-> draft.base,
                             by |-> draft.by, reviewer |-> draft.reviewer, strict |-> f]
                 /\ row.strict = strict /\ Write(n, row)
  <2> DEFINE row == [content |-> draft.content, enabled |-> Enabled, origin |-> "DRAFT", base |-> draft.base,
                     by |-> draft.by, reviewer |-> draft.reviewer, strict |-> strict]
  <2>1. Enabled \in BOOLEAN /\ strict \in BOOLEAN
    <3>1. CASE PolicyLatest = 0
      BY <3>1, PolicyTypes, Zenon DEF Enabled
    <3>2. CASE PolicyLatest # 0
      <4>1. revisions[PolicyLatest] \in RevisionRows
        BY <3>2, PolicyLatestIs, PolicyTypes
      <4>2. revisions[PolicyLatest].enabled \in BOOLEAN
        BY <4>1 DEF RevisionRows
      <4> QED
        BY <3>2, <4>2, PolicyTypes, Zenon DEF Enabled
    <3> QED
      BY <3>1, <3>2
  <2>2. Write(n, row)
    BY DEF PublishDraft
  <2>3. row.strict = strict
    BY Zenon
  <2> QED
    BY <2>1, <2>2, <2>3, Zenon
<1>5. /\ row \in RevisionRows /\ row.origin = "DRAFT" /\ row.base = draft.base /\ row.content = draft.content
      /\ row.by = draft.by /\ row.reviewer = draft.reviewer
  BY <1>3, <1>4 DEF RevisionRows, DraftRows
<1>6. revisions' = [revisions EXCEPT ![n] = row] /\ Reconcile(n)
  BY <1>4 DEF Write
<1>7. row.strict => row.reviewer # row.by
  BY <1>3, <1>4, <1>5, Zenon DEF PolicyInv, StrictSince
<1>8. \E r \in reviewed : r.by = row.reviewer /\ r.view.content = row.content /\ r.view.base = row.base
  BY <1>3, <1>5 DEF PolicyInv, PolicySafe, ReviewedAsSeen
<1>9. /\ revisions' \in [1..MaxRevision -> RevisionRows] /\ PolicyLatest' = n
      /\ PublishedAsReviewed' /\ BuiltOnPredecessor' /\ DistinctReviewer' /\ RevisionsInOrder'
  <2>1. row.base = n - 1
    BY <1>1, <1>2, <1>5
  <2> HIDE DEF n
  <2>2. provision' # "done" => provision # "done" /\ n = PolicyLatest + 1
    BY <1>1 DEF n
  <2> QED
    BY <1>1, <1>2, <1>5, <1>6, <1>7, <1>8, <2>1, <2>2, RevisionWritten
<1> HIDE DEF n
<1>10. carried' \in Numbers /\ NewestEnforced'
  BY <1>1, <1>2, <1>6, <1>9, ReconcileTypes
<1>11. PolicyTypeOK'
  BY <1>1, <1>9, <1>10, DraftTypes, WriterTypes
  DEF PolicyInv, PolicySafe, PolicyTypeOK, DraftRows, Writers, RevisionRows
<1>12. SeenByVersion' /\ StrictSince' /\ ReviewedAsSeen'
  BY <1>1, EmptiedDraft
<1>13. WriterHolds'
  BY <1>1, WriterTypes DEF PolicyInv, WriterHolds
<1> QED
  BY <1>9, <1>10, <1>11, <1>12, <1>13 DEF PolicyInv, PolicySafe

LEMMA SwitchKeeps ==
    ASSUME PolicyInv, NEW on \in BOOLEAN, SetEnabled(on), UNCHANGED kind
    PROVE  PolicyInv'
<1> DEFINE n == PolicyLatest + 1
           row == [NoRevision EXCEPT !.content = revisions[PolicyLatest].content, !.enabled = on, !.origin = "SWITCH"]
<1>1. /\ PolicyLatest \in 1..(MaxRevision - 1) /\ Write(n, row)
      /\ UNCHANGED <<draft, lastVersion, settings, strict, views, saving, provision, writer, policyPub, reviewed>>
  BY DEF SetEnabled
<1>2. n \in 1..MaxRevision /\ n > PolicyLatest /\ PolicyLatest \in 1..MaxRevision
  BY <1>1, PolicyNumbers
<1>3. revisions[PolicyLatest].content \in Texts
  BY <1>2, PolicyTypes DEF RevisionRows
<1>4. row \in RevisionRows /\ row.origin = "SWITCH"
  BY <1>3, RevisionTypes DEF RevisionRows
<1>5. provision' # "done" => provision # "done" /\ n = PolicyLatest + 1
  BY <1>1
<1> HIDE DEF n, row
<1>6. revisions' = [revisions EXCEPT ![n] = row] /\ Reconcile(n)
  BY <1>1 DEF Write
<1>7. /\ revisions' \in [1..MaxRevision -> RevisionRows] /\ PolicyLatest' = n
      /\ PublishedAsReviewed' /\ BuiltOnPredecessor' /\ DistinctReviewer' /\ RevisionsInOrder'
  BY <1>1, <1>2, <1>4, <1>5, <1>6, RevisionWritten
<1>8. carried' \in Numbers /\ NewestEnforced'
  BY <1>1, <1>2, <1>6, <1>7, ReconcileTypes
<1>9. PolicyTypeOK'
  BY <1>1, <1>7, <1>8 DEF PolicyInv, PolicySafe, PolicyTypeOK, RevisionRows
<1>10. SeenByVersion' /\ StrictSince' /\ ReviewedAsSeen'
  BY <1>1, DraftKept
<1>11. WriterHolds'
  BY <1>1 DEF PolicyInv, WriterHolds
<1> QED
  BY <1>7, <1>8, <1>9, <1>10, <1>11 DEF PolicyInv, PolicySafe

\* Provisioning writes after the revisions there are: no gap has come before it.
LEMMA ProvisionKeeps ==
    ASSUME PolicyInv, Provision, UNCHANGED kind
    PROVE  PolicyInv'
<1>1. /\ provision = "writing" /\ provision' = "done" /\ writer' = PolicyIdle
      /\ UNCHANGED <<draft, lastVersion, settings, strict, views, saving, policyPub, reviewed>>
  BY DEF Provision
<1>2. WriterHolds'
  BY <1>1, WriterTypes DEF WriterHolds
<1>3. SeenByVersion' /\ StrictSince' /\ ReviewedAsSeen'
  BY <1>1, DraftKept
<1>4. CASE UNCHANGED <<revisions, carried>>
  <2>1. PolicyTypeOK'
    BY <1>1, <1>4, WriterTypes DEF PolicyInv, PolicySafe, PolicyTypeOK, Writers
  <2> QED
    BY <1>1, <1>2, <1>3, <1>4, <2>1, EditingKeeps
<1>5. CASE Provisionable /\ Write(ProvisionedAs, Seed)
  <2> DEFINE n == ProvisionedAs
  <2>1. n \in 1..MaxRevision /\ revisions[n] = NoRevision
    BY <1>5, PolicyNumbers DEF ProvisionedAs, Provisionable
  <2>2. revisions' = [revisions EXCEPT ![n] = Seed] /\ Reconcile(n)
    BY <1>5 DEF Write
  <2> HIDE DEF n
  <2>3. n \notin Present
    BY <2>1, RevisionTypes DEF Present
  <2>4. \A k \in Present : \A m \in 1..k : m \in Present
    BY <1>1 DEF PolicyInv, RevisionsInOrder
  <2>5. n > PolicyLatest
    <3>1. PolicyLatest \in 0..MaxRevision /\ MaxRevision \in Nat
      BY PolicyLatestIs, PolicyNumbers DEF Numbers
    <3>2. CASE PolicyLatest = 0
      BY <2>1, <3>2
    <3>3. CASE PolicyLatest # 0
      <4>1. \A m \in 1..PolicyLatest : m \in Present
        BY <2>4, <3>3, PolicyLatestIs
      <4>2. n \notin 1..PolicyLatest
        BY <2>3, <4>1
      <4> QED
        BY <2>1, <3>1, <4>2
    <3> QED
      BY <3>2, <3>3
  <2>6. /\ revisions' \in [1..MaxRevision -> RevisionRows] /\ PolicyLatest' = n
        /\ PublishedAsReviewed' /\ BuiltOnPredecessor' /\ DistinctReviewer' /\ RevisionsInOrder'
    BY <1>1, <2>1, <2>2, <2>5, RevisionTypes, RevisionWritten
  <2>7. carried' \in Numbers /\ NewestEnforced'
    BY <1>1, <2>1, <2>2, <2>6, ReconcileTypes
  <2>8. PolicyTypeOK'
    BY <1>1, <2>6, <2>7, WriterTypes DEF PolicyInv, PolicySafe, PolicyTypeOK, RevisionRows, Writers
  <2> QED
    BY <1>2, <1>3, <2>6, <2>7, <2>8 DEF PolicyInv, PolicySafe
<1> QED
  BY <1>4, <1>5 DEF Provision

\* The Resource's publications and the Gateway's release.
LEMMA GatewayKeeps ==
    ASSUME PolicyInv, UNCHANGED kind, PolicyRequestReview \/ CommitBuild \/ PolicyEndReview \/ RenewRelease
    PROVE  PolicyInv'
<1>1. UNCHANGED <<draft, lastVersion, settings, strict, views, saving, revisions, provision, writer, reviewed>>
  BY DEF PolicyRequestReview, CommitBuild, PolicyEndReview, RenewRelease
<1>2. /\ PolicyLatest' = PolicyLatest
      /\ PublishedAsReviewed' /\ BuiltOnPredecessor' /\ DistinctReviewer' /\ RevisionsInOrder'
  BY <1>1, RevisionsKept
<1>3. policyPub' \in PolicyPubs /\ carried' \in Numbers /\ NewestEnforced'
  <2>1. /\ policyPub \in PolicyPubs /\ carried \in Numbers /\ PolicyLatest \in Numbers /\ policyPub.frozen \in Numbers
        /\ policyPub.newest = "LIVE" => carried = PolicyLatest
    BY PolicyTypes, PolicyLatestIs DEF PolicyPubs, PolicyInv, PolicySafe, NewestEnforced, ActiveGateway
  <2>2. CASE PolicyRequestReview
    <3>1. policyPub' = [policyPub EXCEPT !.newest = "ASKED", !.frozen = PolicyLatest] /\ carried' = carried
      BY <2>2 DEF PolicyRequestReview
    <3> QED
      BY <2>1, <3>1 DEF PolicyPubs, NewestEnforced, ActiveGateway
  <2>3. CASE CommitBuild
    <3>1. PICK v \in BOOLEAN : policyPub' = [policyPub EXCEPT !.newest = "LIVE", !.live = v]
      BY <2>3, Zenon DEF CommitBuild
    <3>2. carried' = policyPub.frozen /\ policyPub.frozen = PolicyLatest
      BY <2>3 DEF CommitBuild, PolicyFrozen
    <3> QED
      BY <1>2, <2>1, <3>1, <3>2 DEF PolicyPubs, NewestEnforced, ActiveGateway
  <2>4. CASE PolicyEndReview
    <3>1. policyPub' = [policyPub EXCEPT !.newest = "OPEN"] /\ carried' = carried
      BY <2>4 DEF PolicyEndReview
    <3> QED
      BY <2>1, <3>1 DEF PolicyPubs, NewestEnforced, ActiveGateway
  <2>5. CASE RenewRelease
    <3>1. carried' = PolicyLatest /\ policyPub' = policyPub
      BY <2>5 DEF RenewRelease
    <3> QED
      BY <1>2, <2>1, <3>1 DEF NewestEnforced
  <2> QED
    BY <2>2, <2>3, <2>4, <2>5
<1>4. PolicyTypeOK'
  BY <1>1, <1>3 DEF PolicyInv, PolicySafe, PolicyTypeOK, PolicyPubs
<1>5. SeenByVersion' /\ StrictSince' /\ ReviewedAsSeen'
  BY <1>1, DraftKept
<1>6. WriterHolds'
  BY <1>1 DEF PolicyInv, WriterHolds
<1> QED
  BY <1>2, <1>3, <1>4, <1>5, <1>6 DEF PolicyInv, PolicySafe

LEMMA PolicyInvStep == PolicyInv /\ [PolicyNext /\ UNCHANGED kind]_policyVars => PolicyInv'
<1> SUFFICES ASSUME PolicyInv, [PolicyNext /\ UNCHANGED kind]_policyVars PROVE PolicyInv'
  OBVIOUS
<1>1. CASE PolicyNext /\ UNCHANGED kind
  <2>1. CASE \E a \in Actors : Get(a) \/ PolicySave(a) \/ \E content \in Contents : ReadBase(a, content)
    BY <1>1, <2>1, GetKeeps, SavingKeeps, ReadBaseKeeps
  <2>2. CASE \E a \in Actors : Validate(a) \/ Review(a) \/ Remove(a)
    BY <1>1, <2>2, ValidateKeeps, ReviewKeeps, RemoveKeeps
  <2>3. CASE \E on \in BOOLEAN : SaveSettings(on) \/ SetEnabled(on)
    BY <1>1, <2>3, SettingsKeep, SwitchKeeps
  <2>4. CASE ProvisionRead \/ ProvisionLock \/ PublishFails \/ \E a \in Actors : LockDraft(a)
    BY <1>1, <2>4, LockKeeps
  <2>5. CASE PublishDraft \/ Provision
    BY <1>1, <2>5, PublishKeeps, ProvisionKeeps
  <2>6. CASE PolicyRequestReview \/ CommitBuild \/ PolicyEndReview \/ RenewRelease
    BY <1>1, <2>6, GatewayKeeps
  <2> QED
    BY <1>1, <2>1, <2>2, <2>3, <2>4, <2>5, <2>6 DEF PolicyNext
<1>2. CASE UNCHANGED policyVars
  <2>1. UNCHANGED <<kind, draft, lastVersion, settings, strict, views, saving, revisions, provision, writer,
                    policyPub, carried, reviewed>>
    BY <1>2 DEF policyVars
  <2>2. PolicyTypeOK'
    BY <2>1 DEF PolicyInv, PolicySafe, PolicyTypeOK
  <2>3. WriterHolds'
    BY <2>1 DEF PolicyInv, WriterHolds
  <2> QED
    BY <2>1, <2>2, <2>3, DraftKept, EditingKeeps
<1> QED
  BY <1>1, <1>2

\* Whoever saves, switches settings or provisions meanwhile, a revision says
\* what a reviewer saw and approved, builds on the one before it, and is the one
\* the Gateway's release carries once it is published: for any number of
\* administrators, contents, versions and revisions.
THEOREM PolicyIsSafe == PolicySpec => []PolicySafe
<1>1. PolicySpec => []PolicyInv
  BY PolicyInvInit, PolicyInvStep, PTL DEF PolicySpec
<1>2. PolicyInv => PolicySafe
  BY DEF PolicyInv
<1> QED
  BY <1>1, <1>2, PTL

-----------------------------------------------------------------------------
(* The tools of an MCP server *)

OperationRows ==
    [state : {"PENDING", "RUNNING", "SUCCEEDED", "FAILED"}, runtime : Runtimes \cup {DiscoveryNone},
     seen : Seen, candidates : [Tools -> Decisions \cup {DiscoveryNone}]]
DiscoveryRuntimes == [step : {"idle", "claimed", "executed"}, op : 0..MaxOps, ok : BOOLEAN, seen : Seen]

\* Only the newest operation may be active, a runtime works on one that exists,
\* and the last that succeeded is well defined.
OperationsInOrder ==
    /\ Len(ops) <= MaxOps
    /\ \A i \in 1 .. Len(ops) : i # Len(ops) => ops[i].state \in {"SUCCEEDED", "FAILED"}
    /\ \A r \in Runtimes : runtime[r].step # "idle" => runtime[r].op \in 1 .. Len(ops)
    /\ Succeeded # {} => \E i \in Succeeded : \A j \in Succeeded : j <= i

DiscoveryInv == DiscoverySafe /\ OperationsInOrder

\* The parts of the type invariant.
LEMMA DiscoveryTypes ==
    ASSUME DiscoveryInv
    PROVE  /\ ops \in Seq(OperationRows) /\ Len(ops) \in Nat /\ DOMAIN ops = 1 .. Len(ops)
           /\ \A i \in 1 .. Len(ops) : ops[i] \in OperationRows
           /\ runtime \in [Runtimes -> DiscoveryRuntimes]
           /\ MaxOps \in Nat /\ Len(ops) <= MaxOps
<1>1. ops \in Seq(OperationRows) /\ runtime \in [Runtimes -> DiscoveryRuntimes]
  BY DEF DiscoveryInv, DiscoverySafe, DiscoveryTypeOK, OperationRows, DiscoveryRuntimes
<1>2. MaxOps \in Nat /\ Len(ops) <= MaxOps
  BY DiscoveryAssumption DEF DiscoveryInv, OperationsInOrder
<1> QED
  BY <1>1, <1>2

LEMMA NothingType == Nothing \in Seen /\ Nothing \in [Tools -> Decisions \cup {DiscoveryNone}]
  BY DEF Nothing, Seen

\* The last discovery that succeeded.
LEMMA LatestIs ==
    ASSUME DiscoveryInv, Succeeded # {}
    PROVE  /\ DiscoveryLatest \in Succeeded /\ \A j \in Succeeded : j <= DiscoveryLatest
           /\ DiscoveryLatest \in 1 .. Len(ops) /\ ops[DiscoveryLatest].state = "SUCCEEDED"
<1>1. \E i \in Succeeded : \A j \in Succeeded : j <= i
  BY DEF DiscoveryInv, OperationsInOrder
<1>2. DiscoveryLatest \in Succeeded /\ \A j \in Succeeded : j <= DiscoveryLatest
  BY <1>1 DEF DiscoveryLatest
<1> QED
  BY <1>2, DiscoveryTypes DEF Succeeded

LEMMA LastTypes ==
    ASSUME DiscoveryInv
    PROVE  LastSeen \in Seen /\ LastCandidates \in [Tools -> Decisions \cup {DiscoveryNone}]
<1>1. CASE Succeeded = {}
  BY <1>1, NothingType DEF LastSeen, LastCandidates
<1>2. CASE Succeeded # {}
  <2>1. ops[DiscoveryLatest] \in OperationRows
    BY <1>2, LatestIs, DiscoveryTypes
  <2> QED
    BY <1>2, <2>1 DEF LastSeen, LastCandidates, OperationRows
<1> QED
  BY <1>1, <1>2

\* What was last seen is known as long as no discovery ends.
LEMMA LastKept ==
    ASSUME DiscoveryInv, Succeeded' = Succeeded,
           \A i \in Succeeded : ops'[i].seen = ops[i].seen /\ ops'[i].candidates = ops[i].candidates
    PROVE  /\ LastSeen' = LastSeen /\ LastCandidates' = LastCandidates /\ DiscoveryLatest' = DiscoveryLatest
           /\ (Succeeded # {} => \E i \in Succeeded : \A j \in Succeeded : j <= i)'
<1>1. DiscoveryLatest' = DiscoveryLatest
  BY Zenon DEF DiscoveryLatest
<1>2. CASE Succeeded = {}
  BY <1>1, <1>2, Zenon DEF LastSeen, LastCandidates, Nothing
<1>3. CASE Succeeded # {}
  <2>1. DiscoveryLatest \in Succeeded /\ \A j \in Succeeded : j <= DiscoveryLatest
    BY <1>3, LatestIs
  <2>2. ops'[DiscoveryLatest].seen = ops[DiscoveryLatest].seen
        /\ ops'[DiscoveryLatest].candidates = ops[DiscoveryLatest].candidates
    BY <2>1
  <2>3. LastSeen' = LastSeen /\ LastCandidates' = LastCandidates
    BY <1>1, <1>3, <2>2, Zenon DEF LastSeen, LastCandidates
  <2> QED
    BY <1>1, <2>1, <2>3
<1> QED
  BY <1>2, <1>3, <1>1

LEMMA LastSame ==
    ASSUME DiscoveryInv, ops' = ops
    PROVE  /\ LastSeen' = LastSeen /\ LastCandidates' = LastCandidates /\ DiscoveryLatest' = DiscoveryLatest
           /\ Succeeded' = Succeeded
           /\ (Succeeded # {} => \E i \in Succeeded : \A j \in Succeeded : j <= i)'
<1>1. Succeeded' = Succeeded
  BY Zenon DEF Succeeded
<1> QED
  BY <1>1, LastKept

\* A write of the connection's row.
LEMMA Configured ==
    ASSUME DiscoveryInv, NEW selected \in SUBSET Tools, NEW from \in 0 .. MaxOps, NEW reviews \in Seen,
           Configure(selected, from, reviews), discoveryLive' = discoveryLive
    PROVE  /\ config' \in Configs /\ config'.selected = selected /\ config'.reviews = reviews
           /\ discoveryPub' \in [state : {"DRAFT", "PENDING_REVIEW", "FAILED", "PUBLISHED"}, snap : Configs]
           /\ ChangeWaits'
<1> DEFINE new == [selected |-> selected, from |-> from, reviews |-> reviews, rev |-> config.rev + 1]
<1>1. config \in Configs /\ config.rev \in Nat
      /\ discoveryPub \in [state : {"DRAFT", "PENDING_REVIEW", "FAILED", "PUBLISHED"}, snap : Configs]
  BY DEF DiscoveryInv, DiscoverySafe, DiscoveryTypeOK, Configs
<1>2. /\ new \in Configs /\ new.selected = selected /\ new.reviews = reviews
      /\ new.rev = config.rev + 1
  BY <1>1 DEF Configs
<1>3. NoConfig \in Configs
  BY DiscoveryAssumption, NothingType DEF NoConfig, Configs
<1>4. [state |-> "DRAFT", snap |-> NoConfig] \in [state : {"DRAFT", "PENDING_REVIEW", "FAILED", "PUBLISHED"}, snap : Configs]
  BY <1>3
<1>5. CASE selected # config.selected \/ reviews # config.reviews
  <2>1. config' = new /\ discoveryPub' = Successor(new)
    BY <1>5 DEF Configure
  <2> HIDE DEF new
  <2>2. new.rev # config.rev
    BY <1>1, <1>2
  <2>3. discoveryPub' = [state |-> "DRAFT", snap |-> NoConfig]
        \/ (discoveryPub' = discoveryPub /\ discoveryPub.state # "PUBLISHED")
    BY <2>1, <2>2 DEF Successor
  <2> QED
    BY <1>1, <1>2, <1>4, <2>1, <2>3 DEF ChangeWaits
<1>6. CASE selected = config.selected /\ reviews = config.reviews
  <2>1. config' = config /\ discoveryPub' = Successor(config)
    BY <1>6 DEF Configure
  <2>2. discoveryPub' = discoveryPub
    BY <2>1 DEF Successor
  <2> QED
    BY <1>1, <1>6, <2>1, <2>2 DEF ChangeWaits, DiscoveryInv, DiscoverySafe
<1> QED
  BY <1>5, <1>6

\* A runtime that ends its work.
LEMMA DiscoveryIdleType == DiscoveryIdle \in DiscoveryRuntimes /\ DiscoveryIdle.step = "idle"
<1>1. PICK v \in BOOLEAN : DiscoveryIdle = [step |-> "idle", op |-> 0, ok |-> v, seen |-> Nothing]
  BY Zenon DEF DiscoveryIdle
<1> QED
  BY <1>1, NothingType, DiscoveryAssumption DEF DiscoveryRuntimes

-----------------------------------------------------------------------------
LEMMA DiscoveryInvInit == DiscoveryInit => DiscoveryInv
<1> SUFFICES ASSUME DiscoveryInit PROVE DiscoveryInv
  OBVIOUS
<1>1. Succeeded = {}
  BY DEF DiscoveryInit, Succeeded
<1>2. LastSeen = Nothing /\ LastCandidates = Nothing
  BY <1>1 DEF LastSeen, LastCandidates
<1>3. config \in Configs /\ config.reviews = Nothing /\ NoConfig \in Configs
  BY DiscoveryAssumption, NothingType DEF DiscoveryInit, NoConfig, Configs
<1>4. runtime \in [Runtimes -> DiscoveryRuntimes] /\ \A r \in Runtimes : runtime[r].step = "idle"
  BY DiscoveryIdleType DEF DiscoveryInit
<1>5. \A t \in Tools : Nothing[t] = DiscoveryNone
  BY DEF Nothing
<1>6. DiscoveryTypeOK
  <2>1. decided \in [Tools -> [state : Decisions, digest : Digests \cup {DiscoveryNone}]]
    BY DEF DiscoveryInit, Decisions
  <2>2. ops = <<>> /\ approved = {} /\ upstream \in Seen /\ page \in Seen /\ discoveryLive \in Configs
    BY <1>3, NothingType DEF DiscoveryInit
  <2>3. discoveryPub \in [state : {"DRAFT", "PENDING_REVIEW", "FAILED", "PUBLISHED"}, snap : Configs]
    BY <1>3 DEF DiscoveryInit
  <2> QED
    BY <1>3, <1>4, <2>1, <2>2, <2>3 DEF DiscoveryTypeOK, DiscoveryRuntimes
<1>7. OperationsInOrder
  BY <1>1, <1>4, DiscoveryAssumption DEF DiscoveryInit, OperationsInOrder
<1>8. ReviewBound /\ ApprovedAsShown
  BY <1>3, <1>5 DEF ReviewBound, ApprovedAsShown
<1>9. DecidedForRevision
  BY <1>2, <1>5, DiscoveryAssumption DEF DecidedForRevision
<1>10. ChangeWaits
  BY DEF ChangeWaits, DiscoveryInit
<1> QED
  BY <1>6, <1>7, <1>8, <1>9, <1>10 DEF DiscoveryInv, DiscoverySafe

\* What the decisions about the tools depend on.
LEMMA DecisionsKeep ==
    ASSUME DiscoveryInv, LastSeen' = LastSeen, LastCandidates' = LastCandidates,
           UNCHANGED <<config, approved, decided>>
    PROVE  ReviewBound' /\ ApprovedAsShown' /\ DecidedForRevision'
<1>1. ReviewBound'
  BY DEF DiscoveryInv, DiscoverySafe, ReviewBound
<1>2. ApprovedAsShown'
  BY DEF DiscoveryInv, DiscoverySafe, ApprovedAsShown
<1>3. DecidedForRevision'
  BY DEF DiscoveryInv, DiscoverySafe, DecidedForRevision
<1> QED
  BY <1>1, <1>2, <1>3

LEMMA RequestKeeps ==
    ASSUME DiscoveryInv, Request
    PROVE  DiscoveryInv'
<1>1. /\ ~ DiscoveryActive /\ Len(ops) < MaxOps /\ ops' = Append(ops, Operation)
      /\ UNCHANGED <<upstream, runtime, config, discoveryPub, discoveryLive, page, approved, decided>>
  BY DEF Request
<1>2. Operation \in OperationRows /\ Operation.state = "PENDING" /\ Operation.runtime = DiscoveryNone
  BY NothingType DEF Operation, OperationRows
<1>3. /\ ops' \in Seq(OperationRows) /\ Len(ops') = Len(ops) + 1 /\ DOMAIN ops' = 1 .. Len(ops')
      /\ ops'[Len(ops) + 1] = Operation /\ \A i \in 1 .. Len(ops) : ops'[i] = ops[i]
  BY <1>1, <1>2, DiscoveryTypes
<1>4. Succeeded' = Succeeded
  BY <1>2, <1>3, DiscoveryTypes DEF Succeeded
<1>5. \A i \in Succeeded : ops'[i] = ops[i]
  BY <1>3, DiscoveryTypes DEF Succeeded
<1>6. /\ LastSeen' = LastSeen /\ LastCandidates' = LastCandidates
      /\ (Succeeded # {} => \E i \in Succeeded : \A j \in Succeeded : j <= i)'
  BY <1>4, <1>5, LastKept
<1>7. DiscoveryTypeOK'
  <2>1. \A i \in 1 .. Len(ops) : (ops[i].state = "PENDING") = (ops[i].runtime = DiscoveryNone)
    BY DiscoveryTypes DEF DiscoveryInv, DiscoverySafe, DiscoveryTypeOK
  <2>2. \A i \in 1 .. Len(ops') : i \in 1 .. Len(ops) \/ i = Len(ops) + 1
    BY <1>3, DiscoveryTypes
  <2>3. \A i \in DOMAIN ops' : (ops'[i].state = "PENDING") = (ops'[i].runtime = DiscoveryNone)
    BY <1>2, <1>3, <2>1, <2>2
  <2> QED
    BY <1>1, <1>3, <2>3 DEF DiscoveryInv, DiscoverySafe, DiscoveryTypeOK, OperationRows
<1>8. OperationsInOrder'
  <2>1. \A i \in 1 .. Len(ops) : ops[i].state \in {"SUCCEEDED", "FAILED"}
    BY <1>1, DiscoveryTypes DEF DiscoveryActive, OperationRows
  <2>2. \A i \in 1 .. Len(ops') : i # Len(ops') => ops'[i].state \in {"SUCCEEDED", "FAILED"}
    BY <1>3, <2>1, DiscoveryTypes
  <2>3. \A r \in Runtimes : runtime'[r].step # "idle" => runtime'[r].op \in 1 .. Len(ops')
    BY <1>1, <1>3, DiscoveryTypes DEF DiscoveryInv, OperationsInOrder
  <2>4. Len(ops') <= MaxOps
    BY <1>1, <1>3, DiscoveryTypes
  <2> QED
    BY <1>6, <2>2, <2>3, <2>4 DEF OperationsInOrder
<1>9. ChangeWaits'
  BY <1>1 DEF DiscoveryInv, DiscoverySafe, ChangeWaits
<1> QED
  BY <1>1, <1>6, <1>7, <1>8, <1>9, DecisionsKeep DEF DiscoveryInv, DiscoverySafe

\* A runtime starts to work on an operation, or stops.
LEMMA RuntimeSet ==
    ASSUME DiscoveryInv, NEW r \in Runtimes, NEW row \in DiscoveryRuntimes, runtime' = [runtime EXCEPT ![r] = row],
           row.step # "idle" => row.op \in 1 .. Len(ops)
    PROVE  /\ runtime' \in [Runtimes -> DiscoveryRuntimes]
           /\ \A q \in Runtimes : runtime'[q].step # "idle" => runtime'[q].op \in 1 .. Len(ops)
  BY DiscoveryTypes DEF DiscoveryInv, OperationsInOrder

\* Only the state and the runtime of an operation that is not finished change.
LEMMA OperationSet ==
    ASSUME DiscoveryInv, NEW i \in 1 .. Len(ops), NEW row \in OperationRows, ops' = [ops EXCEPT ![i] = row],
           (row.state = "PENDING") = (row.runtime = DiscoveryNone),
           ops[i].state \in {"PENDING", "RUNNING"}
    PROVE  /\ ops' \in Seq(OperationRows) /\ Len(ops') = Len(ops) /\ DOMAIN ops' = 1 .. Len(ops) /\ i = Len(ops)
           /\ ops'[i] = row /\ \A j \in 1 .. Len(ops) : j # i => ops'[j] = ops[j]
           /\ \A j \in 1 .. Len(ops) : (ops'[j].state = "PENDING") = (ops'[j].runtime = DiscoveryNone)
           /\ \A j \in 1 .. Len(ops) : j # Len(ops) => ops'[j].state \in {"SUCCEEDED", "FAILED"}
           /\ Succeeded' = IF row.state = "SUCCEEDED" THEN Succeeded \cup {i} ELSE Succeeded
           /\ i \notin Succeeded
<1>1. /\ ops' \in Seq(OperationRows) /\ Len(ops') = Len(ops) /\ DOMAIN ops' = 1 .. Len(ops)
      /\ ops'[i] = row /\ \A j \in 1 .. Len(ops) : j # i => ops'[j] = ops[j]
  BY DiscoveryTypes
<1>2. i = Len(ops)
  BY DEF DiscoveryInv, OperationsInOrder
<1>3. \A j \in 1 .. Len(ops) : (ops'[j].state = "PENDING") = (ops'[j].runtime = DiscoveryNone)
  <2>1. \A j \in 1 .. Len(ops) : (ops[j].state = "PENDING") = (ops[j].runtime = DiscoveryNone)
    BY DiscoveryTypes DEF DiscoveryInv, DiscoverySafe, DiscoveryTypeOK
  <2> QED
    BY <1>1, <2>1
<1>4. \A j \in 1 .. Len(ops) : j # Len(ops) => ops'[j].state \in {"SUCCEEDED", "FAILED"}
  BY <1>1, <1>2 DEF DiscoveryInv, OperationsInOrder
<1>5. Succeeded' = IF row.state = "SUCCEEDED" THEN Succeeded \cup {i} ELSE Succeeded
  BY <1>1, DiscoveryTypes DEF Succeeded
<1>6. i \notin Succeeded
  BY DEF Succeeded
<1> QED
  BY <1>1, <1>2, <1>3, <1>4, <1>5, <1>6

LEMMA ClaimingKeeps ==
    ASSUME DiscoveryInv, NEW r \in Runtimes, DiscoveryClaim(r)
    PROVE  DiscoveryInv'
<1>1. PICK i \in DOMAIN ops :
        /\ ops[i].state = "PENDING" /\ ops' = Taken(i, r)
        /\ \/ runtime' = [runtime EXCEPT ![r] = [DiscoveryIdle EXCEPT !.step = "claimed", !.op = i]]
           \/ UNCHANGED runtime
  BY DEF DiscoveryClaim, DiscoveryClaimable
<1>2. UNCHANGED <<upstream, config, discoveryPub, discoveryLive, page, approved, decided>>
  BY DEF DiscoveryClaim
<1>3. i \in 1 .. Len(ops) /\ ops[i] \in OperationRows
  BY DiscoveryTypes
<1> DEFINE row == [ops[i] EXCEPT !.state = "RUNNING", !.runtime = r]
<1>4. /\ row \in OperationRows /\ row.state = "RUNNING" /\ row.runtime = r
      /\ row.seen = ops[i].seen /\ row.candidates = ops[i].candidates
  BY <1>3 DEF OperationRows
<1>5. ops' = [ops EXCEPT ![i] = row]
  BY <1>1, <1>3, DiscoveryTypes DEF Taken, OperationRows
<1> HIDE DEF row
<1>6. (row.state = "PENDING") = (row.runtime = DiscoveryNone)
  BY <1>4, DiscoveryAssumption
<1>7. /\ ops' \in Seq(OperationRows) /\ Len(ops') = Len(ops) /\ DOMAIN ops' = 1 .. Len(ops)
      /\ \A j \in 1 .. Len(ops) : j # i => ops'[j] = ops[j]
      /\ \A j \in 1 .. Len(ops) : (ops'[j].state = "PENDING") = (ops'[j].runtime = DiscoveryNone)
      /\ \A j \in 1 .. Len(ops) : j # Len(ops) => ops'[j].state \in {"SUCCEEDED", "FAILED"}
      /\ Succeeded' = Succeeded /\ i \notin Succeeded
  BY <1>1, <1>3, <1>4, <1>5, <1>6, OperationSet
<1>8. \A j \in Succeeded : ops'[j] = ops[j]
  BY <1>7, DiscoveryTypes DEF Succeeded
<1>9. /\ LastSeen' = LastSeen /\ LastCandidates' = LastCandidates
      /\ (Succeeded # {} => \E j \in Succeeded : \A k \in Succeeded : k <= j)'
  BY <1>7, <1>8, LastKept
<1>10. /\ runtime' \in [Runtimes -> DiscoveryRuntimes]
       /\ \A q \in Runtimes : runtime'[q].step # "idle" => runtime'[q].op \in 1 .. Len(ops)
  <2>1. CASE UNCHANGED runtime
    BY <2>1, DiscoveryTypes DEF DiscoveryInv, OperationsInOrder
  <2>2. CASE runtime' = [runtime EXCEPT ![r] = [DiscoveryIdle EXCEPT !.step = "claimed", !.op = i]]
    <3> DEFINE claim == [DiscoveryIdle EXCEPT !.step = "claimed", !.op = i]
    <3>1. i \in 0 .. MaxOps
      BY <1>3, DiscoveryTypes
    <3>2. claim \in DiscoveryRuntimes /\ claim.op = i
      BY <3>1, DiscoveryIdleType DEF DiscoveryRuntimes
    <3> HIDE DEF claim
    <3> QED
      BY <1>3, <2>2, <3>2, RuntimeSet DEF claim
  <2> QED
    BY <1>1, <2>1, <2>2
<1>11. DiscoveryTypeOK'
  BY <1>2, <1>7, <1>10 DEF DiscoveryInv, DiscoverySafe, DiscoveryTypeOK, OperationRows, DiscoveryRuntimes
<1>12. OperationsInOrder'
  BY <1>7, <1>9, <1>10, DiscoveryTypes DEF OperationsInOrder
<1>13. ChangeWaits'
  BY <1>2 DEF DiscoveryInv, DiscoverySafe, ChangeWaits
<1> QED
  BY <1>2, <1>9, <1>11, <1>12, <1>13, DecisionsKeep DEF DiscoveryInv, DiscoverySafe

\* A step that only changes what a runtime does, what the server has or what
\* is on the screen.
LEMMA RuntimesKeep ==
    ASSUME DiscoveryInv, UNCHANGED <<ops, config, discoveryPub, discoveryLive, approved, decided>>,
           upstream' \in Seen, page' \in Seen, runtime' \in [Runtimes -> DiscoveryRuntimes],
           \A q \in Runtimes : runtime'[q].step # "idle" => runtime'[q].op \in 1 .. Len(ops)
    PROVE  DiscoveryInv'
<1>1. /\ LastSeen' = LastSeen /\ LastCandidates' = LastCandidates
      /\ (Succeeded # {} => \E i \in Succeeded : \A j \in Succeeded : j <= i)'
  BY LastSame
<1>2. DiscoveryTypeOK'
  BY DEF DiscoveryInv, DiscoverySafe, DiscoveryTypeOK, DiscoveryRuntimes
<1>3. OperationsInOrder'
  BY <1>1 DEF DiscoveryInv, OperationsInOrder
<1>4. ChangeWaits'
  BY DEF DiscoveryInv, DiscoverySafe, ChangeWaits
<1> QED
  BY <1>1, <1>2, <1>3, <1>4, DecisionsKeep DEF DiscoveryInv, DiscoverySafe

LEMMA ExecuteKeeps ==
    ASSUME DiscoveryInv, NEW r \in Runtimes, Execute(r)
    PROVE  DiscoveryInv'
<1>1. UNCHANGED <<upstream, ops, config, discoveryPub, discoveryLive, page, approved, decided>>
  BY DEF Execute
<1>2. PICK ok \in BOOLEAN, seen \in Seen :
        runtime' = [runtime EXCEPT ![r].step = "executed", ![r].ok = ok, ![r].seen = seen]
  BY NothingType DEF Execute, DiscoveryInv, DiscoverySafe, DiscoveryTypeOK
<1>3. \A p \in DiscoveryRuntimes :
        /\ [p EXCEPT !.step = "executed", !.ok = ok, !.seen = seen] \in DiscoveryRuntimes
        /\ [p EXCEPT !.step = "executed", !.ok = ok, !.seen = seen].op = p.op
  BY DEF DiscoveryRuntimes
<1>4. runtime[r].op \in 1 .. Len(ops)
  BY DEF Execute, DiscoveryInv, OperationsInOrder
<1> DEFINE row == [runtime[r] EXCEPT !.step = "executed", !.ok = ok, !.seen = seen]
<1>5. row \in DiscoveryRuntimes /\ row.op = runtime[r].op
  BY <1>3, DiscoveryTypes
<1>6. runtime' = [runtime EXCEPT ![r] = row]
  BY <1>2, DiscoveryTypes
<1> HIDE DEF row
<1>7. /\ runtime' \in [Runtimes -> DiscoveryRuntimes]
      /\ \A q \in Runtimes : runtime'[q].step # "idle" => runtime'[q].op \in 1 .. Len(ops)
  BY <1>4, <1>5, <1>6, RuntimeSet
<1>8. upstream \in Seen /\ page \in Seen
  BY DEF DiscoveryInv, DiscoverySafe, DiscoveryTypeOK
<1> QED
  BY <1>1, <1>7, <1>8, RuntimesKeep

LEMMA OutsideKeeps ==
    ASSUME DiscoveryInv, DiscoveryView \/ Drift \/ \E r \in Runtimes : DiscoveryCrash(r)
    PROVE  DiscoveryInv'
<1>1. upstream \in Seen /\ page \in Seen
  BY DEF DiscoveryInv, DiscoverySafe, DiscoveryTypeOK
<1>2. \A q \in Runtimes : runtime[q].step # "idle" => runtime[q].op \in 1 .. Len(ops)
  BY DEF DiscoveryInv, OperationsInOrder
<1>3. CASE DiscoveryView
  <2>1. /\ page' \in Seen
        /\ UNCHANGED <<upstream, ops, runtime, config, discoveryPub, discoveryLive, approved, decided>>
    BY <1>3, LastTypes DEF DiscoveryView
  <2> QED
    BY <1>1, <1>2, <2>1, DiscoveryTypes, RuntimesKeep
<1>4. CASE Drift
  <2>1. /\ upstream' \in Seen
        /\ UNCHANGED <<page, ops, runtime, config, discoveryPub, discoveryLive, approved, decided>>
    BY <1>1, <1>4 DEF Drift, Seen
  <2> QED
    BY <1>1, <1>2, <2>1, DiscoveryTypes, RuntimesKeep
<1>5. CASE \E r \in Runtimes : DiscoveryCrash(r)
  <2>1. PICK r \in Runtimes : runtime' = [runtime EXCEPT ![r] = DiscoveryIdle]
    BY <1>5 DEF DiscoveryCrash
  <2>2. UNCHANGED <<upstream, page, ops, config, discoveryPub, discoveryLive, approved, decided>>
    BY <1>5 DEF DiscoveryCrash
  <2>3. /\ runtime' \in [Runtimes -> DiscoveryRuntimes]
        /\ \A q \in Runtimes : runtime'[q].step # "idle" => runtime'[q].op \in 1 .. Len(ops)
    BY <2>1, DiscoveryIdleType, RuntimeSet
  <2> QED
    BY <1>1, <2>2, <2>3, RuntimesKeep
<1> QED
  BY <1>3, <1>4, <1>5

\* A result is posted: the operation ends, and the approvals that its
\* observation does not bear out with it.
LEMMA SucceedKeeps ==
    ASSUME DiscoveryInv, NEW r \in Runtimes, runtime[r].step = "executed", runtime[r].ok, Complete(r),
           runtime' = [runtime EXCEPT ![r] = DiscoveryIdle],
           UNCHANGED <<upstream, discoveryLive, page, approved, decided>>
    PROVE  DiscoveryInv'
<1> DEFINE i == runtime[r].op
           seen == runtime[r].seen
           candidates == [t \in Tools |-> Candidate(t, seen)]
           row == [ops[i] EXCEPT !.state = "SUCCEEDED", !.seen = seen, !.candidates = candidates]
<1>1. /\ i \in 1 .. Len(ops) /\ ops[i] \in OperationRows /\ ops[i].state = "RUNNING" /\ ops[i].runtime = r
      /\ seen \in Seen
  BY DiscoveryTypes DEF DiscoveryInv, OperationsInOrder, Complete, DiscoveryRuntimes
<1>2. /\ ops' = [ops EXCEPT ![i].state = "SUCCEEDED", ![i].seen = seen, ![i].candidates = candidates]
      /\ Configure(config.selected, config.from, Pruned(seen))
  BY DEF Complete
<1>3. candidates \in [Tools -> Decisions \cup {DiscoveryNone}]
  BY LastTypes DEF Candidate, Decisions
<1>4. \A t \in Tools : candidates[t] = Candidate(t, seen)
  OBVIOUS
<1> HIDE DEF i, seen, candidates
<1>5. /\ row \in OperationRows /\ row.state = "SUCCEEDED" /\ row.runtime = r
      /\ row.seen = seen /\ row.candidates = candidates
  BY <1>1, <1>3 DEF OperationRows
<1>6. ops' = [ops EXCEPT ![i] = row]
  BY <1>1, <1>2, DiscoveryTypes DEF OperationRows
<1> HIDE DEF row
<1>7. (row.state = "PENDING") = (row.runtime = DiscoveryNone)
  BY <1>5, DiscoveryAssumption
<1>8. /\ ops' \in Seq(OperationRows) /\ Len(ops') = Len(ops) /\ DOMAIN ops' = 1 .. Len(ops)
      /\ i = Len(ops) /\ ops'[i] = row
      /\ \A j \in 1 .. Len(ops) : (ops'[j].state = "PENDING") = (ops'[j].runtime = DiscoveryNone)
      /\ \A j \in 1 .. Len(ops) : j # Len(ops) => ops'[j].state \in {"SUCCEEDED", "FAILED"}
      /\ Succeeded' = Succeeded \cup {i}
  BY <1>1, <1>5, <1>6, <1>7, OperationSet
<1>9. \A j \in Succeeded' : j \in 1 .. i
  BY <1>1, <1>8, DiscoveryTypes DEF Succeeded
<1>10. DiscoveryLatest' = i
  <2>1. i \in Succeeded' /\ \A j \in Succeeded' : j <= i /\ j \in Nat
    <3>1. i \in Nat
      BY <1>1, DiscoveryTypes
    <3>2. i \in Succeeded'
      BY <1>8
    <3> QED
      BY <1>9, <3>1, <3>2
  <2>2. \A k \in Succeeded' : (\A j \in Succeeded' : j <= k) => k = i
    BY <2>1
  <2> QED
    BY <2>1, <2>2 DEF DiscoveryLatest
<1>11. LastSeen' = seen /\ LastCandidates' = candidates
  BY <1>5, <1>8, <1>10 DEF LastSeen, LastCandidates
<1>12. /\ Pruned(seen) \in Seen
       /\ \A t \in Tools : Pruned(seen)[t] # DiscoveryNone => Pruned(seen)[t] = seen[t] /\ config.reviews[t] = seen[t]
  BY <1>1 DEF Pruned, Seen
<1>13. /\ config' \in Configs /\ config'.selected = config.selected /\ config'.reviews = Pruned(seen)
       /\ discoveryPub' \in [state : {"DRAFT", "PENDING_REVIEW", "FAILED", "PUBLISHED"}, snap : Configs]
       /\ ChangeWaits'
  <2>1. config.selected \in SUBSET Tools /\ config.from \in 0 .. MaxOps
    BY DEF DiscoveryInv, DiscoverySafe, DiscoveryTypeOK, Configs
  <2> QED
    BY <1>2, <1>12, <2>1, Configured
<1>14. /\ runtime' \in [Runtimes -> DiscoveryRuntimes]
       /\ \A q \in Runtimes : runtime'[q].step # "idle" => runtime'[q].op \in 1 .. Len(ops)
  BY DiscoveryIdleType, RuntimeSet
<1>15. DiscoveryTypeOK'
  BY <1>8, <1>13, <1>14 DEF DiscoveryInv, DiscoverySafe, DiscoveryTypeOK, OperationRows, DiscoveryRuntimes
<1>16. OperationsInOrder'
  <2>1. (Succeeded # {} => \E j \in Succeeded : \A k \in Succeeded : k <= j)'
    BY <1>8, <1>9
  <2> QED
    BY <1>8, <1>14, <2>1, DiscoveryTypes DEF OperationsInOrder
<1>17. ReviewBound' /\ ApprovedAsShown'
  BY <1>11, <1>12, <1>13 DEF DiscoveryInv, DiscoverySafe, ReviewBound, ApprovedAsShown
<1>18. DecidedForRevision'
  <2> SUFFICES ASSUME NEW t \in Tools
               PROVE  /\ candidates[t] \in {"IGNORED", "BLOCKED"} =>
                           decided[t] = [state |-> candidates[t], digest |-> seen[t]]
                      /\ candidates[t] # DiscoveryNone =>
                           ((candidates[t] = "PUBLISHED") = (t \in config.selected))
    BY <1>11, <1>13, Zenon DEF DecidedForRevision
  <2>1. LastCandidates[t] \in {"IGNORED", "BLOCKED"} =>
            decided[t] = [state |-> LastCandidates[t], digest |-> LastSeen[t]]
    BY DEF DiscoveryInv, DiscoverySafe, DecidedForRevision
  <2>2. \/ candidates[t] = DiscoveryNone
        \/ candidates[t] = "PUBLISHED" /\ t \in config.selected
        \/ candidates[t] = "NEW" /\ t \notin config.selected
        \/ /\ t \notin config.selected /\ candidates[t] = LastCandidates[t] /\ seen[t] = LastSeen[t]
           /\ LastCandidates[t] \in {"IGNORED", "BLOCKED"}
    BY <1>4 DEF Candidate
  <2> QED
    BY <2>1, <2>2, DiscoveryAssumption
<1> QED
  BY <1>13, <1>15, <1>16, <1>17, <1>18 DEF DiscoveryInv, DiscoverySafe

LEMMA FailKeeps ==
    ASSUME DiscoveryInv, NEW r \in Runtimes, runtime[r].step = "executed", ~ runtime[r].ok, Complete(r),
           runtime' = [runtime EXCEPT ![r] = DiscoveryIdle],
           UNCHANGED <<upstream, discoveryLive, page, approved, decided>>
    PROVE  DiscoveryInv'
<1> DEFINE i == runtime[r].op
           row == [ops[i] EXCEPT !.state = "FAILED"]
<1>1. i \in 1 .. Len(ops) /\ ops[i] \in OperationRows /\ ops[i].state = "RUNNING" /\ ops[i].runtime = r
  BY DiscoveryTypes DEF DiscoveryInv, OperationsInOrder, Complete
<1>2. ops' = [ops EXCEPT ![i].state = "FAILED"] /\ UNCHANGED <<config, discoveryPub>>
  BY DEF Complete
<1> HIDE DEF i
<1>3. row \in OperationRows /\ row.state = "FAILED" /\ row.runtime = r
  BY <1>1 DEF OperationRows
<1>4. ops' = [ops EXCEPT ![i] = row]
  BY <1>1, <1>2, DiscoveryTypes DEF OperationRows
<1> HIDE DEF row
<1>5. (row.state = "PENDING") = (row.runtime = DiscoveryNone)
  BY <1>3, DiscoveryAssumption
<1>6. /\ ops' \in Seq(OperationRows) /\ Len(ops') = Len(ops) /\ DOMAIN ops' = 1 .. Len(ops)
      /\ \A j \in 1 .. Len(ops) : j # i => ops'[j] = ops[j]
      /\ \A j \in 1 .. Len(ops) : (ops'[j].state = "PENDING") = (ops'[j].runtime = DiscoveryNone)
      /\ \A j \in 1 .. Len(ops) : j # Len(ops) => ops'[j].state \in {"SUCCEEDED", "FAILED"}
      /\ Succeeded' = Succeeded /\ i \notin Succeeded
  BY <1>1, <1>3, <1>4, <1>5, OperationSet
<1>7. \A j \in Succeeded : ops'[j] = ops[j]
  BY <1>6, DiscoveryTypes DEF Succeeded
<1>8. /\ LastSeen' = LastSeen /\ LastCandidates' = LastCandidates
      /\ (Succeeded # {} => \E j \in Succeeded : \A k \in Succeeded : k <= j)'
  BY <1>6, <1>7, LastKept
<1>9. /\ runtime' \in [Runtimes -> DiscoveryRuntimes]
      /\ \A q \in Runtimes : runtime'[q].step # "idle" => runtime'[q].op \in 1 .. Len(ops)
  BY DiscoveryIdleType, RuntimeSet
<1>10. DiscoveryTypeOK'
  BY <1>2, <1>6, <1>9 DEF DiscoveryInv, DiscoverySafe, DiscoveryTypeOK, OperationRows, DiscoveryRuntimes
<1>11. OperationsInOrder'
  BY <1>6, <1>8, <1>9, DiscoveryTypes DEF OperationsInOrder
<1>12. ChangeWaits'
  BY <1>2 DEF DiscoveryInv, DiscoverySafe, ChangeWaits
<1> QED
  BY <1>2, <1>8, <1>10, <1>11, <1>12, DecisionsKeep DEF DiscoveryInv, DiscoverySafe

LEMMA DeliverKeeps ==
    ASSUME DiscoveryInv, NEW r \in Runtimes, Deliver(r)
    PROVE  DiscoveryInv'
<1>1. /\ runtime[r].step = "executed" /\ runtime' = [runtime EXCEPT ![r] = DiscoveryIdle]
      /\ UNCHANGED <<upstream, discoveryLive, page, approved, decided>>
  BY DEF Deliver
<1>2. CASE Complete(r)
  BY <1>1, <1>2, SucceedKeeps, FailKeeps
<1>3. CASE UNCHANGED <<ops, config, discoveryPub>>
  <2>1. /\ runtime' \in [Runtimes -> DiscoveryRuntimes]
        /\ \A q \in Runtimes : runtime'[q].step # "idle" => runtime'[q].op \in 1 .. Len(ops)
    BY <1>1, DiscoveryIdleType, RuntimeSet
  <2>2. upstream \in Seen /\ page \in Seen
    BY DEF DiscoveryInv, DiscoverySafe, DiscoveryTypeOK
  <2> QED
    BY <1>1, <1>3, <2>1, <2>2, RuntimesKeep
<1> QED
  BY <1>2, <1>3 DEF Deliver

\* A decision about a candidate the administrator saw.
LEMMA DecideCandidateKeeps ==
    ASSUME DiscoveryInv, NEW t \in Tools, NEW state \in Decisions \ {"NEW"}, DecideCandidate(t, state)
    PROVE  DiscoveryInv'
<1> DEFINE l == DiscoveryLatest
           candidates == [ops[l].candidates EXCEPT ![t] = state]
           row == [ops[l] EXCEPT !.candidates = candidates]
           selected == IF state = "PUBLISHED" THEN config.selected \cup {t} ELSE config.selected \ {t}
<1>1. /\ Succeeded # {} /\ page[t] # DiscoveryNone /\ LastSeen[t] = page[t]
      /\ Configure(selected, l, Removed(t, state))
      /\ ops' = [ops EXCEPT ![l].candidates[t] = state]
      /\ decided' = [decided EXCEPT ![t] = [state |-> state, digest |-> page[t]]]
      /\ UNCHANGED <<upstream, runtime, discoveryLive, page, approved>>
  BY DEF DecideCandidate, DiscoveryDecide, Shown
<1>2. /\ l \in Succeeded /\ l \in 1 .. Len(ops) /\ l \in 0 .. MaxOps /\ ops[l] \in OperationRows
      /\ ops[l].state = "SUCCEEDED" /\ LastSeen = ops[l].seen /\ LastCandidates = ops[l].candidates
  BY <1>1, LatestIs, DiscoveryTypes DEF LastSeen, LastCandidates
<1>3. /\ candidates \in [Tools -> Decisions \cup {DiscoveryNone}] /\ candidates[t] = state
      /\ \A u \in Tools : u # t => candidates[u] = LastCandidates[u]
  BY <1>2 DEF OperationRows
<1>4. ops' = [ops EXCEPT ![l] = row]
  BY <1>1, <1>2, DiscoveryTypes DEF OperationRows
<1> HIDE DEF l, candidates
<1>5. /\ row \in OperationRows /\ row.state = "SUCCEEDED" /\ row.runtime = ops[l].runtime
      /\ row.seen = ops[l].seen /\ row.candidates = candidates
  BY <1>2, <1>3 DEF OperationRows
<1> HIDE DEF row
<1>6. /\ ops' \in Seq(OperationRows) /\ Len(ops') = Len(ops) /\ DOMAIN ops' = 1 .. Len(ops)
      /\ ops'[l] = row /\ \A j \in 1 .. Len(ops) : j # l => ops'[j] = ops[j]
  BY <1>2, <1>4, <1>5, DiscoveryTypes
<1>7. /\ \A j \in 1 .. Len(ops) : ops'[j].state = ops[j].state /\ ops'[j].runtime = ops[j].runtime
      /\ Succeeded' = Succeeded
  <2>1. \A j \in 1 .. Len(ops) : ops'[j].state = ops[j].state /\ ops'[j].runtime = ops[j].runtime
    BY <1>2, <1>5, <1>6
  <2> QED
    BY <1>6, <2>1, DiscoveryTypes DEF Succeeded
<1>8. DiscoveryLatest' = l
  BY <1>7, Zenon DEF DiscoveryLatest, l
<1>9. LastSeen' = LastSeen /\ LastCandidates' = candidates
  BY <1>1, <1>2, <1>5, <1>6, <1>7, <1>8 DEF LastSeen, LastCandidates
<1>10. /\ config.selected \in SUBSET Tools /\ config.reviews \in Seen /\ selected \in SUBSET Tools
       /\ Removed(t, state) \in Seen
       /\ state # "PUBLISHED" => Removed(t, state)[t] = DiscoveryNone
       /\ state = "PUBLISHED" => Removed(t, state)[t] = config.reviews[t]
       /\ \A u \in Tools : u # t => Removed(t, state)[u] = config.reviews[u]
       /\ \A u \in Tools : u # t => (u \in selected <=> u \in config.selected)
       /\ t \in selected <=> state = "PUBLISHED"
  <2>1. config.selected \in SUBSET Tools /\ config.reviews \in Seen
    BY DEF DiscoveryInv, DiscoverySafe, DiscoveryTypeOK, Configs
  <2> QED
    BY <2>1 DEF Removed, Seen
<1> HIDE DEF selected
<1>11. /\ config' \in Configs /\ config'.selected = selected /\ config'.reviews = Removed(t, state)
       /\ discoveryPub' \in [state : {"DRAFT", "PENDING_REVIEW", "FAILED", "PUBLISHED"}, snap : Configs]
       /\ ChangeWaits'
  BY <1>1, <1>2, <1>10, Configured
<1>12. /\ decided' \in [Tools -> [state : Decisions, digest : Digests \cup {DiscoveryNone}]]
       /\ decided'[t] = [state |-> state, digest |-> page[t]]
       /\ \A u \in Tools : u # t => decided'[u] = decided[u]
  <2>1. /\ decided \in [Tools -> [state : Decisions, digest : Digests \cup {DiscoveryNone}]]
        /\ page[t] \in Digests \cup {DiscoveryNone}
    BY DEF DiscoveryInv, DiscoverySafe, DiscoveryTypeOK, Seen
  <2> QED
    BY <1>1, <2>1
<1>13. DiscoveryTypeOK'
  <2>1. \A i \in DOMAIN ops' : (ops'[i].state = "PENDING") = (ops'[i].runtime = DiscoveryNone)
    BY <1>6, <1>7, DiscoveryTypes DEF DiscoveryInv, DiscoverySafe, DiscoveryTypeOK
  <2> QED
    BY <1>1, <1>6, <1>11, <1>12, <2>1 DEF DiscoveryInv, DiscoverySafe, DiscoveryTypeOK, OperationRows
<1>14. OperationsInOrder'
  <2>1. (Succeeded # {} => \E i \in Succeeded : \A j \in Succeeded : j <= i)'
    BY <1>1, <1>7, LatestIs
  <2> QED
    BY <1>1, <1>6, <1>7, <2>1 DEF DiscoveryInv, OperationsInOrder
<1>15. ReviewBound'
  <2>1. \A u \in Tools : config.reviews[u] # DiscoveryNone =>
            u \in config.selected /\ LastSeen[u] = config.reviews[u]
    BY DEF DiscoveryInv, DiscoverySafe, ReviewBound
  <2> QED
    BY <1>9, <1>10, <1>11, <2>1 DEF ReviewBound
<1>16. ApprovedAsShown'
  <2>1. \A u \in Tools : config.reviews[u] # DiscoveryNone => <<u, config.reviews[u]>> \in approved
    BY DEF DiscoveryInv, DiscoverySafe, ApprovedAsShown
  <2>2. \A u \in Tools : config'.reviews[u] # DiscoveryNone => config'.reviews[u] = config.reviews[u]
    BY <1>10, <1>11
  <2> QED
    BY <1>1, <2>1, <2>2 DEF ApprovedAsShown
<1>17. DecidedForRevision'
  <2> SUFFICES ASSUME NEW u \in Tools
               PROVE  /\ candidates[u] \in {"IGNORED", "BLOCKED"} =>
                           decided'[u] = [state |-> candidates[u], digest |-> LastSeen[u]]
                      /\ candidates[u] # DiscoveryNone =>
                           ((candidates[u] = "PUBLISHED") = (u \in selected))
    BY <1>9, <1>11, Zenon DEF DecidedForRevision
  <2>1. /\ LastCandidates[u] \in {"IGNORED", "BLOCKED"} =>
             decided[u] = [state |-> LastCandidates[u], digest |-> LastSeen[u]]
        /\ LastCandidates[u] # DiscoveryNone => ((LastCandidates[u] = "PUBLISHED") = (u \in config.selected))
    BY DEF DiscoveryInv, DiscoverySafe, DecidedForRevision
  <2>2. CASE u = t
    BY <1>1, <1>3, <1>10, <1>12, <2>2
  <2>3. CASE u # t
    BY <1>3, <1>10, <1>12, <2>1, <2>3
  <2> QED
    BY <2>2, <2>3
<1> QED
  BY <1>11, <1>13, <1>14, <1>15, <1>16, <1>17 DEF DiscoveryInv, DiscoverySafe

\* An approval for automatic use, or its end.
LEMMA ReadOnlyKeeps ==
    ASSUME DiscoveryInv, NEW t \in Tools, NEW auto \in BOOLEAN, DecideReadOnlyApproval(t, auto)
    PROVE  DiscoveryInv'
<1> DEFINE digest == IF auto THEN LastSeen[t] ELSE DiscoveryNone
           kept == [config.reviews EXCEPT ![t] = digest]
<1>1. /\ page[t] # DiscoveryNone /\ LastSeen[t] = page[t] /\ t \in config.selected
      /\ Configure(config.selected, config.from, kept)
      /\ approved' = IF auto THEN approved \cup {<<t, page[t]>>} ELSE approved
      /\ UNCHANGED <<upstream, ops, runtime, discoveryLive, page, decided>>
  BY DEF DecideReadOnlyApproval, DiscoveryDecide, Shown
<1>2. /\ config.selected \in SUBSET Tools /\ config.reviews \in Seen /\ config.from \in 0 .. MaxOps
      /\ page[t] \in Digests \cup {DiscoveryNone}
  BY DEF DiscoveryInv, DiscoverySafe, DiscoveryTypeOK, Configs, Seen
<1>3. digest \in {page[t], DiscoveryNone} /\ approved \subseteq approved'
      /\ (digest # DiscoveryNone => <<t, page[t]>> \in approved')
  BY <1>1
<1>4. approved' \subseteq Tools \X Digests
  BY <1>1, <1>2 DEF DiscoveryInv, DiscoverySafe, DiscoveryTypeOK
<1> HIDE DEF digest
<1>5. /\ kept \in Seen /\ kept[t] = digest
      /\ \A u \in Tools : u # t => kept[u] = config.reviews[u]
  BY <1>2, <1>3 DEF Seen
<1> HIDE DEF kept
<1>6. /\ config' \in Configs /\ config'.selected = config.selected /\ config'.reviews = kept
      /\ discoveryPub' \in [state : {"DRAFT", "PENDING_REVIEW", "FAILED", "PUBLISHED"}, snap : Configs]
      /\ ChangeWaits'
  BY <1>1, <1>2, <1>5, Configured
<1>7. /\ LastSeen' = LastSeen /\ LastCandidates' = LastCandidates
      /\ (Succeeded # {} => \E i \in Succeeded : \A j \in Succeeded : j <= i)'
  BY <1>1, LastSame
<1>8. DiscoveryTypeOK'
  BY <1>1, <1>4, <1>6 DEF DiscoveryInv, DiscoverySafe, DiscoveryTypeOK
<1>9. OperationsInOrder'
  BY <1>1, <1>7 DEF DiscoveryInv, OperationsInOrder
<1>10. ReviewBound'
  BY <1>1, <1>3, <1>5, <1>6, <1>7 DEF DiscoveryInv, DiscoverySafe, ReviewBound
<1>11. ApprovedAsShown'
  BY <1>3, <1>5, <1>6 DEF DiscoveryInv, DiscoverySafe, ApprovedAsShown
<1>12. DecidedForRevision'
  BY <1>1, <1>6, <1>7 DEF DiscoveryInv, DiscoverySafe, DecidedForRevision
<1> QED
  BY <1>6, <1>8, <1>9, <1>10, <1>11, <1>12 DEF DiscoveryInv, DiscoverySafe

LEMMA ReviewingKeeps ==
    ASSUME DiscoveryInv, DiscoveryRequestReview \/ DiscoveryApprove \/ DiscoveryReject
    PROVE  DiscoveryInv'
<1> DEFINE Pubs == [state : {"DRAFT", "PENDING_REVIEW", "FAILED", "PUBLISHED"}, snap : Configs]
<1>1. UNCHANGED <<upstream, ops, runtime, config, page, approved, decided>>
  BY DEF DiscoveryRequestReview, DiscoveryApprove, DiscoveryReject
<1>2. config \in Configs /\ discoveryLive \in Configs /\ NoConfig \in Configs /\ discoveryPub \in Pubs
  BY NothingType, DiscoveryAssumption DEF DiscoveryInv, DiscoverySafe, DiscoveryTypeOK, NoConfig, Configs
<1>3. discoveryPub' \in Pubs /\ discoveryLive' \in Configs /\ ChangeWaits'
  <2>1. CASE DiscoveryRequestReview
    BY <1>2, <2>1 DEF DiscoveryRequestReview, ChangeWaits
  <2>2. CASE DiscoveryReject
    BY <1>2, <2>2 DEF DiscoveryReject, ChangeWaits
  <2>3. CASE DiscoveryApprove
    BY <1>1, <1>2, <2>3 DEF DiscoveryApprove, DiscoveryPublishable, ChangeWaits
  <2> QED
    BY <2>1, <2>2, <2>3
<1>4. /\ LastSeen' = LastSeen /\ LastCandidates' = LastCandidates
      /\ (Succeeded # {} => \E i \in Succeeded : \A j \in Succeeded : j <= i)'
  BY <1>1, LastSame
<1>5. DiscoveryTypeOK'
  BY <1>1, <1>3 DEF DiscoveryInv, DiscoverySafe, DiscoveryTypeOK
<1>6. OperationsInOrder'
  BY <1>1, <1>4 DEF DiscoveryInv, OperationsInOrder
<1> QED
  BY <1>1, <1>3, <1>4, <1>5, <1>6, DecisionsKeep DEF DiscoveryInv, DiscoverySafe

LEMMA DiscoveryInvStep == DiscoveryInv /\ [DiscoveryNext]_discoveryVars => DiscoveryInv'
<1> SUFFICES ASSUME DiscoveryInv, [DiscoveryNext]_discoveryVars PROVE DiscoveryInv'
  OBVIOUS
<1>1. CASE Request
  BY <1>1, RequestKeeps
<1>2. CASE DiscoveryView \/ Drift \/ \E r \in Runtimes : DiscoveryCrash(r)
  BY <1>2, OutsideKeeps
<1>3. CASE DiscoveryRequestReview \/ DiscoveryApprove \/ DiscoveryReject
  BY <1>3, ReviewingKeeps
<1>4. CASE \E r \in Runtimes : Discover(r)
  BY <1>4, ClaimingKeeps, ExecuteKeeps, DeliverKeeps DEF Discover
<1>5. CASE \E t \in Tools, state \in Decisions \ {"NEW"} : DecideCandidate(t, state)
  BY <1>5, DecideCandidateKeeps
<1>6. CASE \E t \in Tools, auto \in BOOLEAN : DecideReadOnlyApproval(t, auto)
  BY <1>6, ReadOnlyKeeps
<1>7. CASE UNCHANGED discoveryVars
  <2>1. upstream \in Seen /\ page \in Seen
    BY DEF DiscoveryInv, DiscoverySafe, DiscoveryTypeOK
  <2>2. \A q \in Runtimes : runtime[q].step # "idle" => runtime[q].op \in 1 .. Len(ops)
    BY DEF DiscoveryInv, OperationsInOrder
  <2> QED
    BY <1>7, <2>1, <2>2, DiscoveryTypes, RuntimesKeep DEF discoveryVars
<1> QED
  BY <1>1, <1>2, <1>3, <1>4, <1>5, <1>6, <1>7 DEF DiscoveryNext

\* While the upstream server changes, any number of runtimes race for
\* discoveries and answers are lost, a tool is approved for automatic use only
\* as the administrator saw it, and a changed tool waits for a new decision.
THEOREM DiscoveryIsSafe == DiscoverySpec => []DiscoverySafe
<1>1. DiscoverySpec => []DiscoveryInv
  BY DiscoveryInvInit, DiscoveryInvStep, PTL DEF DiscoverySpec
<1>2. DiscoveryInv => DiscoverySafe
  BY DEF DiscoveryInv
<1> QED
  BY <1>1, <1>2, PTL

-----------------------------------------------------------------------------
(* The credentials of an MCP server *)

\* A binding as it was stored at some time, or none.
BindingRows == {NoBinding} \cup [tok : Tokens, site : Sites, fresh : BOOLEAN, seal : Nat \ {0}]

SessionRows == [pc : {"none", "open", "exchanged", "saved", "bound", "failed"},
                site : Sites \cup {OAuthNone}, row : BOOLEAN,
                read : Sites \cup {OAuthNone}, tok : 0 .. MaxTokens]

Requests == [pc : {"idle", "haveBinding", "haveSite", "decide", "refresh", "save", "served", "refused"},
             seen : BindingRows, site : Sites \cup {OAuthNone}, tok : 0 .. MaxTokens]

\* The types the proof needs.
OAuthShape ==
    /\ site \in Sites
    /\ session \in [Sessions -> SessionRows]
    /\ binding \in BindingRows
    /\ caller \in [Callers -> Requests]
    /\ oAuthLive \subseteq Tokens /\ nextTok \in 1 .. (MaxTokens + 1) /\ nextSeal \in Nat \ {0}
    /\ origin \in [Tokens -> [session : Sessions \cup {OAuthNone}, site : Sites \cup {OAuthNone}]]
    /\ handed \subseteq [tok : Tokens, site : Sites]

Exchanged(s) == session[s].pc \in {"exchanged", "saved", "bound", "failed"}
Unsaved(s) == session[s].pc \in {"exchanged", "saved"}
Saving(c) == caller[c].pc = "save"

\* A token the server has issued: of a session that was exchanged, for its site.
Issue(k) ==
    /\ k \in Tokens /\ k < nextTok /\ origin[k].session \in Sessions
    /\ Exchanged(origin[k].session) /\ origin[k].site = session[origin[k].session].site

\* The site a session's binding is for: the one that was read with the callback.
ReadOf(k) == session[origin[k].session].read

SessionsInv ==
    \A s \in Sessions :
       /\ session[s].pc = "none" => session[s] = NoSession
       /\ Exchanged(s) => /\ session[s].read \in Sites /\ Issue(session[s].tok)
                          /\ origin[session[s].tok].session = s
       /\ Unsaved(s) => session[s].tok \in oAuthLive

\* What was stored names an issued token and the site of its session.
StoredInv(b) ==
    b # NoBinding => Issue(b.tok) /\ b.seal < nextSeal /\ b.site = ReadOf(b.tok)

CallersInv ==
    \A c \in Callers :
       /\ caller[c].pc \in {"haveBinding", "decide", "refresh", "save"} => caller[c].seen # NoBinding
       /\ caller[c].pc \in {"haveSite", "decide", "refresh", "save"} => caller[c].site \in Sites
       /\ caller[c].pc \in {"refresh", "save"} => caller[c].seen.site = caller[c].site
       /\ Saving(c) => /\ Issue(caller[c].tok) /\ caller[c].tok \in oAuthLive
                       /\ origin[caller[c].tok].session = origin[caller[c].seen.tok].session

\* A seal stands for one token, and a token for one seal.
Agree(a, b) == (a.tok = b.tok) <=> (a.seal = b.seal)
SealsInv ==
    /\ \A c \in Callers : Agree(binding, caller[c].seen)
    /\ \A c, d \in Callers : Agree(caller[c].seen, caller[d].seen)

\* A token that is not stored yet is held by one session or one caller.
Unstored(k) == binding.tok # k /\ \A c \in Callers : caller[c].seen.tok # k
UnsavedInv ==
    /\ \A s \in Sessions : Unsaved(s) => Unstored(session[s].tok)
    /\ \A c \in Callers : Saving(c) => Unstored(caller[c].tok)
    /\ \A s \in Sessions, c \in Callers : Unsaved(s) /\ Saving(c) => session[s].tok # caller[c].tok
    /\ \A c, d \in Callers : Saving(c) /\ Saving(d) /\ c # d => caller[c].tok # caller[d].tok

HandedInv == \A h \in handed : Issue(h.tok) /\ h.site = ReadOf(h.tok)

StoresInv == StoredInv(binding) /\ \A c \in Callers : StoredInv(caller[c].seen)

OAuthInv ==
    /\ OAuthShape /\ SessionsInv /\ StoresInv /\ CallersInv /\ SealsInv /\ UnsavedInv /\ HandedInv /\ BindingUsable

-----------------------------------------------------------------------------
\* The rows there are before there is one.
LEMMA NoRows ==
    /\ NoSession \in SessionRows /\ NoSession.pc = "none" /\ NoSession.read = OAuthNone /\ NoSession.tok = 0
    /\ NoBinding \in BindingRows /\ NoBinding.tok = 0 /\ NoBinding.seal = 0
    /\ OAuthIdle \in Requests /\ OAuthIdle.pc = "idle" /\ OAuthIdle.seen = NoBinding
<1>1. PICK v \in BOOLEAN : NoSession = [pc |-> "none", site |-> OAuthNone, row |-> v, read |-> OAuthNone, tok |-> 0]
  BY Zenon DEF NoSession
<1>2. PICK w \in BOOLEAN : NoBinding = [tok |-> 0, site |-> OAuthNone, fresh |-> w, seal |-> 0]
  BY Zenon DEF NoBinding
<1>3. /\ NoSession \in SessionRows /\ NoSession.pc = "none" /\ NoSession.read = OAuthNone /\ NoSession.tok = 0
  BY <1>1, OAuthAssumption DEF SessionRows
<1>4. /\ NoBinding \in BindingRows /\ NoBinding.tok = 0 /\ NoBinding.seal = 0
  BY <1>2 DEF BindingRows
<1>5. /\ OAuthIdle \in Requests /\ OAuthIdle.pc = "idle" /\ OAuthIdle.seen = NoBinding
  BY <1>4, OAuthAssumption DEF Requests, OAuthIdle
<1> QED
  BY <1>3, <1>4, <1>5

\* What no step undoes: a session that was exchanged stays as it is, a token
\* that was issued too.
Lasting ==
    /\ nextTok' >= nextTok /\ nextTok' \in Nat /\ nextSeal' >= nextSeal /\ nextSeal' \in Nat
    /\ \A k \in Tokens : k < nextTok => origin'[k] = origin[k]
    /\ \A s \in Sessions : Exchanged(s) => /\ Exchanged(s)' /\ session'[s].site = session[s].site
                                           /\ session'[s].read = session[s].read
                                           /\ session'[s].tok = session[s].tok

\* A token once issued keeps its origin and what was read for it, and so does what was stored.
LEMMA IssueLasts ==
    ASSUME OAuthShape, Lasting
    PROVE  /\ \A k \in Tokens : Issue(k) => /\ Issue(k)' /\ ReadOf(k)' = ReadOf(k)
                                            /\ origin'[k] = origin[k]
           /\ \A b \in BindingRows : StoredInv(b) => StoredInv(b)'
<1>1. \A k \in Tokens : Issue(k) => Issue(k)' /\ ReadOf(k)' = ReadOf(k) /\ origin'[k] = origin[k]
  BY OAuthAssumption DEF Lasting, Issue, ReadOf, OAuthShape, Tokens
<1>2. ASSUME NEW b \in BindingRows, StoredInv(b) PROVE StoredInv(b)'
  BY <1>1, <1>2 DEF StoredInv, Lasting, BindingRows, OAuthShape
<1> QED
  BY <1>1, <1>2

\* A step that only moves a session on keeps everything but the sessions' part.
LEMMA SessionMoves ==
    ASSUME OAuthInv, SessionsInv', session' \in [Sessions -> SessionRows],
           UNCHANGED <<site, binding, caller, oAuthLive, origin, nextTok, nextSeal, handed, stranded>>,
           \A s \in Sessions : Exchanged(s) => /\ Exchanged(s)' /\ session'[s].site = session[s].site
                                               /\ session'[s].read = session[s].read
                                               /\ session'[s].tok = session[s].tok,
           \A s \in Sessions : Unsaved(s)' => Unsaved(s)
    PROVE  OAuthInv'
<1>0. OAuthShape /\ SessionsInv /\ StoresInv /\ CallersInv /\ SealsInv /\ UnsavedInv /\ HandedInv /\ BindingUsable
  BY DEF OAuthInv
<1>1. OAuthShape'
  BY <1>0 DEF OAuthShape
<1>2. Lasting
  BY <1>0, OAuthAssumption DEF Lasting, OAuthShape
<1>3. /\ \A k \in Tokens : Issue(k) => Issue(k)' /\ ReadOf(k)' = ReadOf(k)
      /\ \A b \in BindingRows : StoredInv(b) => StoredInv(b)'
  BY <1>0, <1>2, IssueLasts
<1>4. StoresInv'
  BY <1>0, <1>3 DEF StoresInv, OAuthShape, Requests
<1>5. CallersInv'
  BY <1>0, <1>3 DEF CallersInv, Issue, Saving
<1>6. SealsInv'
  BY <1>0 DEF SealsInv, Agree
<1>7. UnsavedInv'
  BY <1>0 DEF UnsavedInv, Unstored, Unsaved, Saving, Exchanged
<1>8. HandedInv'
  BY <1>0, <1>3 DEF HandedInv, OAuthShape
<1>9. BindingUsable'
  BY <1>0 DEF BindingUsable, OAuthGrant
<1> QED
  BY <1>1, <1>4, <1>5, <1>6, <1>7, <1>8, <1>9 DEF OAuthInv

\* The steps of an authorization that store no binding.
LEMMA SessionSteps ==
    ASSUME OAuthInv, NEW s \in Sessions,
           \/ OAuthStart(s) \/ CallbackDenied(s) \/ SaveTokens(s) \/ DeleteSession(s)
           \/ PutBinding(s) /\ ~ session[s].row
    PROVE  OAuthInv'
<1>0. OAuthShape /\ SessionsInv
  BY DEF OAuthInv
<1>1. session[s] \in SessionRows
  BY <1>0 DEF OAuthShape
<1>2. /\ session'[s] \in SessionRows /\ session'[s].read = session[s].read /\ session'[s].tok = session[s].tok
      /\ \/ session[s].pc = "none" /\ session'[s].pc = "open"
         \/ /\ session'[s].site = session[s].site
            /\ \/ session'[s].pc = session[s].pc
               \/ session[s].pc \in {"exchanged", "saved"} /\ session'[s].pc \in {"saved", "failed"}
  <2>1. CASE OAuthStart(s)
    <3>1. session[s] = NoSession
      BY <1>0, <2>1 DEF OAuthStart, SessionsInv
    <3>2. PICK v \in BOOLEAN : session' = [session EXCEPT ![s] = [NoSession EXCEPT !.pc = "open", !.site = site, !.row = v]]
      BY <2>1, Zenon DEF OAuthStart
    <3> QED
      BY <1>0, <3>1, <3>2, NoRows DEF OAuthShape, SessionRows
  <2>2. CASE CallbackDenied(s) \/ DeleteSession(s)
    <3>1. PICK v \in BOOLEAN : session' = [session EXCEPT ![s].row = v]
      BY <2>2, Zenon DEF CallbackDenied, DeleteSession
    <3> QED
      BY <1>0, <1>1, <3>1 DEF OAuthShape, SessionRows
  <2>3. CASE SaveTokens(s) \/ (PutBinding(s) /\ ~ session[s].row)
    BY <1>0, <1>1, <2>3 DEF SaveTokens, PutBinding, OAuthShape, SessionRows
  <2> QED
    BY <2>1, <2>2, <2>3
<1>3. /\ \A q \in Sessions : q # s => session'[q] = session[q]
      /\ UNCHANGED <<site, binding, caller, oAuthLive, origin, nextTok, nextSeal, handed, stranded>>
      /\ DOMAIN session' = Sessions /\ session' = [q \in Sessions |-> session'[q]]
  BY <1>0 DEF OAuthStart, CallbackDenied, SaveTokens, DeleteSession, PutBinding, OAuthShape
<1>4. session' \in [Sessions -> SessionRows]
  BY <1>0, <1>2, <1>3 DEF OAuthShape
<1>5. \A q \in Sessions : Exchanged(q) => /\ Exchanged(q)' /\ session'[q].site = session[q].site
                                          /\ session'[q].read = session[q].read
                                          /\ session'[q].tok = session[q].tok
  BY <1>2, <1>3 DEF Exchanged
<1>6. \A q \in Sessions : (Unsaved(q)' => Unsaved(q)) /\ (Exchanged(q)' => Exchanged(q))
  BY <1>2, <1>3 DEF Unsaved, Exchanged
<1>7. Lasting
  BY <1>0, <1>3, <1>5, OAuthAssumption DEF Lasting, OAuthShape
<1>8. \A k \in Tokens : Issue(k) => Issue(k)'
  BY <1>0, <1>7, IssueLasts
<1>9. SessionsInv'
  <2> SUFFICES ASSUME NEW q \in Sessions
               PROVE  /\ session'[q].pc = "none" => session'[q] = NoSession
                      /\ Exchanged(q)' => /\ session'[q].read \in Sites /\ Issue(session[q].tok)'
                                          /\ origin'[session'[q].tok].session = q
                      /\ Unsaved(q)' => session'[q].tok \in oAuthLive'
    BY DEF SessionsInv
  <2>1. session'[q].pc = "none" => session'[q] = NoSession
    <3>1. CASE q # s
      BY <1>0, <1>3, <3>1 DEF SessionsInv
    <3>2. CASE q = s /\ session'[s].pc = "none"
      <4>1. session[s] = NoSession
        BY <1>0, <1>2, <3>2 DEF SessionsInv
      <4>2. ~ CallbackDenied(s) /\ ~ SaveTokens(s) /\ ~ DeleteSession(s) /\ ~ PutBinding(s)
        <5>1. ~ session[s].row
          BY <4>1 DEF NoSession
        <5>2. session[s].pc = "none"
          BY <4>1, NoRows
        <5> QED
          BY <5>1, <5>2 DEF CallbackDenied, SaveTokens, DeleteSession, PutBinding
      <4>3. ~ OAuthStart(s)
        <5>1. ASSUME OAuthStart(s) PROVE session'[s].pc = "open"
          <6>1. PICK v \in BOOLEAN : session' = [session EXCEPT ![s] = [NoSession EXCEPT !.pc = "open", !.site = site, !.row = v]]
            BY <5>1, Zenon DEF OAuthStart
          <6> QED
            BY <1>0, <6>1, NoRows DEF OAuthShape, SessionRows
        <5> QED
          BY <3>2, <5>1
      <4> QED
        BY <4>2, <4>3
    <3> QED
      BY <3>1, <3>2
  <2>2. Exchanged(q)' => /\ session'[q].read \in Sites /\ Issue(session[q].tok)'
                         /\ origin'[session'[q].tok].session = q
    BY <1>0, <1>3, <1>5, <1>6, <1>8 DEF SessionsInv, Issue
  <2>3. Unsaved(q)' => session'[q].tok \in oAuthLive'
    BY <1>0, <1>3, <1>5, <1>6 DEF SessionsInv, Unsaved, Exchanged
  <2> QED
    BY <2>1, <2>2, <2>3
<1> QED
  BY <1>3, <1>4, <1>5, <1>6, <1>9, SessionMoves

\* A token the server issues is new, and it retires no other than it says.
LEMMA NewToken ==
    ASSUME OAuthShape, NEW s \in Sessions, NEW retired, Issued(s, retired)
    PROVE  /\ nextTok \in Tokens /\ nextTok' = nextTok + 1 /\ nextTok' \in 1 .. (MaxTokens + 1)
           /\ origin' \in [Tokens -> [session : Sessions \cup {OAuthNone}, site : Sites \cup {OAuthNone}]]
           /\ origin'[nextTok].session = s /\ origin'[nextTok].site = session[s].site
           /\ \A k \in Tokens : k # nextTok => origin'[k] = origin[k]
           /\ oAuthLive' \subseteq Tokens /\ nextTok \in oAuthLive'
           /\ \A k \in oAuthLive : k \notin retired => k \in oAuthLive'
<1>1. nextTok \in Tokens /\ nextTok' = nextTok + 1 /\ nextTok' \in 1 .. (MaxTokens + 1)
  BY OAuthAssumption DEF Issued, OAuthShape, Tokens
<1>2. session[s] \in SessionRows /\ session[s].site \in Sites \cup {OAuthNone}
  BY DEF OAuthShape, SessionRows
<1>3. [session |-> s, site |-> session[s].site] \in [session : Sessions \cup {OAuthNone}, site : Sites \cup {OAuthNone}]
  BY <1>2
<1> QED
  BY <1>1, <1>3 DEF Issued, OAuthShape

\* The callback: its session is consumed and the code exchanged.
LEMMA CallbackStep ==
    ASSUME OAuthInv, NEW s \in Sessions, Callback(s)
    PROVE  OAuthInv'
<1>0. OAuthShape /\ SessionsInv /\ StoresInv /\ CallersInv /\ SealsInv /\ UnsavedInv /\ HandedInv /\ BindingUsable
  BY DEF OAuthInv
<1>1. /\ nextTok \in Tokens /\ nextTok' = nextTok + 1 /\ nextTok' \in 1 .. (MaxTokens + 1)
      /\ origin' \in [Tokens -> [session : Sessions \cup {OAuthNone}, site : Sites \cup {OAuthNone}]]
      /\ origin'[nextTok].session = s /\ origin'[nextTok].site = session[s].site
      /\ \A k \in Tokens : k # nextTok => origin'[k] = origin[k]
      /\ oAuthLive' \subseteq Tokens /\ nextTok \in oAuthLive' /\ oAuthLive \subseteq oAuthLive'
  BY <1>0, NewToken DEF Callback
<1>2. /\ session[s] \in SessionRows /\ session[s].pc = "open" /\ site \in Sites /\ nextTok \in 0 .. MaxTokens
      /\ UNCHANGED <<site, binding, caller, nextSeal, handed, stranded>>
  BY <1>0, <1>1 DEF Callback, OAuthShape, Tokens
<1>3. /\ session' \in [Sessions -> SessionRows] /\ session'[s].pc = "exchanged" /\ session'[s].read = site
      /\ session'[s].tok = nextTok /\ session'[s].site = session[s].site
      /\ \A q \in Sessions : q # s => session'[q] = session[q]
  BY <1>0, <1>2 DEF Callback, OAuthShape, SessionRows
<1>4. OAuthShape'
  BY <1>0, <1>1, <1>2, <1>3 DEF OAuthShape
<1>5. Lasting
  <2>1. nextTok' >= nextTok /\ nextTok' \in Nat /\ nextSeal' >= nextSeal /\ nextSeal' \in Nat
    BY <1>0, <1>1, <1>2, OAuthAssumption DEF OAuthShape
  <2>2. \A q \in Sessions : Exchanged(q) => q # s
    BY <1>2 DEF Exchanged
  <2>3. \A k \in Tokens : k < nextTok => k # nextTok
    BY <1>0 DEF OAuthShape, Tokens
  <2> QED
    BY <1>1, <1>3, <2>1, <2>2, <2>3 DEF Lasting, Exchanged
<1>6. /\ \A k \in Tokens : Issue(k) => Issue(k)' /\ ReadOf(k)' = ReadOf(k) /\ origin'[k] = origin[k]
      /\ \A b \in BindingRows : StoredInv(b) => StoredInv(b)'
  BY <1>0, <1>5, IssueLasts
<1>7. \A k \in Tokens : Issue(k) => k # nextTok
  BY <1>0 DEF Issue, OAuthShape
<1>8. SessionsInv'
  <2>1. /\ Exchanged(s)' /\ (session[s].pc # "none")'
        /\ (Issue(session[s].tok))'
    BY <1>1, <1>3 DEF Issue, Exchanged, Tokens
  <2>2. \A q \in Sessions : q # s =>
          /\ session'[q].pc = "none" => session'[q] = NoSession
          /\ Exchanged(q)' => /\ session'[q].read \in Sites /\ Issue(session[q].tok)'
                              /\ origin'[session'[q].tok].session = q
          /\ Unsaved(q)' => session'[q].tok \in oAuthLive'
    BY <1>0, <1>1, <1>3, <1>6 DEF SessionsInv, Exchanged, Unsaved, Issue
  <2> QED
    BY <1>1, <1>2, <1>3, <2>1, <2>2 DEF SessionsInv, Unsaved
<1>9. StoresInv'
  BY <1>0, <1>2, <1>6 DEF StoresInv, OAuthShape, Requests
<1>10. CallersInv'
  BY <1>0, <1>1, <1>2, <1>6 DEF CallersInv, Saving, StoresInv, StoredInv, Issue
<1>11. SealsInv'
  BY <1>0, <1>2 DEF SealsInv, Agree
<1>12. UnsavedInv'
  <2>1. binding.tok # nextTok /\ \A c \in Callers : caller[c].seen.tok # nextTok
    BY <1>0, <1>1, <1>7, NoRows DEF StoresInv, StoredInv, Tokens
  <2>2. \A c \in Callers : Saving(c) => caller[c].tok # nextTok
    BY <1>0, <1>7 DEF CallersInv, Issue
  <2> QED
    BY <1>0, <1>2, <1>3, <2>1, <2>2 DEF UnsavedInv, Unsaved, Unstored, Saving
<1>13. HandedInv'
  BY <1>0, <1>2, <1>6 DEF HandedInv, OAuthShape
<1>14. BindingUsable'
  <2>1. binding # NoBinding => origin'[binding.tok] = origin[binding.tok]
    BY <1>0, <1>6 DEF StoresInv, StoredInv, Issue
  <2> QED
    BY <1>0, <1>1, <1>2, <2>1 DEF BindingUsable, OAuthGrant
<1> QED
  BY <1>4, <1>8, <1>9, <1>10, <1>11, <1>12, <1>13, <1>14 DEF OAuthInv

\* The binding an authorization stores.
LEMMA PutBindingStep ==
    ASSUME OAuthInv, NEW s \in Sessions, PutBinding(s), session[s].row
    PROVE  OAuthInv'
<1>0. OAuthShape /\ SessionsInv /\ StoresInv /\ CallersInv /\ SealsInv /\ UnsavedInv /\ HandedInv /\ BindingUsable
  BY DEF OAuthInv
<1>1. PICK v \in BOOLEAN : binding' = [tok |-> session[s].tok, site |-> session[s].read, fresh |-> v, seal |-> nextSeal]
  BY Zenon DEF PutBinding
<1>2. /\ session[s] \in SessionRows /\ session[s].pc = "saved" /\ nextSeal' = nextSeal + 1
      /\ session' = [session EXCEPT ![s].pc = "bound"]
      /\ UNCHANGED <<site, caller, oAuthLive, origin, nextTok, handed, stranded>>
  BY <1>0 DEF PutBinding, OAuthShape
<1>3. /\ session' \in [Sessions -> SessionRows] /\ session'[s].pc = "bound" /\ session'[s].read = session[s].read
      /\ session'[s].tok = session[s].tok /\ session'[s].site = session[s].site
      /\ \A q \in Sessions : q # s => session'[q] = session[q]
  BY <1>0, <1>2 DEF OAuthShape, SessionRows
<1>4. /\ Exchanged(s) /\ Unsaved(s) /\ Issue(session[s].tok) /\ session[s].read \in Sites
      /\ origin[session[s].tok].session = s /\ session[s].tok \in oAuthLive /\ session[s].tok \in Tokens
      /\ Unstored(session[s].tok)
  BY <1>0, <1>2 DEF SessionsInv, UnsavedInv, Exchanged, Unsaved, Issue
<1>5. /\ binding' \in BindingRows /\ binding'.tok = session[s].tok /\ binding'.seal = nextSeal
      /\ binding'.site = session[s].read
  BY <1>0, <1>1, <1>4 DEF BindingRows, OAuthShape
<1>6. OAuthShape'
  BY <1>0, <1>2, <1>3, <1>5 DEF OAuthShape
<1>7. Lasting
  BY <1>0, <1>2, <1>3, OAuthAssumption DEF Lasting, OAuthShape, Exchanged
<1>8. /\ \A k \in Tokens : Issue(k) => Issue(k)' /\ ReadOf(k)' = ReadOf(k) /\ origin'[k] = origin[k]
      /\ \A b \in BindingRows : StoredInv(b) => StoredInv(b)'
  BY <1>0, <1>7, IssueLasts
<1>9. SessionsInv'
  BY <1>0, <1>2, <1>3, <1>4, <1>8 DEF SessionsInv, Exchanged, Unsaved, Issue
<1>10. StoresInv'
  <2>1. StoredInv(binding)'
    BY <1>0, <1>2, <1>4, <1>5, <1>8 DEF StoredInv, ReadOf, OAuthShape
  <2> QED
    BY <1>0, <1>2, <1>8, <2>1 DEF StoresInv, OAuthShape, Requests
<1>11. CallersInv'
  BY <1>0, <1>2, <1>8 DEF CallersInv, Saving, Issue
<1>12. SealsInv'
  <2>1. ASSUME NEW c \in Callers PROVE binding'.tok # caller[c].seen.tok /\ binding'.seal # caller[c].seen.seal
    BY <1>0, <1>4, <1>5, NoRows DEF Unstored, StoresInv, StoredInv, OAuthShape
  <2> QED
    BY <1>0, <1>2, <2>1 DEF SealsInv, Agree
<1>13. UnsavedInv'
  <2>1. \A q \in Sessions : q # s /\ Unsaved(q) => session[q].tok # session[s].tok
    BY <1>0, <1>4 DEF SessionsInv, Unsaved, Exchanged
  <2>2. \A c \in Callers : Saving(c) => caller[c].tok # session[s].tok
    BY <1>0, <1>4 DEF UnsavedInv
  <2> QED
    BY <1>0, <1>2, <1>3, <1>5, <2>1, <2>2 DEF UnsavedInv, Unsaved, Unstored, Saving
<1>14. HandedInv'
  BY <1>0, <1>2, <1>8 DEF HandedInv, OAuthShape
<1>15. BindingUsable'
  BY <1>2, <1>4, <1>5 DEF BindingUsable
<1> QED
  BY <1>6, <1>9, <1>10, <1>11, <1>12, <1>13, <1>14, <1>15 DEF OAuthInv

\* A step that moves one request on, to anything but "save", and leaves the
\* store and the server alone.
LEMMA CallerMoves ==
    ASSUME OAuthInv, NEW c \in Callers,
           UNCHANGED <<site, session, binding, oAuthLive, origin, nextTok, nextSeal>>,
           handed' \subseteq [tok : Tokens, site : Sites], HandedInv', BindingUsable',
           caller' \in [Callers -> Requests],
           \A d \in Callers : d # c => caller'[d] = caller[d],
           caller'[c].seen \in {caller[c].seen, binding}, caller'[c].pc # "save",
           caller'[c].pc \in {"haveBinding", "decide", "refresh"} => caller'[c].seen # NoBinding,
           caller'[c].pc \in {"haveSite", "decide", "refresh"} => caller'[c].site \in Sites,
           caller'[c].pc = "refresh" => caller'[c].seen.site = caller'[c].site
    PROVE  OAuthInv'
<1>0. OAuthShape /\ SessionsInv /\ StoresInv /\ CallersInv /\ SealsInv /\ UnsavedInv /\ HandedInv /\ BindingUsable
  BY DEF OAuthInv
<1>1. OAuthShape'
  BY <1>0 DEF OAuthShape
<1>2. SessionsInv'
  BY <1>0 DEF SessionsInv, Issue, Exchanged, Unsaved
<1>3. StoresInv'
  <2>1. \A b \in BindingRows : StoredInv(b) => StoredInv(b)'
    BY DEF StoredInv, Issue, Exchanged, ReadOf
  <2> QED
    BY <1>0, <2>1 DEF StoresInv, OAuthShape, Requests
<1>4. CallersInv'
  BY <1>0 DEF CallersInv, Saving, Issue, Exchanged
<1>5. SealsInv'
  <2>1. \A d \in Callers : caller'[d].seen = caller[d].seen \/ caller'[d].seen = binding
    OBVIOUS
  <2> QED
    BY <1>0, <2>1 DEF SealsInv, Agree
<1>6. UnsavedInv'
  BY <1>0 DEF UnsavedInv, Unsaved, Unstored, Saving
<1> QED
  BY <1>1, <1>2, <1>3, <1>4, <1>5, <1>6 DEF OAuthInv

\* The request that moved on was not the one to save the binding's successor.
LEMMA UsableStays ==
    ASSUME BindingUsable, NEW c \in Callers,
           UNCHANGED <<binding, oAuthLive, origin, stranded>>,
           \A d \in Callers : d # c => caller'[d] = caller[d],
           caller[c].pc = "save" => caller[c].seen.seal # binding.seal
    PROVE  BindingUsable'
BY DEF BindingUsable, OAuthGrant

\* What one request's move changes of it.
LEMMA Moved ==
    ASSUME OAuthShape, NEW c \in Callers, NEW next \in {"served", "refused", "refresh"}, Outcome(c, next)
    PROVE  /\ caller' \in [Callers -> Requests] /\ \A d \in Callers : d # c => caller'[d] = caller[d]
           /\ caller'[c].pc = next /\ caller'[c].seen = caller[c].seen
           /\ caller'[c].site = caller[c].site /\ caller'[c].tok = caller[c].tok
<1>1. caller[c] \in Requests
  BY DEF OAuthShape
<1> QED
  BY <1>1 DEF OAuthShape, Outcome, Requests

\* A call reads the binding, then the site it was stored for.
LEMMA ReadingSteps ==
    ASSUME OAuthInv, NEW c \in Callers, ReadBinding(c) \/ ReadConnection(c) \/ NotBound(c)
    PROVE  OAuthInv'
<1>0. OAuthShape /\ CallersInv /\ HandedInv /\ BindingUsable
  BY DEF OAuthInv
<1>1. caller[c] \in Requests /\ binding \in BindingRows /\ site \in Sites
  BY <1>0 DEF OAuthShape
<1>2. /\ UNCHANGED <<site, session, binding, oAuthLive, origin, nextTok, nextSeal, handed, stranded>>
      /\ caller[c].pc \in {"idle", "haveBinding", "haveSite"}
  BY DEF ReadBinding, ReadConnection, NotBound
<1>3. /\ caller' \in [Callers -> Requests] /\ \A d \in Callers : d # c => caller'[d] = caller[d]
      /\ \/ /\ caller'[c].seen = binding /\ binding # NoBinding /\ caller'[c].site = caller[c].site
            /\ \/ caller'[c].pc = "haveBinding"
               \/ caller'[c].pc = "decide" /\ caller[c].pc = "haveSite"
         \/ /\ caller'[c].seen = caller[c].seen /\ caller'[c].site = site
            /\ \/ caller'[c].pc = "haveSite"
               \/ caller'[c].pc = "decide" /\ caller[c].pc = "haveBinding"
         \/ caller'[c].seen = caller[c].seen /\ caller'[c].pc = "refused"
  <2>1. CASE ReadBinding(c)
    BY <1>0, <1>1, <2>1 DEF ReadBinding, OAuthShape, Requests
  <2>2. CASE ReadConnection(c)
    BY <1>0, <1>1, <2>2 DEF ReadConnection, OAuthShape, Requests
  <2>3. CASE NotBound(c)
    BY <1>0, <1>1, <2>3 DEF NotBound, OAuthShape, Requests
  <2> QED
    BY <2>1, <2>2, <2>3
<1>4. HandedInv'
  BY <1>0, <1>2 DEF HandedInv, Issue, Exchanged, ReadOf
<1>5. BindingUsable'
  BY <1>0, <1>2, <1>3, UsableStays
<1>6. /\ caller'[c].pc \in {"haveBinding", "decide", "refresh"} => caller'[c].seen # NoBinding
      /\ caller'[c].pc \in {"haveSite", "decide", "refresh"} => caller'[c].site \in Sites
  BY <1>0, <1>1, <1>3 DEF CallersInv
<1> QED
  BY <1>0, <1>2, <1>3, <1>4, <1>5, <1>6, CallerMoves DEF OAuthShape

\* A token given out for the site of its session.
LEMMA Given ==
    ASSUME OAuthShape, HandedInv, Lasting, NEW c \in Callers, NEW k \in Tokens, OAuthGive(c, k),
           Issue(k), caller[c].site \in Sites, caller[c].site = ReadOf(k)
    PROVE  handed' \subseteq [tok : Tokens, site : Sites] /\ HandedInv'
<1>1. \A j \in Tokens : Issue(j) => Issue(j)' /\ ReadOf(j)' = ReadOf(j)
  BY IssueLasts
<1>2. PICK h \in [tok : Tokens, site : Sites] : h.tok = k /\ h.site = ReadOf(k) /\ handed' = handed \cup {h}
  BY DEF OAuthGive
<1>3. \A g \in handed : Issue(g.tok)' /\ g.site = ReadOf(g.tok)'
  BY <1>1 DEF HandedInv, OAuthShape
<1> QED
  BY <1>1, <1>2, <1>3 DEF HandedInv, OAuthShape

\* A call that has read both uses the token, refreshes it, or is refused.
LEMMA DecideStep ==
    ASSUME OAuthInv, NEW c \in Callers, OAuthDecide(c)
    PROVE  OAuthInv'
<1>0. OAuthShape /\ StoresInv /\ CallersInv /\ HandedInv /\ BindingUsable
  BY DEF OAuthInv
<1>1. /\ caller[c].pc = "decide" /\ caller[c] \in Requests /\ caller[c].seen # NoBinding /\ caller[c].site \in Sites
      /\ UNCHANGED <<site, session, binding, oAuthLive, origin, nextTok, nextSeal, stranded>>
  BY <1>0 DEF OAuthDecide, OAuthShape, CallersInv
<1>2. \/ Outcome(c, "refused") /\ handed' = handed
      \/ caller[c].seen.site = caller[c].site /\ Outcome(c, "served") /\ OAuthGive(c, caller[c].seen.tok)
      \/ caller[c].seen.site = caller[c].site /\ Outcome(c, "refresh") /\ handed' = handed
  BY DEF OAuthDecide
<1>3. PICK next \in {"served", "refused", "refresh"} :
        /\ Outcome(c, next) /\ (next = "refresh" => caller[c].seen.site = caller[c].site)
  BY <1>2
<1>4. /\ caller' \in [Callers -> Requests] /\ \A d \in Callers : d # c => caller'[d] = caller[d]
      /\ caller'[c].pc = next /\ caller'[c].seen = caller[c].seen
      /\ caller'[c].site = caller[c].site /\ caller'[c].tok = caller[c].tok
  BY <1>0, <1>3, Moved
<1>5. /\ Issue(caller[c].seen.tok) /\ caller[c].seen.site = ReadOf(caller[c].seen.tok)
      /\ caller[c].seen.tok \in Tokens
  BY <1>0, <1>1 DEF StoresInv, StoredInv, Issue
<1>6. \A k \in Tokens : Issue(k) => Issue(k)' /\ ReadOf(k)' = ReadOf(k)
  BY <1>1 DEF Issue, Exchanged, ReadOf
<1>7. handed' \subseteq [tok : Tokens, site : Sites] /\ HandedInv'
  <2>1. CASE handed' = handed
    BY <1>0, <1>6, <2>1 DEF HandedInv, OAuthShape
  <2>2. CASE caller[c].seen.site = caller[c].site /\ OAuthGive(c, caller[c].seen.tok)
    <3>1. Lasting
      BY <1>0, <1>1, OAuthAssumption DEF Lasting, OAuthShape, Exchanged
    <3> QED
      BY <1>0, <1>1, <1>5, <2>2, <3>1, Given
  <2> QED
    BY <1>2, <2>1, <2>2
<1>8. BindingUsable'
  BY <1>0, <1>1, <1>4, UsableStays
<1> QED
  BY <1>1, <1>3, <1>4, <1>7, <1>8, CallerMoves

\* A refresh that fails, whose answer is lost or whose binding has changed.
LEMMA RefusedSteps ==
    ASSUME OAuthInv, NEW c \in Callers,
           \/ Refresh(c) /\ caller[c].seen.tok \notin oAuthLive
           \/ RefreshLost(c)
           \/ OAuthSave(c) /\ binding.seal # caller[c].seen.seal
    PROVE  OAuthInv'
<1>0. OAuthShape /\ StoresInv /\ CallersInv /\ SealsInv /\ HandedInv /\ BindingUsable
  BY DEF OAuthInv
<1>1. /\ Outcome(c, "refused")
      /\ UNCHANGED <<site, session, binding, oAuthLive, origin, nextTok, nextSeal, handed>>
  BY DEF Refresh, RefreshLost, OAuthSave
<1>2. /\ caller' \in [Callers -> Requests] /\ \A d \in Callers : d # c => caller'[d] = caller[d]
      /\ caller'[c].pc = "refused" /\ caller'[c].seen = caller[c].seen
  BY <1>0, <1>1, Moved
<1>3. HandedInv'
  BY <1>0, <1>1 DEF HandedInv, Issue, Exchanged, ReadOf
<1>4. BindingUsable'
  <2>1. CASE RefreshLost(c)
    <3>1. Saving(c) /\ stranded' = stranded \cup {origin[caller[c].tok].session}
      BY <2>1 DEF RefreshLost, Saving
    <3>2. CASE caller[c].seen.seal = binding.seal
      <4>1. caller[c].seen.tok = binding.tok
        BY <1>0, <3>2 DEF SealsInv, Agree
      <4>2. origin[caller[c].tok].session = origin[caller[c].seen.tok].session
        BY <1>0, <3>1 DEF CallersInv
      <4> QED
        BY <1>1, <3>1, <4>1, <4>2 DEF BindingUsable, OAuthGrant
    <3>3. CASE caller[c].seen.seal # binding.seal
      BY <1>0, <1>1, <1>2, <3>1, <3>3 DEF BindingUsable, OAuthGrant
    <3> QED
      BY <3>2, <3>3
  <2>2. CASE ~ RefreshLost(c)
    <3>1. stranded' = stranded /\ (caller[c].pc = "save" => caller[c].seen.seal # binding.seal)
      BY <2>2 DEF Refresh, OAuthSave
    <3> QED
      BY <1>0, <1>1, <1>2, <3>1, UsableStays
  <2> QED
    BY <2>1, <2>2
<1> QED
  BY <1>0, <1>1, <1>2, <1>3, <1>4, CallerMoves DEF OAuthShape

\* A refresh the server answers: its token is new, and only the one that was
\* presented is retired.
LEMMA RefreshStep ==
    ASSUME OAuthInv, NEW c \in Callers, Refresh(c), caller[c].seen.tok \in oAuthLive
    PROVE  OAuthInv'
<1>0. OAuthShape /\ SessionsInv /\ StoresInv /\ CallersInv /\ SealsInv /\ UnsavedInv /\ HandedInv /\ BindingUsable
  BY DEF OAuthInv
<1> DEFINE old == caller[c].seen.tok
           s == origin[old].session
<1>1. /\ caller[c].pc = "refresh" /\ caller[c] \in Requests /\ caller[c].seen # NoBinding
      /\ caller[c].site \in Sites /\ caller[c].seen.site = caller[c].site
      /\ UNCHANGED <<site, session, binding, nextSeal, handed, stranded>>
  BY <1>0 DEF Refresh, OAuthShape, CallersInv
<1>2. Issue(old) /\ old \in Tokens /\ s \in Sessions /\ old < nextTok
  BY <1>0, <1>1 DEF StoresInv, StoredInv, Issue
<1>3. PICK retired \in {{old}, {}} : Issued(s, retired)
  BY DEF Refresh
<1>4. /\ nextTok \in Tokens /\ nextTok' = nextTok + 1 /\ nextTok' \in 1 .. (MaxTokens + 1)
      /\ origin' \in [Tokens -> [session : Sessions \cup {OAuthNone}, site : Sites \cup {OAuthNone}]]
      /\ origin'[nextTok].session = s /\ origin'[nextTok].site = session[s].site
      /\ \A k \in Tokens : k # nextTok => origin'[k] = origin[k]
      /\ oAuthLive' \subseteq Tokens /\ nextTok \in oAuthLive'
      /\ \A k \in oAuthLive : k # old => k \in oAuthLive'
  BY <1>0, <1>2, <1>3, NewToken
<1>5. /\ caller' \in [Callers -> Requests] /\ \A d \in Callers : d # c => caller'[d] = caller[d]
      /\ caller'[c].pc = "save" /\ caller'[c].seen = caller[c].seen /\ caller'[c].site = caller[c].site
      /\ caller'[c].tok = nextTok
  <2>1. caller' = [caller EXCEPT ![c].pc = "save", ![c].tok = nextTok] /\ nextTok \in 0 .. MaxTokens
    BY <1>4 DEF Refresh, Tokens
  <2> QED
    BY <1>0, <1>1, <2>1 DEF OAuthShape, Requests
<1> HIDE DEF old, s
<1>6. OAuthShape'
  BY <1>0, <1>1, <1>4, <1>5 DEF OAuthShape
<1>7. Lasting
  <2>1. nextTok' >= nextTok /\ nextTok' \in Nat /\ nextSeal' >= nextSeal /\ nextSeal' \in Nat
    BY <1>0, <1>1, <1>4, OAuthAssumption DEF OAuthShape
  <2>2. \A k \in Tokens : k < nextTok => k # nextTok
    BY <1>0 DEF OAuthShape, Tokens
  <2> QED
    BY <1>1, <1>4, <2>1, <2>2 DEF Lasting, Exchanged
<1>8. /\ \A k \in Tokens : Issue(k) => Issue(k)' /\ ReadOf(k)' = ReadOf(k) /\ origin'[k] = origin[k]
      /\ \A b \in BindingRows : StoredInv(b) => StoredInv(b)'
      /\ \A k \in Tokens : Issue(k) => k # nextTok
  BY <1>0, <1>7, IssueLasts DEF Issue, OAuthShape
<1>9. /\ \A q \in Sessions : Unsaved(q) => session[q].tok # old
      /\ \A d \in Callers : Saving(d) => caller[d].tok # old
  BY <1>0 DEF UnsavedInv, Unstored, old
<1>10. SessionsInv'
  BY <1>0, <1>1, <1>4, <1>8, <1>9 DEF SessionsInv, Exchanged, Unsaved, Issue
<1>11. StoresInv'
  BY <1>0, <1>1, <1>5, <1>8 DEF StoresInv, OAuthShape, Requests
<1>12. CallersInv'
  <2> SUFFICES ASSUME NEW d \in Callers
               PROVE  (/\ caller[d].pc \in {"haveBinding", "decide", "refresh", "save"} => caller[d].seen # NoBinding
                       /\ caller[d].pc \in {"haveSite", "decide", "refresh", "save"} => caller[d].site \in Sites
                       /\ caller[d].pc \in {"refresh", "save"} => caller[d].seen.site = caller[d].site
                       /\ Saving(d) => /\ Issue(caller[d].tok) /\ caller[d].tok \in oAuthLive
                                       /\ origin[caller[d].tok].session = origin[caller[d].seen.tok].session)'
    BY DEF CallersInv
  <2>1. CASE d = c
    <3>2. /\ nextTok < nextTok' /\ origin'[nextTok].session \in Sessions /\ Exchanged(s)
          /\ origin'[nextTok].site = session'[s].site
      BY <1>1, <1>2, <1>4 DEF Issue, s, Tokens
    <3>3. (Issue(caller[c].tok))'
      BY <1>1, <1>4, <1>5, <3>2 DEF Issue, Exchanged
    <3>4. origin'[old] = origin[old]
      BY <1>2, <1>8
    <3> QED
      BY <1>1, <1>4, <1>5, <2>1, <3>3, <3>4 DEF Saving, old, s
  <2>2. CASE d # c
    BY <1>0, <1>4, <1>5, <1>8, <1>9, <2>2 DEF CallersInv, Saving, Issue, StoresInv, StoredInv
  <2> QED
    BY <2>1, <2>2
<1>13. SealsInv'
  BY <1>0, <1>1, <1>5 DEF SealsInv, Agree
<1>14. UnsavedInv'
  <2>1. binding.tok # nextTok /\ \A d \in Callers : caller[d].seen.tok # nextTok
    BY <1>0, <1>4, <1>8, NoRows DEF StoresInv, StoredInv, Tokens, Issue
  <2>2. \A d \in Callers : Saving(d) => caller[d].tok # nextTok
    BY <1>0, <1>8 DEF CallersInv, Issue
  <2>3. \A q \in Sessions : Unsaved(q) => session[q].tok # nextTok
    BY <1>0, <1>8 DEF SessionsInv, Unsaved, Exchanged, Issue
  <2> QED
    BY <1>0, <1>1, <1>5, <2>1, <2>2, <2>3 DEF UnsavedInv, Unsaved, Unstored, Saving
<1>15. HandedInv'
  BY <1>0, <1>1, <1>8 DEF HandedInv, OAuthShape
<1>16. BindingUsable'
  <2>1. binding # NoBinding => origin'[binding.tok] = origin[binding.tok]
    BY <1>0, <1>8 DEF StoresInv, StoredInv, Issue
  <2>2. CASE binding.tok = old
    <3>1. caller[c].seen.seal = binding.seal
      BY <1>0, <2>2 DEF SealsInv, Agree, old
    <3> QED
      BY <1>1, <1>5, <3>1 DEF BindingUsable
  <2>3. CASE binding.tok # old
    BY <1>0, <1>1, <1>4, <1>5, <2>1, <2>3 DEF BindingUsable, OAuthGrant
  <2> QED
    BY <2>2, <2>3
<1> QED
  BY <1>6, <1>10, <1>11, <1>12, <1>13, <1>14, <1>15, <1>16 DEF OAuthInv

\* A refreshed token is saved over the binding it was refreshed from, or given up.
LEMMA SaveStep ==
    ASSUME OAuthInv, NEW c \in Callers, OAuthSave(c), binding.seal = caller[c].seen.seal
    PROVE  OAuthInv'
<1>0. OAuthShape /\ SessionsInv /\ StoresInv /\ CallersInv /\ SealsInv /\ UnsavedInv /\ HandedInv /\ BindingUsable
  BY DEF OAuthInv
<1>1. /\ Saving(c) /\ caller[c] \in Requests /\ caller[c].seen # NoBinding
      /\ caller[c].seen \in BindingRows \ {NoBinding}
      /\ caller[c].site \in Sites /\ caller[c].seen.site = caller[c].site
      /\ Issue(caller[c].tok) /\ caller[c].tok \in oAuthLive /\ caller[c].tok \in Tokens
      /\ origin[caller[c].tok].session = origin[caller[c].seen.tok].session
      /\ Unstored(caller[c].tok) /\ caller[c].seen.site = ReadOf(caller[c].seen.tok)
  BY <1>0 DEF OAuthSave, OAuthShape, CallersInv, Requests, Saving, Issue, UnsavedInv, StoresInv, StoredInv
<1>2. /\ nextSeal' = nextSeal + 1 /\ Outcome(c, "served") /\ OAuthGive(c, caller[c].tok)
      /\ UNCHANGED <<site, session, oAuthLive, origin, nextTok, stranded>>
  BY DEF OAuthSave
<1>3. /\ binding' \in BindingRows /\ binding'.tok = caller[c].tok /\ binding'.seal = nextSeal
      /\ binding'.site = caller[c].seen.site
  <2>1. PICK v \in BOOLEAN : binding' = [caller[c].seen EXCEPT !.tok = caller[c].tok, !.fresh = v, !.seal = nextSeal]
    BY Zenon DEF OAuthSave
  <2>2. caller[c].seen \in [tok : Tokens, site : Sites, fresh : BOOLEAN, seal : Nat \ {0}] /\ nextSeal \in Nat \ {0}
    BY <1>0, <1>1 DEF BindingRows, OAuthShape
  <2> QED
    BY <1>1, <2>1, <2>2 DEF BindingRows
<1>4. /\ caller' \in [Callers -> Requests] /\ \A d \in Callers : d # c => caller'[d] = caller[d]
      /\ caller'[c].pc = "served" /\ caller'[c].seen = caller[c].seen
  BY <1>0, <1>2, Moved
<1>5. \A d \in Callers : caller'[d].seen = caller[d].seen /\ (Saving(d)' => Saving(d) /\ d # c)
  BY <1>4 DEF Saving
<1>6. Lasting
  BY <1>0, <1>2, OAuthAssumption DEF Lasting, OAuthShape, Exchanged
<1>7. /\ \A k \in Tokens : Issue(k) => Issue(k)' /\ ReadOf(k)' = ReadOf(k)
      /\ \A b \in BindingRows : StoredInv(b) => StoredInv(b)'
  BY <1>0, <1>6, IssueLasts
<1>8. ReadOf(caller[c].tok) = caller[c].site
  BY <1>1 DEF ReadOf
<1>9. handed' \subseteq [tok : Tokens, site : Sites] /\ HandedInv'
  BY <1>0, <1>1, <1>2, <1>6, <1>8, Given
<1>10. OAuthShape'
  BY <1>0, <1>2, <1>3, <1>4, <1>9 DEF OAuthShape
<1>11. SessionsInv'
  BY <1>0, <1>2 DEF SessionsInv, Issue, Exchanged, Unsaved
<1>12. StoresInv'
  <2>1. StoredInv(binding)'
    BY <1>0, <1>1, <1>2, <1>3, <1>7, <1>8 DEF StoredInv, OAuthShape
  <2> QED
    BY <1>0, <1>5, <1>7, <2>1 DEF StoresInv, OAuthShape, Requests
<1>13. CallersInv'
  BY <1>0, <1>2, <1>4 DEF CallersInv, Saving, Issue, Exchanged
<1>14. SealsInv'
  <2>1. ASSUME NEW d \in Callers PROVE binding'.tok # caller[d].seen.tok /\ binding'.seal # caller[d].seen.seal
    BY <1>0, <1>1, <1>3, NoRows DEF Unstored, StoresInv, StoredInv, OAuthShape
  <2> QED
    BY <1>0, <1>5, <2>1 DEF SealsInv, Agree
<1>15. UnsavedInv'
  BY <1>0, <1>1, <1>2, <1>3, <1>4, <1>5 DEF UnsavedInv, Unsaved, Unstored, Saving
<1>16. BindingUsable'
  BY <1>1, <1>2, <1>3 DEF BindingUsable
<1> QED
  BY <1>9, <1>10, <1>11, <1>12, <1>13, <1>14, <1>15, <1>16 DEF OAuthInv

\* The access token expires, the user disconnects, the connection moves.
LEMMA MeanwhileSteps ==
    ASSUME OAuthInv, Expire \/ Disconnect \/ ChangeSite
    PROVE  OAuthInv'
<1>0. OAuthShape /\ SessionsInv /\ StoresInv /\ CallersInv /\ SealsInv /\ UnsavedInv /\ HandedInv /\ BindingUsable
  BY DEF OAuthInv
<1>1. UNCHANGED <<session, caller, oAuthLive, origin, nextTok, nextSeal, handed, stranded>> /\ site' \in Sites
  BY <1>0 DEF Expire, Disconnect, ChangeSite, OAuthShape
<1>2. /\ binding' \in BindingRows
      /\ \/ binding' = NoBinding
         \/ /\ binding'.tok = binding.tok /\ binding'.seal = binding.seal /\ binding'.site = binding.site
            /\ binding # NoBinding
  <2>1. CASE Expire
    <3>1. PICK v \in BOOLEAN : binding' = [binding EXCEPT !.fresh = v]
      BY <2>1, Zenon DEF Expire
    <3>2. binding \in [tok : Tokens, site : Sites, fresh : BOOLEAN, seal : Nat \ {0}] /\ binding # NoBinding
      BY <1>0, <2>1 DEF Expire, OAuthShape, BindingRows
    <3> QED
      BY <3>1, <3>2 DEF BindingRows
  <2>2. CASE Disconnect
    BY <2>2 DEF Disconnect, BindingRows
  <2>3. CASE ChangeSite
    BY <1>0, <2>3 DEF ChangeSite, OAuthShape
  <2> QED
    BY <2>1, <2>2, <2>3
<1>3. OAuthShape'
  BY <1>0, <1>1, <1>2 DEF OAuthShape
<1>4. SessionsInv' /\ HandedInv'
  BY <1>0, <1>1 DEF SessionsInv, HandedInv, Issue, Exchanged, Unsaved, ReadOf
<1>5. StoresInv'
  BY <1>0, <1>1, <1>2 DEF StoresInv, StoredInv, Issue, Exchanged, ReadOf
<1>6. CallersInv'
  BY <1>0, <1>1 DEF CallersInv, Saving, Issue, Exchanged
<1>7. SealsInv'
  <2>1. ASSUME NEW c \in Callers PROVE (caller[c].seen.tok = 0) <=> (caller[c].seen.seal = 0)
    BY <1>0, NoRows DEF OAuthShape, Requests, BindingRows, Tokens
  <2> QED
    BY <1>0, <1>1, <1>2, <2>1, NoRows DEF SealsInv, Agree
<1>8. UnsavedInv'
  <2>1. /\ \A q \in Sessions : Unsaved(q) => session[q].tok # 0
        /\ \A c \in Callers : Saving(c) => caller[c].tok # 0
    BY <1>0 DEF SessionsInv, CallersInv, Unsaved, Exchanged, Issue, Tokens
  <2> QED
    BY <1>0, <1>1, <1>2, <2>1, NoRows DEF UnsavedInv, Unsaved, Unstored, Saving
<1>9. BindingUsable'
  BY <1>0, <1>1, <1>2 DEF BindingUsable, OAuthGrant
<1> QED
  BY <1>3, <1>4, <1>5, <1>6, <1>7, <1>8, <1>9 DEF OAuthInv

\* No authorization, no binding and no call to begin with.
LEMMA OAuthInvInit == OAuthInit => OAuthInv
<1> SUFFICES ASSUME OAuthInit PROVE OAuthInv
  OBVIOUS
<1>1. /\ \A c \in Callers : caller[c] = OAuthIdle
      /\ \A s \in Sessions : session[s] = NoSession
      /\ binding = NoBinding /\ handed = {}
  BY DEF OAuthInit
<1>2. OAuthShape
  <2>1. [k \in Tokens |-> [session |-> OAuthNone, site |-> OAuthNone]]
          \in [Tokens -> [session : Sessions \cup {OAuthNone}, site : Sites \cup {OAuthNone}]]
    OBVIOUS
  <2>2. site \in Sites /\ oAuthLive \subseteq Tokens /\ nextTok \in 1 .. (MaxTokens + 1) /\ nextSeal \in Nat \ {0}
    BY OAuthAssumption DEF OAuthInit
  <2> QED
    BY <1>1, <2>1, <2>2, NoRows DEF OAuthInit, OAuthShape
<1>3. SessionsInv /\ StoresInv /\ CallersInv /\ SealsInv /\ UnsavedInv /\ HandedInv /\ BindingUsable
  BY <1>1, NoRows DEF SessionsInv, StoresInv, StoredInv, CallersInv, SealsInv, Agree, UnsavedInv, HandedInv,
     BindingUsable, Exchanged, Unsaved, Saving
<1> QED
  BY <1>2, <1>3 DEF OAuthInv

\* Every step keeps the invariant.
LEMMA OAuthInvStep == OAuthInv /\ [OAuthNext]_oAuthVars => OAuthInv'
<1> SUFFICES ASSUME OAuthInv, [OAuthNext]_oAuthVars PROVE OAuthInv'
  OBVIOUS
<1>1. ASSUME NEW s \in Sessions, PutBinding(s) PROVE OAuthInv'
  BY <1>1, SessionSteps, PutBindingStep
<1>2. ASSUME NEW c \in Callers, Refresh(c) \/ RefreshLost(c) \/ OAuthSave(c) PROVE OAuthInv'
  BY <1>2, RefusedSteps, RefreshStep, SaveStep
<1>3. CASE UNCHANGED oAuthVars
  <2>0. OAuthShape /\ SessionsInv /\ StoresInv /\ CallersInv /\ SealsInv /\ UnsavedInv /\ HandedInv /\ BindingUsable
    BY DEF OAuthInv
  <2>1. OAuthShape' /\ SessionsInv'
    BY <1>3, <2>0 DEF oAuthVars, OAuthShape, SessionsInv, Issue, Exchanged, Unsaved
  <2>2. StoresInv' /\ CallersInv' /\ HandedInv'
    BY <1>3, <2>0 DEF oAuthVars, StoresInv, StoredInv, CallersInv, HandedInv, Saving, Issue, Exchanged, ReadOf
  <2>3. SealsInv' /\ UnsavedInv' /\ BindingUsable'
    BY <1>3, <2>0 DEF oAuthVars, SealsInv, Agree, UnsavedInv, Unstored, Unsaved, Saving, BindingUsable, OAuthGrant
  <2> QED
    BY <2>1, <2>2, <2>3 DEF OAuthInv
<1> QED
  BY <1>1, <1>2, <1>3, SessionSteps, CallbackStep, ReadingSteps, DecideStep, MeanwhileSteps DEF OAuthNext

\* Whatever callbacks, refreshes, expiries, disconnections and moves of the
\* connection are between the statements of a request, a stored refresh token
\* is one the server takes or whose successor is about to be saved or was lost,
\* and a token is given out for the site its session was read with.
THEOREM OAuthIsSafe == OAuthSpec => []OAuthSafe
<1>1. OAuthInv => OAuthSafe
  <2> SUFFICES ASSUME OAuthInv PROVE OAuthSafe
    OBVIOUS
  <2>0. OAuthShape /\ SessionsInv /\ HandedInv /\ BindingUsable
    BY DEF OAuthInv
  <2>1. OAuthTypeOK
    BY <2>0 DEF OAuthShape, OAuthTypeOK, SessionRows, Requests, BindingRows
  <2>2. SiteBoundOtherwise
    BY <2>0, OAuthAssumption DEF SiteBoundOtherwise, Straddles, HandedInv, SessionsInv, Issue, ReadOf, OAuthShape
  <2> QED
    BY <2>0, <2>1, <2>2 DEF OAuthSafe
<1> QED
  BY <1>1, OAuthInvInit, OAuthInvStep, PTL DEF OAuthSpec

=============================================================================
