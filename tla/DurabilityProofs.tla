-------------------------- MODULE DurabilityProofs --------------------------
(***************************************************************************)
(* What survives lost answers and restarts, for any number of them.        *)
(*                                                                         *)
(* The OTLP outbox, for every set of processes, number of records and      *)
(* limit: a saved record is a file, or was delivered, or somebody was told *)
(* that it is lost; and a process buffers no more than it may.             *)
(*                                                                         *)
(* The leases of the Hands service, for every set of clients, bots,        *)
(* workspaces and tiers: the invariant says which attempt the key of a     *)
(* lease, of a request or of a late request is of, and at which revision.  *)
(*                                                                         *)
(* The settlement of budgets, for every set of requests and correlations,  *)
(* amount and window: a counter lives as long as its window, and a charge  *)
(* that is not settled has its report in the outbox.                       *)
(***************************************************************************)
EXTENDS OtlpOutbox, HandsLeases, UsageSettlement, FiniteSetTheorems, TLAPS

-----------------------------------------------------------------------------
(* The OTLP outbox *)

\* What process p holds in memory.
Buffered(p) == {r \in On("buffered") : writer[r] = p}

\* The types, the limits on what is in memory apart.
OtlpShape ==
    /\ file \in [Records -> {"new", "buffered", "tmp", "json", "gone"}]
    /\ writer \in [Records -> Processes \cup {Nobody}]
    /\ otlpSaved \in SUBSET Records /\ sent \in SUBSET Records /\ old \in SUBSET Records
    /\ reports \in [Records -> Nat]
    /\ lock \in [of : Processes \cup {Nobody}, stale : BOOLEAN]
    /\ at \in [Processes -> {"idle", "look", "steal", "scan", "prune", "send", "remove", "unlock"}]
    /\ found \in [Processes -> SUBSET Records] /\ batch \in [Processes -> SUBSET Records]
    /\ later \in SUBSET Processes /\ otlpFaults \in 0..OtlpMaxFaults

\* The collector has the record, or somebody was told that it will not get it.
Accounted(r) == r \in sent \/ reports[r] > 0

\* A saved record stays a file until it is accounted for, and what a drain is
\* about to remove is.
NothingLost ==
    /\ \A r \in otlpSaved : file[r] = "json" \/ (file[r] = "gone" /\ Accounted(r))
    /\ \A p \in Processes : \A r \in batch[p] : Accounted(r)

WithinMemory == \A p \in Processes : Cardinality(Buffered(p)) <= MaxBuffered

OtlpInv == OtlpShape /\ NothingLost /\ WithinMemory

\* What a process holds in memory is finite.
LEMMA BufferedFinite ==
    ASSUME NEW S, S \subseteq Records
    PROVE  IsFiniteSet(S) /\ Cardinality(S) \in Nat
<1>1. IsFiniteSet(Records)
  BY FS_Interval, OtlpAssumption DEF Records
<1> QED
  BY <1>1, FS_Subset, FS_CardinalityType

\* A step that buffers nothing keeps every process within its memory.
LEMMA MemoryShrinks ==
    ASSUME WithinMemory,
           \A r \in Records : file'[r] = "buffered" => file[r] = "buffered" /\ writer'[r] = writer[r]
    PROVE  WithinMemory'
<1> SUFFICES ASSUME NEW p \in Processes PROVE Cardinality(Buffered(p)') <= MaxBuffered
  BY DEF WithinMemory
<1>1. Buffered(p)' \subseteq Buffered(p) /\ Buffered(p) \subseteq Records
  BY DEF Buffered, On
<1>2. IsFiniteSet(Buffered(p)) /\ Cardinality(Buffered(p)) \in Nat /\ Cardinality(Buffered(p)') \in Nat
  BY <1>1, BufferedFinite
<1>3. Cardinality(Buffered(p)') <= Cardinality(Buffered(p))
  BY <1>1, <1>2, FS_Subset
<1> QED
  BY <1>2, <1>3, OtlpAssumption DEF WithinMemory

\* Nothing is lost by a step that takes no record out of the accounts and makes
\* only accounted records go.
LEMMA AccountsKept ==
    ASSUME OtlpShape, NothingLost, sent \subseteq sent',
           \A r \in Records : reports'[r] \in Nat /\ reports'[r] >= reports[r],
           \A r \in Records : \/ file'[r] = file[r]
                              \/ r \notin otlpSaved
                              \/ file'[r] = "gone" /\ Accounted(r)',
           \A r \in otlpSaved' : r \in otlpSaved \/ file'[r] = "json",
           \A p \in Processes : \A r \in batch'[p] : r \in batch[p] \/ Accounted(r)'
    PROVE  NothingLost'
<1>1. \A r \in Records : Accounted(r) => Accounted(r)'
  BY DEF Accounted, OtlpShape
<1>2. \A r \in otlpSaved' : file'[r] = "json" \/ (file'[r] = "gone" /\ Accounted(r)')
  BY <1>1 DEF NothingLost, OtlpShape
<1>3. \A p \in Processes : \A r \in batch'[p] : Accounted(r)'
  BY <1>1 DEF NothingLost, OtlpShape
<1> QED
  BY <1>2, <1>3 DEF NothingLost

\* Reporting records counts them once each.
LEMMA ReportCounts ==
    ASSUME OtlpShape, NEW S, OtlpReport(S)
    PROVE  /\ reports' \in [Records -> Nat]
           /\ \A r \in Records : reports'[r] >= reports[r] /\ (r \in S => reports'[r] > 0)
BY DEF OtlpShape, OtlpReport

\* One step per action: the record it moves, the accounts and the memory.
LEMMA OtlpInvStep == OtlpInv /\ [OtlpNext]_otlpVars => OtlpInv'
<1> SUFFICES ASSUME OtlpInv, [OtlpNext]_otlpVars PROVE OtlpInv'
  OBVIOUS
<1>0. OtlpShape /\ NothingLost /\ WithinMemory
  BY DEF OtlpInv
<1> DEFINE Fine == OtlpShape' /\ NothingLost' /\ WithinMemory'
<1>a. \A r \in Records : reports[r] \in Nat
  BY <1>0 DEF OtlpShape
<1>1. ASSUME NEW p \in Processes, NEW r \in Records, OtlpEnqueue(p, r) PROVE Fine
  <2>1. r \notin otlpSaved
    BY <1>0, <1>1 DEF OtlpEnqueue, NothingLost
  <2>2. CASE Room(p)
    <3>1. /\ writer' = [writer EXCEPT ![r] = p] /\ file' = [file EXCEPT ![r] = "buffered"]
          /\ reports' = reports /\ otlpSaved' = otlpSaved /\ sent' = sent /\ batch' = batch
      BY <1>1, <2>2 DEF OtlpEnqueue
    <3>2. OtlpShape'
      BY <1>0, <1>1, <3>1 DEF OtlpEnqueue, OtlpShape
    <3>3. NothingLost'
      BY <1>0, <1>a, <2>1, <3>1, AccountsKept DEF OtlpShape
    <3>4. ASSUME NEW q \in Processes PROVE Cardinality(Buffered(q)') <= MaxBuffered
      <4>1. CASE q # p
        <5>1. Buffered(q)' \subseteq Buffered(q) /\ Buffered(q) \subseteq Records
          BY <1>0, <1>1, <3>1, <4>1 DEF Buffered, On, OtlpShape, OtlpEnqueue
        <5>2. IsFiniteSet(Buffered(q)) /\ Cardinality(Buffered(q)) \in Nat /\ Cardinality(Buffered(q)') \in Nat
          BY <5>1, BufferedFinite
        <5>3. Cardinality(Buffered(q)') <= Cardinality(Buffered(q))
          BY <5>1, <5>2, FS_Subset
        <5> QED
          BY <1>0, <5>2, <5>3, OtlpAssumption DEF WithinMemory
      <4>2. CASE q = p
        <5>1. Buffered(p)' = Buffered(p) \cup {r} /\ r \notin Buffered(p) /\ Buffered(p) \subseteq Records
          BY <1>0, <1>1, <3>1 DEF Buffered, On, OtlpShape, OtlpEnqueue
        <5>2. IsFiniteSet(Buffered(p)) /\ Cardinality(Buffered(p)) \in Nat
          BY <5>1, BufferedFinite
        <5>3. Cardinality(Buffered(p)') = Cardinality(Buffered(p)) + 1
          BY <5>1, <5>2, FS_AddElement
        <5>4. Cardinality(Buffered(p)) < MaxBuffered
          BY <2>2 DEF Room, Buffered
        <5> QED
          BY <4>2, <5>2, <5>3, <5>4, OtlpAssumption
      <4> QED
        BY <4>1, <4>2
    <3> QED
      BY <3>2, <3>3, <3>4 DEF WithinMemory
  <2>3. CASE ~ Room(p)
    <3>1. /\ writer' = [writer EXCEPT ![r] = p] /\ Gone({r}) /\ OtlpReport({r})
          /\ otlpSaved' = otlpSaved /\ sent' = sent /\ batch' = batch
      BY <1>1, <2>3 DEF OtlpEnqueue
    <3>2. reports' \in [Records -> Nat] /\ \A q \in Records : reports'[q] >= reports[q]
      BY <1>0, <3>1, ReportCounts
    <3>3. OtlpShape'
      <4>1. /\ file' \in [Records -> {"new", "buffered", "tmp", "json", "gone"}]
            /\ writer' \in [Records -> Processes \cup {Nobody}]
        BY <1>0, <3>1 DEF OtlpShape, Gone
      <4> QED
        BY <1>0, <1>1, <3>1, <3>2, <4>1 DEF OtlpEnqueue, OtlpShape
    <3>4. NothingLost'
      <4>1. \A q \in Records : file'[q] = file[q] \/ q \notin otlpSaved
        BY <2>1, <3>1 DEF Gone
      <4> QED
        BY <1>0, <3>1, <3>2, <4>1, AccountsKept
    <3>5. WithinMemory'
      BY <1>0, <1>1, <3>1, MemoryShrinks DEF OtlpShape, Gone, OtlpEnqueue
    <3> QED
      BY <3>3, <3>4, <3>5
  <2> QED
    BY <2>2, <2>3
<1>2. ASSUME NEW r \in Records, WriteTemporary(r) \/ FinishWrite(r) PROVE Fine
  <2>1. file[r] \in {"buffered", "tmp"}
    BY <1>2 DEF WriteTemporary, FinishWrite
  <2>2. OtlpShape'
    BY <1>0, <1>2 DEF OtlpShape, WriteTemporary, FinishWrite
  <2>3. NothingLost'
    BY <1>0, <1>a, <1>2, <2>1, AccountsKept DEF OtlpShape, WriteTemporary, FinishWrite, NothingLost
  <2>4. WithinMemory'
    BY <1>0, <1>2, <2>1, MemoryShrinks DEF OtlpShape, WriteTemporary, FinishWrite
  <2> QED
    BY <2>2, <2>3, <2>4
<1>3. ASSUME NEW r \in Records, OtlpWriteFails(r) PROVE Fine
  <2>1. reports' \in [Records -> Nat] /\ \A q \in Records : reports'[q] >= reports[q]
    BY <1>0, <1>3, ReportCounts DEF OtlpWriteFails
  <2>2. r \notin otlpSaved
    BY <1>0, <1>3 DEF OtlpWriteFails, NothingLost
  <2>3. OtlpShape'
    <3>1. /\ file' \in [Records -> {"new", "buffered", "tmp", "json", "gone"}]
          /\ writer' \in [Records -> Processes \cup {Nobody}]
      BY <1>0, <1>3 DEF OtlpShape, OtlpWriteFails
    <3>2. otlpFaults' \in 0..OtlpMaxFaults
      BY <1>0, <1>3, OtlpAssumption DEF OtlpShape, OtlpWriteFails, OtlpFault
    <3> QED
      BY <1>0, <1>3, <2>1, <3>1, <3>2 DEF OtlpShape, OtlpWriteFails
  <2>4. NothingLost'
    BY <1>0, <1>a, <1>3, <2>1, <2>2, AccountsKept DEF OtlpShape, OtlpWriteFails
  <2>5. WithinMemory'
    BY <1>0, <1>3, MemoryShrinks DEF OtlpShape, OtlpWriteFails
  <2> QED
    BY <2>3, <2>4, <2>5
<1>4. ASSUME NEW p \in Processes, Locking(p) \/ EndSend(p) \/ RetryTime(p) PROVE Fine
  <2>1. OtlpShape'
    <3>1. CASE TakeLock(p)
      <4>1. [of |-> p, stale |-> FALSE] \in [of : Processes \cup {Nobody}, stale : BOOLEAN]
        BY Zenon
      <4>2. lock' \in [of : Processes \cup {Nobody}, stale : BOOLEAN]
        BY <1>0, <3>1, <4>1, Zenon DEF OtlpShape, TakeLock
      <4>3. at' \in [Processes -> {"idle", "look", "steal", "scan", "prune", "send", "remove", "unlock"}]
        BY <1>0, <3>1 DEF OtlpShape, TakeLock, OtlpGoto
      <4> QED
        BY <1>0, <3>1, <4>2, <4>3 DEF OtlpShape, TakeLock
    <3>2. CASE LookAtLock(p)
      BY <1>0, <3>2 DEF OtlpShape, LookAtLock, OtlpGoto
    <3>3. CASE RemoveLock(p)
      <4>1. NoLock \in [of : Processes \cup {Nobody}, stale : BOOLEAN]
        BY Zenon DEF NoLock
      <4> QED
        BY <1>0, <3>3, <4>1 DEF OtlpShape, RemoveLock, OtlpGoto
    <3>4. CASE EndSend(p) \/ RetryTime(p)
      BY <1>0, <3>4 DEF OtlpShape, EndSend, RetryTime, OtlpGoto
    <3> QED
      BY <1>4, <3>1, <3>2, <3>3, <3>4 DEF Locking
  <2>2. /\ file' = file /\ writer' = writer /\ sent' = sent /\ reports' = reports /\ otlpSaved' = otlpSaved
        /\ \A q \in Processes : batch'[q] \subseteq batch[q]
    BY <1>0, <1>4 DEF OtlpShape, Locking, TakeLock, LookAtLock, RemoveLock, EndSend, RetryTime
  <2>3. NothingLost'
    BY <1>0, <1>a, <2>2, AccountsKept DEF OtlpShape
  <2>4. WithinMemory'
    BY <1>0, <2>2, MemoryShrinks
  <2> QED
    BY <2>1, <2>3, <2>4
<1>5. ASSUME LockAges \/ (\E r \in Records : Ages(r)) PROVE Fine
  <2>1. OtlpShape'
    <3>1. CASE LockAges
      <4>1. lock' \in [of : Processes \cup {Nobody}, stale : BOOLEAN]
        BY <1>0, <3>1 DEF OtlpShape, LockAges
      <4>2. otlpFaults' \in 0..OtlpMaxFaults
        BY <1>0, <3>1, OtlpAssumption DEF OtlpShape, LockAges, OtlpFault
      <4> QED
        BY <1>0, <3>1, <4>1, <4>2 DEF OtlpShape, LockAges
    <3>2. CASE \E r \in Records : Ages(r)
      BY <1>0, <3>2 DEF OtlpShape, Ages
    <3> QED
      BY <1>5, <3>1, <3>2
  <2>2. /\ file' = file /\ writer' = writer /\ sent' = sent /\ reports' = reports /\ otlpSaved' = otlpSaved
        /\ batch' = batch
    BY <1>5 DEF LockAges, Ages
  <2>3. NothingLost'
    BY <1>0, <1>a, <2>2, AccountsKept DEF OtlpShape
  <2>4. WithinMemory'
    BY <1>0, <2>2, MemoryShrinks
  <2> QED
    BY <2>1, <2>3, <2>4
<1>6. ASSUME NEW S, S \subseteq Records, Gone(S), OtlpReport(S), OtlpShape',
             writer' = writer, sent' = sent, otlpSaved' = otlpSaved, batch' = batch
      PROVE  Fine
  <2>1. \A q \in Records : reports'[q] \in Nat /\ reports'[q] >= reports[q] /\ (q \in S => reports'[q] > 0)
    BY <1>0, <1>6, ReportCounts
  <2>2. \A q \in Records : file'[q] = file[q] \/ (file'[q] = "gone" /\ Accounted(q)')
    BY <1>0, <1>6, <2>1 DEF Gone, Accounted, OtlpShape
  <2>3. NothingLost'
    BY <1>0, <1>6, <2>1, <2>2, AccountsKept DEF OtlpShape
  <2>4. WithinMemory'
    BY <1>0, <1>6, <2>2, MemoryShrinks
  <2> QED
    BY <1>6, <2>3, <2>4
<1>7. ASSUME NEW p \in Processes, Scan(p) PROVE Fine
  <2> DEFINE seen == On("json") \cup On("tmp")
             dropped == {r \in seen \cap old : file[r] = "json" \/ writer[r] = Nobody}
  <2>1. /\ dropped \subseteq Records /\ Gone(dropped) /\ OtlpReport(dropped)
        /\ writer' = writer /\ sent' = sent /\ otlpSaved' = otlpSaved /\ batch' = batch
    BY <1>7 DEF Scan, On
  <2> HIDE DEF dropped
  <2>2. reports' \in [Records -> Nat] /\ file' \in [Records -> {"new", "buffered", "tmp", "json", "gone"}]
    BY <1>0, <2>1, ReportCounts DEF Gone, OtlpShape
  <2>3. OtlpShape'
    BY <1>0, <1>7, <2>2 DEF OtlpShape, Scan, OtlpGoto, On
  <2> QED
    BY <1>6, <2>1, <2>3
<1>8. ASSUME NEW p \in Processes, Prune(p) PROVE Fine
  <2> DEFINE excess == {r \in found[p] : Cardinality({q \in found[p] : q >= r}) > OtlpMaxFiles}
             S == Removes(excess)
  <2>1. /\ S \subseteq Records /\ Gone(S) /\ OtlpReport(S)
        /\ writer' = writer /\ sent' = sent /\ otlpSaved' = otlpSaved /\ batch' = batch
    BY <1>0, <1>8 DEF Prune, Removes, OtlpShape
  <2> HIDE DEF S
  <2>2. reports' \in [Records -> Nat] /\ file' \in [Records -> {"new", "buffered", "tmp", "json", "gone"}]
    BY <1>0, <2>1, ReportCounts DEF Gone, OtlpShape
  <2>3. OtlpShape'
    BY <1>0, <1>8, <2>2 DEF OtlpShape, Prune, OtlpGoto
  <2> QED
    BY <1>6, <2>1, <2>3
<1>9. ASSUME NEW p \in Processes, NEW r \in Records, Corrupt(p, r) PROVE Fine
  <2> DEFINE S == Removes({r})
  <2>1. /\ S \subseteq Records /\ Gone(S) /\ OtlpReport(S)
        /\ writer' = writer /\ sent' = sent /\ otlpSaved' = otlpSaved /\ batch' = batch
    BY <1>0, <1>9 DEF Corrupt, Removes, OtlpShape
  <2> HIDE DEF S
  <2>2. reports' \in [Records -> Nat] /\ file' \in [Records -> {"new", "buffered", "tmp", "json", "gone"}]
    BY <1>0, <2>1, ReportCounts DEF Gone, OtlpShape
  <2>3. OtlpShape'
    BY <1>0, <1>9, <2>2, OtlpAssumption DEF OtlpShape, Corrupt, OtlpFault
  <2> QED
    BY <1>6, <2>1, <2>3
<1>10. ASSUME NEW p \in Processes, NEW group \in SUBSET Records, NEW taken \in BOOLEAN, Post(p, group, taken)
       PROVE  Fine
  <2>1. /\ reports' \in [Records -> Nat]
        /\ \A q \in Records : reports'[q] >= reports[q] /\ (~ taken /\ q \in group => reports'[q] > 0)
    BY <1>0, <1>a, <1>10, ReportCounts DEF Post, OtlpShape
  <2>2. OtlpShape'
    BY <1>0, <1>10, <2>1 DEF OtlpShape, Post, OtlpGoto
  <2>3. /\ file' = file /\ writer' = writer /\ otlpSaved' = otlpSaved /\ sent \subseteq sent'
        /\ \A r \in group : Accounted(r)'
    BY <1>10, <2>1 DEF Post, Accounted
  <2>4. \A q \in Processes : \A r \in batch'[q] : r \in batch[q] \/ Accounted(r)'
    BY <1>0, <1>10, <2>3 DEF Post, OtlpShape
  <2>5. NothingLost'
    BY <1>0, <2>1, <2>3, <2>4, AccountsKept
  <2>6. WithinMemory'
    BY <1>0, <2>3, MemoryShrinks
  <2> QED
    BY <2>2, <2>5, <2>6
<1>11. ASSUME NEW p \in Processes, NEW group \in SUBSET Records, NEW taken \in BOOLEAN,
              PostFails(p, group, taken)
       PROVE  Fine
  <2>1. OtlpShape'
    BY <1>0, <1>11, OtlpAssumption DEF OtlpShape, PostFails, OtlpGoto, OtlpFault
  <2>2. /\ file' = file /\ writer' = writer /\ otlpSaved' = otlpSaved /\ sent \subseteq sent'
        /\ reports' = reports /\ batch' = batch
    BY <1>11 DEF PostFails
  <2>3. NothingLost'
    BY <1>0, <1>a, <2>2, AccountsKept
  <2>4. WithinMemory'
    BY <1>0, <2>2, MemoryShrinks
  <2> QED
    BY <2>1, <2>3, <2>4
<1>12. ASSUME NEW p \in Processes, RemoveBatch(p) PROVE Fine
  <2>1. OtlpShape'
    BY <1>0, <1>12 DEF OtlpShape, RemoveBatch, OtlpGoto, Gone
  <2>2. /\ writer' = writer /\ otlpSaved' = otlpSaved /\ sent' = sent /\ reports' = reports
        /\ \A q \in Processes : batch'[q] \subseteq batch[q]
    BY <1>0, <1>12 DEF RemoveBatch, OtlpShape
  <2>3. \A r \in Records : file'[r] = file[r] \/ (file'[r] = "gone" /\ r \in batch[p])
    BY <1>0, <1>12 DEF RemoveBatch, Gone, Removes, OtlpShape
  <2>4. \A r \in batch[p] : Accounted(r)'
    BY <1>0, <2>2 DEF NothingLost, Accounted
  <2>5. NothingLost'
    BY <1>0, <1>a, <2>2, <2>3, <2>4, AccountsKept
  <2>6. WithinMemory'
    BY <1>0, <2>2, <2>3, MemoryShrinks
  <2> QED
    BY <2>1, <2>5, <2>6
<1>13. ASSUME NEW p \in Processes, OtlpCrash(p) PROVE Fine
  <2>1. OtlpShape'
    BY <1>0, <1>13, OtlpAssumption DEF OtlpShape, OtlpCrash, OtlpGoto, OtlpFault
  <2>2. /\ otlpSaved' = otlpSaved /\ sent' = sent /\ reports' = reports
        /\ \A q \in Processes : batch'[q] \subseteq batch[q]
    BY <1>0, <1>13 DEF OtlpCrash, OtlpShape
  <2>3. \A r \in Records : file'[r] = file[r] \/ r \notin otlpSaved
    BY <1>0, <1>13 DEF OtlpCrash, OtlpShape, NothingLost
  <2>4. NothingLost'
    BY <1>0, <1>a, <2>2, <2>3, AccountsKept
  <2>5. WithinMemory'
    BY <1>0, <1>13, MemoryShrinks DEF OtlpCrash, OtlpShape
  <2> QED
    BY <2>1, <2>4, <2>5
<1>14. CASE UNCHANGED otlpVars
  BY <1>0, <1>14 DEF otlpVars, OtlpInv, OtlpShape, NothingLost, Accounted, WithinMemory, Buffered, On
<1> QED
  BY <1>1, <1>2, <1>3, <1>4, <1>5, <1>7, <1>8, <1>9, <1>10, <1>11, <1>12, <1>13, <1>14
  DEF OtlpInv, OtlpNext, Writing, Run

\* An empty directory and idle processes.
LEMMA OtlpInvInit == OtlpInit => OtlpInv
<1> SUFFICES ASSUME OtlpInit PROVE OtlpInv
  OBVIOUS
<1>1. OtlpShape
  BY OtlpAssumption DEF OtlpInit, OtlpShape, NoLock
<1>2. NothingLost
  BY DEF OtlpInit, NothingLost
<1>3. \A p \in Processes : Buffered(p) = {}
  BY DEF OtlpInit, Buffered, On
<1>4. WithinMemory
  BY <1>3, FS_EmptySet, OtlpAssumption DEF WithinMemory
<1> QED
  BY <1>1, <1>2, <1>4 DEF OtlpInv

\* Processes that share the directory, steal each other's lock and crash never
\* lose a saved record without a report of it, and never hold more in memory
\* than they may.
THEOREM OtlpIsSafe == OtlpSpec => []OtlpSafe
<1>1. OtlpInv => OtlpSafe
  BY DEF OtlpInv, OtlpShape, NothingLost, Accounted, WithinMemory, Buffered, OtlpSafe, OtlpTypeOK, NoSilentLoss
<1> QED
  BY <1>1, OtlpInvInit, OtlpInvStep, PTL DEF OtlpSpec

-----------------------------------------------------------------------------
(* The leases of the Hands service *)

\* The requests the client gave up on.
LateRequests == [kind : {"post", "delete"}, w : Workspaces, key : Keys, rev : Nat]

AttemptRecords == [state : {"NONE", "PENDING", "READY"}, rev : Nat, key : 0 .. MaxKeys, sid : Nat, client : Clients \cup {None}]
RemoteRecords == [key : 0 .. MaxKeys, lost : BOOLEAN]
SessionRecords == [id : Nat, attached : BOOLEAN, timer : BOOLEAN, stopping : {"no", "check", "leases"}]
LeaseRecords == [w : Workspaces \cup {None}, key : 0 .. MaxKeys, ready : BOOLEAN,
                 close : {"no", "sent", "done", "absent"}, rev : Nat]
ProvisionRecords == [stage : {"no", "replace", "workspace", "put", "post", "answer", "undo"},
                     tier : Tiers \cup {None}, bot : HandsBots \cup {None}, w : Workspaces \cup {None}, rev : Nat,
                     key : 0 .. MaxKeys, answer : {"none", "granted", "lost", "busy", "conflict"}]

HandsTypes ==
    /\ active \in [HandsBots -> Workspaces] /\ rev \in [Workspaces -> Nat] /\ remoteRev \in [Workspaces -> Nat]
    /\ attempt \in [Workspaces -> [Tiers -> AttemptRecords]] /\ remote \in [Workspaces -> RemoteRecords]
    /\ sess \in [Clients -> SessionRecords] /\ lease \in [Clients -> [Tiers -> LeaseRecords]]
    /\ prov \in [Clients -> ProvisionRecords] /\ shutdown \in {"no", "closing", "stopping"}
    /\ isolate \in [Workspaces -> [on : BOOLEAN, rev : Nat]]
    /\ activating \in [HandsBots -> Workspaces \cup {None}]
    /\ handsLate \subseteq LateRequests
    /\ nextKey \in 1 .. (MaxKeys + 1) /\ nextSid \in Nat \ {0}
    /\ issuedTo \in [Keys -> Clients \cup {None}]
    /\ \A k \in released : k \in Keys /\ k < nextKey

\* An attempt has a key that was made for its client, at a revision that the
\* store has seen; one whose key was released is behind the store.
AttemptOf(w, t) ==
    LET a == attempt[w][t] IN
    /\ a.key = 0 <=> a.state = "NONE"
    /\ a.key # 0 => a.key < nextKey /\ a.client \in Clients /\ issuedTo[a.key] = a.client
    /\ a.rev <= rev[w] /\ a.sid < nextSid
    /\ a.key \in released => a.state = "READY" /\ a.rev < rev[w]

\* A key is of one attempt.
KeysApart ==
    \A w, v \in Workspaces, t, u \in Tiers :
        attempt[w][t].key # 0 /\ attempt[w][t].key = attempt[v][u].key => w = v /\ t = u

\* The attempts of a session that were never confirmed are one at most, and of
\* the tier that is being provisioned.
UnresolvedOf(c) ==
    /\ sess[c].id < nextSid
    /\ Open(c) => \A x, y \in Unresolved(c) : x = y
    /\ Provisioning(c) => /\ Open(c) /\ sess[c].stopping # "leases"
                          /\ \A x \in Unresolved(c) : x[2] = prov[c].tier

\* What is asked of the service is the attempt's, which waits for the answer.
Asking == {"put", "post", "answer"}
ProvisionOf(c) ==
    LET p == prov[c] IN
    /\ Provisioning(c) => /\ p.tier \in Tiers /\ p.bot \in HandsBots /\ p.w \in Workspaces
                          /\ \A u \in Tiers \ {p.tier} : ~ Leased(c, u)
    /\ p.stage \in {"no", "replace", "workspace"} => p.key = 0
    /\ p.stage \in Asking =>
         /\ p.key # 0 /\ ~ Leased(c, p.tier)
         /\ attempt[p.w][p.tier].state = "PENDING" /\ attempt[p.w][p.tier].key = p.key
         /\ attempt[p.w][p.tier].client = c
    /\ p.stage \in {"post", "answer"} => p.rev <= remoteRev[p.w]
    /\ p.stage = "undo" => p.key # 0 /\ lease[c][p.tier].key = p.key /\ lease[c][p.tier].close # "no"

\* An answer is at the revision the lease was given at, and no late request asks
\* for more.
AnswerOf(c) ==
    LET p == prov[c] IN
    p.stage = "answer" =>
        /\ \A m \in handsLate : m.kind = "post" /\ m.key = p.key => m.rev <= p.rev
        /\ p.answer = "granted" /\ remote[p.w].key = p.key => p.rev = remoteRev[p.w] \/ p.key \in drifted

\* A lease has a key of its client that was not released; its attempt, if it has
\* that key still, is READY, and behind the revision of the release.
LeaseOf(c, t) ==
    LET l == lease[c][t] IN
    /\ l.key = 0 => l.close = "no" /\ ~ l.ready
    /\ l.key # 0 => /\ l.w \in Workspaces /\ l.key < nextKey /\ issuedTo[l.key] = c /\ l.key \notin released
                    /\ \A v \in Workspaces, u \in Tiers : attempt[v][u].key = l.key =>
                          /\ v = l.w /\ attempt[v][u].state = "READY"
                          /\ l.close = "done" => attempt[v][u].rev < l.rev
                    /\ l.close \in {"done", "absent"} => l.rev <= remoteRev[l.w]
OneTier == \A c \in Clients, t, u \in Tiers : Leased(c, t) /\ Leased(c, u) => t = u

\* A late request of a lease comes too late, or the attempt still has its key.
LateOf(m) ==
    /\ m.key < nextKey
    /\ m.kind = "post" =>
         /\ m.rev <= remoteRev[m.w]
         /\ \A v \in Workspaces, u \in Tiers : attempt[v][u].key = m.key => v = m.w
         /\ \/ m.key \in rotated \/ m.rev < remoteRev[m.w]
            \/ \E t \in Tiers : /\ attempt[m.w][t].key = m.key
                                /\ \/ attempt[m.w][t].state = "PENDING"
                                   \/ attempt[m.w][t].state = "READY" /\ m.rev <= attempt[m.w][t].rev

\* A live lease is named by an attempt that would be used again.
RemoteOf(w) ==
    /\ rev[w] <= remoteRev[w] /\ remote[w].key < nextKey
    /\ HandsLive(w) /\ remote[w].key \notin drifted \cup rotated =>
          \E t \in Tiers : /\ attempt[w][t].key = remote[w].key
                           /\ \/ attempt[w][t].state = "PENDING"
                              \/ /\ attempt[w][t].state = "READY" /\ attempt[w][t].rev = rev[w]
                                 /\ rev[w] = remoteRev[w]

HandsInv ==
    /\ HandsTypes /\ KeysApart /\ OneTier
    /\ \A w \in Workspaces, t \in Tiers : AttemptOf(w, t)
    /\ \A c \in Clients : UnresolvedOf(c) /\ ProvisionOf(c) /\ AnswerOf(c)
    /\ \A c \in Clients, t \in Tiers : LeaseOf(c, t)
    /\ \A m \in handsLate : LateOf(m)
    /\ \A w \in Workspaces : RemoteOf(w)

-----------------------------------------------------------------------------
\* What the types say of one entry each.
LEMMA HandsTyped ==
    ASSUME HandsInv
    PROVE  /\ HandsTypes /\ MaxKeys \in Nat /\ nextKey \in Nat /\ nextSid \in Nat
           /\ \A w \in Workspaces : rev[w] \in Nat /\ remoteRev[w] \in Nat /\ remote[w] \in RemoteRecords
           /\ \A w \in Workspaces, t \in Tiers : attempt[w][t] \in AttemptRecords
           /\ \A c \in Clients : sess[c] \in SessionRecords /\ prov[c] \in ProvisionRecords
           /\ \A c \in Clients, t \in Tiers : lease[c][t] \in LeaseRecords
           /\ \A b \in HandsBots : active[b] \in Workspaces
  BY HandsAssumption DEF HandsInv, HandsTypes

LEMMA AttemptTyped ==
    ASSUME HandsInv, NEW w \in Workspaces, NEW t \in Tiers
    PROVE  /\ attempt[w][t].state \in {"NONE", "PENDING", "READY"} /\ attempt[w][t].rev \in Nat
           /\ attempt[w][t].key \in Nat /\ attempt[w][t].key \in 0 .. MaxKeys /\ attempt[w][t].sid \in Nat
           /\ attempt[w][t].client \in Clients \cup {None}
<1>1. attempt[w][t] \in AttemptRecords /\ MaxKeys \in Nat
  BY HandsTyped
<1> QED
  BY <1>1 DEF AttemptRecords

LEMMA LeaseTyped ==
    ASSUME HandsInv, NEW c \in Clients, NEW t \in Tiers
    PROVE  /\ lease[c][t].key \in Nat /\ lease[c][t].key \in 0 .. MaxKeys /\ lease[c][t].rev \in Nat
           /\ lease[c][t].close \in {"no", "sent", "done", "absent"} /\ lease[c][t].w \in Workspaces \cup {None}
           /\ lease[c][t].key # 0 => lease[c][t].key \in Keys
<1>1. lease[c][t] \in LeaseRecords /\ MaxKeys \in Nat
  BY HandsTyped
<1> QED
  BY <1>1 DEF LeaseRecords, Keys

LEMMA ProvisionTyped ==
    ASSUME HandsInv, NEW c \in Clients
    PROVE  /\ prov[c].key \in Nat /\ prov[c].key \in 0 .. MaxKeys /\ prov[c].rev \in Nat
           /\ prov[c].stage \in {"no", "replace", "workspace", "put", "post", "answer", "undo"}
           /\ prov[c].key # 0 => prov[c].key \in Keys
<1>1. prov[c] \in ProvisionRecords /\ MaxKeys \in Nat
  BY HandsTyped
<1> QED
  BY <1>1 DEF ProvisionRecords, Keys

LEMMA LateTyped ==
    ASSUME HandsInv, NEW m \in handsLate
    PROVE  m.w \in Workspaces /\ m.key \in Keys /\ m.key \in Nat /\ m.rev \in Nat /\ m.kind \in {"post", "delete"} /\ m.key # 0
<1>1. m \in LateRequests /\ MaxKeys \in Nat
  BY HandsTyped DEF HandsTypes
<1> QED
  BY <1>1 DEF LateRequests, Keys

LEMMA NoProvFields ==
    /\ NoProv \in ProvisionRecords /\ NoProv.stage = "no" /\ NoProv.key = 0
  BY HandsAssumption DEF NoProv, ProvisionRecords

-----------------------------------------------------------------------------
(* What a step leaves as it was. *)

SameAttempts == attempt' = attempt /\ issuedTo' = issuedTo /\ nextKey' = nextKey
RevisionsGrow ==
    \A w \in Workspaces : /\ rev'[w] \in Nat /\ remoteRev'[w] \in Nat
                          /\ rev[w] <= rev'[w] /\ remoteRev[w] <= remoteRev'[w]
\* The attempt of a key is the one it was, as is the client the key is of.
KeyStays(k) ==
    k # 0 /\ k < nextKey => /\ k < nextKey' /\ issuedTo'[k] = issuedTo[k]
                            /\ \A w \in Workspaces, t \in Tiers : attempt'[w][t].key = k => attempt'[w][t] = attempt[w][t]
SetApartGrow == drifted \subseteq drifted' /\ rotated \subseteq rotated'

LEMMA RevisionsStay ==
    ASSUME HandsInv, UNCHANGED <<rev, remoteRev>>
    PROVE  RevisionsGrow
<1>1. \A w \in Workspaces : rev[w] \in Nat /\ remoteRev[w] \in Nat
  BY HandsTyped
<1> QED
  BY <1>1 DEF RevisionsGrow

LEMMA AttemptsKeep ==
    ASSUME HandsInv, SameAttempts, released' = released, RevisionsGrow, nextSid' \in Nat, nextSid <= nextSid'
    PROVE  KeysApart' /\ \A w \in Workspaces, t \in Tiers : AttemptOf(w, t)'
<1>1. KeysApart'
  BY DEF HandsInv, KeysApart, SameAttempts
<1>2. ASSUME NEW w \in Workspaces, NEW t \in Tiers
      PROVE  AttemptOf(w, t)'
  <2>1. AttemptOf(w, t) /\ rev[w] \in Nat /\ nextSid \in Nat
    BY HandsTyped DEF HandsInv
  <2>2. /\ rev'[w] \in Nat /\ rev[w] <= rev'[w] /\ attempt[w][t].rev \in Nat /\ attempt[w][t].sid \in Nat
    BY AttemptTyped DEF RevisionsGrow
  <2>3. /\ attempt[w][t].rev <= rev'[w] /\ attempt[w][t].sid < nextSid'
        /\ attempt[w][t].rev < rev[w] => attempt[w][t].rev < rev'[w]
    BY <2>1, <2>2 DEF AttemptOf
  <2> QED
    BY <2>1, <2>3 DEF AttemptOf, SameAttempts
<1> QED
  BY <1>1, <1>2

LEMMA SameKeys ==
    ASSUME SameAttempts
    PROVE  \A k : KeyStays(k)
  BY DEF SameAttempts, KeyStays

LEMMA LeaseKeeps ==
    ASSUME HandsInv, RevisionsGrow, NEW c \in Clients, NEW t \in Tiers, KeyStays(lease[c][t].key),
           lease[c][t].key \notin released',
           lease'[c][t].key = lease[c][t].key, lease'[c][t].w = lease[c][t].w,
           \/ lease'[c][t].close = lease[c][t].close /\ lease'[c][t].rev = lease[c][t].rev
           \/ lease'[c][t].close \in {"no", "sent"},
           lease[c][t].key = 0 => lease'[c][t] = lease[c][t]
    PROVE  LeaseOf(c, t)'
<1> DEFINE l == lease[c][t]
<1>1. LeaseOf(c, t) /\ l.rev \in Nat
  BY LeaseTyped DEF HandsInv
<1>2. CASE l.key = 0
  BY <1>1, <1>2 DEF LeaseOf
<1>3. CASE l.key # 0
  <2>1. /\ l.w \in Workspaces /\ l.key < nextKey /\ issuedTo[l.key] = c /\ l.key \notin released
        /\ \A v \in Workspaces, u \in Tiers : attempt[v][u].key = l.key =>
              /\ v = l.w /\ attempt[v][u].state = "READY"
              /\ l.close = "done" => attempt[v][u].rev < l.rev
        /\ l.close \in {"done", "absent"} => l.rev <= remoteRev[l.w]
    BY <1>1, <1>3 DEF LeaseOf
  <2>2. l.close \in {"done", "absent"} => l.rev <= remoteRev'[l.w]
    <3>1. remoteRev[l.w] \in Nat /\ remoteRev'[l.w] \in Nat /\ remoteRev[l.w] <= remoteRev'[l.w]
      BY <2>1, HandsTyped DEF RevisionsGrow
    <3> QED
      BY <1>1, <2>1, <3>1
  <2> QED
    BY <1>3, <2>1, <2>2 DEF LeaseOf, KeyStays
<1> QED
  BY <1>2, <1>3

LEMMA LeasesStay ==
    ASSUME HandsInv, SameAttempts, released' = released
    PROVE  \A c \in Clients, t \in Tiers : KeyStays(lease[c][t].key) /\ lease[c][t].key \notin released'
<1>1. \A c \in Clients, t \in Tiers : lease[c][t].key \notin released
  <2>1. 0 \notin released
    BY DEF HandsInv, HandsTypes, Keys
  <2> QED
    BY <2>1 DEF HandsInv, LeaseOf
<1> QED
  BY <1>1, SameKeys

LEMMA LateKeeps ==
    ASSUME HandsInv, SameAttempts, rotated \subseteq rotated', RevisionsGrow, NEW m \in handsLate
    PROVE  LateOf(m)'
<1>1. LateOf(m) /\ m.w \in Workspaces /\ m.rev \in Nat
  BY LateTyped DEF HandsInv
<1>2. remoteRev[m.w] \in Nat /\ remoteRev'[m.w] \in Nat /\ remoteRev[m.w] <= remoteRev'[m.w]
  BY <1>1, HandsTyped DEF RevisionsGrow
<1>3. /\ m.rev <= remoteRev[m.w] => m.rev <= remoteRev'[m.w]
      /\ m.rev < remoteRev[m.w] => m.rev < remoteRev'[m.w]
  BY <1>1, <1>2
<1> QED
  BY <1>1, <1>3 DEF LateOf, SameAttempts

LEMMA RemoteKeeps ==
    ASSUME HandsInv, SameAttempts, RevisionsGrow, SetApartGrow, NEW w \in Workspaces,
           remote'[w] = remote[w], remoteRev'[w] = remoteRev[w], rev'[w] <= remoteRev[w]
    PROVE  RemoteOf(w)'
<1>1. RemoteOf(w) /\ rev[w] \in Nat /\ remoteRev[w] \in Nat /\ rev'[w] \in Nat /\ rev[w] <= rev'[w]
  BY HandsTyped DEF HandsInv, RevisionsGrow
<1>2. rev[w] = remoteRev[w] => rev'[w] = rev[w]
  BY <1>1
<1> QED
  BY <1>1, <1>2 DEF RemoteOf, HandsLive, SameAttempts, SetApartGrow

LEMMA UnresolvedKeeps ==
    ASSUME HandsInv, nextSid' \in Nat, nextSid <= nextSid', NEW c \in Clients,
           sess'[c].id = sess[c].id, attempt' = attempt \/ Unresolved(c)' \subseteq Unresolved(c), prov'[c].stage # "no" => sess'[c].stopping # "leases",
           prov'[c].stage = "no" \/ (Provisioning(c) /\ prov'[c].tier = prov[c].tier)
    PROVE  UnresolvedOf(c)'
<1>1. UnresolvedOf(c) /\ sess[c].id \in Nat /\ nextSid \in Nat
  BY HandsTyped DEF HandsInv, SessionRecords
<1>2. Unresolved(c)' \subseteq Unresolved(c)
  BY DEF Unresolved
<1>3. sess[c].id < nextSid'
  BY <1>1 DEF UnresolvedOf
<1> QED
  BY <1>1, <1>2, <1>3 DEF UnresolvedOf, Open, Provisioning

LEMMA ProvisionKeeps ==
    ASSUME HandsInv, RevisionsGrow, NEW c \in Clients, prov'[c] = prov[c],
           prov[c].stage \in Asking => attempt'[prov[c].w][prov[c].tier] = attempt[prov[c].w][prov[c].tier],
           \A t \in Tiers : /\ lease'[c][t].key = lease[c][t].key
                            /\ lease[c][t].close # "no" => lease'[c][t].close # "no"
    PROVE  ProvisionOf(c)'
<1>1. ProvisionOf(c) /\ prov[c].rev \in Nat
  BY ProvisionTyped DEF HandsInv
<1>2. prov[c].stage \in {"post", "answer"} => prov[c].rev <= remoteRev'[prov[c].w]
  <2>1. SUFFICES ASSUME prov[c].stage \in {"post", "answer"}
                 PROVE  prov[c].rev <= remoteRev'[prov[c].w]
    OBVIOUS
  <2>2. prov[c].w \in Workspaces /\ prov[c].rev <= remoteRev[prov[c].w]
    BY <1>1, <2>1 DEF ProvisionOf, Provisioning
  <2>3. remoteRev[prov[c].w] \in Nat /\ remoteRev'[prov[c].w] \in Nat /\ remoteRev[prov[c].w] <= remoteRev'[prov[c].w]
    BY <2>2, HandsTyped DEF RevisionsGrow
  <2> QED
    BY <1>1, <2>2, <2>3
<1> QED
  BY <1>1, <1>2 DEF ProvisionOf, Provisioning, Leased, Asking

LEMMA AnswerKeeps ==
    ASSUME HandsInv, NEW c \in Clients, prov'[c] = prov[c], drifted \subseteq drifted',
           \A m \in handsLate' : m.kind = "post" /\ m.key = prov[c].key => m \in handsLate,
           prov[c].stage = "answer" /\ remote'[prov[c].w].key = prov[c].key =>
               \/ remote[prov[c].w].key = prov[c].key /\ remoteRev'[prov[c].w] = remoteRev[prov[c].w]
               \/ prov[c].key \in drifted'
    PROVE  AnswerOf(c)'
  BY DEF HandsInv, AnswerOf

LEMMA NothingProvisioned ==
    ASSUME NEW c \in Clients, prov'[c] = NoProv
    PROVE  ProvisionOf(c)' /\ AnswerOf(c)' /\ prov'[c].stage = "no" /\ prov'[c].key = 0
  BY NoProvFields DEF ProvisionOf, AnswerOf, Provisioning, Asking

-----------------------------------------------------------------------------
(* Sessions, isolates and activations *)

\* A step that leaves the rows, the service, the leases and the provisionings.
LEMMA SessionsStep ==
    ASSUME HandsInv,
           UNCHANGED <<rev, attempt, remote, remoteRev, handsLate, lease, prov, nextKey, issuedTo, drifted, rotated, released>>,
           sess' \in [Clients -> SessionRecords], active' \in [HandsBots -> Workspaces],
           isolate' \in [Workspaces -> [on : BOOLEAN, rev : Nat]],
           activating' \in [HandsBots -> Workspaces \cup {None}], shutdown' \in {"no", "closing", "stopping"},
           nextSid' \in Nat \ {0}, nextSid <= nextSid', \A c \in Clients : UnresolvedOf(c)'
    PROVE  HandsInv'
<1>1. HandsTypes'
  BY DEF HandsInv, HandsTypes
<1>2. SameAttempts /\ RevisionsGrow /\ SetApartGrow
  BY RevisionsStay DEF SameAttempts, SetApartGrow
<1>3. KeysApart' /\ \A w \in Workspaces, t \in Tiers : AttemptOf(w, t)'
  BY <1>2, AttemptsKeep
<1>4. OneTier'
  BY DEF HandsInv, OneTier, Leased
<1>5. \A c \in Clients : ProvisionOf(c)' /\ AnswerOf(c)'
  BY <1>2, ProvisionKeeps, AnswerKeeps DEF SetApartGrow, SameAttempts
<1>6. \A c \in Clients, t \in Tiers : LeaseOf(c, t)'
  BY <1>2, LeasesStay, LeaseKeeps
<1>7. \A m \in handsLate' : LateOf(m)'
  BY <1>2, LateKeeps DEF SetApartGrow
<1>8. \A w \in Workspaces : RemoteOf(w)'
  <2>1. \A w \in Workspaces : rev'[w] <= remoteRev[w]
    BY DEF HandsInv, RemoteOf
  <2> QED
    BY <1>2, <2>1, RemoteKeeps
<1> QED
  BY <1>1, <1>3, <1>4, <1>5, <1>6, <1>7, <1>8 DEF HandsInv

LEMMA SessionTyped ==
    ASSUME HandsInv
    PROVE  /\ sess \in [Clients -> SessionRecords] /\ active \in [HandsBots -> Workspaces]
           /\ isolate \in [Workspaces -> [on : BOOLEAN, rev : Nat]] /\ activating \in [HandsBots -> Workspaces \cup {None}]
           /\ shutdown \in {"no", "closing", "stopping"} /\ nextSid \in Nat \ {0} /\ nextSid <= nextSid
           /\ \A c \in Clients : UnresolvedOf(c) /\ sess[c].id \in Nat
  BY DEF HandsInv, HandsTypes, SessionRecords

\* A new session has made no attempt.
LEMMA StartStep ==
    ASSUME HandsInv, NEW c \in Clients, Start(c)
    PROVE  HandsInv'
<1>1. UNCHANGED <<store, hands, lease, prov, isolate, activating, shutdown, nextKey, issuedTo, drifted, rotated, released>>
  BY DEF Start
<1>2. CASE /\ ~ Open(c) /\ nextSid' = nextSid + 1
           /\ \E yes, no \in BOOLEAN :
                sess' = [sess EXCEPT ![c] = [id |-> nextSid, attached |-> yes, timer |-> no, stopping |-> "no"]]
  <2>1. PICK yes, no \in BOOLEAN :
                sess' = [sess EXCEPT ![c] = [id |-> nextSid, attached |-> yes, timer |-> no, stopping |-> "no"]]
    BY <1>2
  <2>2. /\ sess' \in [Clients -> SessionRecords] /\ sess'[c].id = nextSid /\ sess'[c].stopping = "no"
        /\ \A d \in Clients : d # c => sess'[d] = sess[d]
    BY <2>1, SessionTyped DEF SessionRecords
  <2>3. nextSid' \in Nat \ {0} /\ nextSid <= nextSid' /\ nextSid' \in Nat
    BY <1>2, SessionTyped
  <2>4. ASSUME NEW d \in Clients
        PROVE  UnresolvedOf(d)'
    <3>1. CASE d # c
      <4>1. sess'[d].id = sess[d].id /\ (prov'[d].stage # "no" => sess'[d].stopping # "leases")
        BY <1>1, <2>2, <3>1, SessionTyped DEF UnresolvedOf, Provisioning
      <4> QED
        BY <1>1, <2>3, <4>1, UnresolvedKeeps DEF store, Provisioning
    <3>2. CASE d = c
      <4>1. nextSid < nextSid' /\ nextSid \in Nat
        BY <1>2, SessionTyped
      <4>2. Unresolved(c)' = {}
        <5>1. \A w \in Workspaces, t \in Tiers : attempt[w][t].sid # nextSid
          <6>1. \A w \in Workspaces, t \in Tiers : attempt[w][t].sid \in Nat /\ attempt[w][t].sid < nextSid
            BY AttemptTyped DEF HandsInv, AttemptOf
          <6> QED
            BY <4>1, <6>1
        <5> QED
          BY <1>1, <2>2, <5>1 DEF Unresolved, store
      <4>3. ~ Provisioning(c)
        BY <1>2, SessionTyped DEF UnresolvedOf
      <4> QED
        BY <1>1, <2>2, <3>2, <4>1, <4>2, <4>3 DEF UnresolvedOf, Provisioning
    <3> QED
      BY <3>1, <3>2
  <2> QED
    BY <1>1, <2>2, <2>3, <2>4, SessionTyped, SessionsStep DEF store, hands
<1>3. CASE /\ sess[c].stopping = "no" /\ nextSid' = nextSid
           /\ \E yes, no \in BOOLEAN : sess' = [sess EXCEPT ![c].attached = yes, ![c].timer = no]
  <2>1. PICK yes, no \in BOOLEAN : sess' = [sess EXCEPT ![c].attached = yes, ![c].timer = no]
    BY <1>3
  <2>2. /\ sess' \in [Clients -> SessionRecords]
        /\ \A d \in Clients : sess'[d].id = sess[d].id /\ sess'[d].stopping = sess[d].stopping
    <3> DEFINE after == [sess[c] EXCEPT !.attached = yes, !.timer = no]
    <3>1. sess \in [Clients -> SessionRecords] /\ sess[c] \in SessionRecords
      BY SessionTyped
    <3>2. after \in SessionRecords /\ after.id = sess[c].id /\ after.stopping = sess[c].stopping
      BY <3>1 DEF SessionRecords
    <3>3. sess' = [sess EXCEPT ![c] = after]
      BY <2>1, <3>1
    <3> HIDE DEF after
    <3> QED
      BY <3>1, <3>2, <3>3
  <2>3. \A d \in Clients : UnresolvedOf(d)'
    <3>1. \A d \in Clients : prov'[d].stage # "no" => sess'[d].stopping # "leases"
      BY <1>1, <2>2, SessionTyped DEF UnresolvedOf, Provisioning
    <3> QED
      BY <1>1, <1>3, <2>2, <3>1, SessionTyped, UnresolvedKeeps DEF store, Provisioning
  <2> QED
    BY <1>1, <1>3, <2>2, <2>3, SessionTyped, SessionsStep DEF store, hands
<1>4. \/ /\ ~ Open(c) /\ nextSid' = nextSid + 1
         /\ \E yes, no \in BOOLEAN :
              sess' = [sess EXCEPT ![c] = [id |-> nextSid, attached |-> yes, timer |-> no, stopping |-> "no"]]
      \/ /\ sess[c].stopping = "no" /\ nextSid' = nextSid
         /\ \E yes, no \in BOOLEAN : sess' = [sess EXCEPT ![c].attached = yes, ![c].timer = no]
  BY Zenon DEF Start
<1> QED
  BY <1>2, <1>3, <1>4

\* A session that goes on has the attempts it had.
LEMMA SessionFlags ==
    ASSUME HandsInv,
           UNCHANGED <<rev, attempt, remote, remoteRev, handsLate, lease, prov, nextKey, nextSid, issuedTo, drifted, rotated, released>>,
           sess' \in [Clients -> SessionRecords], active' \in [HandsBots -> Workspaces],
           isolate' \in [Workspaces -> [on : BOOLEAN, rev : Nat]],
           activating' \in [HandsBots -> Workspaces \cup {None}], shutdown' \in {"no", "closing", "stopping"},
           \A d \in Clients : sess'[d].id = sess[d].id /\ (Provisioning(d) => sess'[d].stopping # "leases")
    PROVE  HandsInv'
<1>1. \A d \in Clients : UnresolvedOf(d)'
  BY SessionTyped, UnresolvedKeeps DEF Provisioning
<1> QED
  BY <1>1, SessionTyped, SessionsStep

LEMMA SessionSteps ==
    ASSUME HandsInv, NEW c \in Clients, Detach(c) \/ GraceEnds(c) \/ StopAsked(c) \/ StopSession(c)
    PROVE  HandsInv'
<1>1. UNCHANGED <<store, hands, lease, prov, isolate, activating, shutdown, ghosts>>
  BY DEF Detach, GraceEnds, StopAsked, StopSession
<1>2. /\ sess \in [Clients -> SessionRecords]
      /\ \A d \in Clients : Provisioning(d) => sess[d].stopping # "leases"
  BY SessionTyped DEF UnresolvedOf
<1>3. /\ sess' \in [Clients -> SessionRecords]
      /\ \A d \in Clients : sess'[d].id = sess[d].id /\ (Provisioning(d) => sess'[d].stopping # "leases")
  <2>1. CASE Detach(c) \/ GraceEnds(c)
    <3>1. PICK v, x \in BOOLEAN, s \in {"no", "check", "leases"} :
             /\ sess' = [sess EXCEPT ![c].attached = v, ![c].timer = x, ![c].stopping = s]
             /\ s = sess[c].stopping \/ s = "check"
      <4>1. CASE Detach(c)
        <5>1. PICK v, x \in BOOLEAN : sess' = [sess EXCEPT ![c].attached = v, ![c].timer = x]
          BY <4>1, Zenon DEF Detach
        <5>2. sess[c].stopping \in {"no", "check", "leases"}
          BY <1>2 DEF SessionRecords
        <5>3. sess' = [sess EXCEPT ![c].attached = v, ![c].timer = x, ![c].stopping = sess[c].stopping]
          BY <1>2, <5>1 DEF SessionRecords
        <5> QED
          BY <5>2, <5>3
      <4>2. CASE GraceEnds(c)
        <5>1. PICK x \in BOOLEAN : sess' = [sess EXCEPT ![c].timer = x,
                                              ![c].stopping = IF sess[c].stopping = "no" THEN "check" ELSE sess[c].stopping]
          BY <4>2, Zenon DEF GraceEnds
        <5>2. PICK s \in {"no", "check", "leases"} : s = IF sess[c].stopping = "no" THEN "check" ELSE sess[c].stopping
          BY <1>2 DEF SessionRecords
        <5>3. sess' = [sess EXCEPT ![c].attached = sess[c].attached, ![c].timer = x, ![c].stopping = s]
          BY <1>2, <5>1, <5>2 DEF SessionRecords
        <5>4. sess[c].attached \in BOOLEAN
          BY <1>2 DEF SessionRecords
        <5> QED
          BY <5>2, <5>3, <5>4
      <4> QED
        BY <2>1, <4>1, <4>2
    <3>2. /\ [sess[c] EXCEPT !.attached = v, !.timer = x, !.stopping = s] \in SessionRecords
          /\ [sess[c] EXCEPT !.attached = v, !.timer = x, !.stopping = s].id = sess[c].id
          /\ [sess[c] EXCEPT !.attached = v, !.timer = x, !.stopping = s].stopping = s
      BY <1>2 DEF SessionRecords
    <3>3. sess' = [sess EXCEPT ![c] = [sess[c] EXCEPT !.attached = v, !.timer = x, !.stopping = s]]
      BY <1>2, <3>1
    <3>4. Provisioning(c) => s # "leases"
      BY <1>2, <3>1
    <3> HIDE <3>1
    <3> QED
      BY <1>2, <3>2, <3>3, <3>4
  <2>2. CASE StopAsked(c) \/ StopSession(c)
    <3>1. PICK s \in {"no", "check", "leases"} :
             sess' = [sess EXCEPT ![c].stopping = s] /\ (s = "leases" => ~ Provisioning(c))
      BY <2>2 DEF StopAsked, StopSession
    <3> QED
      BY <1>2, <3>1 DEF SessionRecords
  <2> QED
    BY <2>1, <2>2
<1> QED
  BY <1>1, <1>3, SessionTyped, SessionFlags DEF store, hands, ghosts

\* A session that stops has no provisioning.
LEMMA SessionStoppedStep ==
    ASSUME HandsInv, NEW c \in Clients, SessionStopped(c)
    PROVE  HandsInv'
<1>1. /\ UNCHANGED <<store, hands, lease, prov, isolate, activating, shutdown, ghosts>>
      /\ sess[c].stopping = "leases"
  BY DEF SessionStopped
<1>2. PICK yes, no \in BOOLEAN : sess' = [sess EXCEPT ![c] = [id |-> 0, attached |-> yes, timer |-> no, stopping |-> "no"]]
  BY Zenon DEF SessionStopped, NoSession
<1>3. /\ sess' \in [Clients -> SessionRecords] /\ sess'[c].id = 0 /\ \A d \in Clients : d # c => sess'[d] = sess[d]
  BY <1>2, SessionTyped DEF SessionRecords
<1>4. ASSUME NEW d \in Clients
      PROVE  UnresolvedOf(d)'
  <2>1. CASE d = c
    <3>1. ~ Provisioning(c) /\ 0 < nextSid
      BY <1>1, SessionTyped DEF UnresolvedOf
    <3> QED
      BY <1>1, <1>3, <2>1, <3>1 DEF UnresolvedOf, Open, Provisioning, ghosts
  <2>2. CASE d # c
    <3>1. Provisioning(d) => sess[d].stopping # "leases"
      BY SessionTyped DEF UnresolvedOf
    <3> QED
      BY <1>1, <1>3, <2>2, <3>1, SessionTyped, UnresolvedKeeps DEF store, ghosts, Provisioning
  <2> QED
    BY <2>1, <2>2
<1> QED
  BY <1>1, <1>3, <1>4, SessionTyped, SessionsStep DEF store, hands, ghosts

LEMMA OtherSteps ==
    ASSUME HandsInv,
           \/ \E w \in Workspaces : IsolateBegins(w)
           \/ \E b \in HandsBots, w \in Workspaces : ActivateBegins(b, w)
           \/ \E b \in HandsBots : ActivateEnds(b)
           \/ Close
    PROVE  HandsInv'
<1>1. /\ UNCHANGED <<rev, attempt, remote, remoteRev, handsLate, lease, prov, nextKey, nextSid, issuedTo, drifted, rotated, released>>
      /\ UNCHANGED sess
  BY DEF IsolateBegins, ActivateBegins, ActivateEnds, Close, store, hands, ghosts
<1>2. \A d \in Clients : sess'[d].id = sess[d].id /\ (Provisioning(d) => sess'[d].stopping # "leases")
  BY <1>1, SessionTyped DEF UnresolvedOf
<1>3. isolate' \in [Workspaces -> [on : BOOLEAN, rev : Nat]]
  <2>1. CASE \E w \in Workspaces : IsolateBegins(w)
    <3>1. PICK w \in Workspaces : \E v \in BOOLEAN : isolate' = [isolate EXCEPT ![w] = [on |-> v, rev |-> rev[w]]]
      BY <2>1, Zenon DEF IsolateBegins
    <3>2. rev[w] \in Nat
      BY HandsTyped
    <3> QED
      BY <3>1, <3>2, SessionTyped
  <2>2. CASE ~ \E w \in Workspaces : IsolateBegins(w)
    BY <2>2, SessionTyped DEF ActivateBegins, ActivateEnds, Close
  <2> QED
    BY <2>1, <2>2
<1>4. /\ active' \in [HandsBots -> Workspaces] /\ activating' \in [HandsBots -> Workspaces \cup {None}]
      /\ shutdown' \in {"no", "closing", "stopping"}
  <2>1. CASE \E w \in Workspaces : IsolateBegins(w)
    BY <2>1, SessionTyped DEF IsolateBegins, store
  <2>2. CASE \E b \in HandsBots, w \in Workspaces : ActivateBegins(b, w)
    BY <2>2, SessionTyped DEF ActivateBegins, store
  <2>3. CASE \E b \in HandsBots : ActivateEnds(b)
    BY <2>3, SessionTyped DEF ActivateEnds
  <2>4. CASE Close
    BY <2>4, SessionTyped DEF Close, store
  <2> QED
    BY <2>1, <2>2, <2>3, <2>4
<1> QED
  BY <1>1, <1>2, <1>3, <1>4, SessionTyped, SessionFlags

LEMMA CloseStopsStep ==
    ASSUME HandsInv, CloseStops
    PROVE  HandsInv'
<1>1. /\ UNCHANGED <<store, hands, lease, prov, isolate, activating, ghosts>> /\ shutdown' = "stopping"
      /\ sess' = [c \in Clients |-> IF Open(c) /\ sess[c].stopping = "no" THEN [sess[c] EXCEPT !.stopping = "check"] ELSE sess[c]]
  BY DEF CloseStops
<1>2. \A d \in Clients : sess[d] \in SessionRecords /\ (Provisioning(d) => sess[d].stopping # "leases")
  BY SessionTyped DEF UnresolvedOf
<1>3. ASSUME NEW d \in Clients
      PROVE  /\ sess'[d] \in SessionRecords /\ sess'[d].id = sess[d].id
             /\ Provisioning(d) => sess'[d].stopping # "leases"
  <2>1. CASE Open(d) /\ sess[d].stopping = "no"
    <3>1. sess'[d] = [sess[d] EXCEPT !.stopping = "check"]
      BY <1>1, <2>1
    <3> QED
      BY <1>2, <3>1 DEF SessionRecords
  <2>2. CASE ~ (Open(d) /\ sess[d].stopping = "no")
    BY <1>1, <1>2, <2>2
  <2> QED
    BY <2>1, <2>2
<1>4. sess' \in [Clients -> SessionRecords]
  <2>1. sess' = [c \in Clients |-> sess'[c]]
    BY <1>1
  <2> QED
    BY <1>3, <2>1
<1> QED
  BY <1>1, <1>3, <1>4, SessionTyped, SessionFlags DEF store, hands, ghosts

-----------------------------------------------------------------------------
(* Revisions *)

\* The rows and the service keep what they had while revisions grow.
LEMMA RowsKeep ==
    ASSUME HandsInv, SameAttempts, released' = released, RevisionsGrow, SetApartGrow, nextSid' = nextSid,
           remote' = remote, remoteRev' = remoteRev, \A w \in Workspaces : rev'[w] <= remoteRev[w]
    PROVE  /\ KeysApart' /\ \A w \in Workspaces, t \in Tiers : AttemptOf(w, t)'
           /\ \A w \in Workspaces : RemoteOf(w)'
           /\ \A m \in handsLate : LateOf(m)'
<1>1. nextSid' \in Nat /\ nextSid <= nextSid'
  BY SessionTyped
<1>2. KeysApart' /\ \A w \in Workspaces, t \in Tiers : AttemptOf(w, t)'
  BY <1>1, AttemptsKeep
<1>3. \A w \in Workspaces : RemoteOf(w)'
  BY RemoteKeeps
<1>4. \A m \in handsLate : LateOf(m)'
  BY LateKeeps DEF SetApartGrow
<1> QED
  BY <1>2, <1>3, <1>4

\* The sessions and their unresolved attempts are what they were.
LEMMA SessionsKeep ==
    ASSUME HandsInv, attempt' = attempt, nextSid' = nextSid, NEW c \in Clients,
           sess'[c].id = sess[c].id, Provisioning(c) => sess'[c].stopping = sess[c].stopping,
           prov'[c].stage = "no" \/ (Provisioning(c) /\ prov'[c].tier = prov[c].tier)
    PROVE  UnresolvedOf(c)'
<1>1. nextSid' \in Nat /\ nextSid <= nextSid' /\ UnresolvedOf(c)
  BY SessionTyped
<1>2. prov'[c].stage # "no" => sess'[c].stopping # "leases"
  BY <1>1 DEF UnresolvedOf
<1> QED
  BY <1>1, <1>2, UnresolvedKeeps

LEMMA RevisionTyped ==
    ASSUME HandsInv, NEW w \in Workspaces
    PROVE  rev[w] \in Nat /\ remoteRev[w] \in Nat /\ rev[w] <= remoteRev[w]
  BY HandsTyped DEF HandsInv, RemoteOf

\* A revision of the service is stored.
LEMMA RevisionStored ==
    ASSUME HandsInv, NEW w \in Workspaces, NEW r \in Nat, rev[w] <= r, r <= remoteRev[w],
           rev' = [rev EXCEPT ![w] = r], remoteRev' = remoteRev
    PROVE  /\ RevisionsGrow /\ rev' \in [Workspaces -> Nat] /\ rev'[w] = r
           /\ \A v \in Workspaces : rev'[v] <= remoteRev[v]
<1>1. rev \in [Workspaces -> Nat]
  BY DEF HandsInv, HandsTypes
<1>2. rev' \in [Workspaces -> Nat] /\ rev'[w] = r /\ \A v \in Workspaces : v # w => rev'[v] = rev[v]
  BY <1>1
<1>3. ASSUME NEW v \in Workspaces
      PROVE  rev'[v] \in Nat /\ remoteRev'[v] \in Nat /\ rev[v] <= rev'[v] /\ remoteRev[v] <= remoteRev'[v] /\ rev'[v] <= remoteRev[v]
  <2>1. CASE v = w
    BY <1>2, <2>1, RevisionTyped
  <2>2. CASE v # w
    BY <1>2, <2>2, RevisionTyped
  <2> QED
    BY <2>1, <2>2
<1> QED
  BY <1>2, <1>3 DEF RevisionsGrow

\* A workspace's revision moves: the key of its lease is set apart.
LEMMA MovedStep ==
    ASSUME HandsInv, NEW w \in Workspaces, Moved(w), rev' = [rev EXCEPT ![w] = remoteRev'[w]],
           UNCHANGED <<active, attempt, remote, handsLate, sess, lease, prov, activating, shutdown,
                       nextKey, nextSid, issuedTo, rotated, released>>,
           isolate' \in [Workspaces -> [on : BOOLEAN, rev : Nat]]
    PROVE  HandsInv'
<1>1. /\ remoteRev' = [remoteRev EXCEPT ![w] = @ + 1]
      /\ drifted' = IF remote[w].key = 0 THEN drifted ELSE drifted \cup {remote[w].key}
  BY DEF Moved
<1>2. rev \in [Workspaces -> Nat] /\ remoteRev \in [Workspaces -> Nat]
  BY DEF HandsInv, HandsTypes
<1>3. /\ remoteRev' \in [Workspaces -> Nat] /\ remoteRev'[w] = remoteRev[w] + 1
      /\ \A v \in Workspaces : v # w => remoteRev'[v] = remoteRev[v]
  BY <1>1, <1>2
<1>4. /\ rev' \in [Workspaces -> Nat] /\ rev'[w] = remoteRev'[w]
      /\ \A v \in Workspaces : v # w => rev'[v] = rev[v]
  BY <1>2, <1>3
<1>5. RevisionsGrow
  <2>1. ASSUME NEW v \in Workspaces
        PROVE  rev'[v] \in Nat /\ remoteRev'[v] \in Nat /\ rev[v] <= rev'[v] /\ remoteRev[v] <= remoteRev'[v]
    <3>1. CASE v = w
      BY <1>3, <1>4, <3>1, RevisionTyped
    <3>2. CASE v # w
      BY <1>3, <1>4, <3>2, RevisionTyped
    <3> QED
      BY <3>1, <3>2
  <2> QED
    BY <2>1 DEF RevisionsGrow
<1>6. SameAttempts /\ SetApartGrow /\ nextSid' \in Nat /\ nextSid <= nextSid'
  BY <1>1, SessionTyped DEF SameAttempts, SetApartGrow
<1>7. HandsTypes'
  BY <1>3, <1>4 DEF HandsInv, HandsTypes
<1>8. KeysApart' /\ \A v \in Workspaces, t \in Tiers : AttemptOf(v, t)'
  BY <1>5, <1>6, AttemptsKeep
<1>9. OneTier'
  BY DEF HandsInv, OneTier, Leased
<1>10. ASSUME NEW c \in Clients
       PROVE  UnresolvedOf(c)' /\ ProvisionOf(c)' /\ AnswerOf(c)'
  <2>1. UnresolvedOf(c)'
    BY SessionsKeep DEF Provisioning
  <2>2. ProvisionOf(c)'
    BY <1>5, ProvisionKeeps
  <2>3. prov[c].stage = "answer" => prov[c].key # 0 /\ prov[c].w \in Workspaces
    BY DEF HandsInv, ProvisionOf, Asking, Provisioning
  <2>4. AnswerOf(c)'
    BY <1>1, <1>3, <1>6, <2>3, AnswerKeeps DEF SetApartGrow
  <2> QED
    BY <2>1, <2>2, <2>4
<1>11. \A c \in Clients, t \in Tiers : LeaseOf(c, t)'
  BY <1>5, <1>6, LeasesStay, LeaseKeeps
<1>12. \A m \in handsLate' : LateOf(m)'
  BY <1>5, <1>6, LateKeeps DEF SetApartGrow
<1>13. ASSUME NEW v \in Workspaces
       PROVE  RemoteOf(v)'
  <2>1. CASE v = w
    <3>1. RemoteOf(w) /\ rev'[w] <= remoteRev'[w]
      BY <1>3, <1>4, RevisionTyped DEF HandsInv
    <3>2. ~ (HandsLive(w)' /\ remote'[w].key \notin drifted' \cup rotated')
      BY <1>1 DEF HandsLive
    <3> QED
      BY <2>1, <3>1, <3>2 DEF RemoteOf
  <2>2. CASE v # w
    <3>1. rev'[v] <= remoteRev[v]
      BY <1>4, <2>2, RevisionTyped
    <3> QED
      BY <1>3, <1>5, <1>6, <2>2, <3>1, RemoteKeeps
  <2> QED
    BY <2>1, <2>2
<1> QED
  BY <1>7, <1>8, <1>9, <1>10, <1>11, <1>12, <1>13 DEF HandsInv

LEMMA WriteWorkspaceFileStep ==
    ASSUME HandsInv, NEW c \in Clients, NEW t \in Tiers, WriteWorkspaceFile(c, t)
    PROVE  HandsInv'
<1> DEFINE l == lease[c][t]
<1>1. /\ l.ready /\ Moved(l.w) /\ rev' = [rev EXCEPT ![l.w] = remoteRev'[l.w]]
      /\ UNCHANGED <<active, attempt, remote, handsLate, broker, nextKey, nextSid, issuedTo, rotated, released, handsFaults>>
  BY DEF WriteWorkspaceFile
<1>2. l.w \in Workspaces
  BY <1>1 DEF HandsInv, LeaseOf
<1> QED
  BY <1>1, <1>2, MovedStep, SessionTyped DEF broker

\* An isolate's end moves the revision, stores one, or does neither.
LEMMA IsolateEndsStep ==
    ASSUME HandsInv, NEW w \in Workspaces, IsolateEnds(w)
    PROVE  HandsInv'
<1>1. UNCHANGED <<active, attempt, remote, handsLate, sess, lease, prov, activating, shutdown,
                  nextKey, nextSid, issuedTo, rotated, released, handsFaults>>
  BY DEF IsolateEnds
<1>2. isolate' \in [Workspaces -> [on : BOOLEAN, rev : Nat]]
  <2>1. PICK v \in BOOLEAN : isolate' = [isolate EXCEPT ![w] = [on |-> v, rev |-> 0]]
    BY Zenon DEF IsolateEnds
  <2> QED
    BY <2>1, SessionTyped
<1>3. CASE Moved(w) /\ rev' = [rev EXCEPT ![w] = remoteRev'[w]]
  BY <1>1, <1>2, <1>3, MovedStep
<1>4. CASE /\ UNCHANGED <<remoteRev, drifted, changes>>
           /\ rev' = rev \/ (Current(w, remoteRev[w]) /\ rev' = [rev EXCEPT ![w] = remoteRev[w]])
  <2>1. RevisionsGrow /\ rev' \in [Workspaces -> Nat] /\ \A v \in Workspaces : rev'[v] <= remoteRev[v]
    <3>1. CASE rev' = rev
      BY <1>4, <3>1, RevisionsStay, RevisionTyped DEF HandsInv, HandsTypes
    <3>2. CASE rev' = [rev EXCEPT ![w] = remoteRev[w]]
      <4>1. remoteRev[w] \in Nat /\ rev[w] <= remoteRev[w] /\ remoteRev[w] <= remoteRev[w] /\ remoteRev' = remoteRev
        BY <1>4, RevisionTyped
      <4> QED
        BY <3>2, <4>1, RevisionStored
    <3> QED
      BY <1>4, <3>1, <3>2
  <2>2. SameAttempts /\ SetApartGrow
    BY <1>1, <1>4 DEF SameAttempts, SetApartGrow
  <2>3. HandsTypes'
    BY <1>1, <1>2, <1>4, <2>1 DEF HandsInv, HandsTypes
  <2>4. /\ KeysApart' /\ \A v \in Workspaces, t \in Tiers : AttemptOf(v, t)'
        /\ (\A v \in Workspaces : RemoteOf(v)') /\ \A m \in handsLate' : LateOf(m)'
    BY <1>1, <1>4, <2>1, <2>2, RowsKeep
  <2>5. OneTier'
    BY <1>1 DEF HandsInv, OneTier, Leased
  <2>6. \A c \in Clients : UnresolvedOf(c)'
    BY <1>1, SessionsKeep DEF Provisioning
  <2>7. \A c \in Clients : ProvisionOf(c)' /\ AnswerOf(c)'
    BY <1>1, <1>4, <2>1, ProvisionKeeps, AnswerKeeps
  <2>8. \A c \in Clients, t \in Tiers : LeaseOf(c, t)'
    BY <1>1, <2>1, <2>2, LeasesStay, LeaseKeeps
  <2> QED
    BY <2>3, <2>4, <2>5, <2>6, <2>7, <2>8 DEF HandsInv
<1>5. \/ Moved(w) /\ rev' = [rev EXCEPT ![w] = remoteRev'[w]]
      \/ /\ UNCHANGED <<remoteRev, drifted, changes>>
         /\ rev' = rev \/ (Current(w, remoteRev[w]) /\ rev' = [rev EXCEPT ![w] = remoteRev[w]])
  BY DEF IsolateEnds
<1> QED
  BY <1>3, <1>4, <1>5

-----------------------------------------------------------------------------
(* What changes one entry. *)

LEMMA ProvisionUpdate ==
    ASSUME HandsInv, NEW c \in Clients, NEW p \in ProvisionRecords, prov' = [prov EXCEPT ![c] = p]
    PROVE  /\ prov' \in [Clients -> ProvisionRecords] /\ prov'[c] = p
           /\ \A d \in Clients : d # c => prov'[d] = prov[d]
  BY DEF HandsInv, HandsTypes

\* What holds of a provisioning that is under way.
LEMMA ProvisionFacts ==
    ASSUME HandsInv, NEW c \in Clients, Provisioning(c)
    PROVE  /\ prov[c].tier \in Tiers /\ prov[c].bot \in HandsBots /\ prov[c].w \in Workspaces
           /\ \A u \in Tiers \ {prov[c].tier} : ~ Leased(c, u)
           /\ Open(c) /\ sess[c].stopping # "leases"
           /\ \A x \in Unresolved(c) : x[2] = prov[c].tier
  BY DEF HandsInv, ProvisionOf, UnresolvedOf

LEMMA AskingFacts ==
    ASSUME HandsInv, NEW c \in Clients, prov[c].stage \in Asking
    PROVE  /\ Provisioning(c) /\ prov[c].tier \in Tiers /\ prov[c].bot \in HandsBots /\ prov[c].w \in Workspaces
           /\ prov[c].key \in Keys /\ prov[c].key \in Nat /\ prov[c].key # 0 /\ ~ Leased(c, prov[c].tier)
           /\ \A u \in Tiers : ~ Leased(c, u)
           /\ attempt[prov[c].w][prov[c].tier].state = "PENDING" /\ attempt[prov[c].w][prov[c].tier].key = prov[c].key
           /\ attempt[prov[c].w][prov[c].tier].client = c
           /\ prov[c].key < nextKey /\ issuedTo[prov[c].key] = c /\ prov[c].key \notin released
           /\ \A v \in Workspaces, u \in Tiers : attempt[v][u].key = prov[c].key => v = prov[c].w /\ u = prov[c].tier
           /\ prov[c].stage \in {"post", "answer"} => prov[c].rev <= remoteRev[prov[c].w]
<1>1. Provisioning(c)
  BY DEF Provisioning, Asking
<1>2. /\ prov[c].tier \in Tiers /\ prov[c].bot \in HandsBots /\ prov[c].w \in Workspaces
      /\ \A u \in Tiers \ {prov[c].tier} : ~ Leased(c, u)
  BY <1>1, ProvisionFacts
<1>3. /\ prov[c].key # 0 /\ ~ Leased(c, prov[c].tier)
      /\ attempt[prov[c].w][prov[c].tier].state = "PENDING" /\ attempt[prov[c].w][prov[c].tier].key = prov[c].key
      /\ attempt[prov[c].w][prov[c].tier].client = c
      /\ prov[c].stage \in {"post", "answer"} => prov[c].rev <= remoteRev[prov[c].w]
  BY DEF HandsInv, ProvisionOf
<1>4. AttemptOf(prov[c].w, prov[c].tier)
  BY <1>2 DEF HandsInv
<1>5. prov[c].key < nextKey /\ issuedTo[prov[c].key] = c /\ prov[c].key \notin released
  BY <1>3, <1>4 DEF AttemptOf
<1>6. \A v \in Workspaces, u \in Tiers : attempt[v][u].key = prov[c].key => v = prov[c].w /\ u = prov[c].tier
  BY <1>2, <1>3 DEF HandsInv, KeysApart
<1> QED
  BY <1>1, <1>2, <1>3, <1>5, <1>6, ProvisionTyped

\* Two clients never ask for the same attempt.
LEMMA AskingApart ==
    ASSUME HandsInv, NEW c \in Clients, NEW d \in Clients, c # d, prov[c].stage \in Asking, prov[d].stage \in Asking
    PROVE  prov[c].key # prov[d].key /\ ~ (prov[c].w = prov[d].w /\ prov[c].tier = prov[d].tier)
<1>1. /\ attempt[prov[c].w][prov[c].tier].client = c /\ attempt[prov[d].w][prov[d].tier].client = d
      /\ attempt[prov[d].w][prov[d].tier].key = prov[d].key /\ prov[d].w \in Workspaces /\ prov[d].tier \in Tiers
      /\ \A v \in Workspaces, u \in Tiers : attempt[v][u].key = prov[c].key => v = prov[c].w /\ u = prov[c].tier
  BY AskingFacts
<1> QED
  BY <1>1

\* A step of the broker that leaves the rows and the service: one client's
\* provisioning, leases and session may change.
LEMMA BrokerStep ==
    ASSUME HandsInv, UNCHANGED <<attempt, remote, remoteRev, nextKey, nextSid, issuedTo, drifted, rotated, released>>,
           HandsTypes', RevisionsGrow, \A w \in Workspaces : rev'[w] <= remoteRev[w],
           NEW c \in Clients,
           \A d \in Clients : d # c => prov'[d] = prov[d] /\ sess'[d] = sess[d] /\ \A t \in Tiers : lease'[d][t] = lease[d][t],
           \A t \in Tiers : LeaseOf(c, t)' /\ (lease'[c][t].key # 0 => lease'[c][t].key = lease[c][t].key),
           UnresolvedOf(c)', ProvisionOf(c)', AnswerOf(c)',
           \A m \in handsLate' : m \in handsLate \/ LateOf(m)',
           \A m \in handsLate' : \A d \in Clients :
               m.kind = "post" /\ d # c /\ prov[d].stage = "answer" /\ m.key = prov[d].key => m \in handsLate
    PROVE  HandsInv'
<1>1. SameAttempts /\ SetApartGrow
  BY DEF SameAttempts, SetApartGrow
<1>2. /\ KeysApart' /\ \A v \in Workspaces, t \in Tiers : AttemptOf(v, t)'
      /\ (\A v \in Workspaces : RemoteOf(v)') /\ \A m \in handsLate : LateOf(m)'
  BY <1>1, RowsKeep
<1>3. OneTier'
  BY DEF HandsInv, OneTier, Leased
<1>4. ASSUME NEW d \in Clients, d # c
      PROVE  UnresolvedOf(d)' /\ ProvisionOf(d)' /\ AnswerOf(d)'
  <2>1. UnresolvedOf(d)'
    BY <1>4, SessionsKeep DEF Provisioning
  <2>2. ProvisionOf(d)'
    BY <1>4, ProvisionKeeps
  <2>3. AnswerOf(d)'
    <3>1. CASE prov[d].stage = "answer"
      BY <1>4, <3>1, AnswerKeeps
    <3>2. CASE prov[d].stage # "answer"
      BY <1>4, <3>2 DEF AnswerOf
    <3> QED
      BY <3>1, <3>2
  <2> QED
    BY <2>1, <2>2, <2>3
<1>5. \A d \in Clients, t \in Tiers : LeaseOf(d, t)'
  <2>1. \A d \in Clients, t \in Tiers : d # c => LeaseOf(d, t)'
    BY <1>1, LeasesStay, LeaseKeeps
  <2> QED
    BY <2>1
<1>6. \A d \in Clients : UnresolvedOf(d)' /\ ProvisionOf(d)' /\ AnswerOf(d)'
  BY <1>4
<1>7. ASSUME NEW m \in handsLate'
      PROVE  LateOf(m)'
  <2>1. CASE m \in handsLate
    BY <1>2, <2>1
  <2>2. CASE m \notin handsLate
    BY <2>2
  <2> QED
    BY <2>1, <2>2
<1> QED
  BY <1>2, <1>3, <1>5, <1>6, <1>7 DEF HandsInv

-----------------------------------------------------------------------------
(* Stopping a tier, and asking for one *)

\* A lease that is being closed is the lease it was.
LEMMA CloseBegins ==
    ASSUME HandsInv, NEW c \in Clients, NEW t \in Tiers, Leased(c, t), BeginClose(c, t),
           UNCHANGED <<store, hands, sess, prov, isolate, activating, shutdown, ghosts>>
    PROVE  HandsInv'
<1>1. PICK v \in BOOLEAN : lease' = [lease EXCEPT ![c][t].ready = v, ![c][t].close = "sent"]
  BY Zenon DEF BeginClose
<1> DEFINE after == [lease[c][t] EXCEPT !.ready = v, !.close = "sent"]
<1>2. lease \in [Clients -> [Tiers -> LeaseRecords]] /\ lease[c][t] \in LeaseRecords
  BY DEF HandsInv, HandsTypes
<1>3. after \in LeaseRecords /\ after.key = lease[c][t].key /\ after.w = lease[c][t].w /\ after.close = "sent"
  BY <1>2 DEF LeaseRecords
<1>4. lease' = [lease EXCEPT ![c][t] = after]
  BY <1>1, <1>2
<1> HIDE DEF after
<1>5. /\ lease' \in [Clients -> [Tiers -> LeaseRecords]] /\ lease'[c][t] = after
      /\ \A d \in Clients, u \in Tiers : d # c \/ u # t => lease'[d][u] = lease[d][u]
  BY <1>2, <1>3, <1>4
<1>6. HandsTypes'
  BY <1>5 DEF HandsInv, HandsTypes, store, hands, ghosts
<1>7. SameAttempts /\ RevisionsGrow /\ released' = released
  BY RevisionsStay DEF SameAttempts, store, hands, ghosts
<1>8. ASSUME NEW u \in Tiers
      PROVE  LeaseOf(c, u)' /\ (lease'[c][u].key # 0 => lease'[c][u].key = lease[c][u].key)
  <2>1. CASE u = t
    BY <1>3, <1>5, <1>7, <2>1, LeasesStay, LeaseKeeps DEF Leased
  <2>2. CASE u # t
    BY <1>5, <1>7, <2>2, LeasesStay, LeaseKeeps
  <2> QED
    BY <2>1, <2>2
<1>9. UnresolvedOf(c)'
  BY SessionsKeep DEF Provisioning, store, ghosts
<1>10. ProvisionOf(c)'
  <2>1. \A u \in Tiers : lease'[c][u].key = lease[c][u].key /\ (lease[c][u].close # "no" => lease'[c][u].close # "no")
    BY <1>3, <1>5
  <2> QED
    BY <1>7, <2>1, ProvisionKeeps DEF store
<1>11. AnswerOf(c)'
  BY AnswerKeeps DEF hands, ghosts
<1>12. \A w \in Workspaces : rev'[w] <= remoteRev[w]
  BY RevisionTyped DEF store
<1> QED
  BY <1>5, <1>6, <1>7, <1>8, <1>9, <1>10, <1>11, <1>12, BrokerStep DEF store, hands, ghosts

LEMMA StopTierStep ==
    ASSUME HandsInv, NEW c \in Clients, NEW t \in Tiers, StopTier(c, t)
    PROVE  HandsInv'
  BY CloseBegins DEF StopTier

LEMMA ReplaceStep ==
    ASSUME HandsInv, NEW c \in Clients, Replace(c)
    PROVE  HandsInv'
<1>1. prov[c].tier \in Tiers
  BY ProvisionFacts DEF Replace, Provisioning
<1> QED
  BY <1>1, CloseBegins DEF Replace

\* One client's provisioning changes, and nothing else of the broker.
LEMMA ProvisionStep ==
    ASSUME HandsInv, NEW c \in Clients, NEW p \in ProvisionRecords, prov' = [prov EXCEPT ![c] = p],
           UNCHANGED <<active, attempt, remote, remoteRev, sess, lease, isolate, activating, shutdown,
                       nextKey, nextSid, issuedTo, drifted, rotated, released>>,
           rev' \in [Workspaces -> Nat], RevisionsGrow, \A w \in Workspaces : rev'[w] <= remoteRev[w],
           handsLate' \subseteq LateRequests,
           UnresolvedOf(c)', ProvisionOf(c)', AnswerOf(c)',
           \A m \in handsLate' : m \in handsLate \/ LateOf(m)',
           \A m \in handsLate' : \A d \in Clients :
               m.kind = "post" /\ d # c /\ prov[d].stage = "answer" /\ m.key = prov[d].key => m \in handsLate
    PROVE  HandsInv'
<1>1. /\ prov' \in [Clients -> ProvisionRecords] /\ \A d \in Clients : d # c => prov'[d] = prov[d]
  BY ProvisionUpdate
<1>2. HandsTypes'
  BY <1>1 DEF HandsInv, HandsTypes
<1>3. SameAttempts
  BY DEF SameAttempts
<1>4. \A t \in Tiers : LeaseOf(c, t)'
  BY <1>3, LeasesStay, LeaseKeeps
<1> QED
  BY <1>1, <1>2, <1>4, BrokerStep

\* The caller gets an error: the provisioning is over.
LEMMA ProvisionOver ==
    ASSUME HandsInv, NEW c \in Clients, prov' = [prov EXCEPT ![c] = NoProv],
           UNCHANGED <<store, remote, remoteRev, sess, lease, isolate, activating, shutdown,
                       nextKey, nextSid, issuedTo, drifted, rotated, released>>,
           handsLate' = handsLate \/ (prov[c].stage = "post" /\ handsLate' = handsLate \cup {PostOf(c)})
    PROVE  HandsInv'
<1>1. NoProv \in ProvisionRecords /\ prov'[c] = NoProv
  BY NoProvFields, ProvisionUpdate
<1>2. ProvisionOf(c)' /\ AnswerOf(c)' /\ prov'[c].stage = "no"
  BY <1>1, NothingProvisioned
<1>3. UnresolvedOf(c)'
  BY <1>2, SessionsKeep DEF store
<1>4. RevisionsGrow /\ rev' \in [Workspaces -> Nat] /\ \A w \in Workspaces : rev'[w] <= remoteRev[w]
  BY RevisionsStay, RevisionTyped DEF HandsInv, HandsTypes, store
<1>5. CASE handsLate' = handsLate
  BY <1>1, <1>2, <1>3, <1>4, <1>5, ProvisionStep DEF store, HandsInv, HandsTypes
<1>6. CASE prov[c].stage = "post" /\ handsLate' = handsLate \cup {PostOf(c)}
  <2>1. PICK m \in LateRequests : /\ m = PostOf(c) /\ m.kind = "post" /\ m.w = prov[c].w /\ m.key = prov[c].key
                                  /\ m.rev = prov[c].rev
    <3>1. prov[c].stage \in Asking
      BY <1>6 DEF Asking
    <3>2. PostOf(c) \in LateRequests
      BY <3>1, AskingFacts, ProvisionTyped DEF PostOf, LateRequests
    <3> QED
      BY <3>2 DEF PostOf
  <2>2. prov[c].stage \in Asking
    BY <1>6 DEF Asking
  <2>3. LateOf(m)'
    <3>1. /\ m.key < nextKey /\ m.rev <= remoteRev[m.w] /\ prov[c].tier \in Tiers
          /\ \A v \in Workspaces, u \in Tiers : attempt[v][u].key = m.key => v = m.w
          /\ attempt[m.w][prov[c].tier].key = m.key /\ attempt[m.w][prov[c].tier].state = "PENDING"
      BY <1>6, <2>1, <2>2, AskingFacts
    <3> QED
      BY <3>1 DEF LateOf, store
  <2>4. \A d \in Clients : d # c /\ prov[d].stage = "answer" => m.key # prov[d].key
    BY <2>1, <2>2, AskingApart DEF Asking
  <2>5. handsLate' \subseteq LateRequests /\ (\A x \in handsLate' : x \in handsLate \/ x = m)
    BY <1>6, <2>1 DEF HandsInv, HandsTypes
  <2>6. /\ \A x \in handsLate' : x \in handsLate \/ LateOf(x)'
        /\ \A x \in handsLate' : \A d \in Clients :
               x.kind = "post" /\ d # c /\ prov[d].stage = "answer" /\ x.key = prov[d].key => x \in handsLate
    BY <2>3, <2>4, <2>5
  <2> QED
    BY <1>1, <1>2, <1>3, <1>4, <2>5, <2>6, ProvisionStep DEF store
<1> QED
  BY <1>5, <1>6

LEMMA ProvisionFailsStep ==
    ASSUME HandsInv, NEW c \in Clients, ProvisionFails(c)
    PROVE  HandsInv'
  BY ProvisionOver DEF ProvisionFails

\* A provisioning begins when the session's unresolved attempts are of its tier.
LEMMA EnsureStep ==
    ASSUME HandsInv, NEW c \in Clients, NEW t \in Tiers, NEW b \in HandsBots, Ensure(c, t, b)
    PROVE  HandsInv'
<1>1. /\ Open(c) /\ sess[c].stopping = "no" /\ ~ RetryElsewhere(c, t, b) /\ \A u \in Tiers \ {t} : ~ Leased(c, u)
      /\ UNCHANGED <<store, hands, sess, lease, isolate, activating, shutdown, ghosts>>
  BY DEF Ensure
<1>2. active[b] \in Workspaces /\ rev[active[b]] \in Nat
  BY HandsTyped, RevisionTyped
<1>3. PICK p \in ProvisionRecords :
         /\ prov' = [prov EXCEPT ![c] = p] /\ p.tier = t /\ p.bot = b /\ p.w \in Workspaces
         /\ p.stage \in {"replace", "workspace"} /\ p.key = 0
  <2> DEFINE q == [NoProv EXCEPT !.tier = t, !.bot = b, !.w = active[b]]
  <2>1. q \in ProvisionRecords /\ q.tier = t /\ q.bot = b /\ q.w = active[b] /\ q.key = 0
    BY <1>2, NoProvFields DEF ProvisionRecords
  <2> HIDE DEF q
  <2>3. CASE prov' = [prov EXCEPT ![c] = [q EXCEPT !.stage = "replace"]]
    <3> DEFINE p1 == [q EXCEPT !.stage = "replace"]
    <3>1. p1 \in ProvisionRecords /\ p1.tier = t /\ p1.bot = b /\ p1.w \in Workspaces /\ p1.stage = "replace" /\ p1.key = 0
      BY <1>2, <2>1 DEF ProvisionRecords
    <3> HIDE DEF p1
    <3> QED
      BY <2>3, <3>1 DEF p1
  <2>4. CASE prov' = [prov EXCEPT ![c] = Snapshot(q)]
    <3>1. /\ Snapshot(q) \in ProvisionRecords /\ Snapshot(q).tier = t /\ Snapshot(q).bot = b /\ Snapshot(q).w \in Workspaces
          /\ Snapshot(q).stage = "workspace" /\ Snapshot(q).key = 0
      BY <1>2, <2>1 DEF ProvisionRecords, Snapshot
    <3> QED
      BY <2>4, <3>1
  <2> QED
    BY <2>3, <2>4 DEF Ensure, q
<1>4. prov'[c] = p
  BY <1>3, ProvisionUpdate
<1>5. UnresolvedOf(c)'
  <2>1. Unresolved(c)' = Unresolved(c)
    BY <1>1 DEF Unresolved, store
  <2>2. UnresolvedOf(c) /\ \A x \in Unresolved(c) : x[2] = t
    BY <1>1 DEF HandsInv, RetryElsewhere
  <2> QED
    BY <1>1, <1>3, <1>4, <2>1, <2>2 DEF UnresolvedOf, Open, Provisioning, ghosts
<1>6. ProvisionOf(c)' /\ AnswerOf(c)'
  BY <1>1, <1>3, <1>4 DEF ProvisionOf, AnswerOf, Provisioning, Asking, Leased
<1>7. RevisionsGrow /\ rev' \in [Workspaces -> Nat] /\ \A w \in Workspaces : rev'[w] <= remoteRev[w]
  BY <1>1, RevisionsStay, RevisionTyped DEF HandsInv, HandsTypes, store, hands
<1> QED
  BY <1>1, <1>3, <1>5, <1>6, <1>7, ProvisionStep DEF store, hands, ghosts, HandsInv, HandsTypes

-----------------------------------------------------------------------------
(* The requests to the service *)

\* The workspace's revision is stored, and is the one the lease is asked for.
LEMMA PutWorkspaceStep ==
    ASSUME HandsInv, NEW c \in Clients, PutWorkspace(c)
    PROVE  HandsInv'
<1> DEFINE w == prov[c].w
<1>1. /\ prov[c].stage = "put" /\ prov[c].stage \in Asking
      /\ UNCHANGED <<active, attempt, hands, sess, lease, isolate, activating, shutdown, ghosts>>
  BY DEF PutWorkspace, Asking
<1>2. /\ w \in Workspaces /\ rev[w] \in Nat /\ remoteRev[w] \in Nat /\ rev[w] <= remoteRev[w] /\ remoteRev[w] <= remoteRev[w]
  BY <1>1, AskingFacts, RevisionTyped
<1>3. CASE Current(w, remoteRev[w])
  <2> DEFINE p == [prov[c] EXCEPT !.stage = "post", !.rev = remoteRev[w]]
  <2>1. /\ rev' = [rev EXCEPT ![w] = remoteRev[w]]
        /\ prov' = [prov EXCEPT ![c].stage = "post", ![c].rev = remoteRev[w]]
    BY <1>3 DEF PutWorkspace
  <2>2. prov \in [Clients -> ProvisionRecords] /\ prov[c] \in ProvisionRecords
    BY DEF HandsInv, HandsTypes
  <2>3. /\ p \in ProvisionRecords /\ p.stage = "post" /\ p.rev = remoteRev[w] /\ p.key = prov[c].key /\ p.w = prov[c].w
        /\ p.tier = prov[c].tier /\ p.bot = prov[c].bot
    BY <1>2, <2>2 DEF ProvisionRecords
  <2>4. prov' = [prov EXCEPT ![c] = p]
    BY <2>1, <2>2
  <2> HIDE DEF p
  <2>5. prov'[c] = p
    BY <2>3, <2>4, ProvisionUpdate
  <2>6. RevisionsGrow /\ rev' \in [Workspaces -> Nat] /\ \A v \in Workspaces : rev'[v] <= remoteRev[v]
    BY <1>1, <1>2, <2>1, RevisionStored DEF hands
  <2>7. UnresolvedOf(c)'
    BY <1>1, <2>3, <2>5, AskingFacts, SessionsKeep DEF ghosts
  <2>8. ProvisionOf(c)'
    <3>1. /\ prov[c].tier \in Tiers /\ prov[c].bot \in HandsBots /\ prov[c].key # 0 /\ \A u \in Tiers : ~ Leased(c, u)
          /\ attempt[w][prov[c].tier].state = "PENDING" /\ attempt[w][prov[c].tier].key = prov[c].key
          /\ attempt[w][prov[c].tier].client = c
      BY <1>1, AskingFacts
    <3> QED
      BY <1>1, <1>2, <2>3, <2>5, <3>1 DEF ProvisionOf, Provisioning, Asking, Leased, hands
  <2>9. AnswerOf(c)'
    BY <2>3, <2>5 DEF AnswerOf
  <2> QED
    BY <1>1, <2>3, <2>4, <2>6, <2>7, <2>8, <2>9, ProvisionStep DEF hands, ghosts, HandsInv, HandsTypes
<1>4. CASE ~ Current(w, remoteRev[w])
  BY <1>2, <1>4 DEF Current
<1> QED
  BY <1>3, <1>4

\* A step of the service: leases and attempts stay; a workspace whose lease is
\* another one has it from an attempt that would be used again.
LEMMA ServiceStep ==
    ASSUME HandsInv, UNCHANGED <<store, sess, isolate, activating, shutdown, ghosts>> \/
                     UNCHANGED <<store, sess, isolate, activating, shutdown,
                                 nextKey, nextSid, issuedTo, drifted, rotated, released>>,
           HandsTypes', \A v \in Workspaces : remoteRev[v] <= remoteRev'[v],
           handsLate' \subseteq handsLate,
           \A d \in Clients : \/ prov'[d] = prov[d]
                              \/ Provisioning(d) /\ prov'[d].tier = prov[d].tier /\ ProvisionOf(d)',
           \A d \in Clients : AnswerOf(d)',
           \A d \in Clients, t \in Tiers :
               /\ lease'[d][t].key = lease[d][t].key
               /\ lease[d][t].close # "no" => lease'[d][t].close # "no"
               /\ lease'[d][t] = lease[d][t] \/ LeaseOf(d, t)',
           \A v \in Workspaces : (remote'[v] = remote[v] /\ remoteRev'[v] = remoteRev[v]) \/ RemoteOf(v)'
    PROVE  HandsInv'
<1>1. SameAttempts /\ SetApartGrow /\ nextSid' = nextSid /\ released' = released /\ rev' = rev /\ sess' = sess /\ attempt' = attempt
  BY DEF SameAttempts, SetApartGrow, store, ghosts
<1>2. RevisionsGrow
  <2>1. \A v \in Workspaces : remoteRev'[v] \in Nat /\ rev[v] \in Nat
    BY HandsTyped DEF HandsTypes
  <2> QED
    BY <1>1, <2>1 DEF RevisionsGrow
<1>3. nextSid' \in Nat /\ nextSid <= nextSid'
  BY <1>1, SessionTyped
<1>4. KeysApart' /\ \A v \in Workspaces, t \in Tiers : AttemptOf(v, t)'
  BY <1>1, <1>2, <1>3, AttemptsKeep
<1>5. \A v \in Workspaces : RemoteOf(v)'
  <2>1. \A v \in Workspaces : rev'[v] <= remoteRev[v]
    BY <1>1, RevisionTyped
  <2> QED
    BY <1>1, <1>2, <2>1, RemoteKeeps
<1>6. \A m \in handsLate' : LateOf(m)'
  BY <1>1, <1>2, LateKeeps DEF SetApartGrow
<1>7. OneTier'
  BY DEF HandsInv, OneTier, Leased
<1>8. ASSUME NEW d \in Clients
      PROVE  UnresolvedOf(d)' /\ ProvisionOf(d)'
  <2>1. UnresolvedOf(d)'
    <3>1. prov'[d].stage = "no" \/ (Provisioning(d) /\ prov'[d].tier = prov[d].tier)
      BY DEF Provisioning
    <3> QED
      BY <1>1, <3>1, SessionsKeep
  <2>2. ProvisionOf(d)'
    <3>1. CASE prov'[d] = prov[d]
      BY <1>1, <1>2, <3>1, ProvisionKeeps
    <3> QED
      BY <3>1
  <2> QED
    BY <2>1, <2>2
<1>9. \A d \in Clients, t \in Tiers : LeaseOf(d, t)'
  BY <1>1, <1>2, LeasesStay, LeaseKeeps
<1> QED
  BY <1>4, <1>5, <1>6, <1>7, <1>8, <1>9 DEF HandsInv

\* What the service answers, and what it does when it grants a lease.
LEMMA AnswerFacts ==
    ASSUME NEW w \in Workspaces, NEW key \in Nat, NEW expected \in Nat
    PROVE  /\ LeaseAnswer(w, key, expected) \in {"granted", "lost", "busy", "conflict"}
           /\ LeaseAnswer(w, key, expected) = "granted" => remote[w].key = key \/ expected = remoteRev[w]
  BY DEF LeaseAnswer

LEMMA GrantedFacts ==
    ASSUME HandsInv, NEW w \in Workspaces, NEW key \in Keys, NEW expected \in Nat, Granted(w, key, expected)
    PROVE  /\ remote' \in [Workspaces -> RemoteRecords]
           /\ \A v \in Workspaces : v # w => remote'[v] = remote[v]
           /\ LeaseAnswer(w, key, expected) # "granted" => remote' = remote
           /\ LeaseAnswer(w, key, expected) = "granted" => remote'[w].key = key
<1>1. remote \in [Workspaces -> RemoteRecords] /\ MaxKeys \in Nat
  BY HandsAssumption DEF HandsInv, HandsTypes
<1>2. CASE LeaseAnswer(w, key, expected) = "granted"
  <2>1. PICK v \in BOOLEAN : remote' = [remote EXCEPT ![w] = [key |-> key, lost |-> v]]
    BY <1>2, Zenon DEF Granted
  <2> QED
    BY <1>1, <1>2, <2>1 DEF RemoteRecords, Keys
<1>3. CASE LeaseAnswer(w, key, expected) # "granted"
  BY <1>1, <1>3 DEF Granted
<1> QED
  BY <1>2, <1>3

LEMMA HandsLeaseStep ==
    ASSUME HandsInv, NEW c \in Clients, HandsLease(c)
    PROVE  HandsInv'
<1>1. PICK w \in Workspaces, key \in Keys, expected \in Nat, t \in Tiers, ans \in {"granted", "lost", "busy", "conflict"} :
         /\ w = prov[c].w /\ key = prov[c].key /\ expected = prov[c].rev /\ t = prov[c].tier
         /\ ans = LeaseAnswer(w, key, expected) /\ key # 0
  <2>1. prov[c].stage \in Asking
    BY DEF HandsLease, Asking
  <2>2. prov[c].w \in Workspaces /\ prov[c].key \in Keys /\ prov[c].rev \in Nat /\ prov[c].tier \in Tiers /\ prov[c].key # 0 /\ prov[c].key \in Nat
    BY <2>1, AskingFacts, ProvisionTyped
  <2>3. LeaseAnswer(prov[c].w, prov[c].key, prov[c].rev) \in {"granted", "lost", "busy", "conflict"}
    BY <2>2, AnswerFacts
  <2> QED
    BY <2>2, <2>3
<1>2. /\ prov[c].stage = "post" /\ prov[c].stage \in Asking /\ Granted(w, key, expected)
      /\ prov' = [prov EXCEPT ![c].stage = "answer", ![c].rev = remoteRev[w], ![c].answer = ans]
      /\ UNCHANGED <<store, remoteRev, handsLate, sess, lease, isolate, activating, shutdown, ghosts>>
  BY <1>1 DEF HandsLease, Asking
<1> DEFINE p == [prov[c] EXCEPT !.stage = "answer", !.rev = remoteRev[w], !.answer = ans]
<1>3. prov \in [Clients -> ProvisionRecords] /\ prov[c] \in ProvisionRecords /\ remoteRev[w] \in Nat
  BY RevisionTyped DEF HandsInv, HandsTypes
<1>4. /\ p \in ProvisionRecords /\ p.stage = "answer" /\ p.rev = remoteRev[w] /\ p.key = key /\ p.w = w
      /\ p.tier = t /\ p.bot = prov[c].bot /\ p.answer = ans
  BY <1>1, <1>3 DEF ProvisionRecords
<1>5. prov' = [prov EXCEPT ![c] = p]
  BY <1>2, <1>3
<1> HIDE DEF p
<1>6. prov' \in [Clients -> ProvisionRecords] /\ prov'[c] = p /\ \A d \in Clients : d # c => prov'[d] = prov[d]
  BY <1>4, <1>5, ProvisionUpdate
<1>7. /\ remote' \in [Workspaces -> RemoteRecords] /\ \A v \in Workspaces : v # w => remote'[v] = remote[v]
      /\ ans # "granted" => remote' = remote
      /\ ans = "granted" => remote'[w].key = key
  BY <1>1, <1>2, GrantedFacts
<1>8. /\ Provisioning(c) /\ prov[c].bot \in HandsBots /\ \A u \in Tiers : ~ Leased(c, u)
      /\ attempt[w][t].state = "PENDING" /\ attempt[w][t].key = key /\ attempt[w][t].client = c
      /\ key < nextKey
      /\ \A v \in Workspaces, u \in Tiers : attempt[v][u].key = key => v = w /\ u = t
  <2>1. /\ Provisioning(c) /\ prov[c].bot \in HandsBots /\ prov[c].key \in Nat /\ prov[c].key # 0 /\ \A u \in Tiers : ~ Leased(c, u)
        /\ attempt[prov[c].w][prov[c].tier].state = "PENDING" /\ attempt[prov[c].w][prov[c].tier].key = prov[c].key
        /\ attempt[prov[c].w][prov[c].tier].client = c /\ prov[c].key < nextKey
        /\ \A v \in Workspaces, u \in Tiers : attempt[v][u].key = prov[c].key => v = prov[c].w /\ u = prov[c].tier
    BY <1>2, AskingFacts
  <2> QED
    BY <1>1, <1>2, <2>1
<1>9. HandsTypes'
  BY <1>2, <1>6, <1>7 DEF HandsInv, HandsTypes, store, ghosts
<1>10. \A v \in Workspaces : remoteRev[v] <= remoteRev'[v]
  BY <1>2, RevisionTyped
<1>11. ProvisionOf(c)'
  <2>1. remoteRev[w] <= remoteRev'[w]
    BY <1>10
  <2> QED
    BY <1>1, <1>2, <1>4, <1>6, <1>8, <2>1 DEF ProvisionOf, Provisioning, Asking, Leased, store
<1>12. ASSUME NEW d \in Clients
       PROVE  AnswerOf(d)'
  <2>1. CASE d = c
    <3>1. ASSUME NEW m \in handsLate, m.kind = "post", m.key = key
          PROVE  m.rev <= remoteRev[w]
      <4>1. LateOf(m)
        BY DEF HandsInv
      <4>2. m.w = w /\ m.rev <= remoteRev[m.w]
        BY <1>8, <3>1, <4>1 DEF LateOf
      <4> QED
        BY <4>2
    <3> QED
      BY <1>2, <1>4, <1>6, <2>1, <3>1 DEF AnswerOf
  <2>2. CASE d # c
    <3>1. prov[d].stage = "answer" => prov[d].key # key
      BY <1>1, <1>2, <2>2, AskingApart DEF Asking
    <3>2. prov[d].stage = "answer" => prov[d].w \in Workspaces
      BY AskingFacts DEF Asking
    <3>3. prov[d].stage = "answer" /\ remote'[prov[d].w].key = prov[d].key => remote[prov[d].w].key = prov[d].key
      BY <1>7, <3>1, <3>2
    <3> QED
      BY <1>2, <1>6, <2>2, <3>3, AnswerKeeps DEF ghosts
  <2> QED
    BY <2>1, <2>2
<1>13. \A v \in Workspaces : (remote'[v] = remote[v] /\ remoteRev'[v] = remoteRev[v]) \/ RemoteOf(v)'
  <2>1. CASE ans = "granted"
    <3>1. RemoteOf(w)'
      <4>1. rev[w] <= remoteRev[w]
        BY RevisionTyped
      <4> QED
        BY <1>2, <1>7, <1>8, <2>1, <4>1 DEF RemoteOf, store, ghosts
    <3> QED
      BY <1>2, <1>7, <3>1
  <2>2. CASE ans # "granted"
    BY <1>2, <1>7, <2>2
  <2> QED
    BY <2>1, <2>2
<1>14. \A d \in Clients : \/ prov'[d] = prov[d]
                          \/ Provisioning(d) /\ prov'[d].tier = prov[d].tier /\ ProvisionOf(d)'
  BY <1>1, <1>4, <1>6, <1>8, <1>11
<1> QED
  BY <1>2, <1>9, <1>10, <1>12, <1>13, <1>14, ServiceStep

\* What a release at the service changes.
LEMMA ReleasedFacts ==
    ASSUME HandsInv, NEW w \in Workspaces, NEW key \in Keys, Released(w, key)
    PROVE  /\ remote' \in [Workspaces -> RemoteRecords] /\ remoteRev' \in [Workspaces -> Nat]
           /\ \A v \in Workspaces : remoteRev[v] <= remoteRev'[v]
           /\ \A v \in Workspaces : \/ remote'[v] = remote[v] /\ remoteRev'[v] = remoteRev[v]
                                    \/ v = w /\ remote'[v].key = 0 /\ remoteRev'[v] = remoteRev[v] + 1
           /\ remote[w].key = key => remoteRev'[w] = remoteRev[w] + 1
<1>1. remote \in [Workspaces -> RemoteRecords] /\ remoteRev \in [Workspaces -> Nat] /\ MaxKeys \in Nat
  BY HandsAssumption DEF HandsInv, HandsTypes
<1>2. CASE remote[w].key = key
  <2>1. PICK v \in BOOLEAN : remote' = [remote EXCEPT ![w] = [key |-> 0, lost |-> v]]
    BY <1>2, Zenon DEF Released, NoLeaseAtAll
  <2>2. remoteRev' = [remoteRev EXCEPT ![w] = remoteRev[w] + 1]
    BY <1>2 DEF Released
  <2>3. /\ remote' \in [Workspaces -> RemoteRecords] /\ remote'[w].key = 0
        /\ \A x \in Workspaces : x # w => remote'[x] = remote[x]
    BY <1>1, <2>1 DEF RemoteRecords
  <2>4. /\ remoteRev' \in [Workspaces -> Nat] /\ remoteRev'[w] = remoteRev[w] + 1
        /\ \A x \in Workspaces : x # w => remoteRev'[x] = remoteRev[x]
    BY <1>1, <2>2
  <2>5. \A x \in Workspaces : remoteRev[x] <= remoteRev'[x]
    BY <1>1, <2>4
  <2> QED
    BY <2>3, <2>4, <2>5
<1>3. CASE remote[w].key # key
  <2>1. remote' = remote /\ remoteRev' = remoteRev
    BY <1>3 DEF Released
  <2>2. \A v \in Workspaces : remoteRev[v] <= remoteRev'[v]
    BY <1>1, <2>1
  <2> QED
    BY <1>1, <1>3, <2>1, <2>2
<1> QED
  BY <1>2, <1>3

\* A workspace whose lease is gone has nothing to be recovered.
LEMMA ReleasedKeeps ==
    ASSUME HandsInv, NEW w \in Workspaces, NEW key \in Keys, Released(w, key),
           UNCHANGED <<store, ghosts>>, UNCHANGED prov, handsLate' \subseteq handsLate
    PROVE  /\ \A v \in Workspaces : (remote'[v] = remote[v] /\ remoteRev'[v] = remoteRev[v]) \/ RemoteOf(v)'
           /\ \A d \in Clients : AnswerOf(d)'
<1>1. \A v \in Workspaces : \/ remote'[v] = remote[v] /\ remoteRev'[v] = remoteRev[v]
                            \/ v = w /\ remote'[v].key = 0 /\ remoteRev'[v] = remoteRev[v] + 1
  BY ReleasedFacts
<1>2. ASSUME NEW v \in Workspaces, remote'[v].key = 0, remoteRev'[v] = remoteRev[v] + 1
      PROVE  RemoteOf(v)'
  <2>1. rev[v] <= remoteRev'[v] /\ 0 < nextKey
    BY <1>2, RevisionTyped DEF HandsInv, HandsTypes
  <2> QED
    BY <1>2, <2>1 DEF RemoteOf, HandsLive, store, ghosts
<1>3. ASSUME NEW d \in Clients
      PROVE  AnswerOf(d)'
  <2>1. prov[d].stage = "answer" => prov[d].w \in Workspaces /\ prov[d].key # 0
    BY AskingFacts DEF Asking
  <2> QED
    BY <1>1, <2>1, AnswerKeeps DEF ghosts
<1> QED
  BY <1>1, <1>2, <1>3

\* The release is at a revision that the attempt is behind.
LEMMA HandsReleaseStep ==
    ASSUME HandsInv, NEW c \in Clients, NEW t \in Tiers, HandsRelease(c, t)
    PROVE  HandsInv'
<1>1. PICK w \in Workspaces, key \in Keys : w = lease[c][t].w /\ key = lease[c][t].key /\ key # 0
  <2>1. LeaseOf(c, t) /\ lease[c][t].close = "sent"
    BY DEF HandsRelease, HandsInv
  <2>2. lease[c][t].key # 0
    BY <2>1 DEF LeaseOf
  <2> QED
    BY <2>1, <2>2, LeaseTyped DEF LeaseOf
<1>2. /\ Released(w, key)
      /\ UNCHANGED <<store, handsLate, sess, prov, isolate, activating, shutdown, ghosts>>
  BY <1>1 DEF HandsRelease
<1>3. /\ remote' \in [Workspaces -> RemoteRecords] /\ remoteRev' \in [Workspaces -> Nat]
      /\ \A v \in Workspaces : remoteRev[v] <= remoteRev'[v]
      /\ remote[w].key = key => remoteRev'[w] = remoteRev[w] + 1
  BY <1>2, ReleasedFacts
<1>4. PICK how \in {"done", "absent"} :
         /\ lease' = [lease EXCEPT ![c][t].close = how, ![c][t].rev = remoteRev'[w]]
         /\ how = "done" => remote[w].key = key
  BY <1>1 DEF HandsRelease
<1>5. lease \in [Clients -> [Tiers -> LeaseRecords]] /\ lease[c][t] \in LeaseRecords /\ remoteRev'[w] \in Nat
  BY <1>3 DEF HandsInv, HandsTypes
<1>6. PICK r \in Nat : r = remoteRev'[w]
  BY <1>5
<1> DEFINE after == [lease[c][t] EXCEPT !.close = how, !.rev = r]
<1>7. /\ after \in LeaseRecords /\ after.key = key /\ after.w = w /\ after.close = how /\ after.rev = r
  BY <1>1, <1>5 DEF LeaseRecords
<1>8. lease' = [lease EXCEPT ![c][t] = after]
  BY <1>4, <1>5, <1>6
<1> HIDE DEF after
<1>9. /\ lease' \in [Clients -> [Tiers -> LeaseRecords]] /\ lease'[c][t] = after
      /\ \A d \in Clients, u \in Tiers : d # c \/ u # t => lease'[d][u] = lease[d][u]
  BY <1>5, <1>7, <1>8
<1>10. HandsTypes'
  BY <1>2, <1>3, <1>9 DEF HandsInv, HandsTypes, store, ghosts
<1>11. LeaseOf(c, t)'
  <2>1. /\ w \in Workspaces /\ key < nextKey /\ issuedTo[key] = c /\ key \notin released
        /\ \A v \in Workspaces, u \in Tiers : attempt[v][u].key = key => v = w /\ attempt[v][u].state = "READY"
    BY <1>1 DEF HandsInv, LeaseOf
  <2>2. ASSUME NEW u \in Tiers, how = "done"
        PROVE  attempt[w][u].rev < r
    <3>1. attempt[w][u].rev \in Nat /\ rev[w] \in Nat /\ remoteRev[w] \in Nat /\ rev[w] <= remoteRev[w]
      BY AttemptTyped, RevisionTyped
    <3>2. attempt[w][u].rev <= rev[w]
      BY DEF HandsInv, AttemptOf
    <3>3. r = remoteRev[w] + 1
      BY <1>3, <1>4, <1>6, <2>2
    <3> QED
      BY <3>1, <3>2, <3>3
  <2>3. r <= remoteRev'[w]
    BY <1>6
  <2> QED
    BY <1>1, <1>2, <1>7, <1>9, <2>1, <2>2, <2>3 DEF LeaseOf, store, ghosts
<1>12. \A d \in Clients, u \in Tiers :
          /\ lease'[d][u].key = lease[d][u].key
          /\ lease[d][u].close # "no" => lease'[d][u].close # "no"
          /\ lease'[d][u] = lease[d][u] \/ LeaseOf(d, u)'
  BY <1>1, <1>7, <1>9, <1>11
<1>13. /\ \A v \in Workspaces : (remote'[v] = remote[v] /\ remoteRev'[v] = remoteRev[v]) \/ RemoteOf(v)'
       /\ \A d \in Clients : AnswerOf(d)'
  BY <1>2, ReleasedKeeps
<1> QED
  BY <1>2, <1>3, <1>10, <1>12, <1>13, ServiceStep

LEMMA HandsLosesStep ==
    ASSUME HandsInv, NEW w \in Workspaces, HandsLoses(w)
    PROVE  HandsInv'
<1>1. UNCHANGED <<store, remoteRev, handsLate, broker, nextKey, nextSid, issuedTo, drifted, rotated, released, changes>>
  BY DEF HandsLoses
<1>2. PICK yes \in BOOLEAN : yes /\ remote' = [remote EXCEPT ![w].lost = yes]
  BY Zenon DEF HandsLoses
<1>3. remote \in [Workspaces -> RemoteRecords] /\ remote[w] \in RemoteRecords
  BY DEF HandsInv, HandsTypes
<1>4. /\ remote' \in [Workspaces -> RemoteRecords] /\ remote'[w].lost /\ \A v \in Workspaces : remote'[v].key = remote[v].key
      /\ \A v \in Workspaces : v # w => remote'[v] = remote[v]
  BY <1>2, <1>3 DEF RemoteRecords
<1>5. HandsTypes'
  BY <1>1, <1>4 DEF HandsInv, HandsTypes, store, broker
<1>6. RemoteOf(w)'
  <2>1. rev[w] <= remoteRev[w] /\ remote[w].key < nextKey
    BY DEF HandsInv, RemoteOf
  <2> QED
    BY <1>1, <1>4, <2>1 DEF RemoteOf, HandsLive, store
<1>7. ASSUME NEW d \in Clients
      PROVE  AnswerOf(d)'
  <2>1. prov[d].stage = "answer" => prov[d].w \in Workspaces
    BY AskingFacts DEF Asking
  <2> QED
    BY <1>1, <1>4, <2>1, AnswerKeeps DEF broker
<1>8. /\ \A v \in Workspaces : (remote'[v] = remote[v] /\ remoteRev'[v] = remoteRev[v]) \/ RemoteOf(v)'
      /\ \A v \in Workspaces : remoteRev[v] <= remoteRev'[v]
  BY <1>1, <1>4, <1>6, RevisionTyped
<1> QED
  BY <1>1, <1>5, <1>7, <1>8, ServiceStep DEF broker

\* A late request is given a lease only at the present revision, which its
\* attempt, if it has the key still, is at as well.
LEMMA LateArrivesStep ==
    ASSUME HandsInv, NEW m \in handsLate, LateArrives(m)
    PROVE  HandsInv'
<1>1. UNCHANGED <<store, broker, ghosts>> /\ handsLate' = handsLate \ {m}
  BY DEF LateArrives
<1>2. m.w \in Workspaces /\ m.key \in Keys /\ m.key \in Nat /\ m.rev \in Nat /\ m.key # 0 /\ LateOf(m)
  BY LateTyped DEF HandsInv
<1>3. handsLate' \subseteq handsLate /\ handsLate' \subseteq LateRequests
  BY <1>1 DEF HandsInv, HandsTypes
<1>4. CASE m.kind = "delete" /\ Released(m.w, m.key)
  <2>1. /\ remote' \in [Workspaces -> RemoteRecords] /\ remoteRev' \in [Workspaces -> Nat]
        /\ \A v \in Workspaces : remoteRev[v] <= remoteRev'[v]
    BY <1>2, <1>4, ReleasedFacts
  <2>2. /\ \A v \in Workspaces : (remote'[v] = remote[v] /\ remoteRev'[v] = remoteRev[v]) \/ RemoteOf(v)'
        /\ \A d \in Clients : AnswerOf(d)'
    BY <1>1, <1>2, <1>3, <1>4, ReleasedKeeps DEF broker
  <2>3. HandsTypes'
    BY <1>1, <1>3, <2>1 DEF HandsInv, HandsTypes, store, broker, ghosts
  <2> QED
    BY <1>1, <1>3, <2>1, <2>2, <2>3, ServiceStep DEF broker
<1>5. CASE m.kind = "post" /\ Granted(m.w, m.key, m.rev) /\ UNCHANGED remoteRev
  <2>1. /\ remote' \in [Workspaces -> RemoteRecords] /\ \A v \in Workspaces : v # m.w => remote'[v] = remote[v]
        /\ LeaseAnswer(m.w, m.key, m.rev) # "granted" => remote' = remote
        /\ LeaseAnswer(m.w, m.key, m.rev) = "granted" => remote'[m.w].key = m.key
    BY <1>2, <1>5, GrantedFacts
  <2>2. LeaseAnswer(m.w, m.key, m.rev) = "granted" => remote[m.w].key = m.key \/ m.rev = remoteRev[m.w]
    BY <1>2, AnswerFacts
  <2>3. HandsTypes'
    BY <1>1, <1>3, <1>5, <2>1 DEF HandsInv, HandsTypes, store, broker, ghosts
  <2>4. \A v \in Workspaces : remoteRev[v] <= remoteRev'[v]
    BY <1>5, RevisionTyped
  <2>5. \A v \in Workspaces : (remote'[v] = remote[v] /\ remoteRev'[v] = remoteRev[v]) \/ RemoteOf(v)'
    <3>1. CASE LeaseAnswer(m.w, m.key, m.rev) # "granted"
      BY <1>5, <2>1, <3>1
    <3>2. CASE LeaseAnswer(m.w, m.key, m.rev) = "granted" /\ remote[m.w].key = m.key /\ HandsLive(m.w)
      <4>1. RemoteOf(m.w)
        BY <1>2 DEF HandsInv
      <4>2. RemoteOf(m.w)'
        BY <1>1, <1>5, <2>1, <3>2, <4>1 DEF RemoteOf, HandsLive, store, ghosts
      <4> QED
        BY <1>5, <2>1, <4>2
    <3>3. CASE LeaseAnswer(m.w, m.key, m.rev) = "granted" /\ m.rev = remoteRev[m.w]
      <4>1. rev[m.w] \in Nat /\ remoteRev[m.w] \in Nat /\ rev[m.w] <= remoteRev[m.w] /\ m.key < nextKey
        BY <1>2, RevisionTyped DEF LateOf
      <4>2. CASE m.key \in rotated
        <5>1. RemoteOf(m.w)'
          BY <1>1, <1>5, <2>1, <3>3, <4>1, <4>2 DEF RemoteOf, store, ghosts
        <5> QED
          BY <1>5, <2>1, <5>1
      <4>3. CASE m.key \notin rotated
        <5>1. PICK t \in Tiers : /\ attempt[m.w][t].key = m.key
                                 /\ \/ attempt[m.w][t].state = "PENDING"
                                    \/ attempt[m.w][t].state = "READY" /\ m.rev <= attempt[m.w][t].rev
          BY <1>2, <1>5, <3>3, <4>1, <4>3 DEF LateOf
        <5>2. attempt[m.w][t].rev \in Nat /\ attempt[m.w][t].rev <= rev[m.w]
          BY <1>2, AttemptTyped DEF HandsInv, AttemptOf
        <5>3. m.rev <= attempt[m.w][t].rev => attempt[m.w][t].rev = rev[m.w] /\ rev[m.w] = remoteRev[m.w]
          BY <3>3, <4>1, <5>2
        <5>4. RemoteOf(m.w)'
          BY <1>1, <1>5, <2>1, <3>3, <4>1, <5>1, <5>3 DEF RemoteOf, store, ghosts
        <5> QED
          BY <1>5, <2>1, <5>4
      <4> QED
        BY <4>2, <4>3
    <3>4. LeaseAnswer(m.w, m.key, m.rev) = "granted" => (remote[m.w].key = m.key /\ HandsLive(m.w)) \/ m.rev = remoteRev[m.w]
      BY <1>2 DEF LeaseAnswer, HandsLive
    <3> QED
      BY <3>1, <3>2, <3>3, <3>4
  <2>6. ASSUME NEW d \in Clients
        PROVE  AnswerOf(d)'
    <3>1. CASE prov[d].stage # "answer"
      BY <1>1, <3>1 DEF AnswerOf, broker
    <3>2. CASE prov[d].stage = "answer"
      <4>1. /\ prov[d].w \in Workspaces /\ prov[d].rev <= remoteRev[prov[d].w] /\ prov[d].rev \in Nat
            /\ remoteRev[prov[d].w] \in Nat
        BY <3>2, AskingFacts, ProvisionTyped, RevisionTyped DEF Asking
      <4>2. AnswerOf(d)
        BY DEF HandsInv
      <4>3. ASSUME remote'[prov[d].w].key = prov[d].key, remote[prov[d].w].key # prov[d].key
            PROVE  prov[d].rev = remoteRev[prov[d].w]
        <5>1. prov[d].w = m.w /\ prov[d].key = m.key /\ m.rev = remoteRev[m.w]
          BY <2>1, <2>2, <4>1, <4>3
        <5>2. m.rev <= prov[d].rev
          BY <1>5, <3>2, <4>2, <5>1 DEF AnswerOf
        <5> QED
          BY <4>1, <5>1, <5>2
      <4> QED
        BY <1>1, <1>3, <1>5, <3>2, <4>2, <4>3 DEF AnswerOf, broker, ghosts
    <3> QED
      BY <3>1, <3>2
  <2> QED
    BY <1>1, <1>3, <2>3, <2>4, <2>5, <2>6, ServiceStep DEF broker
<1> QED
  BY <1>4, <1>5 DEF LateArrives

-----------------------------------------------------------------------------
(* Releases *)

\* The key of a confirmed release is of an attempt that is behind the store.
LEMMA LeaseReleasedStep ==
    ASSUME HandsInv, NEW c \in Clients, NEW t \in Tiers, LeaseReleased(c, t)
    PROVE  HandsInv'
<1>1. PICK w \in Workspaces, key \in Keys, r \in Nat : w = lease[c][t].w /\ key = lease[c][t].key /\ r = lease[c][t].rev /\ key # 0
  <2>1. LeaseOf(c, t) /\ lease[c][t].close \in {"done", "absent"}
    BY DEF LeaseReleased, HandsInv
  <2>2. lease[c][t].key # 0
    BY <2>1 DEF LeaseOf
  <2> QED
    BY <2>1, <2>2, LeaseTyped DEF LeaseOf
<1>2. /\ lease[c][t].close \in {"done", "absent"} /\ Current(w, r)
      /\ rev' = [rev EXCEPT ![w] = r] /\ lease' = [lease EXCEPT ![c][t] = NoLease]
      /\ released' = IF lease[c][t].close = "done" THEN released \cup {key} ELSE released
      /\ UNCHANGED <<active, attempt, hands, sess, isolate, activating, shutdown,
                     nextKey, nextSid, issuedTo, drifted, rotated, handsFaults, changes>>
  BY <1>1 DEF LeaseReleased
<1>3. /\ key < nextKey /\ issuedTo[key] = c /\ key \notin released
      /\ \A v \in Workspaces, u \in Tiers : attempt[v][u].key = key =>
            /\ v = w /\ attempt[v][u].state = "READY"
            /\ lease[c][t].close = "done" => attempt[v][u].rev < r
      /\ r <= remoteRev[w] /\ rev[w] <= r
  <2>1. LeaseOf(c, t) /\ rev[w] \in Nat
    BY RevisionTyped DEF HandsInv
  <2> QED
    BY <1>1, <1>2, <2>1 DEF LeaseOf, Current
<1>4. RevisionsGrow /\ rev' \in [Workspaces -> Nat] /\ rev'[w] = r /\ \A v \in Workspaces : rev'[v] <= remoteRev[v]
  BY <1>2, <1>3, RevisionStored DEF hands
<1>5. /\ lease' \in [Clients -> [Tiers -> LeaseRecords]] /\ lease'[c][t].key = 0 /\ lease'[c][t].close = "no" /\ ~ lease'[c][t].ready
      /\ \A d \in Clients, u \in Tiers : d # c \/ u # t => lease'[d][u] = lease[d][u]
  <2>1. PICK no \in BOOLEAN : ~ no /\ NoLease = [w |-> None, key |-> 0, ready |-> no, close |-> "no", rev |-> 0]
    BY Zenon DEF NoLease
  <2>2. NoLease \in LeaseRecords /\ NoLease.key = 0 /\ NoLease.close = "no" /\ ~ NoLease.ready
    BY <2>1, HandsAssumption DEF LeaseRecords
  <2>3. lease \in [Clients -> [Tiers -> LeaseRecords]] /\ lease' = [lease EXCEPT ![c][t] = NoLease]
    BY <1>2 DEF HandsInv, HandsTypes
  <2> QED
    BY <2>2, <2>3
<1>6. SameAttempts /\ SetApartGrow /\ UNCHANGED <<remote, remoteRev, handsLate>> /\ nextSid' = nextSid
  BY <1>2 DEF SameAttempts, SetApartGrow, hands
<1>7. PICK p \in ProvisionRecords :
         /\ prov' = [prov EXCEPT ![c] = p]
         /\ \/ p = NoProv
            \/ p = prov[c] /\ prov[c].stage \notin {"replace", "undo"}
            \/ /\ prov[c].stage = "replace" /\ p.stage = "workspace" /\ p.tier = prov[c].tier /\ p.bot = prov[c].bot
               /\ p.w \in Workspaces /\ p.key = prov[c].key
  <2>1. prov[c] \in ProvisionRecords
    BY HandsTyped
  <2>2. CASE prov[c].stage = "replace"
    <3> DEFINE v == active[prov[c].bot]
               q == [prov[c] EXCEPT !.stage = "workspace", !.w = v, !.rev = rev'[v]]
    <3>1. v \in Workspaces /\ rev'[v] \in Nat
      BY <1>4, <2>2, ProvisionFacts, HandsTyped DEF Provisioning
    <3>2. q \in ProvisionRecords /\ q.stage = "workspace" /\ q.tier = prov[c].tier /\ q.bot = prov[c].bot /\ q.w \in Workspaces /\ q.key = prov[c].key
      BY <2>1, <3>1 DEF ProvisionRecords
    <3>3. prov' = [prov EXCEPT ![c] = q]
      BY <2>2 DEF LeaseReleased
    <3> HIDE DEF q
    <3> QED
      BY <2>2, <3>2, <3>3
  <2>3. CASE prov[c].stage = "undo"
    <3>1. prov' = [prov EXCEPT ![c] = NoProv]
      BY <2>3 DEF LeaseReleased
    <3> QED
      BY <3>1, NoProvFields
  <2>4. CASE prov[c].stage \notin {"replace", "undo"}
    <3>1. prov' = [prov EXCEPT ![c] = prov[c]]
      BY <2>4 DEF LeaseReleased
    <3> QED
      BY <2>1, <2>4, <3>1
  <2> QED
    BY <2>2, <2>3, <2>4
<1>8. prov' \in [Clients -> ProvisionRecords] /\ prov'[c] = p /\ \A d \in Clients : d # c => prov'[d] = prov[d]
  BY <1>7, ProvisionUpdate
<1>9. HandsTypes'
  BY <1>2, <1>3, <1>4, <1>5, <1>8 DEF HandsInv, HandsTypes, hands
<1>10. KeysApart' /\ OneTier'
  BY <1>5, <1>6 DEF HandsInv, KeysApart, OneTier, Leased, SameAttempts
<1>11. ASSUME NEW v \in Workspaces, NEW u \in Tiers
       PROVE  AttemptOf(v, u)'
  <2>1. AttemptOf(v, u) /\ attempt[v][u].rev \in Nat /\ rev[v] \in Nat /\ rev'[v] \in Nat /\ rev[v] <= rev'[v]
    BY <1>4, AttemptTyped, RevisionTyped DEF HandsInv, RevisionsGrow
  <2>2. attempt[v][u].rev <= rev'[v] /\ (attempt[v][u].rev < rev[v] => attempt[v][u].rev < rev'[v])
    BY <2>1 DEF AttemptOf
  <2>3. attempt[v][u].key \in released' => attempt[v][u].state = "READY" /\ attempt[v][u].rev < rev'[v]
    BY <1>2, <1>3, <1>4, <2>1, <2>2 DEF AttemptOf
  <2> QED
    BY <1>6, <2>1, <2>2, <2>3 DEF AttemptOf, SameAttempts
<1>12. \A v \in Workspaces : RemoteOf(v)'
  BY <1>4, <1>6, RemoteKeeps
<1>13. \A m \in handsLate' : LateOf(m)'
  BY <1>4, <1>6, LateKeeps DEF SetApartGrow
<1>14. ASSUME NEW d \in Clients, NEW u \in Tiers
       PROVE  LeaseOf(d, u)'
  <2>1. CASE d = c /\ u = t
    BY <1>5, <2>1 DEF LeaseOf
  <2>2. CASE d # c \/ u # t
    <3>1. lease[d][u].key # key
      BY <1>1, <1>3, <2>2 DEF HandsInv, LeaseOf, OneTier, Leased
    <3>2. lease[d][u].key \notin released
      <4>1. 0 \notin released
        BY DEF HandsInv, HandsTypes, Keys
      <4> QED
        BY <4>1 DEF HandsInv, LeaseOf
    <3>3. KeyStays(lease[d][u].key) /\ lease[d][u].key \notin released'
      BY <1>2, <1>6, <3>1, <3>2, SameKeys
    <3> QED
      BY <1>4, <1>5, <2>2, <3>3, LeaseKeeps
  <2> QED
    BY <2>1, <2>2
<1>15. ASSUME NEW d \in Clients
       PROVE  UnresolvedOf(d)' /\ ProvisionOf(d)' /\ AnswerOf(d)'
  <2>1. CASE d # c
    <3>1. UnresolvedOf(d)'
      BY <1>2, <1>8, <2>1, SessionsKeep DEF Provisioning
    <3>2. ProvisionOf(d)'
      BY <1>2, <1>4, <1>5, <1>8, <2>1, ProvisionKeeps
    <3>3. AnswerOf(d)'
      BY <1>2, <1>6, <1>8, <2>1, AnswerKeeps
    <3> QED
      BY <3>1, <3>2, <3>3
  <2>2. CASE d = c
    <3>1. prov[c].stage \notin Asking
      BY <1>1, AskingFacts DEF Leased
    <3>2. UnresolvedOf(c)'
      <4>1. prov'[c].stage = "no" \/ (Provisioning(c) /\ prov'[c].tier = prov[c].tier)
        BY <1>7, <1>8, NoProvFields DEF Provisioning
      <4> QED
        BY <1>2, <4>1, SessionsKeep
    <3>3. ProvisionOf(c)' /\ AnswerOf(c)'
      <4>1. CASE p = NoProv
        BY <1>8, <4>1, NothingProvisioned
      <4>2. CASE p = prov[c] /\ prov[c].stage \notin {"replace", "undo"}
        <5>1. ProvisionOf(c)
          BY DEF HandsInv
        <5> QED
          BY <1>5, <1>8, <3>1, <4>2, <5>1 DEF ProvisionOf, AnswerOf, Provisioning, Asking, Leased
      <4>3. CASE /\ prov[c].stage = "replace" /\ p.stage = "workspace" /\ p.tier = prov[c].tier /\ p.bot = prov[c].bot
                 /\ p.w \in Workspaces /\ p.key = prov[c].key
        <5>1. /\ prov[c].tier \in Tiers /\ prov[c].bot \in HandsBots /\ prov[c].key = 0
              /\ \A u \in Tiers \ {prov[c].tier} : ~ Leased(c, u)
          BY <4>3 DEF HandsInv, ProvisionOf, Provisioning
        <5> QED
          BY <1>5, <1>8, <4>3, <5>1 DEF ProvisionOf, AnswerOf, Provisioning, Asking, Leased
      <4> QED
        BY <1>7, <4>1, <4>2, <4>3
    <3> QED
      BY <2>2, <3>2, <3>3
  <2> QED
    BY <2>1, <2>2
<1> QED
  BY <1>9, <1>10, <1>11, <1>12, <1>13, <1>14, <1>15 DEF HandsInv

\* A release that fails leaves the lease, and perhaps a late request of it.
LEMMA ReleaseFailsStep ==
    ASSUME HandsInv, NEW c \in Clients, NEW t \in Tiers, ReleaseFails(c, t)
    PROVE  HandsInv'
<1>1. /\ lease[c][t].close # "no"
      /\ sess' = [sess EXCEPT ![c].stopping = IF sess[c].stopping = "leases" THEN "no" ELSE sess[c].stopping]
      /\ prov' = [prov EXCEPT ![c] = IF prov[c].stage \in {"replace", "undo"} THEN NoProv ELSE prov[c]]
      /\ handsLate' = handsLate \/ handsLate' = handsLate \cup {DeleteOf(c, t)}
      /\ UNCHANGED <<store, remote, remoteRev, isolate, activating, shutdown,
                     nextKey, nextSid, issuedTo, drifted, rotated, released, changes>>
  BY DEF ReleaseFails
<1>2. LeaseOf(c, t) /\ lease[c][t].key # 0
  BY <1>1 DEF HandsInv, LeaseOf
<1>3. PICK yes \in BOOLEAN : lease' = [lease EXCEPT ![c][t].close = "no", ![c][t].rev = 0, ![c][t].ready = yes]
  BY Zenon DEF ReleaseFails
<1> DEFINE after == [lease[c][t] EXCEPT !.close = "no", !.rev = 0, !.ready = yes]
<1>4. lease \in [Clients -> [Tiers -> LeaseRecords]] /\ lease[c][t] \in LeaseRecords
  BY DEF HandsInv, HandsTypes
<1>5. after \in LeaseRecords /\ after.key = lease[c][t].key /\ after.w = lease[c][t].w /\ after.close = "no"
  BY <1>4 DEF LeaseRecords
<1>6. lease' = [lease EXCEPT ![c][t] = after]
  BY <1>3, <1>4
<1> HIDE DEF after
<1>7. /\ lease' \in [Clients -> [Tiers -> LeaseRecords]] /\ lease'[c][t] = after
      /\ \A d \in Clients, u \in Tiers : d # c \/ u # t => lease'[d][u] = lease[d][u]
  BY <1>4, <1>5, <1>6
<1>8. PICK p \in ProvisionRecords :
         /\ prov' = [prov EXCEPT ![c] = p]
         /\ p = NoProv \/ (p = prov[c] /\ prov[c].stage \notin {"replace", "undo"})
  BY <1>1, NoProvFields, HandsTyped
<1>9. prov' \in [Clients -> ProvisionRecords] /\ prov'[c] = p /\ \A d \in Clients : d # c => prov'[d] = prov[d]
  BY <1>8, ProvisionUpdate
<1>10. /\ sess' \in [Clients -> SessionRecords] /\ sess'[c].id = sess[c].id
       /\ sess[c].stopping # "leases" => sess'[c].stopping = sess[c].stopping
       /\ \A d \in Clients : d # c => sess'[d] = sess[d]
  <2>1. sess \in [Clients -> SessionRecords] /\ sess[c] \in SessionRecords
    BY SessionTyped
  <2>2. PICK s \in {"no", "check", "leases"} : s = IF sess[c].stopping = "leases" THEN "no" ELSE sess[c].stopping
    BY <2>1 DEF SessionRecords
  <2>3. sess' = [sess EXCEPT ![c] = [sess[c] EXCEPT !.stopping = s]]
    BY <1>1, <2>1, <2>2
  <2>4. /\ [sess[c] EXCEPT !.stopping = s] \in SessionRecords /\ [sess[c] EXCEPT !.stopping = s].id = sess[c].id
        /\ [sess[c] EXCEPT !.stopping = s].stopping = s
    BY <2>1 DEF SessionRecords
  <2> QED
    BY <2>1, <2>2, <2>3, <2>4
<1>11. PICK m \in LateRequests : m = DeleteOf(c, t) /\ m.kind = "delete" /\ m.key = lease[c][t].key
  <2>1. DeleteOf(c, t) \in LateRequests
    BY <1>2, LeaseTyped DEF DeleteOf, LateRequests, LeaseOf
  <2> QED
    BY <2>1 DEF DeleteOf
<1>12. /\ handsLate' \subseteq LateRequests /\ \A x \in handsLate' : x \in handsLate \/ x = m
  BY <1>1, <1>11 DEF HandsInv, HandsTypes
<1>13. HandsTypes'
  BY <1>1, <1>7, <1>9, <1>10, <1>12 DEF HandsInv, HandsTypes, store
<1>14. SameAttempts /\ released' = released /\ RevisionsGrow /\ \A w \in Workspaces : rev'[w] <= remoteRev[w]
  BY <1>1, RevisionsStay, RevisionTyped DEF SameAttempts, store
<1>15. LateOf(m)'
  BY <1>1, <1>2, <1>11 DEF LateOf, LeaseOf
<1>16. \A u \in Tiers : LeaseOf(c, u)' /\ lease'[c][u].key = lease[c][u].key
  BY <1>2, <1>5, <1>7, <1>14, LeasesStay, LeaseKeeps
<1>17. UnresolvedOf(c)'
  <2>1. Provisioning(c) => sess'[c].stopping = sess[c].stopping
    BY <1>10, ProvisionFacts
  <2>2. prov'[c].stage = "no" \/ (Provisioning(c) /\ prov'[c].tier = prov[c].tier)
    BY <1>8, <1>9, NoProvFields DEF Provisioning
  <2> QED
    BY <1>1, <1>10, <2>1, <2>2, SessionsKeep DEF store
<1>18. ProvisionOf(c)' /\ AnswerOf(c)'
  <2>1. CASE p = NoProv
    BY <1>9, <2>1, NothingProvisioned
  <2>2. CASE p = prov[c] /\ prov[c].stage \notin {"replace", "undo"}
    <3>1. prov[c].stage \notin Asking
      BY <1>2, AskingFacts DEF Leased
    <3>2. ProvisionOf(c)
      BY DEF HandsInv
    <3> QED
      BY <1>9, <1>16, <2>2, <3>1, <3>2 DEF ProvisionOf, AnswerOf, Provisioning, Asking, Leased
  <2> QED
    BY <1>8, <2>1, <2>2
<1>19. /\ \A x \in handsLate' : x \in handsLate \/ LateOf(x)'
       /\ \A x \in handsLate' : \A d \in Clients :
               x.kind = "post" /\ d # c /\ prov[d].stage = "answer" /\ x.key = prov[d].key => x \in handsLate
  BY <1>11, <1>12, <1>15
<1> QED
  BY <1>1, <1>7, <1>9, <1>10, <1>13, <1>14, <1>16, <1>17, <1>18, <1>19, BrokerStep DEF store

-----------------------------------------------------------------------------
(* Reserving an attempt, and the answers *)

\* A step that changes one attempt of a client's: what other clients have asked
\* for is not that attempt.
LEMMA OthersKeep ==
    ASSUME HandsInv, NEW c \in Clients, NEW w \in Workspaces, NEW t \in Tiers,
           attempt'[w][t].client = c, \A v \in Workspaces, u \in Tiers : v # w \/ u # t => attempt'[v][u] = attempt[v][u],
           UNCHANGED <<sess, nextSid, handsLate, remote, remoteRev, drifted>>, RevisionsGrow,
           \A d \in Clients : d # c => prov'[d] = prov[d] /\ \A u \in Tiers : lease'[d][u] = lease[d][u],
           \A d \in Clients : d # c /\ prov[d].stage \in Asking => prov[d].w # w \/ prov[d].tier # t
    PROVE  \A d \in Clients : d # c => UnresolvedOf(d)' /\ ProvisionOf(d)' /\ AnswerOf(d)'
<1> SUFFICES ASSUME NEW d \in Clients, d # c
             PROVE  UnresolvedOf(d)' /\ ProvisionOf(d)' /\ AnswerOf(d)'
  OBVIOUS
<1>1. UnresolvedOf(d)'
  <2>1. Unresolved(d)' \subseteq Unresolved(d)
    <3>1. ASSUME NEW a \in Workspaces \X Tiers,
                 attempt'[a[1]][a[2]].state = "PENDING" /\ attempt'[a[1]][a[2]].client = d /\ attempt'[a[1]][a[2]].sid = sess'[d].id
          PROVE  a \in Unresolved(d)
      <4>1. attempt'[a[1]][a[2]] = attempt[a[1]][a[2]]
        BY <3>1
      <4> QED
        BY <3>1, <4>1 DEF Unresolved
    <3> QED
      BY <3>1 DEF Unresolved
  <2>2. nextSid' \in Nat /\ nextSid <= nextSid' /\ UnresolvedOf(d)
    BY SessionTyped
  <2>3. prov'[d].stage # "no" => sess'[d].stopping # "leases"
    BY <2>2 DEF UnresolvedOf, Provisioning
  <2> QED
    BY <2>1, <2>2, <2>3, UnresolvedKeeps DEF Provisioning
<1>2. ProvisionOf(d)'
  <2>1. prov[d].stage \in Asking => attempt'[prov[d].w][prov[d].tier] = attempt[prov[d].w][prov[d].tier]
    BY AskingFacts
  <2> QED
    BY <2>1, ProvisionKeeps
<1>3. AnswerOf(d)'
  BY AnswerKeeps
<1> QED
  BY <1>1, <1>2, <1>3

\* What acquireTier found before it reserves an attempt.
LEMMA AcquireFacts ==
    ASSUME HandsInv, NEW c \in Clients, prov[c].stage = "workspace", ~ NoAttemptMade(c)
    PROVE  /\ Provisioning(c) /\ prov[c].w \in Workspaces /\ prov[c].tier \in Tiers /\ prov[c].bot \in HandsBots
           /\ \A x \in Unresolved(c) : x = <<prov[c].w, prov[c].tier>>
           /\ \A u \in Tiers : ~ Leased(c, u)
           /\ rev[prov[c].w] = prov[c].rev
           /\ ReusedKey(prov[c].w, prov[c].tier, prov[c].rev) => attempt[prov[c].w][prov[c].tier].client = c
<1>1. Provisioning(c)
  BY DEF Provisioning
<1>2. /\ prov[c].tier \in Tiers /\ prov[c].bot \in HandsBots /\ prov[c].w \in Workspaces
      /\ \A u \in Tiers \ {prov[c].tier} : ~ Leased(c, u) /\ \A x \in Unresolved(c) : x[2] = prov[c].tier
  BY <1>1, ProvisionFacts
<1>3. \A x \in Unresolved(c) : x[2] = prov[c].tier
  BY <1>1, ProvisionFacts
<1>4. /\ \A x \in Unresolved(c) : x[1] = prov[c].w
      /\ ~ Leased(c, prov[c].tier) /\ rev[prov[c].w] = prov[c].rev
      /\ ReusedKey(prov[c].w, prov[c].tier, prov[c].rev) => attempt[prov[c].w][prov[c].tier].client = c
  BY DEF NoAttemptMade, NoAttemptInTheWay, Leased
<1>5. \A x \in Unresolved(c) : x = <<prov[c].w, prov[c].tier>>
  <2>1. \A x \in Workspaces \X Tiers : x = <<x[1], x[2]>>
    OBVIOUS
  <2>2. Unresolved(c) \subseteq Workspaces \X Tiers
    BY DEF Unresolved
  <2> QED
    BY <1>3, <1>4, <2>1, <2>2
<1> QED
  BY <1>1, <1>2, <1>4, <1>5

\* An attempt that is reserved keeps the key while a lease may live under it.
LEMMA ReserveStep ==
    ASSUME HandsInv, NEW c \in Clients, prov[c].stage = "workspace", ~ NoAttemptMade(c), Acquire(c)
    PROVE  HandsInv'
<1>1. PICK w \in Workspaces, t \in Tiers, r \in Nat : w = prov[c].w /\ t = prov[c].tier /\ r = prov[c].rev
  BY AcquireFacts, ProvisionTyped
<1>2. /\ Provisioning(c) /\ prov[c].bot \in HandsBots
      /\ \A x \in Unresolved(c) : x = <<w, t>>
      /\ \A u \in Tiers : ~ Leased(c, u)
      /\ rev[w] = r
      /\ ReusedKey(w, t, r) => attempt[w][t].client = c
  BY <1>1, AcquireFacts
<1> DEFINE same == ReusedKey(w, t, r)
           earlier == attempt[w][t]
<1>3. /\ earlier \in AttemptRecords /\ earlier.key \in Nat /\ earlier.key \in 0 .. MaxKeys /\ earlier.rev \in Nat /\ earlier.rev <= r
      /\ AttemptOf(w, t) /\ sess[c].id \in Nat /\ sess[c].id < nextSid /\ nextKey \in Nat
      /\ earlier.state \in {"NONE", "PENDING", "READY"} /\ nextSid \in Nat
  <2>1. AttemptOf(w, t) /\ UnresolvedOf(c) /\ earlier \in AttemptRecords /\ nextKey \in Nat /\ nextSid \in Nat
    BY HandsTyped DEF HandsInv
  <2>2. earlier.key \in Nat /\ earlier.key \in 0 .. MaxKeys /\ earlier.rev \in Nat /\ earlier.state \in {"NONE", "PENDING", "READY"}
    BY AttemptTyped
  <2> QED
    BY <1>2, <2>1, <2>2, SessionTyped DEF AttemptOf, UnresolvedOf
<1>4. PICK key \in Keys, ar \in Nat :
         /\ key = IF same THEN earlier.key ELSE nextKey
         /\ ar = IF same THEN earlier.rev ELSE r
         /\ attempt' = [attempt EXCEPT ![w][t] = [state |-> "PENDING", rev |-> ar, key |-> key, sid |-> sess[c].id, client |-> c]]
         /\ prov' = [prov EXCEPT ![c].stage = "put", ![c].key = key]
         /\ nextKey' = IF same THEN nextKey ELSE nextKey + 1
         /\ issuedTo' = IF same THEN issuedTo ELSE [issuedTo EXCEPT ![key] = c]
  <2>1. same => earlier.key # 0 /\ earlier.key \in Keys
    BY <1>3, HandsAssumption DEF ReusedKey, AttemptOf, Keys
  <2>2. ~ same => nextKey \in Keys
    BY <1>1, <1>3, HandsAssumption DEF Acquire, Keys, HandsInv, HandsTypes
  <2> HIDE DEF same, earlier
  <2>3. PICK key \in Keys : key = IF same THEN earlier.key ELSE nextKey
    BY <2>1, <2>2
  <2>4. PICK ar \in Nat : ar = IF same THEN earlier.rev ELSE r
    BY <1>3
  <2> QED
    BY <1>1, <2>3, <2>4 DEF Acquire, same, earlier
<1>5. UNCHANGED <<active, rev, hands, sess, lease, isolate, activating, shutdown,
                  nextSid, drifted, rotated, released, handsFaults, changes>>
  BY DEF Acquire
<1> DEFINE p == [prov[c] EXCEPT !.stage = "put", !.key = key]
<1>6. key \in Nat /\ key # 0 /\ key \in 0 .. MaxKeys
  BY HandsAssumption DEF Keys
<1>7. PICK a \in AttemptRecords :
         /\ attempt' = [attempt EXCEPT ![w][t] = a]
         /\ a.state = "PENDING" /\ a.rev = ar /\ a.key = key /\ a.sid = sess[c].id /\ a.client = c
  <2> DEFINE b == [state |-> "PENDING", rev |-> ar, key |-> key, sid |-> sess[c].id, client |-> c]
  <2>1. b \in AttemptRecords /\ b.state = "PENDING" /\ b.rev = ar /\ b.key = key /\ b.sid = sess[c].id /\ b.client = c
    BY <1>3, <1>6 DEF AttemptRecords
  <2>2. attempt' = [attempt EXCEPT ![w][t] = b]
    BY <1>4
  <2> HIDE DEF b
  <2> QED
    BY <2>1, <2>2
<1>8. /\ p \in ProvisionRecords /\ p.stage = "put" /\ p.key = key /\ p.w = w /\ p.tier = t /\ p.bot = prov[c].bot
      /\ prov' = [prov EXCEPT ![c] = p]
  <2>1. prov \in [Clients -> ProvisionRecords] /\ prov[c] \in ProvisionRecords
    BY DEF HandsInv, HandsTypes
  <2> QED
    BY <1>1, <1>4, <1>6, <2>1 DEF ProvisionRecords
<1> HIDE DEF p
<1>10. /\ attempt' \in [Workspaces -> [Tiers -> AttemptRecords]] /\ attempt'[w][t] = a
       /\ \A v \in Workspaces, u \in Tiers : v # w \/ u # t => attempt'[v][u] = attempt[v][u]
  <2>1. attempt \in [Workspaces -> [Tiers -> AttemptRecords]]
    BY DEF HandsInv, HandsTypes
  <2> QED
    BY <1>7, <2>1
<1>11. prov' \in [Clients -> ProvisionRecords] /\ prov'[c] = p /\ \A d \in Clients : d # c => prov'[d] = prov[d]
  BY <1>8, ProvisionUpdate
<1>12. /\ same => key = earlier.key /\ ar = earlier.rev /\ nextKey' = nextKey /\ issuedTo' = issuedTo /\ earlier.client = c /\ earlier.state # "NONE"
       /\ ~ same => /\ key = nextKey /\ ar = r /\ nextKey' = nextKey + 1 /\ issuedTo' = [issuedTo EXCEPT ![key] = c]
                    /\ earlier.state # "PENDING" /\ (earlier.state = "READY" => earlier.rev < r)
  <2>1. same => earlier.client = c /\ earlier.state # "NONE"
    BY <1>2 DEF ReusedKey
  <2>2. ~ same => earlier.state # "PENDING" /\ (earlier.state = "READY" => earlier.rev # r)
    BY DEF ReusedKey
  <2> HIDE DEF same, earlier
  <2>3. ~ same => earlier.state # "PENDING" /\ (earlier.state = "READY" => earlier.rev < r)
    BY <1>3, <2>2
  <2> QED
    BY <1>4, <2>1, <2>3
<1>13. /\ nextKey' \in 1 .. (MaxKeys + 1) /\ issuedTo' \in [Keys -> Clients \cup {None}] /\ nextKey <= nextKey'
       /\ key < nextKey' /\ issuedTo'[key] = c /\ \A k \in Keys : k # key => issuedTo'[k] = issuedTo[k]
  <2>1. nextKey \in 1 .. (MaxKeys + 1) /\ issuedTo \in [Keys -> Clients \cup {None}] /\ MaxKeys \in Nat
    BY HandsAssumption DEF HandsInv, HandsTypes
  <2>2. CASE same
    <3>1. earlier.key < nextKey /\ issuedTo[earlier.key] = c
      BY <1>3, <1>6, <1>12, <2>2 DEF AttemptOf
    <3> HIDE DEF same, earlier
    <3> QED
      BY <1>12, <2>1, <2>2, <3>1
  <2>3. CASE ~ same
    <3> HIDE DEF same, earlier
    <3>1. nextKey <= MaxKeys
      BY <1>6, <1>12, <2>1, <2>3
    <3> QED
      BY <1>12, <2>1, <2>3, <3>1
  <2> QED
    BY <2>2, <2>3
<1>14. HandsTypes'
  <2>1. \A k \in released' : k \in Keys /\ k < nextKey'
    BY <1>3, <1>5, <1>13 DEF HandsInv, HandsTypes, Keys
  <2> QED
    BY <1>5, <1>10, <1>11, <1>13, <2>1 DEF HandsInv, HandsTypes, hands
<1>15. \A v \in Workspaces, u \in Tiers : (v # w \/ u # t) => attempt[v][u].key # key
  <2>1. CASE same
    BY <1>3, <1>6, <1>12, <2>1 DEF HandsInv, KeysApart
  <2>2. CASE ~ same
    <3>1. \A v \in Workspaces, u \in Tiers : attempt[v][u].key \in Nat /\ (attempt[v][u].key # 0 => attempt[v][u].key < nextKey)
      BY AttemptTyped DEF HandsInv, AttemptOf
    <3> QED
      BY <1>3, <1>6, <1>12, <2>2, <3>1
  <2> QED
    BY <2>1, <2>2
<1>16. KeysApart'
  BY <1>7, <1>10, <1>15 DEF HandsInv, KeysApart
<1>17. ASSUME NEW v \in Workspaces, NEW u \in Tiers
       PROVE  AttemptOf(v, u)'
  <2>1. CASE v = w /\ u = t
    <3>1. key \notin released
      <4>1. CASE same
        BY <1>2, <1>3, <1>12, <4>1 DEF AttemptOf, ReusedKey
      <4>2. CASE ~ same
        BY <1>3, <1>12, <4>2 DEF HandsInv, HandsTypes
      <4> QED
        BY <4>1, <4>2
    <3>2. ar <= rev[w] /\ sess[c].id < nextSid
      BY <1>2, <1>3, <1>12
    <3> QED
      BY <1>5, <1>6, <1>7, <1>10, <1>13, <2>1, <3>1, <3>2 DEF AttemptOf
  <2>2. CASE v # w \/ u # t
    <3>1. AttemptOf(v, u) /\ attempt[v][u].key \in 0 .. MaxKeys /\ attempt[v][u].key \in Nat /\ attempt[v][u].key # key /\ MaxKeys \in Nat
      BY <1>15, <2>2, AttemptTyped, HandsAssumption DEF HandsInv
    <3>2. attempt[v][u].key # 0 => attempt[v][u].key \in Keys /\ attempt[v][u].key < nextKey' /\ issuedTo'[attempt[v][u].key] = issuedTo[attempt[v][u].key]
      BY <1>3, <1>13, <3>1 DEF AttemptOf, Keys
    <3> QED
      BY <1>5, <1>10, <2>2, <3>1, <3>2 DEF AttemptOf
  <2> QED
    BY <2>1, <2>2
<1>18. RevisionsGrow
  BY <1>5, RevisionsStay DEF hands
<1>19. ASSUME NEW d \in Clients, NEW u \in Tiers
       PROVE  LeaseOf(d, u)'
  <2>1. lease[d][u].key # 0 => lease[d][u].key # key
    <3>1. SUFFICES ASSUME lease[d][u].key = key
                   PROVE  FALSE
      BY <1>6
    <3>2. /\ key < nextKey /\ issuedTo[key] = d
      BY <1>6, <3>1 DEF HandsInv, LeaseOf
    <3>3. CASE same
      <4>1. issuedTo[key] = c
        BY <1>3, <1>6, <1>12, <3>3 DEF AttemptOf
      <4> QED
        BY <1>2, <1>6, <3>1, <3>2, <4>1 DEF Leased
    <3>4. CASE ~ same
      BY <1>3, <1>12, <3>2, <3>4
    <3> QED
      BY <3>3, <3>4
  <2>2. lease[d][u].key \notin released'
    <3>1. 0 \notin released
      BY DEF HandsInv, HandsTypes, Keys
    <3> QED
      BY <1>5, <3>1 DEF HandsInv, LeaseOf
  <2>3. KeyStays(lease[d][u].key)
    <3>1. SUFFICES ASSUME lease[d][u].key # 0, lease[d][u].key < nextKey
                   PROVE  KeyStays(lease[d][u].key)
      BY DEF KeyStays
    <3>2. lease[d][u].key \in Keys /\ lease[d][u].key \in Nat
      BY <3>1, LeaseTyped
    <3>3. lease[d][u].key < nextKey' /\ issuedTo'[lease[d][u].key] = issuedTo[lease[d][u].key]
      BY <1>3, <1>13, <2>1, <3>1, <3>2
    <3>4. \A v \in Workspaces, x \in Tiers : attempt'[v][x].key = lease[d][u].key => attempt'[v][x] = attempt[v][x]
      BY <1>7, <1>10, <2>1, <3>1
    <3> QED
      BY <3>3, <3>4 DEF KeyStays
  <2> QED
    BY <1>5, <1>18, <2>2, <2>3, LeaseKeeps
<1>20. OneTier'
  BY <1>5 DEF HandsInv, OneTier, Leased
<1>21. \A d \in Clients : d # c => UnresolvedOf(d)' /\ ProvisionOf(d)' /\ AnswerOf(d)'
  <2>1. \A d \in Clients : d # c /\ prov[d].stage \in Asking => prov[d].w # w \/ prov[d].tier # t
    <3>1. ASSUME NEW d \in Clients, d # c, prov[d].stage \in Asking, prov[d].w = w, prov[d].tier = t
          PROVE  FALSE
      <4>1. earlier.state = "PENDING" /\ earlier.client = d
        BY <3>1, AskingFacts
      <4> QED
        BY <1>12, <3>1, <4>1
    <3> QED
      BY <3>1
  <2>2. attempt'[w][t].client = c
    BY <1>7, <1>10
  <2> QED
    BY <1>5, <1>10, <1>11, <1>18, <2>1, <2>2, OthersKeep DEF hands
<1>22. UnresolvedOf(c)'
  <2>1. \A x \in Unresolved(c)' : x = <<w, t>>
    <3>1. ASSUME NEW x \in Workspaces \X Tiers,
                 attempt'[x[1]][x[2]].state = "PENDING" /\ attempt'[x[1]][x[2]].client = c /\ attempt'[x[1]][x[2]].sid = sess[c].id
          PROVE  x = <<w, t>>
      <4>1. CASE x[1] = w /\ x[2] = t
        BY <4>1
      <4>2. CASE x[1] # w \/ x[2] # t
        <5>1. attempt'[x[1]][x[2]] = attempt[x[1]][x[2]]
          BY <1>10, <4>2
        <5>2. x \in Unresolved(c)
          BY <3>1, <5>1 DEF Unresolved
        <5> QED
          BY <1>2, <5>2
      <4> QED
        BY <4>1, <4>2
    <3> QED
      BY <1>5, <3>1 DEF Unresolved
  <2>2. Open(c) /\ sess[c].stopping # "leases"
    BY <1>2, ProvisionFacts
  <2> QED
    BY <1>3, <1>5, <1>8, <1>11, <2>1, <2>2 DEF UnresolvedOf, Open, Provisioning
<1>23. ProvisionOf(c)' /\ AnswerOf(c)'
  BY <1>2, <1>5, <1>6, <1>7, <1>8, <1>10, <1>11 DEF ProvisionOf, AnswerOf, Provisioning, Asking, Leased
<1>24. ASSUME NEW m \in handsLate
       PROVE  LateOf(m)'
  <2>1. LateOf(m) /\ m.w \in Workspaces /\ m.rev \in Nat /\ m.key \in Nat /\ m.key # 0 /\ m.key < nextKey
    BY LateTyped DEF HandsInv, LateOf
  <2>2. m.key < nextKey'
    BY <1>3, <1>13, <2>1
  <2>3. CASE m.kind = "post"
    <3>1. \A v \in Workspaces, u \in Tiers : attempt'[v][u].key = m.key => v = m.w
      <4>1. key = m.key => w = m.w
        BY <1>3, <1>12, <2>1, <2>3 DEF LateOf
      <4> QED
        BY <1>7, <1>10, <2>1, <2>3, <4>1 DEF LateOf
    <3>2. \/ m.key \in rotated \/ m.rev < remoteRev[m.w]
          \/ \E u \in Tiers : /\ attempt'[m.w][u].key = m.key
                              /\ \/ attempt'[m.w][u].state = "PENDING"
                                 \/ attempt'[m.w][u].state = "READY" /\ m.rev <= attempt'[m.w][u].rev
      <4>1. SUFFICES ASSUME NEW u \in Tiers, attempt[m.w][u].key = m.key,
                            \/ attempt[m.w][u].state = "PENDING"
                            \/ attempt[m.w][u].state = "READY" /\ m.rev <= attempt[m.w][u].rev,
                            m.w = w, u = t
                     PROVE  \/ m.rev < remoteRev[m.w]
                            \/ attempt'[w][t].key = m.key /\ attempt'[w][t].state = "PENDING"
        BY <1>10, <2>1, <2>3 DEF LateOf
      <4>2. CASE same
        BY <1>7, <1>10, <1>12, <4>1, <4>2
      <4>3. CASE ~ same
        <5>1. m.rev <= earlier.rev /\ earlier.rev < r
          BY <1>12, <4>1, <4>3
        <5>2. remoteRev[w] \in Nat /\ r <= remoteRev[w]
          BY <1>2, RevisionTyped
        <5>3. m.rev < remoteRev[w]
          BY <1>3, <2>1, <5>1, <5>2
        <5> QED
          BY <4>1, <5>3
      <4> QED
        BY <4>2, <4>3
    <3> QED
      BY <1>5, <2>1, <2>2, <2>3, <3>1, <3>2 DEF LateOf, hands
  <2>4. CASE m.kind # "post"
    BY <2>2, <2>4 DEF LateOf
  <2> QED
    BY <2>3, <2>4
<1>25. ASSUME NEW v \in Workspaces
       PROVE  RemoteOf(v)'
  <2>1. RemoteOf(v) /\ remote[v].key \in Nat /\ rev[v] <= remoteRev[v]
    BY HandsTyped DEF HandsInv, RemoteRecords, RemoteOf
  <2>2. remote[v].key < nextKey'
    BY <1>3, <1>13, <2>1 DEF RemoteOf
  <2>3. ASSUME HandsLive(v), remote[v].key \notin drifted \cup rotated
        PROVE  \E u \in Tiers : /\ attempt'[v][u].key = remote[v].key
                                /\ \/ attempt'[v][u].state = "PENDING"
                                   \/ attempt'[v][u].state = "READY" /\ attempt'[v][u].rev = rev[v] /\ rev[v] = remoteRev[v]
    <3>1. PICK u \in Tiers : /\ attempt[v][u].key = remote[v].key
                             /\ \/ attempt[v][u].state = "PENDING"
                                \/ attempt[v][u].state = "READY" /\ attempt[v][u].rev = rev[v] /\ rev[v] = remoteRev[v]
      BY <2>1, <2>3 DEF RemoteOf
    <3>2. CASE v = w /\ u = t
      <4>1. same
        BY <1>2, <3>1, <3>2 DEF ReusedKey
      <4> QED
        BY <1>7, <1>10, <1>12, <3>1, <3>2, <4>1
    <3>3. CASE v # w \/ u # t
      BY <1>10, <3>1, <3>3
    <3> QED
      BY <3>2, <3>3
  <2> QED
    BY <1>5, <2>1, <2>2, <2>3 DEF RemoteOf, HandsLive, hands
<1> QED
  <2>1. \A d \in Clients : UnresolvedOf(d)' /\ ProvisionOf(d)' /\ AnswerOf(d)'
    BY <1>21, <1>22, <1>23
  <2>2. \A m \in handsLate' : LateOf(m)'
    BY <1>5, <1>24 DEF hands
  <2> QED
    BY <1>14, <1>16, <1>17, <1>19, <1>20, <1>25, <2>1, <2>2 DEF HandsInv

LEMMA AcquireStep ==
    ASSUME HandsInv, NEW c \in Clients, Acquire(c)
    PROVE  HandsInv'
<1>1. prov[c].stage = "workspace"
  BY DEF Acquire
<1>2. CASE NoAttemptMade(c)
  BY <1>2, ProvisionOver DEF Acquire, store, hands
<1>3. CASE ~ NoAttemptMade(c)
  BY <1>1, <1>3, ReserveStep
<1> QED
  BY <1>2, <1>3

\* A granted lease: the attempt is READY at the revision of the answer.
LEMMA LeaseGrantedStep ==
    ASSUME HandsInv, NEW c \in Clients, LeaseGranted(c)
    PROVE  HandsInv'
<1>1. prov[c].stage = "answer" /\ prov[c].stage \in Asking /\ prov[c].answer = "granted"
  BY DEF LeaseGranted, Asking
<1>2. PICK w \in Workspaces, t \in Tiers, key \in Keys, r \in Nat :
         w = prov[c].w /\ t = prov[c].tier /\ key = prov[c].key /\ r = prov[c].rev
  BY <1>1, AskingFacts, ProvisionTyped
<1>3. /\ Provisioning(c) /\ prov[c].bot \in HandsBots /\ key \in Nat /\ key # 0 /\ \A u \in Tiers : ~ Leased(c, u)
      /\ attempt[w][t].state = "PENDING" /\ attempt[w][t].key = key /\ attempt[w][t].client = c
      /\ key < nextKey /\ issuedTo[key] = c /\ key \notin released
      /\ \A v \in Workspaces, u \in Tiers : attempt[v][u].key = key => v = w /\ u = t
      /\ r <= remoteRev[w]
  BY <1>1, <1>2, AskingFacts
<1>4. UNCHANGED <<active, hands, sess, isolate, activating, shutdown, ghosts>>
  BY DEF LeaseGranted
<1>5. CASE ~ Current(w, r)
  <2>1. prov' = [prov EXCEPT ![c] = NoProv] /\ UNCHANGED <<rev, attempt, lease>>
    BY <1>2, <1>5 DEF LeaseGranted
  <2> QED
    BY <1>4, <2>1, ProvisionOver DEF store, hands, ghosts
<1>6. CASE Current(w, r)
  <2>1. PICK ready \in BOOLEAN, how \in {"no", "sent"}, q \in ProvisionRecords :
           /\ rev' = [rev EXCEPT ![w] = r]
           /\ attempt' = [attempt EXCEPT ![w][t].state = "READY", ![w][t].rev = r]
           /\ lease' = [lease EXCEPT ![c][t] = [w |-> w, key |-> key, ready |-> ready, close |-> how, rev |-> 0]]
           /\ prov' = [prov EXCEPT ![c] = q]
           /\ \/ q = NoProv
              \/ /\ q.stage = "undo" /\ q.tier = t /\ q.bot = prov[c].bot /\ q.w = w /\ q.key = key /\ how = "sent"
    <3> DEFINE changed == active[prov[c].bot] # prov[c].w
               gone == [prov[c] EXCEPT !.stage = "undo"]
    <3>1. /\ rev' = [rev EXCEPT ![prov[c].w] = prov[c].rev]
          /\ attempt' = [attempt EXCEPT ![prov[c].w][prov[c].tier].state = "READY", ![prov[c].w][prov[c].tier].rev = prov[c].rev]
          /\ lease' = [lease EXCEPT ![c][prov[c].tier] =
                   [w |-> prov[c].w, key |-> prov[c].key, ready |-> ~changed,
                    close |-> IF changed THEN "sent" ELSE "no", rev |-> 0]]
          /\ prov' = [prov EXCEPT ![c] = IF changed THEN gone ELSE NoProv]
      BY <1>2, <1>3, <1>6, Zenon DEF LeaseGranted
    <3>2. PICK ready \in BOOLEAN : ready = (~ changed)
      BY Zenon
    <3>3. prov[c] \in ProvisionRecords
      BY HandsTyped
    <3>4. gone \in ProvisionRecords /\ gone.stage = "undo" /\ gone.tier = t /\ gone.bot = prov[c].bot /\ gone.w = w /\ gone.key = key
      BY <1>2, <3>3 DEF ProvisionRecords
    <3>5. lease' = [lease EXCEPT ![c][prov[c].tier] =
                   [w |-> prov[c].w, key |-> prov[c].key, ready |-> ready,
                    close |-> IF changed THEN "sent" ELSE "no", rev |-> 0]]
      BY <3>1, <3>2, Zenon
    <3> HIDE DEF changed, gone
    <3>6. CASE changed
      BY <1>2, <3>1, <3>4, <3>5, <3>6
    <3>7. CASE ~ changed
      BY <1>2, <3>1, <3>5, <3>7, NoProvFields
    <3> QED
      BY <3>6, <3>7
  <2>2. PICK l \in LeaseRecords : /\ lease' = [lease EXCEPT ![c][t] = l]
                                  /\ l.w = w /\ l.key = key /\ l.close = how
    <3> DEFINE k == [w |-> w, key |-> key, ready |-> ready, close |-> how, rev |-> 0]
    <3>1. k \in LeaseRecords /\ k.w = w /\ k.key = key /\ k.close = how
      BY HandsAssumption DEF LeaseRecords, Keys
    <3>2. lease' = [lease EXCEPT ![c][t] = k]
      BY <2>1
    <3> HIDE DEF k
    <3> QED
      BY <3>1, <3>2
  <2>3. PICK a \in AttemptRecords : /\ attempt' = [attempt EXCEPT ![w][t] = a]
                                    /\ a.state = "READY" /\ a.rev = r /\ a.key = key /\ a.client = c /\ a.sid = attempt[w][t].sid
    <3> DEFINE b == [attempt[w][t] EXCEPT !.state = "READY", !.rev = r]
    <3>1. attempt \in [Workspaces -> [Tiers -> AttemptRecords]] /\ attempt[w][t] \in AttemptRecords
      BY DEF HandsInv, HandsTypes
    <3>2. b \in AttemptRecords /\ b.state = "READY" /\ b.rev = r /\ b.key = key /\ b.client = c /\ b.sid = attempt[w][t].sid
      BY <1>3, <3>1 DEF AttemptRecords
    <3>3. attempt' = [attempt EXCEPT ![w][t] = b]
      BY <2>1, <3>1
    <3> HIDE DEF b
    <3> QED
      BY <3>2, <3>3
  <2>4. /\ lease' \in [Clients -> [Tiers -> LeaseRecords]] /\ lease'[c][t] = l
        /\ \A d \in Clients, u \in Tiers : d # c \/ u # t => lease'[d][u] = lease[d][u]
    <3>1. lease \in [Clients -> [Tiers -> LeaseRecords]]
      BY DEF HandsInv, HandsTypes
    <3> QED
      BY <2>2, <3>1
  <2>5. /\ attempt' \in [Workspaces -> [Tiers -> AttemptRecords]] /\ attempt'[w][t] = a
        /\ \A v \in Workspaces, u \in Tiers : v # w \/ u # t => attempt'[v][u] = attempt[v][u]
    <3>1. attempt \in [Workspaces -> [Tiers -> AttemptRecords]]
      BY DEF HandsInv, HandsTypes
    <3> QED
      BY <2>3, <3>1
  <2>6. prov' \in [Clients -> ProvisionRecords] /\ prov'[c] = q /\ \A d \in Clients : d # c => prov'[d] = prov[d]
    BY <2>1, ProvisionUpdate
  <2>7. RevisionsGrow /\ rev' \in [Workspaces -> Nat] /\ rev'[w] = r /\ \A v \in Workspaces : rev'[v] <= remoteRev[v]
    <3>1. rev[w] <= r /\ remoteRev' = remoteRev
      BY <1>4, <1>6 DEF Current, hands
    <3> QED
      BY <1>3, <2>1, <3>1, RevisionStored
  <2>8. HandsTypes'
    BY <1>4, <2>4, <2>5, <2>6, <2>7 DEF HandsInv, HandsTypes, hands, ghosts
  <2>9. KeysApart'
    BY <1>3, <2>3, <2>5 DEF HandsInv, KeysApart
  <2>10. ASSUME NEW v \in Workspaces, NEW u \in Tiers
         PROVE  AttemptOf(v, u)'
    <3>1. CASE v = w /\ u = t
      <4>1. attempt[w][t].sid < nextSid
        BY DEF HandsInv, AttemptOf
      <4> QED
        BY <1>3, <1>4, <2>3, <2>5, <2>7, <3>1, <4>1 DEF AttemptOf, ghosts
    <3>2. CASE v # w \/ u # t
      <4>1. AttemptOf(v, u) /\ attempt[v][u].rev \in Nat /\ rev[v] \in Nat /\ rev'[v] \in Nat /\ rev[v] <= rev'[v]
        BY <2>7, AttemptTyped, RevisionTyped DEF HandsInv, RevisionsGrow
      <4>2. attempt[v][u].rev <= rev'[v] /\ (attempt[v][u].rev < rev[v] => attempt[v][u].rev < rev'[v])
        BY <4>1 DEF AttemptOf
      <4> QED
        BY <1>4, <2>5, <3>2, <4>1, <4>2 DEF AttemptOf, ghosts
    <3> QED
      BY <3>1, <3>2
  <2>11. OneTier'
    BY <1>3, <2>4 DEF HandsInv, OneTier, Leased
  <2>12. ASSUME NEW d \in Clients, NEW u \in Tiers
         PROVE  LeaseOf(d, u)'
    <3>1. CASE d = c /\ u = t
      BY <1>3, <1>4, <2>1, <2>2, <2>3, <2>4, <2>5, <3>1 DEF LeaseOf, ghosts
    <3>2. CASE d # c \/ u # t
      <4>1. lease[d][u].key # key
        BY <1>3 DEF HandsInv, LeaseOf
      <4>2. KeyStays(lease[d][u].key)
        BY <1>4, <2>3, <2>5, <4>1 DEF KeyStays, ghosts
      <4>3. lease[d][u].key \notin released'
        <5>1. 0 \notin released
          BY DEF HandsInv, HandsTypes, Keys
        <5> QED
          BY <1>4, <5>1 DEF HandsInv, LeaseOf, ghosts
      <4> QED
        BY <2>4, <2>7, <3>2, <4>2, <4>3, LeaseKeeps
    <3> QED
      BY <3>1, <3>2
  <2>13. \A d \in Clients : d # c => UnresolvedOf(d)' /\ ProvisionOf(d)' /\ AnswerOf(d)'
    <3>1. \A d \in Clients : d # c /\ prov[d].stage \in Asking => prov[d].w # w \/ prov[d].tier # t
      BY <1>1, <1>2, AskingApart
    <3>2. attempt'[w][t].client = c
      BY <2>3, <2>5
    <3>3. \A d \in Clients : d # c => prov'[d] = prov[d] /\ \A u \in Tiers : lease'[d][u] = lease[d][u]
      BY <2>4, <2>6
    <3>4. UNCHANGED <<sess, nextSid, handsLate, remote, remoteRev, drifted>> /\ RevisionsGrow
      BY <1>4, <2>7 DEF hands, ghosts
    <3>5. \A v \in Workspaces, u \in Tiers : v # w \/ u # t => attempt'[v][u] = attempt[v][u]
      BY <2>5
    <3> QED
      BY <3>1, <3>2, <3>3, <3>4, <3>5, OthersKeep
  <2>14. UnresolvedOf(c)'
    <3>1. Unresolved(c)' \subseteq Unresolved(c)
      <4>1. ASSUME NEW x \in Workspaces \X Tiers,
                   attempt'[x[1]][x[2]].state = "PENDING" /\ attempt'[x[1]][x[2]].client = c /\ attempt'[x[1]][x[2]].sid = sess[c].id
            PROVE  x \in Unresolved(c)
        <5>1. attempt'[x[1]][x[2]] = attempt[x[1]][x[2]]
          BY <2>3, <2>5, <4>1
        <5> QED
          BY <4>1, <5>1 DEF Unresolved
      <4> QED
        BY <1>4, <4>1 DEF Unresolved
    <3>2. nextSid' \in Nat /\ nextSid <= nextSid'
      BY <1>4, SessionTyped DEF ghosts
    <3>3. sess'[c].id = sess[c].id /\ sess'[c].stopping # "leases"
      BY <1>3, <1>4, ProvisionFacts
    <3>4. prov'[c].stage = "no" \/ (Provisioning(c) /\ prov'[c].tier = prov[c].tier)
      BY <1>2, <1>3, <2>1, <2>6, NoProvFields
    <3> QED
      BY <3>1, <3>2, <3>3, <3>4, UnresolvedKeeps
  <2>15. ProvisionOf(c)' /\ AnswerOf(c)'
    <3>1. CASE q = NoProv
      BY <2>6, <3>1, NothingProvisioned
    <3>2. CASE q.stage = "undo" /\ q.tier = t /\ q.bot = prov[c].bot /\ q.w = w /\ q.key = key /\ how = "sent"
      <4>1. \A u \in Tiers \ {t} : lease'[c][u].key = 0
        BY <1>3, <2>4 DEF Leased
      <4> QED
        BY <1>3, <2>2, <2>4, <2>6, <3>2, <4>1 DEF ProvisionOf, AnswerOf, Provisioning, Asking, Leased
    <3> QED
      BY <2>1, <3>1, <3>2
  <2>16. ASSUME NEW m \in handsLate
         PROVE  LateOf(m)'
    <3>1. LateOf(m)
      BY DEF HandsInv
    <3>2. CASE m.kind = "post" /\ m.key = key
      <4>1. m.rev <= r
        BY <1>1, <1>2, <3>2 DEF HandsInv, AnswerOf
      <4>2. m.w = w
        BY <1>3, <3>1, <3>2 DEF LateOf
      <4>3. \A v \in Workspaces, u \in Tiers : attempt'[v][u].key = m.key => v = m.w
        BY <1>3, <2>3, <2>5, <3>2, <4>2
      <4>4. attempt'[m.w][t].key = m.key /\ attempt'[m.w][t].state = "READY" /\ m.rev <= attempt'[m.w][t].rev
        BY <2>3, <2>5, <3>2, <4>1, <4>2
      <4> QED
        BY <1>4, <3>1, <3>2, <4>3, <4>4 DEF LateOf, hands, ghosts
    <3>3. CASE m.kind = "post" /\ m.key # key
      <4>1. \A v \in Workspaces, u \in Tiers : attempt[v][u].key = m.key \/ attempt'[v][u].key = m.key => attempt'[v][u] = attempt[v][u]
        BY <1>3, <2>3, <2>5, <3>3
      <4>2. m.w \in Workspaces
        BY LateTyped
      <4> QED
        BY <1>4, <3>1, <3>3, <4>1, <4>2 DEF LateOf, hands, ghosts
    <3>4. CASE m.kind # "post"
      BY <1>4, <3>1, <3>4 DEF LateOf, ghosts
    <3> QED
      BY <3>2, <3>3, <3>4
  <2>17. ASSUME NEW v \in Workspaces
         PROVE  RemoteOf(v)'
    <3>1. RemoteOf(v) /\ rev[v] \in Nat /\ remoteRev[v] \in Nat /\ rev'[v] \in Nat /\ rev[v] <= rev'[v] /\ rev'[v] <= remoteRev[v]
      BY <2>7, RevisionTyped DEF HandsInv, RevisionsGrow
    <3>2. rev[v] = remoteRev[v] => rev'[v] = rev[v]
      BY <3>1
    <3>3. ASSUME HandsLive(v), remote[v].key \notin drifted \cup rotated
          PROVE  \E u \in Tiers : /\ attempt'[v][u].key = remote[v].key
                                  /\ \/ attempt'[v][u].state = "PENDING"
                                     \/ attempt'[v][u].state = "READY" /\ attempt'[v][u].rev = rev'[v] /\ rev'[v] = remoteRev[v]
      <4>1. PICK u \in Tiers : /\ attempt[v][u].key = remote[v].key
                               /\ \/ attempt[v][u].state = "PENDING"
                                  \/ attempt[v][u].state = "READY" /\ attempt[v][u].rev = rev[v] /\ rev[v] = remoteRev[v]
        BY <3>1, <3>3 DEF RemoteOf
      <4>2. CASE v = w /\ u = t
        <5>1. r = remoteRev[w]
          BY <1>1, <1>2, <1>3, <3>3, <4>1, <4>2 DEF HandsInv, AnswerOf
        <5> QED
          BY <1>3, <2>3, <2>5, <2>7, <4>1, <4>2, <5>1
      <4>3. CASE v # w \/ u # t
        BY <2>5, <3>2, <4>1, <4>3
      <4> QED
        BY <4>2, <4>3
    <3> QED
      BY <1>4, <3>1, <3>3 DEF RemoteOf, HandsLive, hands, ghosts
  <2>18. \A d \in Clients : UnresolvedOf(d)' /\ ProvisionOf(d)' /\ AnswerOf(d)'
    BY <2>13, <2>14, <2>15
  <2>19. \A m \in handsLate' : LateOf(m)'
    BY <1>4, <2>16 DEF hands
  <2> QED
    BY <2>8, <2>9, <2>10, <2>11, <2>12, <2>17, <2>18, <2>19 DEF HandsInv
<1> QED
  BY <1>5, <1>6

\* A lost lease's key is given up: the attempt goes on under a fresh one.
LEMMA LeaseNotGrantedStep ==
    ASSUME HandsInv, NEW c \in Clients, LeaseNotGranted(c)
    PROVE  HandsInv'
<1>1. prov[c].stage = "answer" /\ prov[c].stage \in Asking
  BY DEF LeaseNotGranted, Asking
<1>2. PICK w \in Workspaces, t \in Tiers, key \in Keys : w = prov[c].w /\ t = prov[c].tier /\ key = prov[c].key
  BY <1>1, AskingFacts
<1>3. /\ Provisioning(c) /\ key \in Nat /\ key # 0 /\ \A u \in Tiers : ~ Leased(c, u)
      /\ attempt[w][t].state = "PENDING" /\ attempt[w][t].key = key /\ attempt[w][t].client = c
      /\ key < nextKey
      /\ \A v \in Workspaces, u \in Tiers : attempt[v][u].key = key => v = w /\ u = t
  <2>1. /\ Provisioning(c) /\ prov[c].bot \in HandsBots /\ prov[c].key \in Nat /\ prov[c].key # 0 /\ \A u \in Tiers : ~ Leased(c, u)
        /\ attempt[prov[c].w][prov[c].tier].state = "PENDING" /\ attempt[prov[c].w][prov[c].tier].key = prov[c].key
        /\ attempt[prov[c].w][prov[c].tier].client = c /\ prov[c].key < nextKey
        /\ \A v \in Workspaces, u \in Tiers : attempt[v][u].key = prov[c].key => v = prov[c].w /\ u = prov[c].tier
    BY <1>1, AskingFacts
  <2> QED
    BY <1>1, <1>2, <2>1
<1>4. /\ prov' = [prov EXCEPT ![c] = NoProv]
      /\ UNCHANGED <<active, rev, hands, sess, lease, isolate, activating, shutdown,
                     nextSid, drifted, released, handsFaults, changes>>
  BY DEF LeaseNotGranted
<1>5. CASE prov[c].answer # "lost"
  <2>1. UNCHANGED <<nextKey, issuedTo, attempt, rotated>>
    BY <1>5 DEF LeaseNotGranted
  <2> QED
    BY <1>4, <2>1, ProvisionOver DEF store, hands
<1>6. CASE prov[c].answer = "lost"
  <2>1. /\ nextKey <= MaxKeys /\ nextKey' = nextKey + 1 /\ issuedTo' = [issuedTo EXCEPT ![nextKey] = c]
        /\ attempt' = [attempt EXCEPT ![w][t].state = "PENDING", ![w][t].key = nextKey]
        /\ rotated' = rotated \cup {key}
    BY <1>2, <1>3, <1>6 DEF LeaseNotGranted
  <2>2. /\ nextKey \in Keys /\ nextKey \in 0 .. MaxKeys /\ nextKey \in Nat /\ nextKey # 0 /\ nextKey' \in 1 .. (MaxKeys + 1)
        /\ \A k \in Nat : k < nextKey => k < nextKey' /\ k # nextKey
        /\ nextKey < nextKey'
    <3>1. nextKey \in 1 .. (MaxKeys + 1) /\ MaxKeys \in Nat
      BY HandsAssumption DEF HandsInv, HandsTypes
    <3> QED
      BY <2>1, <3>1 DEF Keys
  <2>3. PICK a \in AttemptRecords : /\ attempt' = [attempt EXCEPT ![w][t] = a]
                                    /\ a.state = "PENDING" /\ a.rev = attempt[w][t].rev /\ a.key = nextKey /\ a.client = c
                                    /\ a.sid = attempt[w][t].sid
    <3> DEFINE b == [attempt[w][t] EXCEPT !.state = "PENDING", !.key = nextKey]
    <3>1. attempt \in [Workspaces -> [Tiers -> AttemptRecords]] /\ attempt[w][t] \in AttemptRecords
      BY DEF HandsInv, HandsTypes
    <3>2. /\ b \in AttemptRecords /\ b.state = "PENDING" /\ b.rev = attempt[w][t].rev /\ b.key = nextKey /\ b.client = c
          /\ b.sid = attempt[w][t].sid
      BY <1>3, <2>2, <3>1 DEF AttemptRecords
    <3>3. attempt' = [attempt EXCEPT ![w][t] = b]
      BY <2>1, <3>1
    <3> HIDE DEF b
    <3> QED
      BY <3>2, <3>3
  <2>4. /\ attempt' \in [Workspaces -> [Tiers -> AttemptRecords]] /\ attempt'[w][t] = a
        /\ \A v \in Workspaces, u \in Tiers : v # w \/ u # t => attempt'[v][u] = attempt[v][u]
    <3>1. attempt \in [Workspaces -> [Tiers -> AttemptRecords]]
      BY DEF HandsInv, HandsTypes
    <3> QED
      BY <2>3, <3>1
  <2>5. prov' \in [Clients -> ProvisionRecords] /\ prov'[c] = NoProv /\ \A d \in Clients : d # c => prov'[d] = prov[d]
    BY <1>4, NoProvFields, ProvisionUpdate
  <2>6. /\ issuedTo' \in [Keys -> Clients \cup {None}] /\ issuedTo'[nextKey] = c
        /\ \A k \in Keys : k # nextKey => issuedTo'[k] = issuedTo[k]
    BY <2>1, <2>2 DEF HandsInv, HandsTypes
  <2>7. HandsTypes'
    <3>1. \A k \in released' : k \in Keys /\ k < nextKey'
      BY <1>4, <2>2 DEF HandsInv, HandsTypes, Keys
    <3> QED
      BY <1>4, <2>2, <2>4, <2>5, <2>6, <3>1, SessionTyped DEF HandsInv, HandsTypes, hands
  <2>8. \A v \in Workspaces, u \in Tiers : attempt[v][u].key \in Nat /\ (attempt[v][u].key # 0 => attempt[v][u].key \in Keys /\ attempt[v][u].key < nextKey)
    <3>1. \A v \in Workspaces, u \in Tiers : attempt[v][u].key \in 0 .. MaxKeys /\ attempt[v][u].key \in Nat
      BY AttemptTyped
    <3> QED
      BY <3>1, HandsAssumption DEF HandsInv, AttemptOf, Keys
  <2>9. \A v \in Workspaces, u \in Tiers : attempt[v][u].key # nextKey
    BY <2>2, <2>8
  <2>10. KeysApart'
    BY <2>3, <2>4, <2>9 DEF HandsInv, KeysApart
  <2>11. RevisionsGrow
    BY <1>4, RevisionsStay DEF hands
  <2>12. ASSUME NEW v \in Workspaces, NEW u \in Tiers
         PROVE  AttemptOf(v, u)'
    <3>1. AttemptOf(v, u)
      BY DEF HandsInv
    <3>2. CASE v = w /\ u = t
      <4>1. nextKey \notin released
        BY <2>2 DEF HandsInv, HandsTypes
      <4> QED
        BY <1>4, <2>2, <2>3, <2>4, <2>6, <3>1, <3>2, <4>1 DEF AttemptOf
    <3>3. CASE v # w \/ u # t
      <4>1. attempt[v][u].key # 0 => attempt[v][u].key < nextKey' /\ issuedTo'[attempt[v][u].key] = issuedTo[attempt[v][u].key]
        BY <2>2, <2>6, <2>8
      <4> QED
        BY <1>4, <2>4, <3>1, <3>3, <4>1 DEF AttemptOf
    <3> QED
      BY <3>2, <3>3
  <2>13. OneTier'
    BY <1>4 DEF HandsInv, OneTier, Leased
  <2>14. ASSUME NEW d \in Clients, NEW u \in Tiers
         PROVE  LeaseOf(d, u)'
    <3>1. lease[d][u].key \notin released'
      <4>1. 0 \notin released
        BY DEF HandsInv, HandsTypes, Keys
      <4> QED
        BY <1>4, <4>1 DEF HandsInv, LeaseOf
    <3>2. KeyStays(lease[d][u].key)
      <4>1. SUFFICES ASSUME lease[d][u].key # 0, lease[d][u].key < nextKey
                     PROVE  KeyStays(lease[d][u].key)
        BY DEF KeyStays
      <4>2. lease[d][u].key \in Keys /\ lease[d][u].key \in Nat
        BY <4>1, LeaseTyped
      <4>3. lease[d][u].key < nextKey' /\ lease[d][u].key # nextKey /\ issuedTo'[lease[d][u].key] = issuedTo[lease[d][u].key]
        BY <2>2, <2>6, <4>1, <4>2
      <4>4. \A v \in Workspaces, x \in Tiers : attempt'[v][x].key = lease[d][u].key => attempt'[v][x] = attempt[v][x]
        BY <2>3, <2>4, <4>3
      <4> QED
        BY <4>3, <4>4 DEF KeyStays
    <3> QED
      BY <1>4, <2>11, <3>1, <3>2, LeaseKeeps
  <2>15. \A d \in Clients : d # c => UnresolvedOf(d)' /\ ProvisionOf(d)' /\ AnswerOf(d)'
    <3>1. \A d \in Clients : d # c /\ prov[d].stage \in Asking => prov[d].w # w \/ prov[d].tier # t
      BY <1>1, <1>2, AskingApart
    <3>2. attempt'[w][t].client = c
      BY <2>3, <2>4
    <3>3. \A d \in Clients : d # c => prov'[d] = prov[d] /\ \A u \in Tiers : lease'[d][u] = lease[d][u]
      BY <1>4, <2>5
    <3>4. UNCHANGED <<sess, nextSid, handsLate, remote, remoteRev, drifted>>
      BY <1>4 DEF hands
    <3>5. \A v \in Workspaces, u \in Tiers : v # w \/ u # t => attempt'[v][u] = attempt[v][u]
      BY <2>4
    <3> QED
      BY <2>11, <3>1, <3>2, <3>3, <3>4, <3>5, OthersKeep
  <2>16. UnresolvedOf(c)' /\ ProvisionOf(c)' /\ AnswerOf(c)'
    <3>1. ProvisionOf(c)' /\ AnswerOf(c)' /\ prov'[c].stage = "no"
      BY <2>5, NothingProvisioned
    <3>2. Unresolved(c)' \subseteq Unresolved(c)
      <4>1. ASSUME NEW x \in Workspaces \X Tiers,
                   attempt'[x[1]][x[2]].state = "PENDING" /\ attempt'[x[1]][x[2]].client = c /\ attempt'[x[1]][x[2]].sid = sess[c].id
            PROVE  x \in Unresolved(c)
        <5>1. /\ attempt[x[1]][x[2]].state = "PENDING" /\ attempt[x[1]][x[2]].client = c
              /\ attempt[x[1]][x[2]].sid = attempt'[x[1]][x[2]].sid
          <6>1. CASE x[1] = w /\ x[2] = t
            BY <1>3, <2>3, <2>4, <6>1
          <6>2. CASE x[1] # w \/ x[2] # t
            <7>1. attempt'[x[1]][x[2]] = attempt[x[1]][x[2]]
              BY <2>4, <6>2
            <7> QED
              BY <4>1, <7>1
          <6> QED
            BY <6>1, <6>2
        <5> QED
          BY <4>1, <5>1 DEF Unresolved
      <4> QED
        BY <1>4, <4>1 DEF Unresolved
    <3>3. nextSid' \in Nat /\ nextSid <= nextSid' /\ sess'[c].id = sess[c].id
      BY <1>4, SessionTyped
    <3> QED
      BY <3>1, <3>2, <3>3, UnresolvedKeeps
  <2>17. ASSUME NEW m \in handsLate
         PROVE  LateOf(m)'
    <3>1. LateOf(m) /\ m.w \in Workspaces /\ m.key \in Nat /\ m.key # 0
      BY LateTyped DEF HandsInv
    <3>2. m.key < nextKey' /\ m.key # nextKey
      BY <2>2, <3>1 DEF LateOf
    <3>3. CASE m.kind = "post" /\ m.key # key
      <4>1. \A v \in Workspaces, u \in Tiers : attempt[v][u].key = m.key \/ attempt'[v][u].key = m.key => attempt'[v][u] = attempt[v][u]
        BY <1>3, <2>3, <2>4, <3>2, <3>3
      <4>2. /\ m.rev <= remoteRev[m.w]
            /\ \A v \in Workspaces, u \in Tiers : attempt'[v][u].key = m.key => v = m.w
        BY <3>1, <3>3, <4>1 DEF LateOf
      <4>3. \/ m.key \in rotated' \/ m.rev < remoteRev[m.w]
            \/ \E u \in Tiers : /\ attempt'[m.w][u].key = m.key
                                /\ \/ attempt'[m.w][u].state = "PENDING"
                                   \/ attempt'[m.w][u].state = "READY" /\ m.rev <= attempt'[m.w][u].rev
        BY <2>1, <3>1, <3>3, <4>1 DEF LateOf
      <4>4. remoteRev' = remoteRev
        BY <1>4 DEF hands
      <4> QED
        BY <3>2, <4>2, <4>3, <4>4 DEF LateOf
    <3>4. CASE m.kind = "post" /\ m.key = key
      <4>1. \A v \in Workspaces, u \in Tiers : attempt'[v][u].key = m.key => attempt'[v][u] = attempt[v][u]
        BY <2>3, <2>4, <3>2
      <4>2. /\ m.rev <= remoteRev[m.w] /\ m.key \in rotated'
            /\ \A v \in Workspaces, u \in Tiers : attempt'[v][u].key = m.key => v = m.w
        <5>1. m.rev <= remoteRev[m.w] /\ \A v \in Workspaces, u \in Tiers : attempt[v][u].key = m.key => v = m.w
          BY <3>1, <3>4 DEF LateOf
        <5>2. m.key \in rotated'
          BY <2>1, <3>4
        <5>3. \A v \in Workspaces, u \in Tiers : attempt'[v][u].key = m.key => attempt[v][u].key = m.key
          BY <4>1
        <5> QED
          BY <5>1, <5>2, <5>3
      <4>3. remoteRev' = remoteRev
        BY <1>4 DEF hands
      <4> QED
        BY <3>2, <4>2, <4>3 DEF LateOf
    <3>5. CASE m.kind # "post"
      BY <3>2, <3>5 DEF LateOf
    <3> QED
      BY <3>3, <3>4, <3>5
  <2>18. ASSUME NEW v \in Workspaces
         PROVE  RemoteOf(v)'
    <3>1. RemoteOf(v) /\ remote[v].key \in Nat
      BY HandsTyped DEF HandsInv, RemoteRecords
    <3>2. remote[v].key < nextKey'
      BY <2>2, <3>1 DEF RemoteOf
    <3>3. ASSUME HandsLive(v), remote[v].key \notin drifted \cup rotated'
          PROVE  \E u \in Tiers : /\ attempt'[v][u].key = remote[v].key
                                  /\ \/ attempt'[v][u].state = "PENDING"
                                     \/ attempt'[v][u].state = "READY" /\ attempt'[v][u].rev = rev[v] /\ rev[v] = remoteRev[v]
      <4>1. PICK u \in Tiers : /\ attempt[v][u].key = remote[v].key
                               /\ \/ attempt[v][u].state = "PENDING"
                                  \/ attempt[v][u].state = "READY" /\ attempt[v][u].rev = rev[v] /\ rev[v] = remoteRev[v]
        BY <2>1, <3>1, <3>3 DEF RemoteOf
      <4>2. v # w \/ u # t
        BY <1>3, <2>1, <3>3, <4>1
      <4> QED
        BY <2>4, <4>1, <4>2
    <3> QED
      BY <1>4, <3>1, <3>2, <3>3 DEF RemoteOf, HandsLive, hands
  <2>19. \A d \in Clients : UnresolvedOf(d)' /\ ProvisionOf(d)' /\ AnswerOf(d)'
    BY <2>15, <2>16
  <2>20. \A m \in handsLate' : LateOf(m)'
    BY <1>4, <2>17 DEF hands
  <2> QED
    BY <2>7, <2>10, <2>12, <2>13, <2>14, <2>18, <2>19, <2>20 DEF HandsInv
<1> QED
  BY <1>5, <1>6

-----------------------------------------------------------------------------
(* The process, and the theorem *)

\* Nothing of a broker's memory is there when it starts.
LEMMA NothingThere ==
    /\ \E no \in BOOLEAN : ~ no /\ NoLease = [w |-> None, key |-> 0, ready |-> no, close |-> "no", rev |-> 0]
    /\ NoLease \in LeaseRecords /\ NoLease.key = 0 /\ NoLease.close = "no" /\ ~ NoLease.ready
    /\ NoSession \in SessionRecords /\ NoSession.id = 0
    /\ [on |-> FALSE, rev |-> 0] \in [on : BOOLEAN, rev : Nat]
<1>1. PICK no \in BOOLEAN : ~ no /\ NoLease = [w |-> None, key |-> 0, ready |-> no, close |-> "no", rev |-> 0]
  BY Zenon DEF NoLease
<1>2. NoLease \in LeaseRecords /\ NoLease.key = 0 /\ NoLease.close = "no" /\ ~ NoLease.ready
  BY <1>1, HandsAssumption DEF LeaseRecords
<1>3. PICK x, y \in BOOLEAN : NoSession = [id |-> 0, attached |-> x, timer |-> y, stopping |-> "no"]
  BY Zenon DEF NoSession
<1>4. NoSession \in SessionRecords /\ NoSession.id = 0
  BY <1>3 DEF SessionRecords
<1>5. PICK z \in BOOLEAN : [on |-> FALSE, rev |-> 0] = [on |-> z, rev |-> 0]
  BY Zenon
<1>6. [on |-> z, rev |-> 0] \in [on : BOOLEAN, rev : Nat]
  OBVIOUS
<1> QED
  BY <1>1, <1>2, <1>4, <1>5, <1>6, Zenon

\* A request that is on its way when the process ends is of the attempt that
\* waits, or of a lease.
LEMMA InFlightIsLate ==
    ASSUME HandsInv, NEW m \in HandsInFlight, UNCHANGED <<store, remoteRev, nextKey, issuedTo, rotated>>
    PROVE  m \in LateRequests /\ LateOf(m)'
<1>1. CASE \E c \in Clients : prov[c].stage = "post" /\ m = PostOf(c)
  <2>1. PICK c \in Clients : prov[c].stage = "post" /\ m = PostOf(c)
    BY <1>1
  <2>2. prov[c].stage \in Asking /\ m.kind = "post" /\ m.w = prov[c].w /\ m.key = prov[c].key /\ m.rev = prov[c].rev
    BY <2>1 DEF PostOf, Asking
  <2>3. m \in LateRequests
    BY <2>1, <2>2, AskingFacts, ProvisionTyped DEF PostOf, LateRequests
  <2>4. /\ m.key < nextKey /\ m.rev <= remoteRev[m.w] /\ prov[c].tier \in Tiers
        /\ \A v \in Workspaces, u \in Tiers : attempt[v][u].key = m.key => v = m.w
        /\ attempt[m.w][prov[c].tier].key = m.key /\ attempt[m.w][prov[c].tier].state = "PENDING"
    BY <2>1, <2>2, AskingFacts
  <2> QED
    BY <2>3, <2>4 DEF LateOf, store
<1>2. CASE \E c \in Clients, t \in Tiers : lease[c][t].close = "sent" /\ m = DeleteOf(c, t)
  <2>1. PICK c \in Clients, t \in Tiers : lease[c][t].close = "sent" /\ m = DeleteOf(c, t)
    BY <1>2
  <2>2. LeaseOf(c, t) /\ lease[c][t].key # 0
    BY <2>1 DEF HandsInv, LeaseOf
  <2>3. m \in LateRequests
    BY <2>1, <2>2, LeaseTyped DEF DeleteOf, LateRequests, LeaseOf
  <2>4. m.kind = "delete" /\ m.key = lease[c][t].key
    BY <2>1 DEF DeleteOf
  <2> QED
    BY <2>2, <2>3, <2>4 DEF LateOf, LeaseOf
<1>3. \/ \E c \in Clients : prov[c].stage = "post" /\ m = PostOf(c)
      \/ \E c \in Clients, t \in Tiers : lease[c][t].close = "sent" /\ m = DeleteOf(c, t)
  BY DEF HandsInFlight
<1> QED
  BY <1>1, <1>2, <1>3

LEMMA HandsRestartStep ==
    ASSUME HandsInv, HandsRestart
    PROVE  HandsInv'
<1>1. /\ sess' = [c \in Clients |-> NoSession] /\ lease' = [c \in Clients |-> [t \in Tiers |-> NoLease]]
      /\ prov' = [c \in Clients |-> NoProv]
      /\ activating' = [b \in HandsBots |-> None] /\ shutdown' = "no"
      /\ UNCHANGED <<store, remote, remoteRev, nextKey, nextSid, issuedTo, drifted, rotated, released, changes>>
  BY DEF HandsRestart
<1>2. \A m \in handsLate' : m \in handsLate \/ m \in HandsInFlight
  BY DEF HandsRestart
<1>3. isolate' \in [Workspaces -> [on : BOOLEAN, rev : Nat]]
  <2>1. PICK x \in BOOLEAN : isolate' = [w \in Workspaces |-> [on |-> x, rev |-> 0]]
    BY Zenon DEF HandsRestart
  <2> QED
    BY <2>1
<1>4. /\ sess' \in [Clients -> SessionRecords] /\ lease' \in [Clients -> [Tiers -> LeaseRecords]]
      /\ prov' \in [Clients -> ProvisionRecords]
      /\ \A c \in Clients : sess'[c].id = 0 /\ prov'[c] = NoProv
      /\ \A c \in Clients, t \in Tiers : lease'[c][t].key = 0 /\ lease'[c][t].close = "no" /\ ~ lease'[c][t].ready
  BY <1>1, NothingThere, NoProvFields
<1>5. \A m \in HandsInFlight : m \in LateRequests /\ LateOf(m)'
  BY <1>1, InFlightIsLate
<1>6. handsLate' \subseteq LateRequests
  BY <1>2, <1>5 DEF HandsInv, HandsTypes
<1>7. HandsTypes'
  BY <1>1, <1>3, <1>4, <1>6 DEF HandsInv, HandsTypes, store
<1>8. SameAttempts /\ SetApartGrow /\ RevisionsGrow /\ \A w \in Workspaces : rev'[w] <= remoteRev[w]
  BY <1>1, RevisionsStay, RevisionTyped DEF SameAttempts, SetApartGrow, store
<1>9. /\ KeysApart' /\ \A w \in Workspaces, t \in Tiers : AttemptOf(w, t)'
  BY <1>1, <1>8, RowsKeep
<1>10. (\A w \in Workspaces : RemoteOf(w)') /\ \A m \in handsLate : LateOf(m)'
  BY <1>1, <1>8, RowsKeep
<1>11. OneTier' /\ \A c \in Clients, t \in Tiers : LeaseOf(c, t)'
  BY <1>4 DEF OneTier, LeaseOf, Leased
<1>12. ASSUME NEW c \in Clients
       PROVE  UnresolvedOf(c)' /\ ProvisionOf(c)' /\ AnswerOf(c)'
  <2>1. ProvisionOf(c)' /\ AnswerOf(c)' /\ prov'[c].stage = "no"
    BY <1>4, NothingProvisioned
  <2>2. 0 < nextSid
    BY SessionTyped
  <2> QED
    BY <1>1, <1>4, <2>1, <2>2 DEF UnresolvedOf, Open, Provisioning
<1>13. ASSUME NEW m \in handsLate'
       PROVE  LateOf(m)'
  <2>1. CASE m \in handsLate
    BY <1>10, <2>1
  <2>2. CASE m \in HandsInFlight
    BY <1>5, <2>2
  <2> QED
    BY <1>2, <2>1, <2>2
<1> QED
  BY <1>7, <1>9, <1>10, <1>11, <1>12, <1>13 DEF HandsInv

LEMMA HandsInitially ==
    ASSUME HandsInit
    PROVE  HandsInv
<1>1. /\ active = FirstActive /\ rev = [w \in Workspaces |-> 0]
      /\ attempt = [w \in Workspaces |-> [t \in Tiers |-> NoAttempt]]
      /\ remoteRev = [w \in Workspaces |-> 0] /\ handsLate = {}
      /\ sess = [c \in Clients |-> NoSession] /\ lease = [c \in Clients |-> [t \in Tiers |-> NoLease]]
      /\ prov = [c \in Clients |-> NoProv]
      /\ activating = [b \in HandsBots |-> None] /\ shutdown = "no" /\ nextKey = 1 /\ nextSid = 1
      /\ issuedTo = [k \in Keys |-> None] /\ drifted = {} /\ rotated = {} /\ released = {}
  BY DEF HandsInit
<1>2. PICK x \in BOOLEAN : isolate = [w \in Workspaces |-> [on |-> x, rev |-> 0]]
  BY Zenon DEF HandsInit
<1>3. PICK y \in BOOLEAN : remote = [w \in Workspaces |-> [key |-> 0, lost |-> y]]
  BY Zenon DEF HandsInit, NoLeaseAtAll
<1>4. NoAttempt \in AttemptRecords /\ NoAttempt.key = 0 /\ NoAttempt.state = "NONE" /\ NoAttempt.rev = 0 /\ NoAttempt.sid = 0
  BY HandsAssumption DEF NoAttempt, AttemptRecords
<1>5. /\ attempt \in [Workspaces -> [Tiers -> AttemptRecords]]
      /\ \A w \in Workspaces, t \in Tiers : attempt[w][t] = NoAttempt
  BY <1>1, <1>4
<1>6. /\ remote \in [Workspaces -> RemoteRecords] /\ \A w \in Workspaces : remote[w].key = 0
  BY <1>3, HandsAssumption DEF RemoteRecords
<1>7. /\ sess \in [Clients -> SessionRecords] /\ lease \in [Clients -> [Tiers -> LeaseRecords]]
      /\ prov \in [Clients -> ProvisionRecords]
      /\ \A c \in Clients : sess[c].id = 0 /\ prov[c] = NoProv
      /\ \A c \in Clients, t \in Tiers : lease[c][t].key = 0 /\ lease[c][t].close = "no" /\ ~ lease[c][t].ready
  BY <1>1, NothingThere, NoProvFields
<1>8. isolate \in [Workspaces -> [on : BOOLEAN, rev : Nat]] /\ rev \in [Workspaces -> Nat] /\ remoteRev \in [Workspaces -> Nat]
  BY <1>1, <1>2
<1>9. active \in [HandsBots -> Workspaces] /\ activating \in [HandsBots -> Workspaces \cup {None}] /\ issuedTo \in [Keys -> Clients \cup {None}]
  BY <1>1, HandsAssumption
<1>10. nextKey \in 1 .. (MaxKeys + 1) /\ nextSid \in Nat \ {0}
  BY <1>1, HandsAssumption
<1>11. HandsTypes
  BY <1>1, <1>5, <1>6, <1>7, <1>8, <1>9, <1>10 DEF HandsTypes
<1>12. KeysApart /\ OneTier
  BY <1>4, <1>5, <1>7 DEF KeysApart, OneTier, Leased
<1>13. \A w \in Workspaces, t \in Tiers : AttemptOf(w, t)
  BY <1>1, <1>4, <1>5 DEF AttemptOf
<1>14. \A c \in Clients : UnresolvedOf(c) /\ ProvisionOf(c) /\ AnswerOf(c)
  BY <1>1, <1>7, NoProvFields DEF UnresolvedOf, ProvisionOf, AnswerOf, Open, Provisioning, Asking
<1>15. \A c \in Clients, t \in Tiers : LeaseOf(c, t)
  BY <1>7 DEF LeaseOf
<1>16. \A w \in Workspaces : RemoteOf(w)
  BY <1>1, <1>6 DEF RemoteOf, HandsLive
<1> QED
  BY <1>1, <1>11, <1>12, <1>13, <1>14, <1>15, <1>16 DEF HandsInv

\* Stuttering.
LEMMA HandsStutter ==
    ASSUME HandsInv, UNCHANGED handsVars
    PROVE  HandsInv'
<1>1. UNCHANGED <<rev, attempt, remote, remoteRev, handsLate, lease, prov, nextKey, nextSid, issuedTo, drifted, rotated, released>>
      /\ UNCHANGED <<sess, active, isolate, activating, shutdown>>
  BY DEF handsVars, store, hands, broker, ghosts
<1>2. \A d \in Clients : sess'[d].id = sess[d].id /\ (Provisioning(d) => sess'[d].stopping # "leases")
  BY <1>1, ProvisionFacts
<1> QED
  BY <1>1, <1>2, SessionTyped, SessionFlags

\* What is kept shows what is promised.
LEMMA HandsPromises ==
    ASSUME HandsInv
    PROVE  HandsSafe
<1>1. HandsTypeOK
  BY DEF HandsInv, HandsTypes, HandsTypeOK, AttemptRecords, RemoteRecords, SessionRecords, LeaseRecords, ProvisionRecords
<1>2. RetryIdentity
  <2>1. ASSUME NEW w \in Workspaces, HandsLive(w), remote[w].key \notin drifted \cup rotated
        PROVE  Recoverable(w)
    BY <2>1 DEF HandsInv, RemoteOf, Recoverable, ReusedKey
  <2> QED
    BY <2>1 DEF RetryIdentity
<1>3. LeaseOfOwnClient
  BY DEF HandsInv, LeaseOf, LeaseOfOwnClient, Leased
<1>4. ReleasedKeyRetired
  <2>1. 0 \notin released
    BY DEF HandsInv, HandsTypes, Keys
  <2>2. \A c \in Clients, t \in Tiers : lease[c][t].key \notin released
    BY <2>1 DEF HandsInv, LeaseOf
  <2>3. ASSUME NEW c \in Clients
        PROVE  prov[c].key \notin released
    <3>1. CASE prov[c].stage \in Asking
      BY <3>1, AskingFacts
    <3>2. CASE prov[c].stage \in {"no", "replace", "workspace"}
      BY <2>1, <3>2 DEF HandsInv, ProvisionOf
    <3>3. CASE prov[c].stage = "undo"
      BY <2>2, <3>3 DEF HandsInv, ProvisionOf, Provisioning
    <3> QED
      BY <3>1, <3>2, <3>3, ProvisionTyped DEF Asking
  <2> QED
    BY <2>2, <2>3 DEF ReleasedKeyRetired
<1>5. OneUnresolved
  <2>1. ASSUME NEW c \in Clients, Open(c)
        PROVE  Cardinality(Unresolved(c)) <= 1
    <3>1. \A x, y \in Unresolved(c) : x = y
      BY <2>1 DEF HandsInv, UnresolvedOf
    <3>2. CASE Unresolved(c) = {}
      BY <3>2, FS_EmptySet
    <3>3. CASE Unresolved(c) # {}
      <4>1. PICK x : Unresolved(c) = {x}
        BY <3>1, <3>3
      <4> QED
        BY <4>1, FS_Singleton
    <3> QED
      BY <3>2, <3>3
  <2> QED
    BY <2>1 DEF OneUnresolved
<1> QED
  BY <1>1, <1>2, <1>3, <1>4, <1>5 DEF HandsSafe

\* Whatever answers are lost and whenever the broker restarts, a lease that lives
\* at the service can be had again under its key, by its own client only, and a
\* key whose release was confirmed is never used again (RuntimeBroker,
\* reserveLeaseAttempt, completeLeaseAttempt and rotateLeaseAttempt).
THEOREM HandsIsSafe == HandsSpec => []HandsSafe
<1>1. HandsInit => HandsInv
  BY HandsInitially
<1>2. HandsInv /\ [HandsNext]_handsVars => HandsInv'
  <2> SUFFICES ASSUME HandsInv, [HandsNext]_handsVars
               PROVE  HandsInv'
    OBVIOUS
  <2>1. ASSUME NEW c \in Clients,
               \/ Start(c) \/ Detach(c) \/ GraceEnds(c) \/ StopAsked(c) \/ StopSession(c) \/ SessionStopped(c)
        PROVE  HandsInv'
    BY <2>1, StartStep, SessionSteps, SessionStoppedStep
  <2>2. ASSUME NEW c \in Clients,
               \/ Replace(c) \/ Acquire(c) \/ PutWorkspace(c) \/ HandsLease(c)
               \/ LeaseGranted(c) \/ LeaseNotGranted(c) \/ ProvisionFails(c)
        PROVE  HandsInv'
    BY <2>2, ReplaceStep, AcquireStep, PutWorkspaceStep, HandsLeaseStep, LeaseGrantedStep, LeaseNotGrantedStep, ProvisionFailsStep
  <2>3. ASSUME NEW c \in Clients, NEW t \in Tiers,
               \/ StopTier(c, t) \/ HandsRelease(c, t) \/ LeaseReleased(c, t)
               \/ ReleaseFails(c, t) \/ WriteWorkspaceFile(c, t)
               \/ \E b \in HandsBots : Ensure(c, t, b)
        PROVE  HandsInv'
    BY <2>3, StopTierStep, HandsReleaseStep, LeaseReleasedStep, ReleaseFailsStep, WriteWorkspaceFileStep, EnsureStep
  <2>4. ASSUME NEW w \in Workspaces, HandsLoses(w) \/ IsolateBegins(w) \/ IsolateEnds(w)
        PROVE  HandsInv'
    BY <2>4, HandsLosesStep, OtherSteps, IsolateEndsStep
  <2>5. ASSUME NEW b \in HandsBots, ActivateEnds(b) \/ \E w \in Workspaces : ActivateBegins(b, w)
        PROVE  HandsInv'
    BY <2>5, OtherSteps
  <2>6. ASSUME NEW m \in handsLate, LateArrives(m)
        PROVE  HandsInv'
    BY <2>6, LateArrivesStep
  <2>7. CASE Close \/ CloseStops \/ HandsRestart
    BY <2>7, OtherSteps, CloseStopsStep, HandsRestartStep
  <2>8. CASE UNCHANGED handsVars
    BY <2>8, HandsStutter
  <2> QED
    BY <2>1, <2>2, <2>3, <2>4, <2>5, <2>6, <2>7, <2>8 DEF HandsNext
<1>3. HandsInv => HandsSafe
  BY HandsPromises
<1> QED
  BY <1>1, <1>2, <1>3, PTL DEF HandsSpec

-----------------------------------------------------------------------------
(* The settlement of budgets *)

\* Whoever settles an amount, reports it or is recorded has been tried.
SettlersTried ==
    \A a \in Attempts : pc[a] = "new" => a \notin queue \cup handler \cup late /\ deliveries[a] = {}

\* Requests are of the past, finitely many of them, and a correlation without a
\* request has settled nothing.
SettlementPast ==
    /\ IsFiniteSet({a \in Attempts : pc[a] # "new"})
    /\ \A a \in Attempts : now[a] <= clock
    /\ \A c \in SettlementCorrelations : settlement[c] # 0 => Tried(c) # {}

\* No retry of a correlation falls into another window.
OneWindow == \A c \in SettlementCorrelations : \A a, b \in Tried(c) : WindowOf(a) = WindowOf(b)

\* The counter of a window that is not over does not expire before it is, and
\* counts what was settled.
CounterOf(b) ==
    /\ cost[b].exp = 0 => cost[b].n = 0
    /\ cost[b].exp # 0 => (b + 1) * Window <= cost[b].exp
    /\ OneWindow /\ Bucket(clock) <= b => cost[b].n = Cardinality(SettledMicros(b))
CountersKept == \A b \in Buckets : CounterOf(b)

\* A charge whose amount was not settled yet still has its report in the outbox.
ChargeOf(c) ==
    ledger[c] # SettlementNone =>
        (\E a \in Tried(c) : a \in queue) \/ (\E a \in Tried(c) : settlement[c] = Micros[a])
ChargesKept == \A c \in SettlementCorrelations : ChargeOf(c)

SettlementInv ==
    SettlementTypeOK /\ SettlersTried /\ SettlementPast /\ CountersKept /\ ChargesKept

-----------------------------------------------------------------------------
(* Windows *)

LEMMA BucketsOrdered ==
    ASSUME NEW t \in Nat, NEW u \in Nat, t <= u
    PROVE  /\ Bucket(t) \in Nat /\ Bucket(u) \in Nat /\ Bucket(t) <= Bucket(u)
           /\ Bucket(t) * Window <= t /\ t < (Bucket(t) + 1) * Window
  BY SettlementAssumption DEF Bucket

LEMMA BucketsInside ==
    ASSUME NEW t \in 0..MaxClock
    PROVE  Bucket(t) \in Buckets
  BY SettlementAssumption, BucketsOrdered DEF Buckets

-----------------------------------------------------------------------------
(* The micros of a window *)

\* The values that a function has on a finite set are finitely many.
LEMMA ValuesFinite ==
    ASSUME NEW S, IsFiniteSet(S), NEW f
    PROVE  IsFiniteSet({f[x] : x \in S})
<1>1. [x \in S |-> f[x]] \in Surjection(S, {f[x] : x \in S})
  BY DEF Surjection
<1> QED
  BY <1>1, FS_Surjection

LEMMA MicrosCount ==
    ASSUME NEW c, NEW n \in Nat
    PROVE  IsFiniteSet({c} \X (1..n)) /\ Cardinality({c} \X (1..n)) = n
<1>1. IsFiniteSet({c}) /\ Cardinality({c}) = 1
  BY FS_Singleton
<1>2. IsFiniteSet(1..n) /\ Cardinality(1..n) = n
  <2>1. 1 \in Int /\ n \in Int
    OBVIOUS
  <2> QED
    BY <2>1, FS_Interval
<1>3. /\ IsFiniteSet({c} \X (1..n))
      /\ Cardinality({c} \X (1..n)) = Cardinality({c}) * Cardinality(1..n)
  BY <1>1, <1>2, FS_Product
<1> QED
  BY <1>1, <1>2, <1>3

LEMMA SettledFinite ==
    ASSUME SettlementInv, NEW b
    PROVE  IsFiniteSet(Settled(b)) /\ IsFiniteSet(SettledMicros(b))
<1> DEFINE T == {a \in Attempts : pc[a] # "new"}
           F == {Corr[a] : a \in T}
<1>1. IsFiniteSet(T)
  BY DEF SettlementInv, SettlementPast
<1>2. IsFiniteSet(F)
  <2> HIDE DEF T
  <2> QED
    BY <1>1, ValuesFinite
<1>3. Settled(b) \subseteq F
  BY DEF Settled, Tried
<1>4. IsFiniteSet(Settled(b))
  BY <1>2, <1>3, FS_Subset
<1> DEFINE G == {{c} \X (1..settlement[c]) : c \in Settled(b)}
           g == [c \in Settled(b) |-> {c} \X (1..settlement[c])]
<1>5. IsFiniteSet(G)
  <2>1. G = {g[c] : c \in Settled(b)}
    OBVIOUS
  <2> HIDE DEF g, G
  <2> QED
    BY <1>4, <2>1, ValuesFinite
<1>6. ASSUME NEW c \in Settled(b)
      PROVE  IsFiniteSet({c} \X (1..settlement[c]))
  <2>1. settlement[c] \in Nat
    BY DEF Settled, SettlementInv, SettlementTypeOK
  <2> QED
    BY <2>1, MicrosCount
<1>7. IsFiniteSet(UNION G)
  BY <1>5, <1>6, FS_UNION
<1> QED
  BY <1>4, <1>7 DEF SettledMicros

\* A correlation of the window settles another amount.
MicrosOf(c, n) == {c} \X (1..n)
NoMicrosOf(c, R) == \A x \in R : x[1] # c

LEMMA MicrosChange ==
    ASSUME NEW R, NEW c, NEW m \in Nat, NEW n \in Nat, IsFiniteSet(R), NoMicrosOf(c, R)
    PROVE  Cardinality(R \cup MicrosOf(c, n)) = Cardinality(R \cup MicrosOf(c, m)) + (n - m)
<1>1. /\ IsFiniteSet(MicrosOf(c, m)) /\ Cardinality(MicrosOf(c, m)) = m
      /\ IsFiniteSet(MicrosOf(c, n)) /\ Cardinality(MicrosOf(c, n)) = n
  BY MicrosCount DEF MicrosOf
<1>2. R \cap MicrosOf(c, m) = {} /\ R \cap MicrosOf(c, n) = {}
  BY DEF MicrosOf, NoMicrosOf
<1>3. Cardinality(R \cup MicrosOf(c, m)) = Cardinality(R) + m - Cardinality({})
  BY <1>1, <1>2, FS_Union
<1>4. Cardinality(R \cup MicrosOf(c, n)) = Cardinality(R) + n - Cardinality({})
  BY <1>1, <1>2, FS_Union
<1>5. Cardinality(R) \in Nat /\ Cardinality({}) = 0
  BY FS_CardinalityType, FS_EmptySet
<1> QED
  BY <1>3, <1>4, <1>5

-----------------------------------------------------------------------------
(* The steps *)

\* What settles leaves everything but the store alone, and settles an attempt
\* that was tried.
LEMMA SettleCounters ==
    ASSUME SettlementInv, NEW a \in Attempts, pc[a] # "new", Settle(a),
           UNCHANGED <<clock, now>>, \A b \in Attempts : pc'[b] = "new" <=> pc[b] = "new"
    PROVE  /\ CountersKept' /\ settlement' \in [SettlementCorrelations -> Nat]
           /\ cost' \in [Buckets -> [n : Int, exp : Nat]]
           /\ settlement'[Corr[a]] = Micros[a] /\ \A c \in SettlementCorrelations : c # Corr[a] => settlement'[c] = settlement[c]
<1> DEFINE k == Corr[a]
           w == WindowOf(a)
           delta == Micros[a] - settlement[k]
<1>1. /\ clock \in 0..MaxClock /\ now \in [Attempts -> 0..MaxClock] /\ MaxClock \in Nat
      /\ settlement \in [SettlementCorrelations -> Nat] /\ cost \in [Buckets -> [n : Int, exp : Nat]]
      /\ k \in SettlementCorrelations /\ Micros[a] \in Nat /\ Window \in Nat \ {0}
  BY SettlementAssumption DEF SettlementInv, SettlementTypeOK
<1>2. w \in Buckets /\ w \in Nat /\ w <= Bucket(clock) /\ w * Window <= clock /\ Bucket(clock) \in Nat
  <2>1. now[a] \in Nat /\ clock \in Nat /\ now[a] <= clock
    BY <1>1 DEF SettlementInv, SettlementPast
  <2>2. Bucket(now[a]) * Window <= now[a] /\ Bucket(now[a]) <= Bucket(clock) /\ Bucket(now[a]) \in Nat /\ Bucket(clock) \in Nat
    BY <2>1, BucketsOrdered
  <2>3. Bucket(now[a]) * Window \in Nat
    BY <1>1, <2>2
  <2>4. Bucket(now[a]) \in Buckets
    BY <1>1, BucketsInside
  <2> QED
    BY <2>1, <2>2, <2>3, <2>4 DEF WindowOf
<1>3. /\ settlement' = [settlement EXCEPT ![k] = Micros[a]]
      /\ cost' = [cost EXCEPT ![w] = IF delta = 0 /\ cost[w] = Absent THEN cost[w]
                                     ELSE [n |-> cost[w].n + delta, exp |-> clock + Window]]
  BY DEF Settle
<1>4. delta \in Int /\ clock + Window \in Nat /\ clock + Window # 0
  BY <1>1
<1>5. cost[w] \in [n : Int, exp : Nat] /\ cost[w].n \in Int
  BY <1>1, <1>2
<1>6. [n |-> cost[w].n + delta, exp |-> clock + Window] \in [n : Int, exp : Nat]
  BY <1>4, <1>5
<1>7. /\ settlement' \in [SettlementCorrelations -> Nat] /\ settlement'[k] = Micros[a]
      /\ \A c \in SettlementCorrelations : c # k => settlement'[c] = settlement[c]
  BY <1>1, <1>3
<1>8. /\ cost' \in [Buckets -> [n : Int, exp : Nat]]
      /\ \A b \in Buckets : b # w => cost'[b] = cost[b]
      /\ \/ delta = 0 /\ cost[w] = Absent /\ cost'[w] = cost[w]
         \/ cost'[w].n = cost[w].n + delta /\ cost'[w].exp = clock + Window
  BY <1>1, <1>2, <1>3, <1>5, <1>6
<1>9. /\ \A c : Tried(c)' = Tried(c) /\ \A b : WindowOf(b)' = WindowOf(b)
      /\ OneWindow' <=> OneWindow
  BY DEF Tried, WindowOf, Bucket, OneWindow
<1>10. \A b : Settled(b)' = Settled(b)
  BY <1>9 DEF Settled
<1>11. a \in Tried(k)
  BY DEF Tried
<1> HIDE DEF k, w, delta
<1>12. ASSUME NEW b \in Buckets
       PROVE  CounterOf(b)'
  <2>1. CounterOf(b) /\ b \in Nat
    BY DEF SettlementInv, CountersKept, Buckets
  <2>2. CASE b # w
    <3>1. cost'[b] = cost[b]
      BY <1>8, <2>2
    <3>2. OneWindow => k \notin Settled(b)
      BY <1>11, <2>2 DEF OneWindow, Settled, w, Tried
    <3>3. OneWindow => SettledMicros(b)' = SettledMicros(b)
      BY <1>7, <1>10, <3>2 DEF SettledMicros, Settled
    <3> QED
      BY <1>9, <2>1, <3>1, <3>3 DEF CounterOf, Bucket
  <2>3. CASE b = w
    <3>1. k \in Settled(b)
      BY <1>1, <1>11, <2>3 DEF Settled, w
    <3> DEFINE R == UNION {{c} \X (1..settlement[c]) : c \in Settled(b) \ {k}}
    <3>2. SettledMicros(b) = R \cup ({k} \X (1..settlement[k]))
      BY <3>1 DEF SettledMicros
    <3>3. SettledMicros(b)' = R \cup ({k} \X (1..Micros[a]))
      <4>1. \A c \in Settled(b) \ {k} : settlement'[c] = settlement[c]
        BY <1>7 DEF Settled
      <4>2. SettledMicros(b)' = UNION {{c} \X (1..settlement'[c]) : c \in Settled(b)}
        BY <1>10 DEF SettledMicros
      <4> QED
        BY <1>7, <3>1, <4>1, <4>2
    <3>4. NoMicrosOf(k, R)
      BY DEF NoMicrosOf
    <3>5. IsFiniteSet(R)
      <4>1. R \subseteq SettledMicros(b)
        BY <3>2
      <4> QED
        BY <4>1, SettledFinite, FS_Subset
    <3> HIDE DEF R
    <3>6. settlement[k] \in Nat
      BY <1>1
    <3>7. Cardinality(SettledMicros(b)') = Cardinality(SettledMicros(b)) + delta
      <4>1. Cardinality(SettledMicros(b)') = Cardinality(SettledMicros(b)) + (Micros[a] - settlement[k])
        <5>1. Micros[a] \in Nat
          BY <1>1
        <5>2. Cardinality(R \cup MicrosOf(k, Micros[a]))
                  = Cardinality(R \cup MicrosOf(k, settlement[k])) + (Micros[a] - settlement[k])
          BY <3>4, <3>5, <3>6, <5>1, MicrosChange
        <5>3. SettledMicros(b) = R \cup MicrosOf(k, settlement[k]) /\ SettledMicros(b)' = R \cup MicrosOf(k, Micros[a])
          BY <3>2, <3>3 DEF MicrosOf
        <5> QED
          BY <5>2, <5>3, Zenon
      <4> QED
        BY <4>1 DEF delta
    <3>8. cost'[b].exp = 0 => cost'[b].n = 0
      BY <1>4, <1>8, <2>1, <2>3 DEF CounterOf
    <3>9. cost'[b].exp # 0 => (b + 1) * Window <= cost'[b].exp
      <4>1. (b + 1) * Window = b * Window + Window /\ b * Window \in Nat
        BY <1>1, <2>1
      <4>2. (b + 1) * Window <= clock + Window
        BY <1>1, <1>2, <2>3, <4>1
      <4> QED
        BY <1>8, <2>1, <2>3, <4>2 DEF CounterOf
    <3>10. cost'[b].n = cost[b].n + delta
      <4>1. cost[w] = Absent /\ delta = 0 => cost[w].n = cost[w].n + delta
        BY <1>4, <1>5
      <4> QED
        BY <1>8, <2>3, <4>1
    <3> QED
      BY <1>9, <2>1, <3>7, <3>8, <3>9, <3>10 DEF CounterOf, Bucket
  <2> QED
    BY <2>2, <2>3
<1> QED
  BY <1>7, <1>8, <1>12 DEF CountersKept, Buckets, Bucket, k

\* A step that begins nothing: the store is as it was, or an amount that was
\* tried is settled.
StoreStays(a) ==
    /\ pc[a] # "new" /\ UNCHANGED <<clock, now>> /\ (Settle(a) \/ UNCHANGED storeVars)
    /\ \A b \in Attempts : pc'[b] = "new" <=> pc[b] = "new"

LEMMA StaysKept ==
    ASSUME SettlementInv, NEW a \in Attempts, StoreStays(a)
    PROVE  /\ CountersKept' /\ SettlementPast' /\ \A c : Tried(c)' = Tried(c)
           /\ settlement' \in [SettlementCorrelations -> Nat] /\ cost' \in [Buckets -> [n : Int, exp : Nat]]
           /\ \A c \in SettlementCorrelations :
                 settlement'[c] = settlement[c] \/ \E x \in Tried(c) : settlement'[c] = Micros[x]
           /\ Settle(a) => settlement'[Corr[a]] = Micros[a] /\ a \in Tried(Corr[a])
<1>1. \A c : Tried(c)' = Tried(c)
  BY DEF Tried, StoreStays
<1>2. a \in Tried(Corr[a]) /\ Corr[a] \in SettlementCorrelations
  BY SettlementAssumption DEF Tried, StoreStays
<1>3. {b \in Attempts : pc'[b] # "new"} = {b \in Attempts : pc[b] # "new"}
  BY DEF StoreStays
<1>4. CASE UNCHANGED storeVars
  <2>1. settlement' = settlement /\ cost' = cost /\ clock' = clock /\ now' = now
    BY <1>4 DEF storeVars, StoreStays
  <2>2. /\ \A b : WindowOf(b)' = WindowOf(b)
        /\ OneWindow' <=> OneWindow
    BY <1>1, <2>1 DEF WindowOf, Bucket, OneWindow
  <2>3. \A b : SettledMicros(b)' = SettledMicros(b)
    <3>1. \A b : Settled(b)' = Settled(b)
      BY <1>1, <2>2 DEF Settled
    <3> QED
      BY <2>1, <3>1 DEF SettledMicros
  <2>4. CountersKept'
    <3> SUFFICES ASSUME NEW b \in Buckets
                 PROVE  CounterOf(b)'
      BY DEF CountersKept, Buckets, Bucket
    <3>1. CounterOf(b)
      BY DEF SettlementInv, CountersKept
    <3> QED
      BY <2>1, <2>2, <2>3, <3>1 DEF CounterOf, Bucket
  <2>5. SettlementPast'
    BY <1>1, <1>3, <2>1 DEF SettlementInv, SettlementPast
  <2>6. Settle(a) => settlement'[Corr[a]] = Micros[a]
    BY <1>2 DEF Settle, SettlementInv, SettlementTypeOK
  <2> QED
    BY <1>1, <1>2, <2>1, <2>4, <2>5, <2>6 DEF SettlementInv, SettlementTypeOK
<1>5. CASE Settle(a)
  <2>1. /\ CountersKept' /\ settlement' \in [SettlementCorrelations -> Nat]
        /\ cost' \in [Buckets -> [n : Int, exp : Nat]]
        /\ settlement'[Corr[a]] = Micros[a] /\ \A c \in SettlementCorrelations : c # Corr[a] => settlement'[c] = settlement[c]
    BY <1>5, SettleCounters DEF StoreStays
  <2>2. \A c \in SettlementCorrelations : settlement'[c] # 0 => Tried(c) # {}
    BY <1>2, <2>1 DEF SettlementInv, SettlementPast
  <2>3. SettlementPast'
    BY <1>1, <1>3, <2>2 DEF SettlementInv, SettlementPast, StoreStays
  <2> QED
    BY <1>1, <1>2, <2>1, <2>3
<1> QED
  BY <1>4, <1>5 DEF StoreStays

\* A charge stays covered while reports are added.
LEMMA StaysCharged ==
    ASSUME SettlementInv, NEW a \in Attempts, StoreStays(a), UNCHANGED ledger, queue \subseteq queue'
    PROVE  ChargesKept'
<1>1. /\ \A c : Tried(c)' = Tried(c)
      /\ \A c \in SettlementCorrelations :
                 settlement'[c] = settlement[c] \/ \E x \in Tried(c) : settlement'[c] = Micros[x]
  BY StaysKept
<1> SUFFICES ASSUME NEW c \in SettlementCorrelations, ledger[c] # SettlementNone
             PROVE  (\E x \in Tried(c) : x \in queue') \/ (\E x \in Tried(c) : settlement'[c] = Micros[x])
  BY <1>1 DEF ChargesKept, ChargeOf
<1>2. (\E x \in Tried(c) : x \in queue) \/ (\E x \in Tried(c) : settlement[c] = Micros[x])
  BY DEF SettlementInv, ChargesKept, ChargeOf
<1> QED
  BY <1>1, <1>2

\* The steps of the processor.
LEMMA ProcessorStep ==
    ASSUME SettlementInv, NEW a \in Attempts,
           \/ Admit(a) \/ EndResponse(a) \/ ProcessorSettles(a) \/ ProcessorSettleFails(a)
           \/ SettlementReport(a) \/ ReportFails(a)
    PROVE  SettlementInv'
<1>1. /\ clock \in 0..MaxClock /\ pc \in [Attempts -> {"new", "admit", "rejected", "process", "deliver", "failed", "done"}]
      /\ now \in [Attempts -> 0..MaxClock] /\ created \in [Attempts -> 0..MaxClock]
      /\ deliveries \in [Attempts -> SUBSET {"settle", "report"}]
      /\ queue \subseteq Attempts /\ handler \subseteq queue /\ late \subseteq Attempts
      /\ ledger \in [SettlementCorrelations -> Attempts \cup {SettlementNone}]
      /\ settlementFaults \in 0..SettlementMaxFaults /\ SettlementMaxFaults \in Nat
  BY SettlementAssumption DEF SettlementInv, SettlementTypeOK
<1>2. pc[a] # "new"
  BY DEF Admit, EndResponse, ProcessorSettles, ProcessorSettleFails, SettlementReport, ReportFails, SettlementInv, SettlersTried
<1>3. \/ pc' = pc
      \/ \E p \in {"rejected", "process", "deliver", "failed", "done"} : pc' = [pc EXCEPT ![a] = p]
  BY DEF Admit, EndResponse, ProcessorSettles, ProcessorSettleFails, SettlementReport, ReportFails,
         SettlementDelivered, DeliveryFails, SettlementGoto
<1>4. /\ pc' \in [Attempts -> {"new", "admit", "rejected", "process", "deliver", "failed", "done"}]
      /\ \A b \in Attempts : pc'[b] = "new" <=> pc[b] = "new"
  BY <1>1, <1>2, <1>3
<1>5. /\ UNCHANGED <<clock, now, handler, late, ledger>> /\ (Settle(a) \/ UNCHANGED storeVars)
      /\ queue' = queue \/ queue' = queue \cup {a}
  BY DEF Admit, EndResponse, ProcessorSettles, ProcessorSettleFails, SettlementReport, ReportFails, platformVars
<1>6. /\ created' \in [Attempts -> 0..MaxClock] /\ settlementFaults' \in 0..SettlementMaxFaults
  BY <1>1 DEF Admit, EndResponse, ProcessorSettles, ProcessorSettleFails, SettlementReport, ReportFails,
         DeliveryFails, SettlementFault
<1>7. \E D \in SUBSET {"settle", "report"} : deliveries' = deliveries \/ deliveries' = [deliveries EXCEPT ![a] = D]
  <2>1. CASE Admit(a)
    BY <2>1 DEF Admit
  <2>2. CASE EndResponse(a)
    BY <2>2 DEF EndResponse
  <2>3. CASE ProcessorSettles(a) \/ ProcessorSettleFails(a)
    <3>1. deliveries' = [deliveries EXCEPT ![a] = deliveries[a] \ {"settle"}]
      BY <2>3 DEF ProcessorSettles, ProcessorSettleFails, SettlementDelivered, DeliveryFails
    <3>2. deliveries[a] \ {"settle"} \in SUBSET {"settle", "report"}
      BY <1>1
    <3> QED
      BY <3>1, <3>2
  <2>4. CASE SettlementReport(a) \/ ReportFails(a)
    <3>1. deliveries' = [deliveries EXCEPT ![a] = deliveries[a] \ {"report"}]
      BY <2>4 DEF SettlementReport, ReportFails, SettlementDelivered, DeliveryFails
    <3>2. deliveries[a] \ {"report"} \in SUBSET {"settle", "report"}
      BY <1>1
    <3> QED
      BY <3>1, <3>2
  <2> QED
    BY <2>1, <2>2, <2>3, <2>4
<1>8. /\ deliveries' \in [Attempts -> SUBSET {"settle", "report"}]
      /\ \A b \in Attempts : b # a => deliveries'[b] = deliveries[b]
  BY <1>1, <1>7
<1>9. StoreStays(a)
  BY <1>2, <1>4, <1>5 DEF StoreStays
<1>10. /\ CountersKept' /\ SettlementPast'
       /\ settlement' \in [SettlementCorrelations -> Nat] /\ cost' \in [Buckets -> [n : Int, exp : Nat]]
  BY <1>9, StaysKept
<1>11. ChargesKept'
  BY <1>5, <1>9, StaysCharged
<1>12. SettlersTried'
  BY <1>2, <1>4, <1>5, <1>8 DEF SettlementInv, SettlersTried
<1>13. SettlementTypeOK'
  BY <1>1, <1>4, <1>5, <1>6, <1>8, <1>10 DEF SettlementTypeOK, Buckets, Bucket
<1> QED
  BY <1>10, <1>11, <1>12, <1>13 DEF SettlementInv

\* The steps of the platform.
LEMMA PlatformStep ==
    ASSUME SettlementInv, NEW a \in Attempts,
           \/ PlatformRecords(a) \/ PlatformSettles(a) \/ PlatformSettleFails(a) \/ SendTimesOut(a) \/ LateSettles(a)
    PROVE  SettlementInv'
<1>1. /\ clock \in 0..MaxClock /\ pc \in [Attempts -> {"new", "admit", "rejected", "process", "deliver", "failed", "done"}]
      /\ now \in [Attempts -> 0..MaxClock] /\ created \in [Attempts -> 0..MaxClock]
      /\ deliveries \in [Attempts -> SUBSET {"settle", "report"}]
      /\ queue \subseteq Attempts /\ handler \subseteq queue /\ late \subseteq Attempts
      /\ ledger \in [SettlementCorrelations -> Attempts \cup {SettlementNone}]
      /\ settlementFaults \in 0..SettlementMaxFaults /\ SettlementMaxFaults \in Nat
      /\ Corr[a] \in SettlementCorrelations
  BY SettlementAssumption DEF SettlementInv, SettlementTypeOK
<1>2. pc[a] # "new"
  BY <1>1 DEF PlatformRecords, PlatformSettles, PlatformSettleFails, SendTimesOut, LateSettles, SettlementInv, SettlersTried
<1>3. /\ UNCHANGED <<clock, pc, now, created, deliveries>> /\ (Settle(a) \/ UNCHANGED storeVars)
      /\ settlementFaults' \in 0..SettlementMaxFaults
      /\ handler' \subseteq handler \cup {a} /\ late' \subseteq late \cup {a} /\ queue' \subseteq queue
      /\ handler' \subseteq queue'
  BY <1>1 DEF PlatformRecords, PlatformSettles, PlatformSettleFails, SendTimesOut, LateSettles, SettlementFault
<1>4. StoreStays(a)
  BY <1>2, <1>3 DEF StoreStays
<1>5. /\ CountersKept' /\ SettlementPast' /\ \A c : Tried(c)' = Tried(c)
      /\ settlement' \in [SettlementCorrelations -> Nat] /\ cost' \in [Buckets -> [n : Int, exp : Nat]]
      /\ \A c \in SettlementCorrelations :
                 settlement'[c] = settlement[c] \/ \E x \in Tried(c) : settlement'[c] = Micros[x]
      /\ Settle(a) => settlement'[Corr[a]] = Micros[a] /\ a \in Tried(Corr[a])
  BY <1>4, StaysKept
<1>6. ledger' \in [SettlementCorrelations -> Attempts \cup {SettlementNone}] /\ ChargesKept'
  <2>1. CASE PlatformRecords(a)
    <3>1. /\ ledger' = [ledger EXCEPT ![Corr[a]] = IF ledger[Corr[a]] = SettlementNone THEN a ELSE ledger[Corr[a]]]
          /\ a \in queue /\ queue' = queue /\ settlement' = settlement
      BY <2>1 DEF PlatformRecords, storeVars
    <3>2. ledger' \in [SettlementCorrelations -> Attempts \cup {SettlementNone}]
          /\ \A c \in SettlementCorrelations : c # Corr[a] => ledger'[c] = ledger[c]
      BY <1>1, <3>1
    <3>3. a \in Tried(Corr[a])
      BY <1>2 DEF Tried
    <3> SUFFICES ASSUME NEW c \in SettlementCorrelations, ledger'[c] # SettlementNone
                 PROVE  (\E x \in Tried(c) : x \in queue) \/ (\E x \in Tried(c) : settlement[c] = Micros[x])
      BY <1>5, <3>1, <3>2 DEF ChargesKept, ChargeOf
    <3> QED
      BY <3>1, <3>2, <3>3 DEF SettlementInv, ChargesKept, ChargeOf
  <2>2. CASE PlatformSettles(a)
    <3>1. ledger' = ledger /\ queue' = queue \ {a} /\ Settle(a)
      BY <2>2 DEF PlatformSettles
    <3> SUFFICES ASSUME NEW c \in SettlementCorrelations, ledger[c] # SettlementNone
                 PROVE  (\E x \in Tried(c) : x \in queue') \/ (\E x \in Tried(c) : settlement'[c] = Micros[x])
      BY <1>1, <1>5, <3>1 DEF ChargesKept, ChargeOf
    <3>2. CASE c = Corr[a]
      BY <1>5, <3>1, <3>2
    <3>3. CASE c # Corr[a]
      <4>1. a \notin Tried(c)
        BY <3>3 DEF Tried
      <4> QED
        BY <1>5, <3>1, <4>1 DEF SettlementInv, ChargesKept, ChargeOf
    <3> QED
      BY <3>2, <3>3
  <2>3. CASE PlatformSettleFails(a) \/ SendTimesOut(a) \/ LateSettles(a)
    <3>1. ledger' = ledger /\ queue' = queue
      BY <2>3 DEF PlatformSettleFails, SendTimesOut, LateSettles
    <3> QED
      BY <1>1, <1>4, <3>1, StaysCharged
  <2> QED
    BY <2>1, <2>2, <2>3
<1>7. SettlersTried'
  BY <1>2, <1>3 DEF SettlementInv, SettlersTried
<1>8. SettlementTypeOK'
  BY <1>1, <1>3, <1>5, <1>6 DEF SettlementTypeOK, Buckets, Bucket
<1> QED
  BY <1>5, <1>6, <1>7, <1>8 DEF SettlementInv

\* A request that begins is of the current window.
LEMMA BeginStep ==
    ASSUME SettlementInv, NEW a \in Attempts, Begin(a)
    PROVE  SettlementInv'
<1>1. /\ clock \in 0..MaxClock /\ pc \in [Attempts -> {"new", "admit", "rejected", "process", "deliver", "failed", "done"}]
      /\ now \in [Attempts -> 0..MaxClock] /\ pc[a] = "new" /\ clock \in Nat /\ MaxClock \in Nat
      /\ pc' = [pc EXCEPT ![a] = "admit"] /\ now' = [now EXCEPT ![a] = clock]
      /\ UNCHANGED <<clock, created, deliveries, queue, handler, late, ledger, settlement, cost, settlementFaults>>
      /\ Corr[a] \in SettlementCorrelations
  <2>1. /\ clock \in 0..MaxClock /\ pc \in [Attempts -> {"new", "admit", "rejected", "process", "deliver", "failed", "done"}]
        /\ now \in [Attempts -> 0..MaxClock] /\ clock \in Nat /\ MaxClock \in Nat /\ Corr[a] \in SettlementCorrelations
    BY SettlementAssumption DEF SettlementInv, SettlementTypeOK
  <2>2. /\ pc[a] = "new" /\ pc' = [pc EXCEPT ![a] = "admit"] /\ now' = [now EXCEPT ![a] = clock]
        /\ UNCHANGED <<clock, created, deliveries, queue, handler, late, ledger, settlement, cost, settlementFaults>>
    BY DEF Begin, SettlementGoto, platformVars, storeVars
  <2> QED
    BY <2>1, <2>2
<1>2. /\ pc' \in [Attempts -> {"new", "admit", "rejected", "process", "deliver", "failed", "done"}]
      /\ now' \in [Attempts -> 0..MaxClock] /\ pc'[a] = "admit" /\ now'[a] = clock
      /\ \A b \in Attempts : b # a => pc'[b] = pc[b] /\ now'[b] = now[b]
  BY <1>1
<1>3. /\ \A c : c # Corr[a] => Tried(c)' = Tried(c)
      /\ Tried(Corr[a])' = Tried(Corr[a]) \cup {a}
      /\ \A c : \A b \in Tried(c) : b # a /\ b \in Attempts
  BY <1>1, <1>2 DEF Tried
<1>4. SettlementPast'
  <2>1. {b \in Attempts : pc'[b] # "new"} = {b \in Attempts : pc[b] # "new"} \cup {a}
    BY <1>1, <1>2
  <2>2. IsFiniteSet({b \in Attempts : pc'[b] # "new"})
    BY <2>1, FS_AddElement DEF SettlementInv, SettlementPast
  <2>3. \A b \in Attempts : now'[b] <= clock
    BY <1>1, <1>2 DEF SettlementInv, SettlementPast
  <2>4. \A c \in SettlementCorrelations : settlement[c] # 0 => Tried(c)' # {}
    BY <1>3 DEF SettlementInv, SettlementPast
  <2> QED
    BY <1>1, <2>2, <2>3, <2>4 DEF SettlementPast
<1>5. ChargesKept'
  <2> SUFFICES ASSUME NEW c \in SettlementCorrelations, ledger[c] # SettlementNone
               PROVE  (\E x \in Tried(c)' : x \in queue) \/ (\E x \in Tried(c)' : settlement[c] = Micros[x])
    BY <1>1 DEF ChargesKept, ChargeOf
  <2>1. (\E x \in Tried(c) : x \in queue) \/ (\E x \in Tried(c) : settlement[c] = Micros[x])
    BY DEF SettlementInv, ChargesKept, ChargeOf
  <2>2. Tried(c) \subseteq Tried(c)'
    BY <1>3
  <2> QED
    BY <2>1, <2>2
<1>6. /\ \A b \in Attempts : b # a => WindowOf(b)' = WindowOf(b)
      /\ WindowOf(a)' = Bucket(clock)
  BY <1>2 DEF WindowOf, Bucket
<1>7. ASSUME OneWindow', NEW b
      PROVE  OneWindow /\ SettledMicros(b)' = SettledMicros(b)
  <2>1. OneWindow
    <3> SUFFICES ASSUME NEW c \in SettlementCorrelations, NEW x \in Tried(c), NEW y \in Tried(c)
                 PROVE  WindowOf(x) = WindowOf(y)
      BY DEF OneWindow
    <3>1. x \in Tried(c)' /\ y \in Tried(c)'
      BY <1>3
    <3>2. WindowOf(x)' = WindowOf(y)'
      BY <1>7, <3>1 DEF OneWindow
    <3> QED
      BY <1>3, <1>6, <3>2
  <2>2. ASSUME NEW c \in SettlementCorrelations, settlement[c] # 0
        PROVE  c \in Settled(b)' <=> c \in Settled(b)
    <3>1. PICK x \in Tried(c) : TRUE
      BY <2>2 DEF SettlementInv, SettlementPast
    <3>2. \A y \in Tried(c) : WindowOf(y)' = WindowOf(y) /\ y \in Tried(c)'
      BY <1>3, <1>6
    <3>3. \A y \in Tried(c)' : WindowOf(y)' = WindowOf(x)
      BY <1>7, <3>1, <3>2 DEF OneWindow
    <3>4. \A y \in Tried(c) : WindowOf(y) = WindowOf(x)
      BY <3>2, <3>3
    <3>5. c \in Settled(b)' <=> \E y \in Tried(c)' : WindowOf(y)' = b
      BY DEF Settled
    <3>6. c \in Settled(b) <=> \E y \in Tried(c) : WindowOf(y) = b
      BY DEF Settled
    <3> QED
      BY <3>1, <3>2, <3>3, <3>4, <3>5, <3>6
  <2>3. Settled(b) \subseteq SettlementCorrelations /\ Settled(b)' \subseteq SettlementCorrelations
    BY DEF Settled
  <2>4. SettledMicros(b)' = UNION {{c} \X (1..settlement[c]) : c \in Settled(b)'}
    BY <1>1 DEF SettledMicros
  <2>5. \A c : settlement[c] = 0 => 1..settlement[c] = {}
    OBVIOUS
  <2>6. ASSUME NEW x
        PROVE  x \in SettledMicros(b)' <=> x \in SettledMicros(b)
    <3>1. x \in SettledMicros(b)' <=> \E c \in Settled(b)' : x \in {c} \X (1..settlement[c])
      BY <2>4
    <3>2. x \in SettledMicros(b) <=> \E c \in Settled(b) : x \in {c} \X (1..settlement[c])
      BY DEF SettledMicros
    <3>3. \A c : settlement[c] = 0 => x \notin {c} \X (1..settlement[c])
      BY <2>5
    <3> QED
      BY <2>2, <2>3, <3>1, <3>2, <3>3
  <2> QED
    BY <2>1, <2>6
<1>8. CountersKept'
  <2> SUFFICES ASSUME NEW b \in Buckets
               PROVE  CounterOf(b)'
    BY DEF CountersKept, Buckets, Bucket
  <2>1. CounterOf(b)
    BY DEF SettlementInv, CountersKept
  <2> QED
    BY <1>1, <1>7, <2>1 DEF CounterOf, Bucket
<1>9. SettlersTried'
  BY <1>1, <1>2 DEF SettlementInv, SettlersTried
<1>10. SettlementTypeOK'
  BY <1>1, <1>2 DEF SettlementInv, SettlementTypeOK, Buckets, Bucket
<1> QED
  BY <1>4, <1>5, <1>8, <1>9, <1>10 DEF SettlementInv

\* A counter lapses only when its window is over.
LEMMA ClockStep ==
    ASSUME SettlementInv, Tick
    PROVE  SettlementInv'
<1>1. /\ clock \in 0..MaxClock /\ clock' = clock + 1 /\ clock < MaxClock /\ MaxClock \in Nat /\ clock \in Nat
      /\ cost \in [Buckets -> [n : Int, exp : Nat]] /\ Window \in Nat \ {0}
      /\ cost' = [b \in Buckets |-> IF cost[b].exp <= clock + 1 THEN Absent ELSE cost[b]]
      /\ UNCHANGED <<pc, now, created, deliveries, queue, handler, late, ledger, settlement, settlementFaults>>
      /\ now \in [Attempts -> 0..MaxClock]
  BY SettlementAssumption DEF SettlementInv, SettlementTypeOK, Tick, platformVars
<1>2. Absent \in [n : Int, exp : Nat] /\ Absent.n = 0 /\ Absent.exp = 0
  BY DEF Absent
<1>3. cost' \in [Buckets -> [n : Int, exp : Nat]]
  BY <1>1, <1>2
<1>4. /\ \A c : Tried(c)' = Tried(c)
      /\ \A b : WindowOf(b)' = WindowOf(b)
  BY <1>1 DEF Tried, WindowOf, Bucket
<1>5. /\ OneWindow' <=> OneWindow
      /\ \A b : Settled(b)' = Settled(b)
  BY <1>4 DEF OneWindow, Settled
<1>6. \A b : SettledMicros(b)' = SettledMicros(b)
  BY <1>1, <1>5 DEF SettledMicros
<1>7. CountersKept'
  <2> SUFFICES ASSUME NEW b \in Buckets
               PROVE  CounterOf(b)'
    BY DEF CountersKept, Buckets, Bucket
  <2>1. CounterOf(b) /\ b \in Nat /\ cost[b].exp \in Nat /\ cost[b].n \in Int
    BY <1>1 DEF SettlementInv, CountersKept, Buckets
  <2>2. /\ Bucket(clock) <= Bucket(clock + 1) /\ Bucket(clock + 1) \in Nat /\ Bucket(clock) \in Nat
        /\ clock + 1 < (Bucket(clock + 1) + 1) * Window
    <3>1. clock + 1 \in Nat /\ clock <= clock + 1 /\ clock + 1 <= clock + 1
      BY <1>1
    <3>2. Bucket(clock) <= Bucket(clock + 1) /\ Bucket(clock + 1) \in Nat /\ Bucket(clock) \in Nat
      BY <1>1, <3>1, BucketsOrdered
    <3>3. clock + 1 < (Bucket(clock + 1) + 1) * Window
      BY <3>1, BucketsOrdered
    <3> QED
      BY <3>2, <3>3
  <2>3. CASE cost[b].exp <= clock + 1
    <3>1. cost'[b] = Absent
      BY <1>1, <2>3
    <3>2. ASSUME OneWindow, Bucket(clock + 1) <= b
          PROVE  0 = Cardinality(SettledMicros(b))
      <4>1. Bucket(clock) <= b
        BY <2>1, <2>2, <3>2
      <4>2. cost[b].n = Cardinality(SettledMicros(b))
        BY <2>1, <3>2, <4>1 DEF CounterOf
      <4>3. cost[b].exp = 0
        <5>1. SUFFICES ASSUME cost[b].exp # 0 PROVE FALSE
          OBVIOUS
        <5>2. (b + 1) * Window <= clock + 1
          <6>1. (b + 1) * Window <= cost[b].exp /\ (b + 1) * Window \in Nat
            BY <1>1, <2>1, <5>1 DEF CounterOf
          <6> QED
            BY <1>1, <2>1, <2>3, <6>1
        <5>3. (Bucket(clock + 1) + 1) * Window <= (b + 1) * Window
          BY <1>1, <2>1, <2>2, <3>2
        <5>4. (b + 1) * Window \in Nat /\ (Bucket(clock + 1) + 1) * Window \in Nat
          BY <1>1, <2>1, <2>2
        <5> QED
          BY <1>1, <2>2, <5>2, <5>3, <5>4
      <4> QED
        BY <2>1, <4>2, <4>3 DEF CounterOf
    <3> QED
      BY <1>1, <1>2, <1>5, <1>6, <3>1, <3>2 DEF CounterOf, Bucket
  <2>4. CASE ~(cost[b].exp <= clock + 1)
    <3>1. cost'[b] = cost[b]
      BY <1>1, <2>4
    <3>2. Bucket(clock + 1) <= b => Bucket(clock) <= b
      BY <2>1, <2>2
    <3> QED
      BY <1>1, <1>5, <1>6, <2>1, <3>1, <3>2 DEF CounterOf, Bucket
  <2> QED
    BY <2>3, <2>4
<1>8. SettlementPast'
  <2>1. \A b \in Attempts : now[b] <= clock + 1
    BY <1>1 DEF SettlementInv, SettlementPast
  <2> QED
    BY <1>1, <1>4, <2>1 DEF SettlementInv, SettlementPast
<1>9. ChargesKept' /\ SettlersTried'
  BY <1>1, <1>4 DEF SettlementInv, ChargesKept, ChargeOf, SettlersTried
<1>10. SettlementTypeOK'
  BY <1>1, <1>3 DEF SettlementInv, SettlementTypeOK, Buckets, Bucket
<1> QED
  BY <1>7, <1>8, <1>9, <1>10 DEF SettlementInv

LEMMA SettlementInitially ==
    ASSUME SettlementInit
    PROVE  SettlementInv
<1>1. /\ clock = 0 /\ pc = [a \in Attempts |-> "new"] /\ now = [a \in Attempts |-> 0] /\ created = now
      /\ deliveries = [a \in Attempts |-> {}] /\ queue = {} /\ handler = {} /\ late = {}
      /\ ledger = [c \in SettlementCorrelations |-> SettlementNone] /\ settlement = [c \in SettlementCorrelations |-> 0]
      /\ cost = [b \in Buckets |-> Absent] /\ settlementFaults = 0
      /\ MaxClock \in Nat /\ SettlementMaxFaults \in Nat
  BY SettlementAssumption DEF SettlementInit
<1>2. Absent \in [n : Int, exp : Nat] /\ Absent.n = 0 /\ Absent.exp = 0
  BY DEF Absent
<1>3. \A c : Tried(c) = {}
  BY <1>1 DEF Tried
<1>4. \A b : SettledMicros(b) = {}
  BY <1>3 DEF SettledMicros, Settled
<1>5. SettlementTypeOK
  BY <1>1, <1>2 DEF SettlementTypeOK
<1>6. SettlementPast
  <2>1. {a \in Attempts : pc[a] # "new"} = {}
    BY <1>1
  <2>2. IsFiniteSet({a \in Attempts : pc[a] # "new"})
    BY <2>1, FS_EmptySet
  <2> QED
    BY <1>1, <2>2 DEF SettlementPast
<1>7. CountersKept
  BY <1>1, <1>2, <1>4, FS_EmptySet DEF CountersKept, CounterOf
<1>8. ChargesKept /\ SettlersTried
  BY <1>1 DEF ChargesKept, ChargeOf, SettlersTried
<1> QED
  BY <1>5, <1>6, <1>7, <1>8 DEF SettlementInv

LEMMA SettlementInvIsSafe ==
    ASSUME SettlementInv
    PROVE  SettlementSafe
<1>1. Bucket(clock) \in Buckets /\ Bucket(clock) \in Nat
  <2>1. clock \in 0..MaxClock /\ clock \in Nat
    BY SettlementAssumption DEF SettlementInv, SettlementTypeOK
  <2> QED
    BY <2>1, BucketsInside, BucketsOrdered
<1>2. WindowCost
  BY <1>1 DEF SettlementInv, CountersKept, CounterOf, OneWindow, WindowCost
<1>3. ChargedIsSettled
  BY DEF SettlementInv, ChargesKept, ChargeOf, ChargedIsSettled
<1> QED
  BY <1>2, <1>3 DEF SettlementInv, SettlementSafe

(* However often, late and in whichever order the processor and the         *)
(* platform settle a request (settlementScript, recordAccounting), the      *)
(* budget's counter is the sum of what was settled last in its window, and  *)
(* a charge in the ledger is debited in the end.                            *)
THEOREM SettlementIsSafe == SettlementSpec => []SettlementSafe
<1>1. SettlementInit => SettlementInv
  BY SettlementInitially
<1>2. SettlementInv /\ [SettlementNext]_settlementVars => SettlementInv'
  <2> SUFFICES ASSUME SettlementInv, [SettlementNext]_settlementVars
               PROVE  SettlementInv'
    OBVIOUS
  <2>1. CASE UNCHANGED settlementVars
    <3>1. UNCHANGED <<clock, pc, now, created, deliveries, queue, handler, late, ledger, settlement, cost, settlementFaults>>
      BY <2>1 DEF settlementVars
    <3>2. /\ \A c : Tried(c)' = Tried(c)
          /\ \A b : WindowOf(b)' = WindowOf(b)
      BY <3>1 DEF Tried, WindowOf, Bucket
    <3>3. /\ OneWindow' <=> OneWindow
          /\ \A b : Settled(b)' = Settled(b)
      BY <3>2 DEF OneWindow, Settled
    <3>4. \A b : SettledMicros(b)' = SettledMicros(b)
      BY <3>1, <3>3 DEF SettledMicros
    <3>5. CountersKept'
      BY <3>1, <3>3, <3>4 DEF SettlementInv, CountersKept, CounterOf, Buckets, Bucket
    <3>6. SettlementTypeOK' /\ SettlersTried' /\ SettlementPast' /\ ChargesKept'
      BY <3>1, <3>2 DEF SettlementInv, SettlementTypeOK, SettlersTried, SettlementPast, ChargesKept, ChargeOf, Buckets, Bucket
    <3> QED
      BY <3>5, <3>6 DEF SettlementInv
  <2> QED
    BY <2>1, ProcessorStep, PlatformStep, BeginStep, ClockStep DEF SettlementNext
<1>3. SettlementInv => SettlementSafe
  BY SettlementInvIsSafe
<1> QED
  BY <1>1, <1>2, <1>3, PTL DEF SettlementSpec

=============================================================================
