---------------------------- MODULE OtlpOutbox ------------------------------
(***************************************************************************)
(* The directory in which processes of a host leave telemetry until a      *)
(* collector takes it.  Every process writes its own files; the one that   *)
(* has the lock file sends and removes everybody's.  A lock whose holder   *)
(* does not touch it any more is removed by whoever finds it, between      *)
(* looking at it and removing it something else may happen.                *)
(*                                                                         *)
(* A record stands for a file; their numbers are the order of their names. *)
(* The limits on bytes are limits on records.                              *)
(***************************************************************************)
EXTENDS Naturals, FiniteSets

CONSTANTS
    Processes,     \* processes that share the directory
    NRecords,      \* records that are enqueued
    MaxBuffered,   \* maxPendingBytes
    OtlpMaxFiles,  \* maxFiles and maxBytes
    OtlpMaxFaults  \* bound on faults

ASSUME OtlpAssumption ==
    NRecords \in Nat \ {0} /\ MaxBuffered \in Nat \ {0} /\ OtlpMaxFiles \in Nat \ {0} /\ OtlpMaxFaults \in Nat

VARIABLES
    file,       \* per record, where it is
    writer,     \* per record, the process that enqueued it
    otlpSaved,  \* records whose enqueue answered true
    sent,       \* records the collector has got
    reports,    \* per record, how often it was reported as dropped
    old,        \* records that are older than maxAgeMs
    lock,       \* the lock file: its holder, or nobody, and whether it is stale
    at,         \* per process, what its drain is at
    found,      \* per process, the files its drain has found
    batch,      \* per process, the files it has sent and not removed
    later,      \* processes that wait before they send again
    otlpFaults

otlpVars == <<file, writer, otlpSaved, sent, reports, old, lock, at, found, batch, later, otlpFaults>>

Records == 1..NRecords
Nobody == "nobody"
NoLock == [of |-> Nobody, stale |-> FALSE]
On(where) == {r \in Records : file[r] = where}

OtlpTypeOK ==
    /\ file \in [Records -> {"new", "buffered", "tmp", "json", "gone"}]
    /\ writer \in [Records -> Processes \cup {Nobody}]
    /\ otlpSaved \in SUBSET Records /\ sent \in SUBSET Records /\ old \in SUBSET Records
    /\ reports \in [Records -> Nat]
    /\ lock \in [of : Processes \cup {Nobody}, stale : BOOLEAN]
    /\ at \in [Processes -> {"idle", "look", "steal", "scan", "prune", "send", "remove", "unlock"}]
    /\ found \in [Processes -> SUBSET Records] /\ batch \in [Processes -> SUBSET Records]
    /\ later \in SUBSET Processes /\ otlpFaults \in 0..OtlpMaxFaults
    /\ \A p \in Processes : Cardinality({r \in On("buffered") : writer[r] = p}) <= MaxBuffered

OtlpInit ==
    /\ file = [r \in Records |-> "new"] /\ writer = [r \in Records |-> Nobody]
    /\ otlpSaved = {} /\ sent = {} /\ old = {} /\ reports = [r \in Records |-> 0]
    /\ lock = NoLock /\ at = [p \in Processes |-> "idle"]
    /\ found = [p \in Processes |-> {}] /\ batch = found /\ later = {} /\ otlpFaults = 0

OtlpFault == otlpFaults < OtlpMaxFaults /\ otlpFaults' = otlpFaults + 1
OtlpReport(S) == reports' = [r \in Records |-> reports[r] + IF r \in S THEN 1 ELSE 0]
Gone(S) == file' = [r \in Records |-> IF r \in S THEN "gone" ELSE file[r]]
OtlpGoto(p, pc) == at' = [at EXCEPT ![p] = pc]

-----------------------------------------------------------------------------
(* Writing                                                                 *)

Room(p) == Cardinality({r \in On("buffered") : writer[r] = p}) < MaxBuffered

\* enqueue: what does not fit in memory is dropped.
OtlpEnqueue(p, r) ==
    /\ file[r] = "new" /\ \A q \in 1..(r - 1) : file[q] # "new"
    /\ writer' = [writer EXCEPT ![r] = p]
    /\ IF Room(p) THEN file' = [file EXCEPT ![r] = "buffered"] /\ UNCHANGED reports
       ELSE Gone({r}) /\ OtlpReport({r})
    /\ UNCHANGED <<otlpSaved, sent, old, lock, at, found, batch, later, otlpFaults>>

\* writeBatches: a temporary file, then the rename and the answer.
WriteTemporary(r) ==
    /\ file[r] = "buffered"
    /\ file' = [file EXCEPT ![r] = "tmp"]
    /\ UNCHANGED <<writer, otlpSaved, sent, reports, old, lock, at, found, batch, later, otlpFaults>>

FinishWrite(r) ==
    /\ file[r] = "tmp" /\ writer[r] # Nobody
    /\ file' = [file EXCEPT ![r] = "json"] /\ otlpSaved' = otlpSaved \cup {r}
    /\ UNCHANGED <<writer, sent, reports, old, lock, at, found, batch, later, otlpFaults>>

\* The write fails: the record is dropped, its temporary file may stay.
OtlpWriteFails(r) ==
    /\ file[r] \in {"buffered", "tmp"} /\ writer[r] # Nobody /\ OtlpFault
    /\ file' = [file EXCEPT ![r] = IF @ = "tmp" THEN "tmp" ELSE "gone"]
    /\ writer' = [writer EXCEPT ![r] = Nobody]
    /\ OtlpReport({r})
    /\ UNCHANGED <<otlpSaved, sent, old, lock, at, found, batch, later>>

-----------------------------------------------------------------------------
(* The lock                                                                *)

\* withLock: the lock file is created, or looked at.
TakeLock(p) ==
    /\ at[p] = "idle"
    /\ IF lock.of = Nobody THEN lock' = [of |-> p, stale |-> FALSE] /\ OtlpGoto(p, "scan")
       ELSE OtlpGoto(p, "look") /\ UNCHANGED lock
    /\ UNCHANGED <<file, writer, otlpSaved, sent, reports, old, found, batch, later, otlpFaults>>

LookAtLock(p) ==
    /\ at[p] = "look"
    /\ OtlpGoto(p, IF lock.of # Nobody /\ lock.stale THEN "steal" ELSE "idle")
    /\ UNCHANGED <<file, writer, otlpSaved, sent, reports, old, lock, found, batch, later, otlpFaults>>

\* The lock file is removed, whose ever it is now; so it is at the end of a drain.
RemoveLock(p) ==
    /\ at[p] \in {"steal", "unlock"}
    /\ lock' = NoLock /\ OtlpGoto(p, "idle")
    /\ found' = [found EXCEPT ![p] = {}] /\ batch' = [batch EXCEPT ![p] = {}]
    /\ UNCHANGED <<file, writer, otlpSaved, sent, reports, old, later, otlpFaults>>

\* Thirty seconds without a touch: the holder is gone, or was held up.
LockAges ==
    /\ lock.of # Nobody /\ ~ lock.stale
    /\ IF at[lock.of] \in {"idle", "look", "steal"} THEN UNCHANGED otlpFaults ELSE OtlpFault
    /\ lock' = [lock EXCEPT !.stale = TRUE]
    /\ UNCHANGED <<file, writer, otlpSaved, sent, reports, old, at, found, batch, later>>

-----------------------------------------------------------------------------
(* The drain                                                               *)

\* remove: only files that were there.
Removes(S) == {r \in S : file[r] \in {"tmp", "json"}}

\* run: files that are too old are removed, the others are found.  No write
\* takes as long as maxAgeMs.
Scan(p) ==
    /\ at[p] = "scan"
    /\ LET seen == On("json") \cup On("tmp")
           dropped == {r \in seen \cap old : file[r] = "json" \/ writer[r] = Nobody}
       IN  /\ Gone(dropped) /\ OtlpReport(dropped)
           /\ found' = [found EXCEPT ![p] = On("json") \ old]
    /\ OtlpGoto(p, IF p \in later THEN "prune" ELSE "send")
    /\ UNCHANGED <<writer, otlpSaved, sent, old, lock, batch, later, otlpFaults>>

\* prune: of the files that were found, the oldest beyond the limit go.
Prune(p) ==
    /\ at[p] = "prune"
    /\ LET excess == {r \in found[p] : Cardinality({q \in found[p] : q >= r}) > OtlpMaxFiles}
       IN  Gone(Removes(excess)) /\ OtlpReport(Removes(excess))
    /\ OtlpGoto(p, "unlock")
    /\ UNCHANGED <<writer, otlpSaved, sent, old, lock, found, batch, later, otlpFaults>>

\* A group of files that could be read is posted, and taken or refused for good.
Post(p, group, taken) ==
    /\ at[p] = "send" /\ group # {} /\ group \subseteq found[p] /\ \A r \in group : file[r] = "json"
    /\ sent' = IF taken THEN sent \cup group ELSE sent
    /\ IF taken THEN UNCHANGED reports ELSE OtlpReport(group)
    /\ batch' = [batch EXCEPT ![p] = group] /\ OtlpGoto(p, "remove")
    /\ UNCHANGED <<file, writer, otlpSaved, old, lock, found, later, otlpFaults>>

\* The collector is not there, or its answer is lost.
PostFails(p, group, taken) ==
    /\ at[p] = "send" /\ group # {} /\ group \subseteq found[p] /\ \A r \in group : file[r] = "json"
    /\ IF taken THEN OtlpFault ELSE UNCHANGED otlpFaults
    /\ sent' = IF taken THEN sent \cup group ELSE sent
    /\ later' = later \cup {p} /\ OtlpGoto(p, "prune")
    /\ UNCHANGED <<file, writer, otlpSaved, reports, old, lock, found, batch>>

\* Mutation of RemoveBatch: all that was found is removed with the group.
RemoveBatchAll(p) ==
    /\ at[p] = "remove"
    /\ Gone(Removes(found[p]))
    /\ found' = [found EXCEPT ![p] = {}] /\ batch' = [batch EXCEPT ![p] = {}]
    /\ later' = later \ {p} /\ OtlpGoto(p, "send")
    /\ UNCHANGED <<writer, otlpSaved, sent, reports, old, lock, otlpFaults>>

RemoveBatch(p) ==
    /\ at[p] = "remove"
    /\ Gone(Removes(batch[p]))
    /\ found' = [found EXCEPT ![p] = @ \ batch[p]] /\ batch' = [batch EXCEPT ![p] = {}]
    /\ later' = later \ {p} /\ OtlpGoto(p, "send")
    /\ UNCHANGED <<writer, otlpSaved, sent, reports, old, lock, otlpFaults>>

\* A file that is not an envelope is removed.
Corrupt(p, r) ==
    /\ at[p] = "send" /\ r \in found[p] /\ OtlpFault
    /\ Gone(Removes({r})) /\ OtlpReport(Removes({r}))
    /\ found' = [found EXCEPT ![p] = @ \ {r}]
    /\ UNCHANGED <<writer, otlpSaved, sent, old, lock, at, batch, later>>

\* Nothing is left of what could be read within a second.
EndSend(p) ==
    /\ at[p] = "send"
    /\ OtlpGoto(p, "unlock")
    /\ UNCHANGED <<file, writer, otlpSaved, sent, reports, old, lock, found, batch, later, otlpFaults>>

RetryTime(p) ==
    /\ p \in later
    /\ later' = later \ {p}
    /\ UNCHANGED <<file, writer, otlpSaved, sent, reports, old, lock, at, found, batch, otlpFaults>>

Ages(r) ==
    /\ file[r] \in {"tmp", "json"} /\ r \notin old /\ \A q \in 1..(r - 1) : file[q] = "gone" \/ q \in old
    /\ old' = old \cup {r}
    /\ UNCHANGED <<file, writer, otlpSaved, sent, reports, lock, at, found, batch, later, otlpFaults>>

\* The process ends and starts again: what is in its memory is lost, its lock
\* file and its temporary files are not.
OtlpCrash(p) ==
    /\ OtlpFault
    /\ file' = [r \in Records |-> IF file[r] = "buffered" /\ writer[r] = p THEN "gone" ELSE file[r]]
    /\ writer' = [r \in Records |-> IF file[r] = "tmp" /\ writer[r] = p THEN Nobody ELSE writer[r]]
    /\ OtlpGoto(p, "idle") /\ later' = later \ {p}
    /\ found' = [found EXCEPT ![p] = {}] /\ batch' = [batch EXCEPT ![p] = {}]
    /\ UNCHANGED <<otlpSaved, sent, reports, old, lock>>

-----------------------------------------------------------------------------
Locking(p) == TakeLock(p) \/ LookAtLock(p) \/ RemoveLock(p)

Run(p) ==
    \/ Scan(p) \/ Prune(p) \/ RemoveBatch(p) \/ EndSend(p)
    \/ \E group \in SUBSET Records : (\E taken \in BOOLEAN : Post(p, group, taken)) \/ PostFails(p, group, FALSE)

Writing == \E r \in Records : WriteTemporary(r) \/ FinishWrite(r)

OtlpNext ==
    \/ Writing \/ LockAges
    \/ \E r \in Records : Ages(r) \/ OtlpWriteFails(r) \/ \E p \in Processes : OtlpEnqueue(p, r) \/ Corrupt(p, r)
    \/ \E p \in Processes :
         \/ Locking(p) \/ Run(p) \/ RetryTime(p) \/ OtlpCrash(p)
         \/ \E group \in SUBSET Records : PostFails(p, group, TRUE)

OtlpSpec == OtlpInit /\ [][OtlpNext]_otlpVars

-----------------------------------------------------------------------------
(* Properties                                                              *)

\* A record whose enqueue answered true is a file, was sent, or is reported as
\* dropped: also when two processes drain at once (withLock).
NoSilentLoss == \A r \in otlpSaved : file[r] = "json" \/ r \in sent \/ reports[r] > 0

(* Processes that share the directory, steal each other's lock and crash   *)
(* never lose a saved record without a report of it.                       *)
OtlpSafe ==
    /\ OtlpTypeOK /\ NoSilentLoss

=============================================================================
