------------------------- MODULE ObservationOutbox --------------------------
(***************************************************************************)
(* The outbox of a Gateway Runtime's controller for activities, accounting *)
(* and audit events.  An observation is acknowledged once it is a file in  *)
(* the pending directory; a drain sends the files one by one, removes the  *)
(* ones the platform took and moves the ones it refused to the quarantine. *)
(*                                                                         *)
(* The file system is external: a rename or an unlink is atomic and is     *)
(* durable when the directory is synced; a failure of the machine may undo *)
(* what is not.  The order of the files' names is left open.               *)
(***************************************************************************)
EXTENDS Naturals, FiniteSets

CONSTANTS
    Observations,  \* what the relay is asked to keep
    Size,          \* bytes of an observation's file
    MaxFiles,      \* GENIO_ONE_GATEWAY_OBSERVATION_OUTBOX_MAX_FILES
    MaxBytes,      \* GENIO_ONE_GATEWAY_OBSERVATION_OUTBOX_MAX_BYTES
    MaxFaults      \* bound on faults of the file system, the network and the process

ASSUME OutboxAssumption ==
    /\ Size \in [Observations -> Nat \ {0}]
    /\ MaxFiles \in Nat \ {0} /\ MaxBytes \in Nat \ {0} /\ MaxFaults \in Nat

VARIABLES
    place,     \* per observation, where its file is
    durable,   \* per observation, where its file was when the directory was synced
    progress,  \* per observation, how far enqueue is
    counted,   \* per observation, the directories that enqueue has counted and the files in them
    answer,    \* per observation, what enqueue said
    drain,     \* the drain: what it is at, the files it has still to look at, and the one it is at
    waits,     \* observations whose next attempt is later
    received,  \* per observation, how often the platform took it
    stopped,   \* whether the outbox is stopped
    faults     \* number of faults

outboxVars == <<place, durable, progress, counted, answer, drain, waits, received, stopped, faults>>

Directories == {"pending", "quarantine", "tmp"}
Places == Directories \cup {"none"}
NoDrain == [pc |-> "idle", todo |-> {}, of |-> {}]
NothingCounted == [dirs |-> {}, files |-> {}]
In(S) == {o \in Observations : place[o] \in S}
Bytes(S) == Cardinality(UNION {{o} \X (1..Size[o]) : o \in S})

OutboxTypeOK ==
    /\ place \in [Observations -> Places] /\ durable \in [Observations -> Places]
    /\ progress \in [Observations -> {"new", "count", "write", "rename", "sync", "end"}]
    /\ counted \in [Observations -> [dirs : SUBSET Directories, files : SUBSET (Directories \X Observations)]]
    /\ answer \in [Observations -> {"none", "accepted", "full", "failed"}]
    /\ drain \in [pc : {"idle", "next", "send", "remove", "move", "sync"},
                  todo : SUBSET Observations, of : SUBSET Observations]
    /\ waits \in SUBSET Observations /\ received \in [Observations -> Nat]
    /\ stopped \in BOOLEAN /\ faults \in 0..MaxFaults
    /\ \A o, p \in Observations : {progress[o], progress[p]} \cap {"new", "end"} = {} => o = p

OutboxInit ==
    /\ place = [o \in Observations |-> "none"] /\ durable = place
    /\ progress = [o \in Observations |-> "new"] /\ counted = [o \in Observations |-> NothingCounted]
    /\ answer = [o \in Observations |-> "none"]
    /\ drain = NoDrain /\ waits = {} /\ received = [o \in Observations |-> 0]
    /\ stopped = FALSE /\ faults = 0

Fault == faults < MaxFaults /\ faults' = faults + 1

-----------------------------------------------------------------------------
(* enqueue                                                                 *)

\* withMutation: one enqueue at a time.
EnqueueFree == \A o \in Observations : progress[o] \in {"new", "end"}

EnqueueObservation(o) ==
    /\ progress[o] = "new" /\ EnqueueFree
    /\ progress' = [progress EXCEPT ![o] = "count"]
    /\ UNCHANGED <<place, durable, counted, answer, drain, waits, received, stopped, faults>>

\* usage: the directories are read one after the other, in any order, while the
\* drain may move a file.
CountFiles(o, dir) ==
    /\ progress[o] = "count" /\ dir \notin counted[o].dirs
    /\ counted' = [counted EXCEPT ![o].dirs = @ \cup {dir}, ![o].files = @ \cup ({dir} \X In({dir}))]
    /\ UNCHANGED <<place, durable, progress, answer, drain, waits, received, stopped, faults>>

Fits(o, files) ==
    /\ Cardinality(files) + 1 <= MaxFiles
    /\ Cardinality(UNION {{f} \X (1..Size[f[2]]) : f \in files}) + Size[o] <= MaxBytes

Counted(o) ==
    /\ progress[o] = "count" /\ counted[o].dirs = Directories
    /\ IF Fits(o, counted[o].files)
       THEN progress' = [progress EXCEPT ![o] = "write"] /\ UNCHANGED answer
       ELSE progress' = [progress EXCEPT ![o] = "end"] /\ answer' = [answer EXCEPT ![o] = "full"]
    /\ counted' = [counted EXCEPT ![o] = NothingCounted]
    /\ UNCHANGED <<place, durable, drain, waits, received, stopped, faults>>

\* atomicWrite
WriteFile(o) ==
    /\ progress[o] = "write"
    /\ place' = [place EXCEPT ![o] = "tmp"]
    /\ progress' = [progress EXCEPT ![o] = "rename"]
    /\ UNCHANGED <<durable, counted, answer, drain, waits, received, stopped, faults>>

\* Mutation of RenameFile: the observation is acknowledged before the directory
\* is synced.
RenameFileEarly(o) ==
    /\ progress[o] = "rename"
    /\ place' = [place EXCEPT ![o] = "pending"]
    /\ progress' = [progress EXCEPT ![o] = "end"]
    /\ answer' = [answer EXCEPT ![o] = "accepted"]
    /\ UNCHANGED <<durable, counted, drain, waits, received, stopped, faults>>

RenameFile(o) ==
    /\ progress[o] = "rename"
    /\ place' = [place EXCEPT ![o] = "pending"]
    /\ progress' = [progress EXCEPT ![o] = "sync"]
    /\ UNCHANGED <<durable, counted, answer, drain, waits, received, stopped, faults>>

SyncFile(o) ==
    /\ progress[o] = "sync"
    /\ durable' = place
    /\ progress' = [progress EXCEPT ![o] = "end"]
    /\ answer' = [answer EXCEPT ![o] = "accepted"]
    /\ UNCHANGED <<place, counted, drain, waits, received, stopped, faults>>

\* The temporary file is removed, if it can be; a renamed one stays.
WriteFails(o, cleaned) ==
    /\ progress[o] \in {"write", "rename", "sync"} /\ Fault
    /\ place' = IF place[o] = "tmp" /\ cleaned THEN [place EXCEPT ![o] = "none"] ELSE place
    /\ progress' = [progress EXCEPT ![o] = "end"]
    /\ answer' = [answer EXCEPT ![o] = "failed"]
    /\ UNCHANGED <<durable, counted, drain, waits, received, stopped>>

-----------------------------------------------------------------------------
(* The drain                                                               *)

NextFile(todo) == [pc |-> "next", todo |-> todo, of |-> {}]
AtFile(pc, o) == [pc |-> pc, todo |-> drain.todo, of |-> {o}]

Entries == In({"pending"})

BeginDrain ==
    /\ drain.pc = "idle" /\ ~ stopped
    /\ drain' = NextFile(Entries)
    /\ UNCHANGED <<place, durable, progress, counted, answer, waits, received, stopped, faults>>

\* A file whose time has not come is passed over.
TakeFile(o) ==
    /\ drain.pc = "next" /\ o \in drain.todo /\ ~ stopped
    /\ drain' = IF o \in waits THEN NextFile(drain.todo \ {o})
                ELSE [pc |-> "send", todo |-> drain.todo \ {o}, of |-> {o}]
    /\ UNCHANGED <<place, durable, progress, counted, answer, waits, received, stopped, faults>>

\* Mutation of EndDrain: drainPromise is not reset.
EndDrainStuck ==
    /\ drain.pc = "next" /\ drain.todo # {} /\ stopped
    /\ drain' = NoDrain
    /\ UNCHANGED <<place, durable, progress, counted, answer, waits, received, stopped, faults>>

EndDrain ==
    /\ drain.pc = "next" /\ (drain.todo = {} \/ stopped)
    /\ drain' = NoDrain
    /\ UNCHANGED <<place, durable, progress, counted, answer, waits, received, stopped, faults>>

\* The file cannot be read, or is not an observation.
InvalidFile(o) ==
    /\ drain.pc = "send" /\ drain.of = {o} /\ Fault
    /\ drain' = AtFile("move", o)
    /\ UNCHANGED <<place, durable, progress, counted, answer, waits, received, stopped>>

\* 2xx
Taken(o, status) == status = "accepted"

\* The answer of the platform: 2xx; a status that is worth another attempt, or
\* none in time; another 4xx.
Sent(o, status) ==
    /\ drain.pc = "send" /\ drain.of = {o}
    /\ received' = IF status = "accepted" THEN [received EXCEPT ![o] = @ + 1] ELSE received
    /\ IF Taken(o, status) THEN drain' = AtFile("remove", o) /\ UNCHANGED waits
       ELSE IF status = "refused" THEN drain' = AtFile("move", o) /\ UNCHANGED waits
       ELSE drain' = NextFile(drain.todo) /\ waits' = waits \cup {o}
    /\ UNCHANGED <<place, durable, progress, counted, answer, stopped, faults>>

\* The platform took the observation and its answer is lost or late.
AnswerLost(o) ==
    /\ drain.pc = "send" /\ drain.of = {o} /\ Fault
    /\ received' = [received EXCEPT ![o] = @ + 1]
    /\ drain' = NextFile(drain.todo) /\ waits' = waits \cup {o}
    /\ UNCHANGED <<place, durable, progress, counted, answer, stopped>>

\* remove, quarantine
MoveFile(o) ==
    /\ drain.pc \in {"remove", "move"} /\ drain.of = {o}
    /\ place' = [place EXCEPT ![o] = IF drain.pc = "remove" THEN "none" ELSE "quarantine"]
    /\ drain' = AtFile("sync", o)
    /\ UNCHANGED <<durable, progress, counted, answer, waits, received, stopped, faults>>

SyncMoved(o) ==
    /\ drain.pc = "sync" /\ drain.of = {o}
    /\ durable' = place
    /\ waits' = waits \ {o} /\ drain' = NextFile(drain.todo)
    /\ UNCHANGED <<place, progress, counted, answer, received, stopped, faults>>

\* The file could not be removed or moved, or the directory not be synced.
MoveFails ==
    /\ drain.pc \in {"remove", "move", "sync"} /\ Fault
    /\ drain' = NextFile(drain.todo)
    /\ UNCHANGED <<place, durable, progress, counted, answer, waits, received, stopped>>

\* The delay before another attempt is over.
DelayEnds(o) ==
    /\ o \in waits
    /\ waits' = waits \ {o}
    /\ UNCHANGED <<place, durable, progress, counted, answer, drain, received, stopped, faults>>

-----------------------------------------------------------------------------
(* The process                                                             *)

Stop ==
    /\ ~ stopped /\ Fault
    /\ stopped' = TRUE
    /\ UNCHANGED <<place, durable, progress, counted, answer, drain, waits, received>>

\* initialise: temporary files are removed, if they can be.
Recovered(left, kept) == [o \in Observations |-> IF left[o] = "tmp" /\ o \notin kept THEN "none" ELSE left[o]]

\* The process ends, or the machine fails, and the outbox starts again.
Restart(undone, kept) ==
    /\ IF stopped THEN UNCHANGED faults ELSE Fault
    /\ LET left == [o \in Observations |-> IF o \in undone THEN durable[o] ELSE place[o]]
       IN  place' = Recovered(left, kept)
    /\ durable' = place'
    /\ progress' = [o \in Observations |-> IF progress[o] = "new" THEN "new" ELSE "end"]
    /\ counted' = [o \in Observations |-> NothingCounted]
    /\ drain' = NoDrain /\ waits' = {} /\ stopped' = FALSE
    /\ UNCHANGED <<answer, received>>

-----------------------------------------------------------------------------
Enqueueing(o) ==
    \/ EnqueueObservation(o) \/ Counted(o) \/ WriteFile(o) \/ RenameFile(o) \/ SyncFile(o)
    \/ \E dir \in Directories : CountFiles(o, dir)

Draining ==
    \/ BeginDrain \/ EndDrain
    \/ \E o \in Observations :
         \/ TakeFile(o) \/ MoveFile(o) \/ SyncMoved(o)
         \/ \E status \in {"accepted", "refused", "unavailable"} : Sent(o, status)

Faults ==
    \/ MoveFails \/ Stop
    \/ \E o \in Observations :
         InvalidFile(o) \/ AnswerLost(o) \/ \E cleaned \in BOOLEAN : WriteFails(o, cleaned)
    \/ \E undone \in SUBSET Observations, kept \in SUBSET In({"tmp"}) : Restart(undone, kept)

OutboxNext ==
    \/ \E o \in Observations : Enqueueing(o) \/ DelayEnds(o)
    \/ Draining \/ Faults

OutboxSpec == OutboxInit /\ [][OutboxNext]_outboxVars

\* An enqueue that began goes on, drains are started by a timer and finish, delays
\* end, and a process that was stopped starts again.  An observation that is sent again and again is taken
\* or refused in the end.
OutboxFairness ==
    /\ WF_outboxVars(stopped /\ \E kept \in SUBSET In({"tmp"}) : Restart({}, kept))
    /\ \A o \in Observations :
         /\ WF_outboxVars(progress[o] # "new" /\ Enqueueing(o)) /\ WF_outboxVars(DelayEnds(o))
         /\ SF_outboxVars(Sent(o, "accepted") \/ Sent(o, "refused"))

-----------------------------------------------------------------------------
(* Properties                                                              *)

\* An observation that was acknowledged has been taken by the platform or is a
\* file that a failure of the machine does not undo (atomicWrite, remove).
AcknowledgedKept ==
    \A o \in Observations :
        answer[o] = "accepted" /\ received[o] = 0 =>
            place[o] \in {"pending", "quarantine"} /\ durable[o] \in {"pending", "quarantine"}

\* The pending directory never holds more than the configured files and bytes,
\* temporary files included, whatever is enqueued and moved meanwhile (usage).
\* A fault brings back one file at most.
PendingBounded ==
    LET S == In({"pending", "tmp"})
    IN  Cardinality(S) <= MaxFiles + faults /\ (faults = 0 => Bytes(S) <= MaxBytes)

\* The platform gets an observation a second time only after a fault, and no
\* more often than there were faults (drainNow, remove).
DuplicateNeedsFault == \A o \in Observations : received[o] <= 1 + faults

\* An observation that is in the quarantine for good stays there and is not sent.
QuarantinedForGood ==
    [][\A o \in Observations :
         place[o] = "quarantine" /\ durable[o] = "quarantine" =>
             place'[o] = "quarantine" /\ received'[o] = received[o]]_outboxVars

\* Outages and restarts pass: what was acknowledged is taken or refused.
Delivered ==
    \A o \in Observations :
        answer[o] = "accepted" ~> (received[o] > 0 \/ place[o] = "quarantine")

(* What an outbox promises through faults of the disk, the network and the *)
(* process: an acknowledged observation is kept or was taken, the pending  *)
(* directory stays within its limits, and duplicates are explained by      *)
(* faults.                                                                 *)
OutboxSafe ==
    /\ OutboxTypeOK /\ AcknowledgedKept /\ PendingBounded /\ DuplicateNeedsFault

=============================================================================
