--------------------------- MODULE NativeActivity ---------------------------
(***************************************************************************)
(* The local AI gateway's applier and the activities its gateways log.     *)
(* Each release runs in a child process that appends a line per request to *)
(* the release's log; a reader delivers the lines of the current release   *)
(* and, one source after another, of the earlier ones, and moves a cursor  *)
(* behind each line whose activity and audit were accepted.  What the      *)
(* Processor says of a request, its receipt, reaches the controller on     *)
(* another way and is joined to the line by the correlation of the request.*)
(*                                                                         *)
(* A line is its kind: an activity, a request denied for its token (an     *)
(* activity and an audit event), or what is left of two lines when a child *)
(* died in the middle of the first.  The i-th request of a release is the  *)
(* one of its i-th line; a request that dies with its process has no line, *)
(* and nothing asks for its receipt.  A child does not outlive its         *)
(* controller, and the log keeps what was written.  Signatures, the limits *)
(* on the sizes of lines and files, and the download of the gateway are    *)
(* left out.                                                               *)
(***************************************************************************)
EXTENDS Naturals, Sequences, FiniteSets

CONSTANTS
    Releases,          \* releases with projections
    NoRelease,         \* none; as the release to apply, one without projections
    Requests,          \* the kinds of lines the gateway writes
    Parts,             \* what the Processor says of a request: its receipt's parts
    Legacy,            \* the releases that may be current before any source is written
    MaxLines,          \* bound on the lines of a log
    BatchLines,        \* lines: the lines one pass of the reader takes
    MaxApplies,        \* bound on the releases applied
    ActivityMaxFaults  \* bound on refusals, failed writes, deaths and crashes

ASSUME ActivityAssumption ==
    /\ NoRelease \notin Releases /\ IsFiniteSet(Releases)
    /\ Requests \subseteq {"activity", "denied"} /\ Legacy \subseteq Releases \cup {NoRelease} /\ IsFiniteSet(Parts)
    /\ MaxLines \in Nat /\ BatchLines \in Nat \ {0}
    /\ MaxApplies \in Nat /\ ActivityMaxFaults \in Nat

VARIABLES
    log,            \* per release, activity.jsonl
    torn,           \* releases whose log ends in a part of a line
    state,          \* per release, what activity-source.json says
    cursor,         \* per release, activity.cursor
    files,          \* the receipts on disk: <<root, correlation, part>>
    activitySaved,  \* the release of current.json
    child,          \* the release of the gateway process
    owner,          \* sourceByChild: the release whose source is not yet sealed
    active,         \* the release of the process apply left running
    apply,          \* the release being applied and the step it is at
    cleanup,        \* reapProcessTree: the step it is at, and the receipts it wrote
    observation,    \* observationReleaseId
    memory,         \* routeLeaseByCorrelation and processorReceiptByCorrelation
    heard,          \* the receipt that the Processor's output is being read for
    writes,         \* receiptPersistence: the receipts being written
    current,        \* currentReleaseId, and its source as the reader keeps it
    historical,     \* the earlier source the reader keeps
    todo,           \* the directory entries the reader has not looked at
    activityDrain,  \* the drain: its step, slot, the source it took from the slot, and whether
                    \* the slot still refers to it
    started,        \* whether this controller has applied a release
    given,          \* what was accepted: <<release, line, "activity" or "audit">>
    promised,       \* receipts heard for lines that are not acknowledged
    missed,         \* receipts heard in time that an acknowledged line went without
    applies,        \* number of releases applied
    activityFaults  \* number of faults

diskVars == <<log, torn, state, cursor, files, activitySaved>>
applierVars == <<child, owner, active, apply, cleanup>>
receiptVars == <<observation, memory, heard, writes>>
readerVars == <<current, historical, todo, activityDrain>>
pastVars == <<given, promised, missed>>
activityVars == <<diskVars, applierVars, receiptVars, readerVars, started, pastVars, applies, activityFaults>>

Targets == Releases \cup {NoRelease}
ActivityCorrelations == Releases \X (1..MaxLines)
Kinds == {"activity", "denied", "garbled"}
NoSource == [rel |-> NoRelease, state |-> "OPEN", cursor |-> 0, scanned |-> 0, tail |-> FALSE, eof |-> FALSE]
Sources == [rel : Targets, state : {"OPEN", "SEALED"}, cursor : 0..MaxLines, scanned : 0..MaxLines,
            tail : BOOLEAN, eof : BOOLEAN]
Idle == [pc |-> "idle", slot |-> "current", src |-> NoSource, linked |-> FALSE, parts |-> {}, known |-> {}]
NoWork == [pc |-> "none", done |-> {}]
NoApply == [pc |-> "idle", rel |-> NoRelease]

ActivityFault == activityFaults < ActivityMaxFaults /\ activityFaults' = activityFaults + 1
CorrelationsOf(S) == {t[1] : t \in S}
PartsOf(S, c) == {p \in Parts : <<c, p>> \in S}
OnDisk(r, c) == {p \in Parts : <<r, c, p>> \in files}
HasLine(c) == c[2] <= Len(log[c[1]])
Kept(S, r) == {t \in S : t[1][1] # r \/ t[2] \in OnDisk(r, t[1])}

ActivityTypeOK ==
    /\ log \in [Releases -> UNION {[1..n -> Kinds] : n \in 0..MaxLines}]
    /\ torn \subseteq Releases
    /\ state \in [Releases -> {"none", "OPEN", "SEALED", "complete"}]
    /\ cursor \in [Releases -> 0..MaxLines]
    /\ files \subseteq Releases \X ActivityCorrelations \X Parts /\ activitySaved \in Targets
    /\ {child, owner, active, observation} \subseteq Targets
    /\ apply \in [pc : {"idle", "stop", "wait", "stopped", "spawn", "ready", "lkg", "failed"}, rel : Targets]
    /\ cleanup \in [pc : {"none", "drain", "kill", "persist", "seal", "flush"}, done : SUBSET ActivityCorrelations]
    /\ memory \subseteq ActivityCorrelations \X Parts
    /\ heard \in {<<>>} \cup (Releases \X ActivityCorrelations)
    /\ writes \subseteq [by : {"processor", "reader", "cleanup"}, rel : Releases, of : ActivityCorrelations, parts : SUBSET Parts]
    /\ current \in [rel : Targets, src : Sources] /\ historical \in Sources
    /\ todo \subseteq Releases
    /\ activityDrain \in [pc : {"idle", "historical", "load", "link", "read", "receipt", "saving", "activity", "audit",
                        "cursor", "complete"},
                  slot : {"current", "historical"}, src : Sources, linked : BOOLEAN, parts : SUBSET Parts, known : SUBSET Parts]
    /\ started \in BOOLEAN
    /\ given \subseteq Releases \X (1..MaxLines) \X {"activity", "audit"}
    /\ promised \subseteq ActivityCorrelations \X Parts /\ missed \subseteq ActivityCorrelations \X Parts
    /\ applies \in 0..MaxApplies /\ activityFaults \in 0..ActivityMaxFaults

\* A state of the first version that wrote activity-source.json: the release that
\* is current may have a log and no source.
ActivityInit ==
    /\ activitySaved \in Legacy
    /\ log = [r \in Releases |-> IF r = activitySaved THEN <<"activity">> ELSE <<>>]
    /\ torn = {} /\ state = [r \in Releases |-> "none"] /\ cursor = [r \in Releases |-> 0]
    /\ files = {} /\ child = NoRelease /\ owner = NoRelease /\ active = NoRelease
    /\ apply = NoApply /\ cleanup = NoWork
    /\ observation = NoRelease /\ memory = {} /\ heard = <<>> /\ writes = {}
    /\ current = [rel |-> NoRelease, src |-> NoSource] /\ historical = NoSource
    /\ todo = {} /\ activityDrain = Idle /\ started = FALSE
    /\ given = {} /\ promised = {} /\ missed = {} /\ applies = 0 /\ activityFaults = 0

-----------------------------------------------------------------------------
(* The gateway process and the Processor                                   *)

\* A line after a part of a line is one line with it.
WriteLine(r, kind) ==
    /\ child = r /\ Len(log[r]) < MaxLines
    /\ log' = [log EXCEPT ![r] = Append(@, IF r \in torn THEN "garbled" ELSE kind)]
    /\ torn' = torn \ {r}
    /\ UNCHANGED <<state, cursor, files, activitySaved, applierVars, receiptVars, readerVars, started, pastVars, applies, activityFaults>>

\* processProcessorStdout: the output is read once the last of it is dealt with.
\* A part may come after the line when an earlier one is there.
Hear(r, i, part) ==
    /\ child = r /\ heard = <<>> /\ <<r, i>> \in ActivityCorrelations
    /\ i = Len(log[r]) + 1 \/ (i = Len(log[r]) /\ <<r, i>> \in CorrelationsOf(memory))
    /\ <<<<r, i>>, part>> \notin memory
    /\ memory' = memory \cup {<<<<r, i>>, part>>}
    /\ heard' = IF observation = NoRelease THEN <<>> ELSE <<observation, <<r, i>>>>
    /\ promised' = IF observation = r /\ i > cursor[r] THEN promised \cup {<<<<r, i>>, part>>} ELSE promised
    /\ UNCHANGED <<diskVars, applierVars, observation, writes, readerVars, started, given, missed, applies, activityFaults>>

-----------------------------------------------------------------------------
(* persistCorrelationReceipt                                               *)

\* receiptPersistence: one write at a time.
Turn == writes = {}

\* A write takes what is known of the correlation now, and nothing when the
\* release is no longer the observed one.
ActivityTaken(by, r, c) ==
    IF observation = r /\ PartsOf(memory, c) # {}
    THEN {[by |-> by, rel |-> r, of |-> c, parts |-> PartsOf(memory, c)]} ELSE {}

HeardSaves ==
    /\ heard # <<>> /\ Turn /\ ~ \E w \in writes : w.by = "processor"
    /\ writes' = writes \cup ActivityTaken("processor", heard[1], heard[2])
    /\ heard' = IF writes' = writes THEN <<>> ELSE heard
    /\ UNCHANGED <<diskVars, applierVars, observation, memory, readerVars, started, pastVars, applies, activityFaults>>

\* The end of the write, for the one that waits for it: the Processor's output
\* is read on whatever the outcome, the reader and the cleanup fail with it.
Written(w) ==
    /\ w \in writes
    /\ writes' = writes \ {w}
    /\ files' = {f \in files : <<f[1], f[2]>> # <<w.rel, w.of>>} \cup {<<w.rel, w.of, p>> : p \in IF child = w.of[1] \/ HasLine(w.of) THEN w.parts ELSE {}}
    /\ heard' = IF w.by = "processor" THEN <<>> ELSE heard
    /\ cleanup' = IF w.by = "cleanup" THEN [cleanup EXCEPT !.done = @ \cup {w.of}] ELSE cleanup
    /\ activityDrain' = IF w.by = "reader"
                THEN [activityDrain EXCEPT !.pc = "activity", !.parts = {p \in Parts : <<w.rel, w.of, p>> \in files'}]
                ELSE activityDrain
    /\ UNCHANGED <<log, torn, state, cursor, activitySaved, child, owner, active, apply, observation, memory,
                   current, historical, todo, started, pastVars, applies, activityFaults>>

\* The source in hand goes back to the slot that refers to it.
Put(src, keep) ==
    /\ current' = IF activityDrain.slot = "current" /\ activityDrain.linked /\ keep THEN [current EXCEPT !.src = src] ELSE current
    /\ historical' = IF activityDrain.slot = "historical" /\ activityDrain.linked /\ keep THEN src ELSE historical
    /\ activityDrain' = IF activityDrain.slot = "current" THEN [Idle EXCEPT !.pc = "historical", !.slot = "historical"] ELSE Idle

\* consume ends with lines it could not acknowledge.
Break == Put(activityDrain.src, activityDrain.slot = "current")

\* The end of reapProcessTree: apply goes on, or fails, with it.  A process that
\* nobody refers to any more is not reaped again.
Reaped(ok) ==
    /\ cleanup' = NoWork
    /\ active' = IF ok /\ apply.pc = "wait" THEN NoRelease ELSE active
    /\ apply' = CASE apply.pc = "wait" /\ ok -> [apply EXCEPT !.pc = "stopped"]
                  [] apply.pc = "wait" /\ ~ ok -> NoApply
                  [] apply.pc = "failed" -> NoApply
                  [] OTHER -> apply
    /\ promised' = IF ok THEN promised ELSE Kept(promised, owner)

ActivityWriteFails(w) ==
    /\ w \in writes /\ ActivityFault
    /\ writes' = writes \ {w}
    /\ heard' = IF w.by = "processor" THEN <<>> ELSE heard
    /\ IF w.by = "cleanup" THEN Reaped(FALSE) ELSE UNCHANGED <<cleanup, active, apply, promised>>
    /\ IF w.by = "reader" THEN Break ELSE UNCHANGED <<current, historical, activityDrain>>
    /\ UNCHANGED <<diskVars, child, owner, observation, memory, todo, started, given, missed, applies>>

\* The end of a process and of the requests it had not yet logged.
Died ==
    /\ child' = NoRelease
    /\ memory' = {t \in memory : HasLine(t[1])} /\ files' = {f \in files : HasLine(f[2])}
    /\ promised' = {t \in promised : HasLine(t[1])}

-----------------------------------------------------------------------------
(* apply                                                                   *)

\* bootstrapPreviousSource: a log of an earlier version becomes a source once,
\* before it is forgotten which release was current.
Bootstrapped == {r \in Releases \cap {activitySaved} : ~ started /\ log[r] # <<>> /\ state[r] = "none"}

\* start
BeginApply(r) ==
    /\ apply.pc = "idle" /\ (applies < MaxApplies \/ ~ started)
    /\ state' = [s \in Releases |-> IF s \in Bootstrapped THEN "OPEN" ELSE state[s]]
    /\ started' = TRUE
    /\ apply' = [pc |-> "stop", rel |-> r]
    /\ observation' = IF observation = NoRelease THEN r ELSE observation
    /\ applies' = IF applies < MaxApplies THEN applies + 1 ELSE applies
    /\ UNCHANGED <<log, torn, cursor, files, activitySaved, child, owner, active, cleanup, memory, heard, writes,
                   readerVars, pastVars, activityFaults>>

BeginCleanup == cleanup' = [pc |-> "drain", done |-> {}]

\* stopActiveProcessTree: a cleanup that runs is waited for.
StopActive ==
    /\ apply.pc = "stop"
    /\ IF cleanup.pc # "none" THEN apply' = [apply EXCEPT !.pc = "wait"] /\ UNCHANGED cleanup
       ELSE IF active # NoRelease THEN apply' = [apply EXCEPT !.pc = "wait"] /\ BeginCleanup
       ELSE apply' = [apply EXCEPT !.pc = "stopped"] /\ UNCHANGED cleanup
    /\ UNCHANGED <<diskVars, child, owner, active, receiptVars, readerVars, started, pastVars, applies, activityFaults>>

\* clearCurrent, and the controller's save of a release without projections.
ApplyEmpty ==
    /\ apply.pc = "stopped" /\ apply.rel = NoRelease
    /\ current' = [rel |-> NoRelease, src |-> NoSource]
    /\ activityDrain' = IF activityDrain.slot = "current" THEN [activityDrain EXCEPT !.linked = FALSE] ELSE activityDrain
    /\ activitySaved' = NoRelease /\ apply' = NoApply /\ active' = NoRelease
    /\ UNCHANGED <<log, torn, state, cursor, files, child, owner, cleanup, receiptVars, historical, todo,
                   started, pastVars, applies, activityFaults>>

\* register
Register ==
    /\ apply.pc = "stopped" /\ apply.rel # NoRelease
    /\ state' = [state EXCEPT ![apply.rel] = "OPEN"]
    /\ current' = [rel |-> apply.rel, src |-> NoSource]
    /\ historical' = IF historical.rel = apply.rel THEN NoSource ELSE historical
    /\ activityDrain' = IF activityDrain.linked /\ (activityDrain.slot = "current" \/ activityDrain.src.rel = apply.rel)
                THEN [activityDrain EXCEPT !.linked = FALSE] ELSE activityDrain
    /\ observation' = apply.rel
    /\ apply' = [apply EXCEPT !.pc = "spawn"]
    /\ UNCHANGED <<log, torn, cursor, files, activitySaved, child, owner, active, cleanup, memory, heard, writes,
                   todo, started, pastVars, applies, activityFaults>>

\* The context is on disk or it is not, and currentReleaseId stays.
RegisterFails(written) ==
    /\ apply.pc = "stopped" /\ apply.rel # NoRelease /\ ActivityFault
    /\ state' = IF written THEN [state EXCEPT ![apply.rel] = "OPEN"] ELSE state
    /\ apply' = NoApply
    /\ UNCHANGED <<log, torn, cursor, files, activitySaved, child, owner, active, cleanup, receiptVars, readerVars,
                   started, pastVars, applies>>

Spawn ==
    /\ apply.pc = "spawn"
    /\ child' = apply.rel /\ owner' = apply.rel
    /\ apply' = [apply EXCEPT !.pc = "ready"]
    /\ UNCHANGED <<diskVars, active, cleanup, receiptVars, readerVars, started, pastVars, applies, activityFaults>>

\* waitForHealth, waitForEnvoyRunReadiness; then the last good release is noted
\* and only then the process is the active one.
Ready ==
    /\ apply.pc = "ready" /\ child = apply.rel
    /\ apply' = [apply EXCEPT !.pc = "lkg"]
    /\ UNCHANGED <<diskVars, child, owner, active, cleanup, receiptVars, readerVars, started, pastVars, applies, activityFaults>>

Applied ==
    /\ apply.pc = "lkg"
    /\ active' = apply.rel /\ activitySaved' = apply.rel /\ apply' = NoApply
    /\ UNCHANGED <<log, torn, state, cursor, files, child, owner, cleanup, receiptVars, readerVars, started,
                   pastVars, applies, activityFaults>>

\* The process is gone, or not ready in time: it is reaped, and apply fails.
NotReady ==
    /\ \/ apply.pc = "ready" /\ child = NoRelease /\ UNCHANGED activityFaults
       \/ apply.pc \in {"ready", "lkg"} /\ ActivityFault
    /\ apply' = [apply EXCEPT !.pc = "failed"]
    /\ IF cleanup.pc = "none" THEN BeginCleanup ELSE UNCHANGED cleanup
    /\ UNCHANGED <<diskVars, child, owner, active, receiptVars, readerVars, started, pastVars, applies>>

\* The exit of the process, perhaps in the middle of a line.
Exit(part) ==
    /\ child # NoRelease /\ ActivityFault
    /\ torn' = IF part THEN torn \cup {child} ELSE torn
    /\ Died
    /\ IF active = child
       THEN active' = NoRelease /\ (IF cleanup.pc = "none" THEN BeginCleanup ELSE UNCHANGED cleanup)
       ELSE UNCHANGED <<active, cleanup>>
    /\ UNCHANGED <<log, state, cursor, activitySaved, owner, apply, observation, heard, writes, readerVars, started, given,
                   missed, applies>>

-----------------------------------------------------------------------------
(* reapProcessTree                                                         *)

\* processorObservationPending, receiptPersistence
CleanupWaits ==
    /\ cleanup.pc = "drain" /\ heard = <<>> /\ Turn
    /\ cleanup' = [cleanup EXCEPT !.pc = "kill"]
    /\ UNCHANGED <<diskVars, child, owner, active, apply, receiptVars, readerVars, started, pastVars, applies, activityFaults>>

\* stopProcessTree
Kill ==
    /\ cleanup.pc = "kill"
    /\ Died
    /\ cleanup' = [cleanup EXCEPT !.pc = "persist"]
    /\ UNCHANGED <<log, torn, state, cursor, activitySaved, owner, active, apply, observation, heard, writes, readerVars,
                   started, given, missed, applies, activityFaults>>

\* persistStoppedReceipts
Unwritten == IF observation = owner THEN CorrelationsOf(memory) \ cleanup.done ELSE {}

PersistStopped(c) ==
    /\ cleanup.pc = "persist" /\ heard = <<>> /\ Turn /\ c \in Unwritten /\ owner # NoRelease
    /\ ~ \E w \in writes : w.by = "cleanup"
    /\ writes' = writes \cup ActivityTaken("cleanup", owner, c)
    /\ UNCHANGED <<diskVars, applierVars, observation, memory, heard, readerVars, started, pastVars, applies, activityFaults>>

Persisted ==
    /\ cleanup.pc = "persist" /\ heard = <<>> /\ Turn /\ Unwritten = {}
    /\ IF owner = NoRelease THEN Reaped(TRUE) ELSE cleanup' = [cleanup EXCEPT !.pc = "seal"] /\ UNCHANGED <<active, apply, promised>>
    /\ UNCHANGED <<diskVars, child, owner, receiptVars, readerVars, started, given, missed, applies, activityFaults>>

SealedIn(src) == IF src.rel = owner THEN [src EXCEPT !.state = "SEALED"] ELSE src

\* seal: the context on disk, and the sources the reader refers to.
Seal ==
    /\ cleanup.pc = "seal"
    /\ state' = [state EXCEPT ![owner] = "SEALED"]
    /\ current' = [current EXCEPT !.src = SealedIn(@)] /\ historical' = SealedIn(historical)
    /\ activityDrain' = IF activityDrain.linked THEN [activityDrain EXCEPT !.src = SealedIn(@)] ELSE activityDrain
    /\ cleanup' = [cleanup EXCEPT !.pc = "flush"]
    /\ UNCHANGED <<log, torn, cursor, files, activitySaved, child, owner, active, apply, receiptVars, todo, started, pastVars,
                   applies, activityFaults>>

SealFails(written) ==
    /\ cleanup.pc = "seal" /\ ActivityFault
    /\ state' = IF written THEN [state EXCEPT ![owner] = "SEALED"] ELSE state
    /\ Reaped(FALSE)
    /\ UNCHANGED <<log, torn, cursor, files, activitySaved, child, owner, receiptVars, readerVars, started, given, missed, applies>>

Forget ==
    /\ cleanup.pc = "flush" /\ Turn
    /\ owner' = NoRelease
    /\ IF observation = owner THEN memory' = {} /\ observation' = NoRelease ELSE UNCHANGED <<memory, observation>>
    /\ Reaped(TRUE)
    /\ UNCHANGED <<diskVars, child, heard, writes, readerVars, started, given, missed, applies, activityFaults>>

-----------------------------------------------------------------------------
(* The drain                                                               *)

\* The current release's source, if there is one: the reader's, or the one on disk.
ActivityBeginDrain ==
    /\ activityDrain.pc = "idle" /\ started
    /\ activityDrain' = IF current.rel = NoRelease THEN [Idle EXCEPT !.pc = "historical", !.slot = "historical"]
                ELSE IF current.src.rel = current.rel
                THEN [Idle EXCEPT !.pc = "read", !.src = current.src, !.linked = TRUE]
                ELSE [Idle EXCEPT !.pc = "load", !.src = [NoSource EXCEPT !.rel = current.rel]]
    /\ current' = [current EXCEPT !.src = NoSource]
    /\ UNCHANGED <<diskVars, applierVars, receiptVars, historical, todo, started, pastVars, applies, activityFaults>>

\* opendir
ActivityEntries == Releases

\* historical, or else the next entry of the directory that is a source.
NextHistorical ==
    /\ activityDrain.pc = "historical"
    /\ \/ /\ historical # NoSource
          /\ activityDrain' = [activityDrain EXCEPT !.pc = "read", !.src = historical, !.linked = TRUE]
          /\ UNCHANGED todo
       \/ /\ historical = NoSource /\ todo = {}
          /\ todo' = ActivityEntries /\ activityDrain' = Idle
       \/ /\ historical = NoSource
          /\ \E r \in todo :
                /\ todo' = todo \ {r}
                /\ activityDrain' = IF r # current.rel /\ state[r] \in {"OPEN", "SEALED"}
                            THEN [activityDrain EXCEPT !.pc = "load", !.src = [NoSource EXCEPT !.rel = r]] ELSE activityDrain
    /\ historical' = NoSource
    /\ UNCHANGED <<diskVars, applierVars, receiptVars, current, started, pastVars, applies, activityFaults>>

LoadedCursor(r) == cursor[r]

\* load: the context and the cursor; a source that is complete by now is not there.
Load ==
    /\ activityDrain.pc = "load"
    /\ IF state[activityDrain.src.rel] \in {"OPEN", "SEALED"}
       THEN /\ activityDrain' = [activityDrain EXCEPT !.pc = "link", !.src = [NoSource EXCEPT !.rel = activityDrain.src.rel,
                                       !.state = state[activityDrain.src.rel], !.cursor = LoadedCursor(activityDrain.src.rel)]]
            /\ UNCHANGED <<current, historical>>
       ELSE Put(NoSource, FALSE)
    /\ UNCHANGED <<diskVars, applierVars, receiptVars, todo, started, pastVars, applies, activityFaults>>

\* What was loaded becomes current if its release still is, and historical in
\* any case.
Link ==
    /\ activityDrain.pc = "link"
    /\ activityDrain' = [activityDrain EXCEPT !.pc = "read", !.linked = (activityDrain.slot = "historical" \/ current.rel = activityDrain.src.rel)]
    /\ UNCHANGED <<diskVars, applierVars, receiptVars, current, historical, todo, started, pastVars, applies, activityFaults>>

\* readBatch: up to BatchLines lines; the end is seen when nothing is left to read.
ReadBatch(n, eof) ==
    LET src == activityDrain.src
        r == src.rel
    IN /\ activityDrain.pc = "read"
       /\ n \in src.scanned..Len(log[r])
       /\ n <= src.scanned + BatchLines /\ (eof => n = Len(log[r])) /\ (n > src.scanned \/ eof)
       /\ IF src.scanned > src.cursor
          THEN activityDrain' = [activityDrain EXCEPT !.pc = "receipt"]
          ELSE activityDrain' = [activityDrain EXCEPT !.pc = IF n > src.cursor THEN "receipt" ELSE "complete",
                                      !.src = [src EXCEPT !.scanned = n, !.eof = eof, !.tail = eof /\ r \in torn]]
       /\ UNCHANGED <<diskVars, applierVars, receiptVars, current, historical, todo, started, pastVars, applies, activityFaults>>

\* The line in hand, its number and its correlation.
LineNumber == activityDrain.src.cursor + 1
Line == log[activityDrain.src.rel][LineNumber]
Correlation == <<activityDrain.src.rel, LineNumber>>

\* observationsForLine: what is in memory of the observed release is written
\* first, and what is on disk is what the line goes with.
FindReceipt ==
    /\ activityDrain.pc = "receipt"
    /\ IF Line = "garbled" THEN activityDrain' = [activityDrain EXCEPT !.pc = "cursor", !.parts = {}] /\ UNCHANGED writes
       ELSE /\ heard = <<>> /\ Turn
            /\ writes' = writes \cup ActivityTaken("reader", activityDrain.src.rel, Correlation)
            /\ activityDrain' = [activityDrain EXCEPT !.pc = IF writes' # writes THEN "saving" ELSE "activity",
                                      !.parts = IF writes' # writes THEN {} ELSE OnDisk(activityDrain.src.rel, Correlation),
                                      !.known = PartsOf(promised, Correlation)]
    /\ UNCHANGED <<diskVars, applierVars, observation, memory, heard, current, historical, todo, started,
                   pastVars, applies, activityFaults>>

Give(what, next) ==
    /\ given' = given \cup {<<activityDrain.src.rel, LineNumber, what>>}
    /\ activityDrain' = [activityDrain EXCEPT !.pc = next]
    /\ UNCHANGED <<diskVars, applierVars, receiptVars, current, historical, todo, started, promised, missed, applies, activityFaults>>

AfterActivity == IF Line = "denied" THEN "audit" ELSE "cursor"

\* onActivity, onAuthenticationFailure
GiveActivity == activityDrain.pc = "activity" /\ Give("activity", AfterActivity)
GiveAudit == activityDrain.pc = "audit" /\ Give("audit", "cursor")

Refused ==
    /\ activityDrain.pc \in {"activity", "audit"} /\ ActivityFault
    /\ Break
    /\ UNCHANGED <<diskVars, applierVars, receiptVars, todo, started, pastVars, applies>>

\* persistCursor, onLineAcknowledged
Acknowledge ==
    /\ activityDrain.pc = "cursor"
    /\ cursor' = [cursor EXCEPT ![activityDrain.src.rel] = LineNumber]
    /\ activityDrain' = [activityDrain EXCEPT !.pc = IF LineNumber < activityDrain.src.scanned THEN "receipt" ELSE "complete",
                              !.src = [activityDrain.src EXCEPT !.cursor = LineNumber],
                              !.parts = {}, !.known = {}]
    /\ memory' = IF observation = activityDrain.src.rel /\ Line # "garbled"
                 THEN {t \in memory : t[1] # Correlation} ELSE memory
    /\ missed' = missed \cup ({Correlation} \X (activityDrain.known \ activityDrain.parts))
    /\ promised' = {t \in promised : t[1] # Correlation}
    /\ UNCHANGED <<log, torn, state, files, activitySaved, applierVars, observation, heard, writes, current, historical, todo,
                   started, given, applies, activityFaults>>

\* The cursor is on disk or it is not, and the line is not acknowledged.
CursorFails(written) ==
    /\ activityDrain.pc = "cursor" /\ ActivityFault
    /\ cursor' = IF written THEN [cursor EXCEPT ![activityDrain.src.rel] = LineNumber] ELSE cursor
    /\ Break
    /\ UNCHANGED <<log, torn, state, files, activitySaved, applierVars, receiptVars, todo, started, pastVars, applies>>

\* Mutation of MayComplete: the context is not read again.
MayCompleteLoaded(src) ==
    /\ src.state = "SEALED" /\ src.eof /\ ~ src.tail /\ src.scanned = src.cursor
    /\ state[src.rel] \in {"OPEN", "SEALED"}

\* complete: of what was read, and again of what is on disk.
MayComplete(src) ==
    /\ src.state = "SEALED" /\ src.eof /\ ~ src.tail /\ src.scanned = src.cursor
    /\ state[src.rel] = "SEALED" /\ Len(log[src.rel]) = src.scanned /\ src.rel \notin torn

Complete ==
    /\ activityDrain.pc = "complete"
    /\ IF MayComplete(activityDrain.src)
       THEN state' = [state EXCEPT ![activityDrain.src.rel] = "complete"] /\ Put(NoSource, TRUE)
       ELSE UNCHANGED state /\ Put(activityDrain.src, activityDrain.slot = "current" \/ ~ activityDrain.src.eof)
    /\ UNCHANGED <<log, torn, cursor, files, activitySaved, applierVars, receiptVars, todo, started, pastVars, applies, activityFaults>>

-----------------------------------------------------------------------------
\* The controller and its processes die; the log, the sources, the cursors and the
\* receipts stay.
ActivityCrash(part) ==
    /\ started /\ ActivityFault
    /\ torn' = IF part /\ child # NoRelease THEN torn \cup {child} ELSE torn
    /\ child' = NoRelease /\ owner' = NoRelease /\ active' = NoRelease
    /\ apply' = NoApply /\ cleanup' = NoWork
    /\ observation' = NoRelease /\ memory' = {} /\ heard' = <<>> /\ writes' = {}
    /\ current' = [rel |-> NoRelease, src |-> NoSource] /\ historical' = NoSource
    /\ todo' = {} /\ activityDrain' = Idle /\ started' = FALSE
    /\ promised' = {t \in promised : HasLine(t[1]) /\ t[2] \in OnDisk(t[1][1], t[1])}
    /\ files' = {f \in files : HasLine(f[2])}
    /\ UNCHANGED <<log, state, cursor, activitySaved, given, missed, applies>>

GatewayStep ==
    \/ \E r \in Releases, kind \in Requests : WriteLine(r, kind)
    \/ \E r \in Releases, i \in 1..MaxLines, part \in Parts : Hear(r, i, part)

ReceiptStep == HeardSaves \/ \E w \in writes : Written(w)

ApplyStep == StopActive \/ ApplyEmpty \/ Register \/ Spawn \/ Ready \/ Applied \/ (NotReady /\ activityFaults' = activityFaults)

CleanupStep == CleanupWaits \/ Kill \/ (\E c \in ActivityCorrelations : PersistStopped(c)) \/ Persisted \/ Seal \/ Forget

DrainStep ==
    \/ ActivityBeginDrain \/ NextHistorical \/ Load \/ Link
    \/ \E n \in 0..MaxLines, eof \in BOOLEAN : ReadBatch(n, eof)
    \/ FindReceipt \/ GiveActivity \/ GiveAudit \/ Acknowledge \/ Complete

FaultStep ==
    \/ \E w \in writes : ActivityWriteFails(w)
    \/ NotReady \/ Refused
    \/ \E b \in BOOLEAN : RegisterFails(b) \/ SealFails(b) \/ CursorFails(b) \/ Exit(b) \/ ActivityCrash(b)

ActivityNext ==
    \/ \E r \in Targets : BeginApply(r)
    \/ GatewayStep \/ ReceiptStep \/ ApplyStep \/ CleanupStep \/ DrainStep \/ FaultStep

ActivitySpec == ActivityInit /\ [][ActivityNext]_activityVars

-----------------------------------------------------------------------------
(* Properties                                                              *)

\* No line is behind the cursor whose activity, and whose audit event if it is a
\* denied request, were not accepted: after a refusal, a failed write of the
\* cursor, a crash, and while a release is applied again under the reader.
AcknowledgedIsDelivered ==
    \A r \in Releases : \A i \in 1..cursor[r] :
        /\ log[r][i] # "garbled" => <<r, i, "activity">> \in given
        /\ log[r][i] = "denied" => <<r, i, "audit">> \in given

\* A source is complete only when every line of its log was accepted and no
\* process can append another one: the reader that completes it may have read it
\* before the release was applied again, and the cursor may have gone back under a
\* second reader of it.
CompleteIsRead ==
    \A r \in Releases : state[r] = "complete" =>
        /\ \A i \in 1..Len(log[r]) : log[r][i] = "garbled" \/ <<r, i, "activity">> \in given
        /\ r \notin torn /\ child # r

\* When a source is sealed, every part of a receipt that was heard while its
\* process ran, and whose line is not acknowledged, is on disk: the reader, the
\* Processor's output and the cleanup write the same file.
SealedKeepsReceipts ==
    \A t \in promised : state[t[1][1]] \in {"SEALED", "complete"} => t[2] \in OnDisk(t[1][1], t[1])

\* A line is acknowledged with every part of its receipt that was heard before
\* the reader looked for it, also when the process is gone by then: a part is lost
\* only with the controller, or when the cleanup of its process fails.
AcknowledgedWithReceipt == missed = {}

(* The cursor, the sources' states and the receipts never run ahead of     *)
(* what was delivered, whichever of the applier, the cleanup, the reader   *)
(* and the Processor's output is interrupted.                              *)
NativeSafe ==
    /\ ActivityTypeOK /\ AcknowledgedIsDelivered /\ CompleteIsRead /\ SealedKeepsReceipts
    /\ AcknowledgedWithReceipt

=============================================================================
