------------------------ MODULE CallerContinuation ------------------------
(***************************************************************************)
(* The caller's turn after a handoff has ended: rows of bot_continuations  *)
(* (bot-continuations.ts) and the loop continueCallers that starts one     *)
(* native turn for each of them (caller-continuation.ts).  All entries     *)
(* here belong to one caller Bot and one thread.                           *)
(*                                                                         *)
(* The loop works on the rows as it read them when it began.  A turn/start *)
(* that was sent may be accepted, lost, or, where slow, accepted after its *)
(* request has timed out (30 s).                                           *)
(***************************************************************************)
EXTENDS Integers, FiniteSets, FiniteSetsExt

CONSTANTS
    Entries,                 \* continuation rows in rowid order, a range of numbers
    Paces,                   \* whether the runtime may be slow, not slow, or either
    MaxStarts,               \* bound on the turn/start requests of an entry
    ContinuationMaxCrashes,  \* bound on server crashes
    MaxUser                  \* bound on the owner's own turns on the thread

ASSUME ContinuationAssumption ==
    /\ Entries \subseteq Nat \ {0} /\ IsFiniteSet(Entries)
    /\ Paces \subseteq BOOLEAN
    /\ MaxStarts \in Nat /\ ContinuationMaxCrashes \in Nat /\ MaxUser \in Nat

VARIABLES
    slow,                \* whether the runtime may accept a start after its request timed out; it stays
    row,                 \* [st, turn]: state and turn_id of the row, turn 0 for null
    turns,               \* native turns on the thread, in order of start: [owner, status]
    shown,               \* turns the timeline still shows as inProgress
    continuationFlight,  \* entries whose turn/start is on its way to the runtime
    sent,                \* turn/start requests ever sent for an entry
    loop,                \* what continueCallers is doing: [pc, e, snap, active, found, todo]
    continuationCrashes, userTurns

continuationVars == <<row, turns, shown, continuationFlight, sent, loop, continuationCrashes, userTurns>>

ContinuationLive == {"pending", "starting", "running"}
Done == {"completed", "failed"}
NotFound == [st |-> "none", turn |-> 0]
ContinuationIdle == [pc |-> "idle", e |-> 0, snap |-> [e \in {} |-> "none"], active |-> FALSE,
         found |-> NotFound, todo |-> {}]
User == 0
Active == \E t \in DOMAIN turns : turns[t].status = "inProgress"

ContinuationInit ==
    /\ slow \in Paces
    /\ row = [e \in Entries |-> [st |-> "none", turn |-> 0]]
    /\ turns = [t \in {} |-> [owner |-> User, status |-> "inProgress"]]
    /\ shown = {}
    /\ continuationFlight = {}
    /\ sent = [e \in Entries |-> 0]
    /\ loop = ContinuationIdle
    /\ continuationCrashes = 0
    /\ userTurns = 0

NewTurn == Cardinality(DOMAIN turns) + 1
WithTurn(e) == [t \in DOMAIN turns \cup {NewTurn} |->
                  IF t \in DOMAIN turns THEN turns[t]
                  ELSE [owner |-> e, status |-> "inProgress"]]

\* Mutant: the row is replaced.
enqueueAgain(e) ==
    /\ row' = [row EXCEPT ![e] = [st |-> "pending", turn |-> 0]]
    /\ row[e].st # "pending"
    /\ UNCHANGED <<turns, shown, continuationFlight, sent, loop, continuationCrashes, userTurns>>

\* insert or ignore, in the transaction that ends the invocation.
enqueue(e) ==
    /\ row[e].st = "none"
    /\ row' = [row EXCEPT ![e].st = "pending"]
    /\ UNCHANGED <<turns, shown, continuationFlight, sent, loop, continuationCrashes, userTurns>>

-----------------------------------------------------------------------------
(* continueCallers *)

\* Mutant: only rows not started yet are looked at.
beginPending ==
    /\ loop.pc = "idle"
    /\ \E e \in Entries : row[e].st = "pending"
    /\ LET todo == {e \in Entries : row[e].st = "pending"}
       IN  loop' = [pc |-> "next", e |-> 0, snap |-> [e \in todo |-> row[e].st],
                    active |-> FALSE, found |-> NotFound, todo |-> todo]
    /\ UNCHANGED <<row, turns, shown, continuationFlight, sent, continuationCrashes, userTurns>>

\* One loop at a time; pending() is read once.
begin ==
    /\ loop.pc = "idle"
    /\ \E e \in Entries : row[e].st \in ContinuationLive
    /\ LET todo == {e \in Entries : row[e].st \in ContinuationLive}
       IN  loop' = [pc |-> "next", e |-> 0, snap |-> [e \in todo |-> row[e].st],
                    active |-> FALSE, found |-> NotFound, todo |-> todo]
    /\ UNCHANGED <<row, turns, shown, continuationFlight, sent, continuationCrashes, userTurns>>

nextEntry(l) == IF l.todo = {} THEN ContinuationIdle ELSE [l EXCEPT !.pc = "next"]

\* The claim of the Bot's turn is free here: the loop is the only claimant and
\* the owner's turn shows as running.  With a turn running the entry waits.
take ==
    /\ loop.pc = "next"
    /\ LET e == Min(loop.todo)
           l == [loop EXCEPT !.todo = @ \ {e}, !.e = e]
       IN  loop' = IF shown # {} THEN nextEntry(l) ELSE [l EXCEPT !.pc = "read"]
    /\ UNCHANGED <<row, turns, shown, continuationFlight, sent, continuationCrashes, userTurns>>

\* assertCapability and thread/read.
readThread ==
    /\ loop.pc = "read"
    /\ loop' = [loop EXCEPT !.pc = "list", !.active = Active]
    /\ UNCHANGED <<row, turns, shown, continuationFlight, sent, continuationCrashes, userTurns>>

\* A refusal, a changed model route, a thread read as active or a failed
\* request before turn/start defers the entry.
defer ==
    /\ loop.pc \in {"read", "list", "resume"}
    /\ loop' = nextEntry(loop)
    /\ UNCHANGED <<row, turns, shown, continuationFlight, sent, continuationCrashes, userTurns>>

Carrying(e) == {t \in DOMAIN turns : turns[t].owner = e}

Observed(s) == IF s = "inProgress" THEN "running" ELSE IF s = "completed" THEN s ELSE "failed"

\* thread/turns/list, for a row read as starting or running: the first turn
\* that carries the client id, as it stands when the runtime answers.
listTurns ==
    /\ loop.pc = "list"
    /\ loop' = [loop EXCEPT !.pc = "reconcile", !.found =
           IF loop.snap[loop.e] = "pending" \/ Carrying(loop.e) = {} THEN NotFound
           ELSE [st |-> Observed(turns[Min(Carrying(loop.e))].status),
                 turn |-> Min(Carrying(loop.e))]]
    /\ UNCHANGED <<row, turns, shown, continuationFlight, sent, continuationCrashes, userTurns>>

\* The row takes what was found, whatever has been recorded since.
reconcile ==
    /\ loop.pc = "reconcile"
    /\ IF loop.found # NotFound
       THEN row' = [row EXCEPT ![loop.e] = loop.found] /\ loop' = nextEntry(loop)
       ELSE /\ loop' = IF loop.snap[loop.e] = "running" \/ loop.active
                       THEN nextEntry(loop) ELSE [loop EXCEPT !.pc = "resume"]
            /\ UNCHANGED row
    /\ UNCHANGED <<turns, shown, continuationFlight, sent, continuationCrashes, userTurns>>

\* Policy, thread/resume, then claim for a row read as pending, and turn/start.
continuationClaim ==
    /\ loop.pc = "resume"
    /\ sent[loop.e] < MaxStarts
    /\ loop.snap[loop.e] = "pending" => row[loop.e].st = "pending"
    /\ row' = IF loop.snap[loop.e] = "pending" THEN [row EXCEPT ![loop.e].st = "starting"] ELSE row
    /\ continuationFlight' = continuationFlight \cup {loop.e}
    /\ sent' = [sent EXCEPT ![loop.e] = @ + 1]
    /\ loop' = [loop EXCEPT !.pc = "sent"]
    /\ UNCHANGED <<turns, shown, continuationCrashes, userTurns>>

\* The answer carries the turn; it may come after the turn's own events.
started ==
    /\ loop.pc = "sent" /\ loop.e \notin continuationFlight /\ Carrying(loop.e) # {}
    /\ row' = IF row[loop.e].st = "starting"
              THEN [row EXCEPT ![loop.e] = [st |-> "running", turn |-> Max(Carrying(loop.e))]]
              ELSE row
    /\ loop' = nextEntry(loop)
    /\ UNCHANGED <<turns, shown, continuationFlight, sent, continuationCrashes, userTurns>>

\* The request fails or times out: the row stays starting.  The last start
\* within the bound is answered.
startFails ==
    /\ loop.pc = "sent" /\ sent[loop.e] < MaxStarts
    /\ \/ continuationFlight' = continuationFlight \ {loop.e}
       \/ slow /\ continuationFlight' = continuationFlight
    /\ loop' = nextEntry(loop)
    /\ UNCHANGED <<row, turns, shown, sent, continuationCrashes, userTurns>>

-----------------------------------------------------------------------------
(* The runtime, its events, the owner, crashes *)

\* The turn begins and its events are recorded; the user message with the
\* client id makes a starting row run.
accept(e) ==
    /\ e \in continuationFlight
    /\ continuationFlight' = continuationFlight \ {e}
    /\ turns' = WithTurn(e)
    /\ shown' = shown \cup {NewTurn}
    /\ row' = IF row[e].st = "starting" THEN [row EXCEPT ![e] = [st |-> "running", turn |-> NewTurn]]
              ELSE row
    /\ UNCHANGED <<sent, loop, continuationCrashes, userTurns>>

observe(e, t) == row[e].st \in {"starting", "running"} /\ row[e].turn = t

turnCompleted(t) ==
    /\ turns[t].status = "inProgress"
    /\ \E s \in Done :
         /\ turns' = [turns EXCEPT ![t].status = s]
         /\ row' = [e \in Entries |-> IF observe(e, t) THEN [row[e] EXCEPT !.st = s] ELSE row[e]]
    /\ shown' = shown \ {t}
    /\ UNCHANGED <<continuationFlight, sent, loop, continuationCrashes, userTurns>>

\* The owner starts a turn of their own; it holds the Bot's claim until it shows.
userTurn ==
    /\ userTurns < MaxUser /\ loop.pc \in {"idle", "next"} /\ ~Active
    /\ userTurns' = userTurns + 1
    /\ turns' = WithTurn(User)
    /\ shown' = shown \cup {NewTurn}
    /\ UNCHANGED <<row, continuationFlight, sent, loop, continuationCrashes>>

\* The owner opens the thread and its native history is imported.
continuationImportRuntimeHistory ==
    /\ shown # {t \in DOMAIN turns : turns[t].status = "inProgress"}
    /\ shown' = {t \in DOMAIN turns : turns[t].status = "inProgress"}
    /\ UNCHANGED <<row, turns, continuationFlight, sent, loop, continuationCrashes, userTurns>>

\* Server and runtime die; rows, timeline and native history stay.
continuationCrash ==
    /\ continuationCrashes < ContinuationMaxCrashes
    /\ continuationCrashes' = continuationCrashes + 1
    /\ loop' = ContinuationIdle
    /\ continuationFlight' = {}
    /\ turns' = [t \in DOMAIN turns |->
           IF turns[t].status = "inProgress" THEN [turns[t] EXCEPT !.status = "failed"] ELSE turns[t]]
    /\ UNCHANGED <<row, shown, sent, userTurns>>

ContinuationNext ==
    \/ \E e \in Entries : enqueue(e) \/ accept(e)
    \/ begin \/ take \/ readThread \/ defer \/ listTurns \/ reconcile \/ continuationClaim \/ started \/ startFails
    \/ \E t \in DOMAIN turns : turnCompleted(t)
    \/ userTurn \/ continuationImportRuntimeHistory \/ continuationCrash

ContinuationSpec == ContinuationInit /\ [][ContinuationNext /\ UNCHANGED slow]_<<slow, continuationVars>>

\* The timer fires again and again, the loop's requests are answered, a turn
\* ends; policy and runtime do not put an entry off for ever.
ContinuationFairness ==
    /\ WF_continuationVars(begin \/ take \/ reconcile \/ started)
    /\ SF_continuationVars(readThread) /\ SF_continuationVars(listTurns) /\ SF_continuationVars(continuationClaim)
    /\ \A e \in Entries : WF_continuationVars(accept(e))
    /\ WF_continuationVars(\E t \in DOMAIN turns : turnCompleted(t))

-----------------------------------------------------------------------------
(* Properties *)

ContinuationTypeOK ==
    /\ row \in [Entries -> [st : {"none"} \cup ContinuationLive \cup Done, turn : Nat]]
    /\ \A t \in DOMAIN turns : turns[t] \in [owner : Entries \cup {User},
                                             status : {"inProgress"} \cup Done]
    /\ shown \subseteq DOMAIN turns
    /\ continuationFlight \subseteq Entries
    /\ sent \in [Entries -> 0 .. MaxStarts]
    /\ loop.pc \in {"idle", "next", "read", "list", "reconcile", "resume", "sent"}
    /\ loop.todo \subseteq DOMAIN loop.snap
    /\ continuationCrashes \in 0 .. ContinuationMaxCrashes /\ userTurns \in 0 .. MaxUser

\* The outcome of one handoff starts exactly one turn of the caller: two turns
\* never carry the same client id, whatever stale rows the loop works on and
\* whatever requests were lost before, unless the runtime is slow.
ContinuedOnce ==
    ~slow => \A e \in Entries : Cardinality(Carrying(e)) + (IF e \in continuationFlight THEN 1 ELSE 0) <= 1

\* A row names the turn that carries its own client id, and it is never put
\* back to waiting once there is such a turn.
RowNamesItsTurn ==
    \A e \in Entries :
        /\ row[e].turn # 0 => row[e].turn \in Carrying(e)
        /\ row[e].st \in {"none", "pending"} => Carrying(e) = {}

\* A row says that its turn has ended only as the native history says it.
RowFollowsTurn ==
    \A e \in Entries : row[e].st \in Done =>
        row[e].turn \in DOMAIN turns /\ turns[row[e].turn].status = row[e].st

\* Without a crash every outcome is carried to its end, a row that a stale
\* history has put back to running included.
ContinuationEnds ==
    \A e \in Entries : row[e].st = "pending" ~> [](row[e].st \in Done)

(* Whatever stale rows and histories the loop works on, a continuation row *)
(* names its own turn and ends as that turn ended, and one outcome starts  *)
(* one turn unless the runtime takes a request it had let time out.        *)
ContinuationSafe ==
    /\ ContinuationTypeOK /\ RowNamesItsTurn /\ RowFollowsTurn /\ ContinuedOnce

===========================================================================
