--------------------------- MODULE BotInvocations ---------------------------
(***************************************************************************)
(* Bot to Bot work: the invocation rows and the handoffs around them       *)
(* (bot-invocation-store.ts, bot-handoff.ts, the transactions of           *)
(* bot-registry.ts), the executor that runs an approved invocation on its  *)
(* target Bot (routes/invocations.ts), and the timer that recovers what a  *)
(* crash or a lost event left behind (invocation-recovery.ts).             *)
(*                                                                         *)
(* SQLite rows survive a crash; executors and turn claims are memory.  The *)
(* native runtime is a child process: a turn/start is in flight until the  *)
(* runtime accepts it, and the timeline learns of a turn only when its     *)
(* event is recorded or the native history is imported.                    *)
(***************************************************************************)
EXTENDS Integers, FiniteSets

CONSTANTS
    Invs,                  \* invocation ids
    InvocationBots,        \* Bots that are the target of some invocation
    Target,                \* [Invs -> Bots]
    Kind,                  \* [Invs -> {"direct", "task", "fyi"}]: "direct" has no handoff row
    Cross,                 \* invocations whose target belongs to another owner
    InvocationMaxCrashes,  \* bound on server crashes
    MaxExits               \* bound on exits of the native runtime

Kinds == {"direct", "task", "fyi"}

ASSUME InvocationAssumption ==
    /\ Target \in [Invs -> InvocationBots]
    /\ Kind \in [Invs -> Kinds]
    /\ Cross \subseteq Invs
    /\ InvocationMaxCrashes \in Nat /\ MaxExits \in Nat

VARIABLES
    state,             \* bot_invocations.state, "none" before the row exists
    invocationLate,    \* expires_at has passed
    handoff,           \* bot_handoffs: [st, processed]
    told,              \* terminal events the caller has on its handoff
    cont,              \* outcome of the caller continuation row, "none" when absent
    invocationBot,     \* the target: "live", "archived" or "gone"
    shared,            \* the target's share policy is discoverable and invocable
    invocationClaim,   \* runtimeBroker.botTurnClaims: the invocation holding it, or "free"
    invocationExec,    \* where executeApprovedBotInvocation stands for the invocation
    ok,                \* the executor's result while it reports
    granted,           \* the executor holds a policy authorization
    audit,             \* outcome the policy service has recorded for the invocation
    invocationFlight,  \* a turn/start sent and not yet accepted
    turn,              \* the native turn carrying handoff-task:<id>
    starts,            \* turns ever started for the invocation
    seen,              \* that turn in bot_timeline_turns
    invocationCrashes, exits

invocationVars == <<state, invocationLate, handoff, told, cont, invocationBot, shared, invocationClaim, invocationExec, ok, granted,
          audit, invocationFlight, turn, starts, seen, invocationCrashes, exits>>

invocationRows == <<state, handoff, told, cont>>
invocationNative == <<invocationFlight, turn, starts, seen>>
world == <<invocationLate, invocationBot, shared, invocationCrashes, exits>>

Terminal == {"COMPLETED", "FAILED", "DENIED", "EXPIRED"}
InvocationStates == {"none", "PENDING", "APPROVED", "RUNNING"} \cup Terminal
InvocationEnded == {"completed", "interrupted"}
Turns == {"none", "inProgress"} \cup InvocationEnded
Phases == {"idle", "claimed", "checking", "starting", "authorizing", "setup",
           "sent", "running", "reporting"}
NoHandoff == [st |-> "none", processed |-> FALSE]

-----------------------------------------------------------------------------
(* Rows and the transactions that settle them *)

OutcomeEvent(i, s) ==
    IF s # "COMPLETED" THEN "failed" ELSE IF Kind[i] = "fyi" THEN "read" ELSE "replied"

\* recordInvocationOutcome and continuations.enqueue, in the transaction that
\* leaves the row in state s; insert-or-ignore keeps the first continuation.
Record(i, s) ==
    /\ state' = [state EXCEPT ![i] = s]
    /\ IF s \in Terminal
       THEN /\ told' = IF Kind[i] = "direct" THEN told
                       ELSE [told EXCEPT ![i] = @ \cup {OutcomeEvent(i, s)}]
            /\ handoff' = IF Kind[i] = "direct" THEN handoff
                          ELSE [handoff EXCEPT ![i].st = s]
            /\ cont' = IF Kind[i] = "fyi" \/ cont[i] # "none" THEN cont
                       ELSE [cont EXCEPT ![i] = s]
       ELSE UNCHANGED <<told, handoff, cont>>

completeInvocation(i) ==
    Record(i, IF state[i] = "RUNNING" THEN "COMPLETED" ELSE state[i])

failInvocation(i) ==
    Record(i, IF state[i] \in {"APPROVED", "RUNNING"} THEN "FAILED" ELSE state[i])

denyInvocationForService(i) ==
    IF state[i] \in {"RUNNING", "DENIED"} THEN Record(i, "DENIED") ELSE UNCHANGED invocationRows

\* processHandoff of a row that may be processed.
Delivered(h) == [st |-> "DELIVERED", processed |-> TRUE]

Revoked(i) == invocationBot[Target[i]] # "live" \/ ~shared[Target[i]]

InvocationInit ==
    /\ state = [i \in Invs |-> "none"]
    /\ invocationLate = [i \in Invs |-> FALSE]
    /\ handoff = [i \in Invs |-> NoHandoff]
    /\ told = [i \in Invs |-> {}]
    /\ cont = [i \in Invs |-> "none"]
    /\ invocationBot = [b \in InvocationBots |-> "live"]
    /\ shared = [b \in InvocationBots |-> TRUE]
    /\ invocationClaim = [b \in InvocationBots |-> "free"]
    /\ invocationExec = [i \in Invs |-> "idle"]
    /\ ok = [i \in Invs |-> FALSE]
    /\ granted = [i \in Invs |-> FALSE]
    /\ audit = [i \in Invs |-> "none"]
    /\ invocationFlight = [i \in Invs |-> FALSE]
    /\ turn = [i \in Invs |-> "none"]
    /\ starts = [i \in Invs |-> 0]
    /\ seen = [i \in Invs |-> "none"]
    /\ invocationCrashes = 0
    /\ exits = 0

memory == <<invocationClaim, invocationExec, ok, granted, audit>>

\* A direct invocation needs a shared target and is approved at once only for
\* the same owner under POLICY_AUTO_APPROVE.
createInvocation(i) ==
    /\ Kind[i] = "direct" /\ state[i] = "none" /\ ~Revoked(i)
    /\ \E s \in IF i \in Cross THEN {"PENDING"} ELSE {"PENDING", "APPROVED"} :
           state' = [state EXCEPT ![i] = s]
    /\ UNCHANGED <<handoff, told, cont, memory, invocationNative, world>>

\* A same-owner handoff is approved and queued; a cross-owner one waits.
createHandoffs(i) ==
    /\ Kind[i] # "direct" /\ state[i] = "none" /\ invocationBot[Target[i]] = "live"
    /\ i \in Cross => shared[Target[i]]
    /\ state' = [state EXCEPT ![i] = IF i \in Cross THEN "PENDING" ELSE "APPROVED"]
    /\ handoff' = [handoff EXCEPT ![i] =
           [st |-> IF i \in Cross THEN "PENDING_APPROVAL" ELSE "QUEUED",
            processed |-> FALSE]]
    /\ UNCHANGED <<told, cont, memory, invocationNative, world>>

\* deliverHandoff, from the create routes or from POST .../process: it throws
\* on a handoff pending approval and returns an already processed one.
processHandoff(i) ==
    /\ handoff[i].st \notin {"none", "PENDING_APPROVAL"} /\ ~handoff[i].processed
    /\ handoff' = [handoff EXCEPT ![i] = Delivered(@)]
    /\ UNCHANGED <<state, told, cont, memory, invocationNative, world>>

decideInvocation(i, approve) ==
    /\ state[i] = "PENDING"
    /\ Record(i, IF invocationLate[i] THEN "EXPIRED"
                 ELSE IF Revoked(i) \/ ~approve THEN "DENIED" ELSE "APPROVED")
    /\ UNCHANGED <<memory, invocationNative, world>>

expirePendingInvocations(i) ==
    /\ state[i] = "PENDING" /\ invocationLate[i]
    /\ Record(i, "EXPIRED")
    /\ UNCHANGED <<memory, invocationNative, world>>

\* recoverApprovedInvocations runs beginInvocation on an approved row past its
\* expiry, which only expires it.
expireApproved(i) ==
    /\ state[i] = "APPROVED" /\ invocationLate[i]
    /\ Record(i, "EXPIRED")
    /\ UNCHANGED <<memory, invocationNative, world>>

-----------------------------------------------------------------------------
(* The executor *)

release(i) ==
    invocationClaim' = [b \in InvocationBots |-> IF invocationClaim[b] = i THEN "free" ELSE invocationClaim[b]]

\* Mutant: the claim outlives a busy target.
LeaveClaimed(i) ==
    /\ invocationClaim' = invocationClaim
    /\ invocationExec' = [invocationExec EXCEPT ![i] = "idle"]
    /\ granted' = [granted EXCEPT ![i] = FALSE]
    /\ UNCHANGED <<ok, audit>>

\* The executor returns: the claim is released by the finally of
\* runApprovedBotInvocation.
InvocationLeave(i) ==
    /\ release(i)
    /\ invocationExec' = [invocationExec EXCEPT ![i] = "idle"]
    /\ granted' = [granted EXCEPT ![i] = FALSE]
    /\ UNCHANGED <<ok, audit>>

\* Mutant: an interrupted RUNNING invocation is dispatched again.
runAgain(i) ==
    /\ \/ state[i] = "APPROVED"
       \/ state[i] = "RUNNING" /\ turn[i] = "interrupted"
    /\ invocationExec[i] = "idle" /\ invocationClaim[Target[i]] = "free"
    /\ invocationClaim' = [invocationClaim EXCEPT ![Target[i]] = i]
    /\ invocationExec' = [invocationExec EXCEPT ![i] = IF state[i] = "APPROVED" THEN "claimed" ELSE "checking"]
    /\ UNCHANGED <<invocationRows, ok, granted, audit, invocationNative, world>>

\* runApprovedBotInvocation, from a route, a delivery or the recovery timer.
runApprovedBotInvocation(i) ==
    /\ state[i] = "APPROVED" /\ invocationExec[i] = "idle" /\ invocationClaim[Target[i]] = "free"
    /\ invocationClaim' = [invocationClaim EXCEPT ![Target[i]] = i]
    /\ invocationExec' = [invocationExec EXCEPT ![i] = "claimed"]
    /\ UNCHANGED <<invocationRows, ok, granted, audit, invocationNative, world>>

\* hasRunningTurns, or another invocation RUNNING on the target.
InvocationBusy(i) ==
    \E j \in Invs : /\ Target[j] = Target[i]
                    /\ seen[j] = "inProgress" \/ state[j] = "RUNNING"

\* The synchronous head of executeApprovedBotInvocation with beginInvocation's
\* transaction; an FYI also waits for a queued question of the target.
beginInvocation(i) ==
    /\ invocationExec[i] = "claimed"
    /\ \/ /\ state[i] # "APPROVED"
          /\ InvocationLeave(i) /\ UNCHANGED invocationRows
       \/ /\ state[i] = "APPROVED" /\ invocationBot[Target[i]] = "gone"
          /\ failInvocation(i) /\ InvocationLeave(i)
       \/ /\ state[i] = "APPROVED" /\ invocationBot[Target[i]] # "gone"
          /\ InvocationBusy(i) \/ Kind[i] = "fyi"
          /\ InvocationLeave(i) /\ UNCHANGED invocationRows
       \/ /\ state[i] = "APPROVED" /\ invocationBot[Target[i]] # "gone" /\ ~InvocationBusy(i)
          /\ invocationLate[i] \/ invocationBot[Target[i]] = "archived" \/ (i \in Cross /\ Revoked(i))
          /\ Record(i, IF invocationLate[i] THEN "EXPIRED" ELSE "DENIED")
          /\ InvocationLeave(i)
       \/ /\ state[i] = "APPROVED" /\ invocationBot[Target[i]] = "live" /\ ~InvocationBusy(i)
          /\ ~invocationLate[i] /\ (i \in Cross => ~Revoked(i))
          /\ state' = [state EXCEPT ![i] = "RUNNING"]
          /\ handoff' = IF handoff[i].st # "none" /\ ~handoff[i].processed
                        THEN [handoff EXCEPT ![i] = Delivered(@)] ELSE handoff
          /\ invocationExec' = [invocationExec EXCEPT ![i] = "checking"]
          /\ UNCHANGED <<told, cont, invocationClaim, ok, granted, audit>>
    /\ UNCHANGED <<invocationNative, world>>

\* The capability catalogue denies; the credential or the owner's tokens fail.
checkAuthority(i) ==
    /\ invocationExec[i] = "checking"
    /\ \/ denyInvocationForService(i) /\ InvocationLeave(i)
       \/ failInvocation(i) /\ InvocationLeave(i)
       \/ /\ invocationExec' = [invocationExec EXCEPT ![i] = "starting"]
          /\ UNCHANGED <<invocationRows, invocationClaim, ok, granted, audit>>
    /\ UNCHANGED <<invocationNative, world>>

\* finish(): without an authorization there is nothing to report and the row
\* settles at once; with one the executor first awaits the report.
finish(i, succeeded) ==
    IF granted[i]
    THEN /\ invocationExec' = [invocationExec EXCEPT ![i] = "reporting"]
         /\ ok' = [ok EXCEPT ![i] = succeeded]
         /\ UNCHANGED <<invocationRows, invocationClaim, granted, audit>>
    ELSE /\ IF succeeded THEN completeInvocation(i) ELSE failInvocation(i)
         /\ InvocationLeave(i)

\* runtimeBroker.start of the owner's session.
startRuntime(i) ==
    /\ invocationExec[i] = "starting"
    /\ \/ /\ invocationExec' = [invocationExec EXCEPT ![i] = "authorizing"]
          /\ UNCHANGED <<invocationRows, invocationClaim, ok, granted, audit>>
       \/ finish(i, FALSE)
    /\ UNCHANGED <<invocationNative, world>>

\* The policy grants, or refuses (or answers for another session): DENIED.
authorize(i) ==
    /\ invocationExec[i] = "authorizing"
    /\ \/ /\ granted' = [granted EXCEPT ![i] = TRUE]
          /\ invocationExec' = [invocationExec EXCEPT ![i] = "setup"]
          /\ UNCHANGED <<invocationRows, invocationClaim, ok, audit>>
       \/ denyInvocationForService(i) /\ InvocationLeave(i)
    /\ UNCHANGED <<invocationNative, world>>

\* Runtime, tools, model and thread are set up and turn/start is sent.
sendTargetBotSetup(i) ==
    /\ invocationExec[i] = "setup"
    /\ \/ /\ invocationExec' = [invocationExec EXCEPT ![i] = "sent"]
          /\ invocationFlight' = [invocationFlight EXCEPT ![i] = TRUE]
          /\ UNCHANGED <<invocationRows, invocationClaim, ok, granted, audit>>
       \/ finish(i, FALSE) /\ UNCHANGED invocationFlight
    /\ UNCHANGED <<turn, starts, seen, world>>

\* The 120 s timer, armed from the start until the turn id is known.
startupTimeout(i) ==
    /\ invocationExec[i] \in {"starting", "authorizing", "setup", "sent"}
    /\ finish(i, FALSE)
    /\ UNCHANGED <<invocationNative, world>>

\* The report of finish() and the transaction that follows it.
report(i) ==
    /\ invocationExec[i] = "reporting"
    /\ \E reported \in BOOLEAN :
           /\ audit' = IF reported
                       THEN [audit EXCEPT ![i] = IF ok[i] THEN "COMPLETED" ELSE "FAILED"]
                       ELSE audit
           /\ IF ok[i] /\ reported THEN completeInvocation(i) ELSE failInvocation(i)
    /\ release(i)
    /\ invocationExec' = [invocationExec EXCEPT ![i] = "idle"]
    /\ granted' = [granted EXCEPT ![i] = FALSE]
    /\ UNCHANGED <<ok, invocationNative, world>>

-----------------------------------------------------------------------------
(* The native runtime and the timeline *)

nativeStart(i) ==
    /\ invocationFlight[i]
    /\ invocationFlight' = [invocationFlight EXCEPT ![i] = FALSE]
    /\ turn' = [turn EXCEPT ![i] = "inProgress"]
    /\ starts' = [starts EXCEPT ![i] = @ + 1]
    /\ UNCHANGED <<invocationRows, memory, seen, world>>

nativeEnd(i) ==
    /\ turn[i] = "inProgress"
    /\ \E s \in InvocationEnded : turn' = [turn EXCEPT ![i] = s]
    /\ UNCHANGED <<invocationRows, memory, invocationFlight, starts, seen, world>>

\* An event line reaches recordRuntimeEvent and the executor's onMessage: the
\* turn id releases the start claim, the end of the turn finishes.
onMessage(i) ==
    /\ seen[i] # turn[i] /\ seen[i] \notin InvocationEnded
    /\ \E s \in IF seen[i] = "none" THEN {"inProgress"} ELSE {turn[i]} :
       /\ seen' = [seen EXCEPT ![i] = s]
       /\ CASE invocationExec[i] = "sent" /\ s = "inProgress" ->
                 /\ invocationExec' = [invocationExec EXCEPT ![i] = "running"]
                 /\ release(i)
                 /\ UNCHANGED <<invocationRows, ok, granted, audit>>
            [] invocationExec[i] \in {"sent", "running"} /\ s \in InvocationEnded ->
                 finish(i, s = "completed")
            [] OTHER -> UNCHANGED <<invocationRows, memory>>
    /\ UNCHANGED <<invocationFlight, turn, starts, world>>

\* The runtime exits under the executor, or the broker closes: a request in flight is lost, a turn
\* under way is interrupted, in the timeline too once its id is known.
onExit(i) ==
    /\ exits < MaxExits
    /\ invocationExec[i] \in {"starting", "authorizing", "setup", "sent", "running"}
    /\ invocationFlight' = [invocationFlight EXCEPT ![i] = FALSE]
    /\ turn' = [turn EXCEPT ![i] = IF @ = "inProgress" THEN "interrupted" ELSE @]
    /\ seen' = [seen EXCEPT ![i] =
           IF invocationExec[i] = "running" /\ @ = "inProgress" THEN "interrupted" ELSE @]
    /\ finish(i, FALSE)
    /\ exits' = exits + 1
    /\ UNCHANGED <<starts, invocationLate, invocationBot, shared, invocationCrashes>>

-----------------------------------------------------------------------------
(* The recovery timer *)

SettleFrom(i, s) == IF s = "completed" THEN completeInvocation(i) ELSE failInvocation(i)

reconcileTerminalInvocations(i) ==
    /\ state[i] = "RUNNING" /\ seen[i] \in InvocationEnded
    /\ SettleFrom(i, seen[i])
    /\ UNCHANGED <<memory, invocationNative, world>>

\* The timeline lacks something of the native history.  While the executor is
\* attached the answer comes on one stream behind the events, with nothing new.
Unseen(i) == /\ turn[i] # seen[i] /\ seen[i] \notin InvocationEnded
             /\ invocationExec[i] \notin {"sent", "running"}

\* The native history of a RUNNING invocation's target is imported and the
\* terminal turns it shows are reconciled in the same step.
recoverNativeInvocationResults(i) ==
    /\ state[i] = "RUNNING" /\ Unseen(i)
    /\ seen' = [seen EXCEPT ![i] = turn[i]]
    /\ IF turn[i] \in InvocationEnded THEN SettleFrom(i, turn[i]) ELSE UNCHANGED invocationRows
    /\ UNCHANGED <<memory, invocationFlight, turn, starts, world>>

\* The owner's browser reads the thread, whatever the invocation's state.
invocationImportRuntimeHistory(i) ==
    /\ state[i] # "RUNNING" /\ Unseen(i)
    /\ seen' = [seen EXCEPT ![i] = turn[i]]
    /\ UNCHANGED <<invocationRows, memory, invocationFlight, turn, starts, world>>

-----------------------------------------------------------------------------
(* The environment: time, owners, crashes *)

passExpiry(i) ==
    /\ state[i] # "none" /\ ~invocationLate[i]
    /\ invocationLate' = [invocationLate EXCEPT ![i] = TRUE]
    /\ UNCHANGED <<invocationRows, memory, invocationNative, invocationBot, shared, invocationCrashes, exits>>

changeBot(b) ==
    /\ \/ /\ invocationBot[b] = "live" /\ invocationBot' = [invocationBot EXCEPT ![b] = "archived"]
          /\ UNCHANGED shared
       \/ /\ invocationBot[b] = "archived" /\ invocationBot' = [invocationBot EXCEPT ![b] = "gone"]
          /\ UNCHANGED shared
       \/ /\ invocationBot[b] = "live" /\ shared' = [shared EXCEPT ![b] = ~@]
          /\ UNCHANGED invocationBot
    /\ UNCHANGED <<invocationRows, memory, invocationNative, invocationLate, invocationCrashes, exits>>

\* The server and its native runtimes die; the rows and the native history stay.
invocationCrash ==
    /\ invocationCrashes < InvocationMaxCrashes
    /\ invocationCrashes' = invocationCrashes + 1
    /\ invocationClaim' = [b \in InvocationBots |-> "free"]
    /\ invocationExec' = [i \in Invs |-> "idle"]
    /\ ok' = [i \in Invs |-> FALSE]
    /\ granted' = [i \in Invs |-> FALSE]
    /\ invocationFlight' = [i \in Invs |-> FALSE]
    /\ turn' = [i \in Invs |-> IF turn[i] = "inProgress" THEN "interrupted" ELSE turn[i]]
    /\ UNCHANGED <<invocationRows, audit, starts, seen, invocationLate, invocationBot, shared, exits>>

Step(i) ==
    \/ createInvocation(i) \/ createHandoffs(i) \/ processHandoff(i)
    \/ \E approve \in BOOLEAN : decideInvocation(i, approve)
    \/ expirePendingInvocations(i) \/ expireApproved(i)
    \/ runApprovedBotInvocation(i) \/ beginInvocation(i) \/ checkAuthority(i)
    \/ startRuntime(i) \/ authorize(i) \/ sendTargetBotSetup(i)
    \/ startupTimeout(i) \/ report(i)
    \/ nativeStart(i) \/ nativeEnd(i) \/ onMessage(i) \/ onExit(i)
    \/ reconcileTerminalInvocations(i) \/ recoverNativeInvocationResults(i)
    \/ invocationImportRuntimeHistory(i) \/ passExpiry(i)

InvocationNext ==
    \/ \E i \in Invs : Step(i)
    \/ \E b \in InvocationBots : changeBot(b)
    \/ invocationCrash

InvocationSpec == InvocationInit /\ [][InvocationNext]_invocationVars

\* The steps of the executor, of which one is enabled at a time.
Executor(i) ==
    \/ runApprovedBotInvocation(i) \/ beginInvocation(i) \/ checkAuthority(i)
    \/ startRuntime(i) \/ authorize(i) \/ sendTargetBotSetup(i) \/ report(i)

\* Promises settle (every await of the executor is bounded by a timer or ends
\* with the runtime), the 2 s timer keeps firing, a native turn ends, and its
\* events arrive.
InvocationFairness ==
    \A i \in Invs :
        /\ WF_invocationVars(Executor(i))
        /\ WF_invocationVars(nativeStart(i) \/ nativeEnd(i))
        /\ WF_invocationVars(onMessage(i))
        /\ WF_invocationVars(reconcileTerminalInvocations(i) \/ recoverNativeInvocationResults(i))

-----------------------------------------------------------------------------
(* Properties *)

InvocationsTypeOK ==
    /\ state \in [Invs -> InvocationStates] /\ invocationLate \in [Invs -> BOOLEAN]
    /\ handoff \in [Invs -> [st : {"none", "PENDING_APPROVAL", "QUEUED", "DELIVERED"} \cup Terminal,
                             processed : BOOLEAN]]
    /\ told \in [Invs -> SUBSET {"replied", "read", "failed"}]
    /\ cont \in [Invs -> {"none"} \cup Terminal]
    /\ invocationBot \in [InvocationBots -> {"live", "archived", "gone"}] /\ shared \in [InvocationBots -> BOOLEAN]
    /\ invocationClaim \in [InvocationBots -> Invs \cup {"free"}] /\ invocationExec \in [Invs -> Phases]
    /\ ok \in [Invs -> BOOLEAN] /\ granted \in [Invs -> BOOLEAN]
    /\ audit \in [Invs -> {"none", "COMPLETED", "FAILED"}]
    /\ invocationFlight \in [Invs -> BOOLEAN] /\ turn \in [Invs -> Turns] /\ seen \in [Invs -> Turns]
    /\ starts \in [Invs -> Nat]
    /\ invocationCrashes \in 0 .. InvocationMaxCrashes /\ exits \in 0 .. MaxExits

\* The work of an invocation is sent to its target at most once, whatever
\* crashes, timeouts, native recoveries and repeated dispatches come between
\* ("dispatches only once").
SentOnceEver == \A i \in Invs : starts[i] + (IF invocationFlight[i] THEN 1 ELSE 0) <= 1

\* A target works on at most one invocation at a time, also after a crash has
\* dropped every claim.
OneRunning ==
    \A i, j \in Invs :
        state[i] = "RUNNING" /\ state[j] = "RUNNING" /\ Target[i] = Target[j] => i = j

\* The caller hears of the outcome exactly when there is one: one terminal
\* event on its handoff and, unless the handoff is an FYI, one continuation
\* that carries the state the invocation ended in.
CallerTold ==
    \A i \in Invs :
        /\ told[i] = IF state[i] \in Terminal /\ Kind[i] # "direct"
                     THEN {OutcomeEvent(i, state[i])} ELSE {}
        /\ cont[i] = IF state[i] \in Terminal /\ Kind[i] # "fyi" THEN state[i] ELSE "none"

\* Work that was denied or that expired is not with the runtime and never was.
RefusedNeverRan ==
    \A i \in Invs :
        state[i] \in {"none", "PENDING", "APPROVED", "DENIED", "EXPIRED"} =>
            ~invocationFlight[i] /\ starts[i] = 0

\* COMPLETED is claimed only for a turn the target really completed.
CompletedRan == \A i \in Invs : state[i] = "COMPLETED" => turn[i] = "completed"

\* Every approved invocation comes to an end.
ApprovedSettles ==
    \A i \in Invs : state[i] \in {"APPROVED", "RUNNING"} ~> state[i] \in Terminal

(* Whatever timer, callback or crash comes between two awaits of the       *)
(* executor, an invocation starts at most one turn, a Bot runs one at a    *)
(* time, and what its caller is told is what happened.                     *)
InvocationsSafe ==
    /\ InvocationsTypeOK /\ SentOnceEver /\ OneRunning /\ CallerTold /\ RefusedNeverRan
    /\ CompletedRan

=============================================================================
