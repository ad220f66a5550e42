---------------------------- MODULE BotWorkProofs ----------------------------
(***************************************************************************)
(* Proofs about the work a Bot server does beside its owner's turns.       *)
(*                                                                         *)
(* BotInvocations: however approvals, crashes, restarts and the runtime's  *)
(* late answers interleave, an invocation has at most one turn and its     *)
(* caller hears of it what became of it.                                   *)
(*                                                                         *)
(* BotDistillation: however the turn changes under the worker and its      *)
(* requests are served late, a candidate is of the content it names.       *)
(***************************************************************************)
EXTENDS BotInvocations, BotDistillation, FiniteSetTheorems, WellFoundedInduction,
        NaturalsInduction, TLAPS

-----------------------------------------------------------------------------
(* The invocations of a Bot *)

\* The turn of an invocation is the one start it had, and a start is under way
\* only before it.
StartedTurn(i) ==
    /\ starts[i] <= 1 /\ (starts[i] = 0 <=> turn[i] = "none")
    /\ invocationFlight[i] => starts[i] = 0

\* The timeline shows only a turn there is, and shows it as completed only if it
\* was.
SeenTurn(i) ==
    /\ seen[i] # "none" => turn[i] # "none"
    /\ seen[i] = "completed" => turn[i] = "completed"

\* Until it sends, an executor is alone with its invocation: it is RUNNING, and
\* nothing of it is with the runtime.
BeforeSend == {"checking", "starting", "authorizing", "setup"}
ExecutorAlone(i) ==
    invocationExec[i] \in BeforeSend => state[i] = "RUNNING" /\ starts[i] = 0 /\ ~ invocationFlight[i]

\* An executor reports success only of a turn that was completed.
ReportsCompleted(i) == invocationExec[i] = "reporting" /\ ok[i] => turn[i] = "completed"

CallerHears(i) ==
    /\ told[i] = IF state[i] \in Terminal /\ Kind[i] # "direct" THEN {OutcomeEvent(i, state[i])} ELSE {}
    /\ cont[i] = IF state[i] \in Terminal /\ Kind[i] # "fyi" THEN state[i] ELSE "none"

NotRun == {"none", "PENDING", "APPROVED", "DENIED", "EXPIRED"}
RefusedIdle(i) == state[i] \in NotRun => ~ invocationFlight[i] /\ starts[i] = 0
CompletedTurn(i) == state[i] = "COMPLETED" => turn[i] = "completed"

InvocationOf(i) ==
    /\ StartedTurn(i) /\ SeenTurn(i) /\ ExecutorAlone(i) /\ ReportsCompleted(i)
    /\ CallerHears(i) /\ RefusedIdle(i) /\ CompletedTurn(i)

InvocationInv == InvocationsTypeOK /\ OneRunning /\ \A i \in Invs : InvocationOf(i)

\* The types, by who writes what.
RowTypes ==
    /\ state \in [Invs -> InvocationStates]
    /\ handoff \in [Invs -> [st : {"none", "PENDING_APPROVAL", "QUEUED", "DELIVERED"} \cup Terminal, processed : BOOLEAN]]
    /\ told \in [Invs -> SUBSET {"replied", "read", "failed"}]
    /\ cont \in [Invs -> {"none"} \cup Terminal]
MemoryTypes ==
    /\ invocationClaim \in [InvocationBots -> Invs \cup {"free"}] /\ invocationExec \in [Invs -> Phases]
    /\ ok \in [Invs -> BOOLEAN] /\ granted \in [Invs -> BOOLEAN]
    /\ audit \in [Invs -> {"none", "COMPLETED", "FAILED"}]
NativeTypes ==
    /\ invocationFlight \in [Invs -> BOOLEAN] /\ turn \in [Invs -> Turns] /\ seen \in [Invs -> Turns]
    /\ starts \in [Invs -> Nat]
WorldTypes ==
    /\ invocationLate \in [Invs -> BOOLEAN]
    /\ invocationBot \in [InvocationBots -> {"live", "archived", "gone"}] /\ shared \in [InvocationBots -> BOOLEAN]
    /\ invocationCrashes \in 0 .. InvocationMaxCrashes /\ exits \in 0 .. MaxExits

LEMMA InvocationTypes == InvocationsTypeOK <=> RowTypes /\ MemoryTypes /\ NativeTypes /\ WorldTypes
  BY Zenon DEF InvocationsTypeOK, RowTypes, MemoryTypes, NativeTypes, WorldTypes

LEMMA InvocationTypesNext == InvocationsTypeOK' <=> RowTypes' /\ MemoryTypes' /\ NativeTypes' /\ WorldTypes'
  BY InvocationTypes, PTL

\* A step of one invocation leaves the others.
OtherRows(i) ==
    \A j \in Invs : j # i => state'[j] = state[j] /\ told'[j] = told[j] /\ cont'[j] = cont[j]
OtherExecutors(i) ==
    \A j \in Invs : j # i => invocationExec'[j] = invocationExec[j] /\ ok'[j] = ok[j]
OtherTurns(i) ==
    \A j \in Invs : j # i => /\ invocationFlight'[j] = invocationFlight[j] /\ turn'[j] = turn[j]
                             /\ starts'[j] = starts[j] /\ seen'[j] = seen[j]

LEMMA OnlyOne ==
    ASSUME InvocationInv, NEW i \in Invs, OtherRows(i), OtherExecutors(i), OtherTurns(i),
           RowTypes', MemoryTypes', NativeTypes', WorldTypes', InvocationOf(i)',
           state'[i] = "RUNNING" => state[i] = "RUNNING" \/ ~ InvocationBusy(i)
    PROVE  InvocationInv'
<1>1. InvocationsTypeOK'
  BY InvocationTypesNext
<1>2. ASSUME NEW j \in Invs, j # i
      PROVE  InvocationOf(j)'
  <2>1. InvocationOf(j)
    BY DEF InvocationInv
  <2>2. /\ state'[j] = state[j] /\ told'[j] = told[j] /\ cont'[j] = cont[j]
        /\ invocationExec'[j] = invocationExec[j] /\ ok'[j] = ok[j]
        /\ invocationFlight'[j] = invocationFlight[j] /\ turn'[j] = turn[j]
        /\ starts'[j] = starts[j] /\ seen'[j] = seen[j]
    BY <1>2 DEF OtherRows, OtherExecutors, OtherTurns
  <2> QED
    BY <2>1, <2>2 DEF InvocationOf, StartedTurn, SeenTurn, ExecutorAlone, ReportsCompleted, CallerHears,
                      RefusedIdle, CompletedTurn
<1>3. OneRunning'
  BY DEF InvocationInv, OneRunning, OtherRows, InvocationBusy
<1> QED
  BY <1>1, <1>2, <1>3 DEF InvocationInv

\* What a change of the row needs, where the turn is left as it is.
LEMMA TurnLeft ==
    ASSUME InvocationInv, NEW i \in Invs, OtherRows(i), OtherExecutors(i), UNCHANGED <<invocationNative, world>>,
           RowTypes', MemoryTypes', CallerHears(i)',
           state'[i] \in NotRun => state[i] \in NotRun \/ (starts[i] = 0 /\ ~ invocationFlight[i]),
           state'[i] = "COMPLETED" => state[i] = "COMPLETED" \/ turn[i] = "completed",
           state'[i] = "RUNNING" => state[i] = "RUNNING" \/ ~ InvocationBusy(i),
           invocationExec'[i] \in BeforeSend => state'[i] = "RUNNING" /\ starts[i] = 0 /\ ~ invocationFlight[i],
           invocationExec'[i] = "reporting" /\ ok'[i] => turn[i] = "completed"
    PROVE  InvocationInv'
<1>1. InvocationOf(i) /\ NativeTypes /\ WorldTypes
  BY InvocationTypes DEF InvocationInv
<1>2. OtherTurns(i) /\ NativeTypes' /\ WorldTypes'
  BY <1>1 DEF OtherTurns, NativeTypes, WorldTypes, invocationNative, world
<1>3. UNCHANGED <<invocationFlight, turn, starts, seen>>
  BY DEF invocationNative
<1>4. InvocationOf(i)'
  BY <1>1, <1>3 DEF InvocationOf, StartedTurn, SeenTurn, ExecutorAlone, ReportsCompleted,
                    RefusedIdle, CompletedTurn
<1> QED
  BY <1>2, <1>4, OnlyOne

\* A transaction leaves the caller told of the outcome there is.
LEMMA RecordStep ==
    ASSUME RowTypes, NEW i \in Invs, NEW s \in InvocationStates, CallerHears(i), Record(i, s),
           s = state[i] \/ state[i] \notin Terminal
    PROVE  RowTypes' /\ OtherRows(i) /\ CallerHears(i)' /\ state'[i] = s
<1>1. /\ state' \in [Invs -> InvocationStates] /\ state'[i] = s
      /\ \A j \in Invs : j # i => state'[j] = state[j]
  BY DEF RowTypes, Record
<1>2. CASE s \in Terminal
  <2>1. /\ told' = IF Kind[i] = "direct" THEN told ELSE [told EXCEPT ![i] = told[i] \cup {OutcomeEvent(i, s)}]
        /\ handoff' = IF Kind[i] = "direct" THEN handoff ELSE [handoff EXCEPT ![i].st = s]
        /\ cont' = IF Kind[i] = "fyi" \/ cont[i] # "none" THEN cont ELSE [cont EXCEPT ![i] = s]
    BY <1>2 DEF Record
  <2>2. OutcomeEvent(i, s) \in {"replied", "read", "failed"}
    BY DEF OutcomeEvent
  <2>3. /\ told' \in [Invs -> SUBSET {"replied", "read", "failed"}]
        /\ told'[i] = IF Kind[i] = "direct" THEN told[i] ELSE told[i] \cup {OutcomeEvent(i, s)}
        /\ \A j \in Invs : j # i => told'[j] = told[j]
    BY <2>1, <2>2 DEF RowTypes
  <2>4. /\ cont' \in [Invs -> {"none"} \cup Terminal]
        /\ cont'[i] = IF Kind[i] = "fyi" \/ cont[i] # "none" THEN cont[i] ELSE s
        /\ \A j \in Invs : j # i => cont'[j] = cont[j]
    BY <1>2, <2>1 DEF RowTypes
  <2>5. handoff' \in [Invs -> [st : {"none", "PENDING_APPROVAL", "QUEUED", "DELIVERED"} \cup Terminal, processed : BOOLEAN]]
    BY <1>2, <2>1 DEF RowTypes
  <2>6. told'[i] = IF Kind[i] # "direct" THEN {OutcomeEvent(i, s)} ELSE {}
    BY <1>2, <2>3 DEF CallerHears
  <2>7. cont'[i] = IF Kind[i] # "fyi" THEN s ELSE "none"
    BY <1>2, <2>4 DEF CallerHears, Terminal
  <2>8. OutcomeEvent(i, state[i])' = OutcomeEvent(i, s)
    BY <1>1 DEF OutcomeEvent
  <2>9. CallerHears(i)'
    BY <1>1, <1>2, <2>6, <2>7, <2>8 DEF CallerHears
  <2> QED
    BY <1>1, <2>3, <2>4, <2>5, <2>9 DEF RowTypes, OtherRows
<1>3. CASE s \notin Terminal
  <2>1. UNCHANGED <<told, handoff, cont>>
    BY <1>3 DEF Record
  <2> QED
    BY <1>1, <1>3, <2>1 DEF RowTypes, OtherRows, CallerHears
<1> QED
  BY <1>2, <1>3

LEMMA CompleteStep ==
    ASSUME RowTypes, NEW i \in Invs, CallerHears(i), completeInvocation(i)
    PROVE  /\ RowTypes' /\ OtherRows(i) /\ CallerHears(i)'
           /\ state'[i] = IF state[i] = "RUNNING" THEN "COMPLETED" ELSE state[i]
<1> DEFINE s == IF state[i] = "RUNNING" THEN "COMPLETED" ELSE state[i]
<1>1. s \in InvocationStates /\ (s = state[i] \/ state[i] \notin Terminal)
  BY DEF RowTypes, InvocationStates, Terminal
<1>2. Record(i, s)
  BY DEF completeInvocation
<1> HIDE DEF s
<1>3. RowTypes' /\ OtherRows(i) /\ CallerHears(i)' /\ state'[i] = s
  BY <1>1, <1>2, RecordStep
<1> QED
  BY <1>3 DEF s

LEMMA FailStep ==
    ASSUME RowTypes, NEW i \in Invs, CallerHears(i), failInvocation(i)
    PROVE  /\ RowTypes' /\ OtherRows(i) /\ CallerHears(i)'
           /\ state'[i] = IF state[i] \in {"APPROVED", "RUNNING"} THEN "FAILED" ELSE state[i]
<1> DEFINE s == IF state[i] \in {"APPROVED", "RUNNING"} THEN "FAILED" ELSE state[i]
<1>1. s \in InvocationStates /\ (s = state[i] \/ state[i] \notin Terminal)
  BY DEF RowTypes, InvocationStates, Terminal
<1>2. Record(i, s)
  BY DEF failInvocation
<1> HIDE DEF s
<1>3. RowTypes' /\ OtherRows(i) /\ CallerHears(i)' /\ state'[i] = s
  BY <1>1, <1>2, RecordStep
<1> QED
  BY <1>3 DEF s

LEMMA RowsLeft ==
    ASSUME RowTypes, NEW i \in Invs, CallerHears(i), UNCHANGED invocationRows
    PROVE  RowTypes' /\ OtherRows(i) /\ CallerHears(i)' /\ state' = state
  BY DEF RowTypes, OtherRows, CallerHears, invocationRows

LEMMA DenyStep ==
    ASSUME RowTypes, NEW i \in Invs, CallerHears(i), denyInvocationForService(i)
    PROVE  /\ RowTypes' /\ OtherRows(i) /\ CallerHears(i)'
           /\ state'[i] = IF state[i] = "RUNNING" THEN "DENIED" ELSE state[i]
<1>1. CASE state[i] \in {"RUNNING", "DENIED"}
  <2>1. Record(i, "DENIED") /\ "DENIED" \in InvocationStates /\ ("DENIED" = state[i] \/ state[i] \notin Terminal)
    BY <1>1 DEF denyInvocationForService, InvocationStates, Terminal
  <2> QED
    BY <1>1, <2>1, RecordStep
<1>2. CASE state[i] \notin {"RUNNING", "DENIED"}
  <2>1. UNCHANGED invocationRows
    BY <1>2 DEF denyInvocationForService
  <2> QED
    BY <1>2, <2>1, RowsLeft
<1> QED
  BY <1>1, <1>2

LEMMA InvocationLeaveStep ==
    ASSUME MemoryTypes, NEW i \in Invs, InvocationLeave(i)
    PROVE  MemoryTypes' /\ OtherExecutors(i) /\ invocationExec'[i] = "idle"
<1>1. invocationExec' = [invocationExec EXCEPT ![i] = "idle"] /\ UNCHANGED <<ok, audit>> /\ "idle" \in Phases
  BY DEF InvocationLeave, Phases
<1>2. invocationClaim' \in [InvocationBots -> Invs \cup {"free"}]
  BY DEF InvocationLeave, release, MemoryTypes
<1>3. PICK v \in BOOLEAN : granted' = [granted EXCEPT ![i] = v]
  BY Zenon DEF InvocationLeave
<1> QED
  BY <1>1, <1>2, <1>3 DEF MemoryTypes, OtherExecutors

LEMMA MemoryLeft ==
    ASSUME MemoryTypes, NEW i \in Invs, UNCHANGED memory
    PROVE  MemoryTypes' /\ OtherExecutors(i) /\ invocationExec' = invocationExec /\ ok' = ok
  BY DEF MemoryTypes, OtherExecutors, memory

\* An executor goes on.
LEMMA PhaseStep ==
    ASSUME MemoryTypes, NEW i \in Invs, NEW p \in Phases, invocationExec' = [invocationExec EXCEPT ![i] = p],
           UNCHANGED <<invocationClaim, ok, granted, audit>>
    PROVE  MemoryTypes' /\ OtherExecutors(i) /\ invocationExec'[i] = p /\ ok' = ok
  BY DEF MemoryTypes, OtherExecutors

\* finish settles the row, or leaves it to the report that it awaits.
LEMMA InvocationFinishStep ==
    ASSUME RowTypes, MemoryTypes, NEW i \in Invs, NEW v \in BOOLEAN, CallerHears(i), finish(i, v)
    PROVE  /\ RowTypes' /\ OtherRows(i) /\ CallerHears(i)' /\ MemoryTypes' /\ OtherExecutors(i)
           /\ invocationExec'[i] \in {"idle", "reporting"}
           /\ invocationExec'[i] = "reporting" /\ ok'[i] => v
           /\ \/ state'[i] = state[i]
              \/ v /\ state[i] = "RUNNING" /\ state'[i] = "COMPLETED"
              \/ state[i] \in {"APPROVED", "RUNNING"} /\ state'[i] = "FAILED"
<1>1. CASE granted[i]
  <2>1. /\ invocationExec' = [invocationExec EXCEPT ![i] = "reporting"] /\ ok' = [ok EXCEPT ![i] = v]
        /\ UNCHANGED <<invocationRows, invocationClaim, granted, audit>> /\ "reporting" \in Phases
    BY <1>1 DEF finish, Phases
  <2>2. RowTypes' /\ OtherRows(i) /\ CallerHears(i)' /\ state' = state
    BY <2>1, RowsLeft
  <2>3. MemoryTypes' /\ OtherExecutors(i) /\ invocationExec'[i] = "reporting" /\ ok'[i] = v
    BY <2>1 DEF MemoryTypes, OtherExecutors
  <2> QED
    BY <2>2, <2>3
<1>2. CASE ~ granted[i]
  <2>1. InvocationLeave(i) /\ IF v THEN completeInvocation(i) ELSE failInvocation(i)
    BY <1>2 DEF finish
  <2>2. MemoryTypes' /\ OtherExecutors(i) /\ invocationExec'[i] = "idle"
    BY <2>1, InvocationLeaveStep
  <2>3. CASE v
    BY <2>1, <2>2, <2>3, CompleteStep
  <2>4. CASE ~ v
    BY <2>1, <2>2, <2>4, FailStep
  <2> QED
    BY <2>3, <2>4
<1> QED
  BY <1>1, <1>2

\* What an invocation's step may use.
LEMMA InvocationParts ==
    ASSUME InvocationInv, NEW i \in Invs
    PROVE  RowTypes /\ MemoryTypes /\ NativeTypes /\ WorldTypes /\ InvocationOf(i) /\ CallerHears(i)
  BY InvocationTypes DEF InvocationInv, InvocationOf

LEMMA CreateStep ==
    ASSUME InvocationInv, NEW i \in Invs, createInvocation(i) \/ createHandoffs(i)
    PROVE  InvocationInv'
<1>1. RowTypes /\ MemoryTypes /\ InvocationOf(i) /\ CallerHears(i) /\ state[i] = "none"
  BY InvocationParts DEF createInvocation, createHandoffs
<1>2. PICK s \in {"PENDING", "APPROVED"} : state' = [state EXCEPT ![i] = s]
  BY DEF createInvocation, createHandoffs
<1>3. UNCHANGED <<told, cont, memory, invocationNative, world>>
  BY DEF createInvocation, createHandoffs
<1>4. handoff' \in [Invs -> [st : {"none", "PENDING_APPROVAL", "QUEUED", "DELIVERED"} \cup Terminal, processed : BOOLEAN]]
  <2>1. CASE createInvocation(i)
    BY <1>1, <2>1 DEF createInvocation, RowTypes
  <2>2. CASE createHandoffs(i)
    <3>1. PICK v \in BOOLEAN : handoff' = [handoff EXCEPT ![i] = [st |-> IF i \in Cross THEN "PENDING_APPROVAL" ELSE "QUEUED",
                                                                  processed |-> v]]
      BY <2>2, Zenon DEF createHandoffs
    <3> QED
      BY <1>1, <3>1 DEF RowTypes
  <2> QED
    BY <2>1, <2>2
<1>5. RowTypes' /\ OtherRows(i) /\ CallerHears(i)' /\ state'[i] \in {"PENDING", "APPROVED"}
  BY <1>1, <1>2, <1>3, <1>4 DEF RowTypes, OtherRows, CallerHears, InvocationStates, Terminal
<1>6. MemoryTypes' /\ OtherExecutors(i) /\ invocationExec' = invocationExec /\ ok' = ok
  BY <1>1, <1>3, MemoryLeft
<1> QED
  BY <1>1, <1>3, <1>5, <1>6, TurnLeft DEF InvocationOf, ExecutorAlone, ReportsCompleted, NotRun

LEMMA DeliveryTyped ==
    ASSUME RowTypes, NEW i \in Invs, handoff' = [handoff EXCEPT ![i] = Delivered(handoff[i])]
    PROVE  handoff' \in [Invs -> [st : {"none", "PENDING_APPROVAL", "QUEUED", "DELIVERED"} \cup Terminal, processed : BOOLEAN]]
<1>1. PICK v \in BOOLEAN : handoff' = [handoff EXCEPT ![i] = [st |-> "DELIVERED", processed |-> v]]
  BY Zenon DEF Delivered
<1> QED
  BY <1>1 DEF RowTypes

LEMMA ProcessStep ==
    ASSUME InvocationInv, NEW i \in Invs, processHandoff(i)
    PROVE  InvocationInv'
<1>1. RowTypes /\ MemoryTypes /\ InvocationOf(i) /\ CallerHears(i)
  BY InvocationParts
<1>2. UNCHANGED <<state, told, cont, memory, invocationNative, world>> /\ handoff' = [handoff EXCEPT ![i] = Delivered(handoff[i])]
  BY DEF processHandoff
<1>3. RowTypes' /\ OtherRows(i) /\ CallerHears(i)' /\ state' = state
  BY <1>1, <1>2, DeliveryTyped DEF RowTypes, OtherRows, CallerHears
<1>4. MemoryTypes' /\ OtherExecutors(i) /\ invocationExec' = invocationExec /\ ok' = ok
  BY <1>1, <1>2, MemoryLeft
<1> QED
  BY <1>1, <1>2, <1>3, <1>4, TurnLeft DEF InvocationOf, ExecutorAlone, ReportsCompleted, RefusedIdle, CompletedTurn

\* What was not begun is decided or expires.
LEMMA DecidedStep ==
    ASSUME InvocationInv, NEW i \in Invs, NEW s \in {"APPROVED", "DENIED", "EXPIRED"}, state[i] \in {"PENDING", "APPROVED"},
           Record(i, s), UNCHANGED <<memory, invocationNative, world>>
    PROVE  InvocationInv'
<1>1. RowTypes /\ MemoryTypes /\ InvocationOf(i) /\ CallerHears(i)
  BY InvocationParts
<1>2. s \in InvocationStates /\ state[i] \notin Terminal /\ state[i] \in NotRun
  BY DEF InvocationStates, Terminal, NotRun
<1>3. RowTypes' /\ OtherRows(i) /\ CallerHears(i)' /\ state'[i] = s
  BY <1>1, <1>2, RecordStep
<1>4. MemoryTypes' /\ OtherExecutors(i) /\ invocationExec' = invocationExec /\ ok' = ok
  BY <1>1, MemoryLeft
<1> QED
  BY <1>1, <1>2, <1>3, <1>4, TurnLeft DEF InvocationOf, ExecutorAlone, ReportsCompleted

LEMMA DecideStep ==
    ASSUME InvocationInv, NEW i \in Invs,
           \/ \E approve \in BOOLEAN : decideInvocation(i, approve)
           \/ expirePendingInvocations(i) \/ expireApproved(i)
    PROVE  InvocationInv'
<1>1. PICK s \in {"APPROVED", "DENIED", "EXPIRED"} : Record(i, s)
  <2>1. CASE \E approve \in BOOLEAN : decideInvocation(i, approve)
    <3>1. PICK approve \in BOOLEAN : decideInvocation(i, approve)
      BY <2>1
    <3> DEFINE s == IF invocationLate[i] THEN "EXPIRED" ELSE IF Revoked(i) \/ ~approve THEN "DENIED" ELSE "APPROVED"
    <3>2. Record(i, s) /\ s \in {"APPROVED", "DENIED", "EXPIRED"}
      BY <3>1 DEF decideInvocation
    <3> QED
      BY <3>2
  <2>2. CASE expirePendingInvocations(i) \/ expireApproved(i)
    BY <2>2 DEF expirePendingInvocations, expireApproved
  <2> QED
    BY <2>1, <2>2
<1>2. state[i] \in {"PENDING", "APPROVED"} /\ UNCHANGED <<memory, invocationNative, world>>
  BY DEF decideInvocation, expirePendingInvocations, expireApproved
<1> QED
  BY <1>1, <1>2, DecidedStep

LEMMA RunStep ==
    ASSUME InvocationInv, NEW i \in Invs, runApprovedBotInvocation(i)
    PROVE  InvocationInv'
<1>1. RowTypes /\ MemoryTypes /\ InvocationOf(i) /\ CallerHears(i)
  BY InvocationParts
<1>2. /\ invocationExec' = [invocationExec EXCEPT ![i] = "claimed"] /\ "claimed" \in Phases
      /\ invocationClaim' = [invocationClaim EXCEPT ![Target[i]] = i]
      /\ UNCHANGED <<invocationRows, ok, granted, audit, invocationNative, world>>
  BY DEF runApprovedBotInvocation, Phases
<1>3. RowTypes' /\ OtherRows(i) /\ CallerHears(i)' /\ state' = state
  BY <1>1, <1>2, RowsLeft
<1>4. MemoryTypes' /\ OtherExecutors(i) /\ invocationExec'[i] = "claimed"
  BY <1>1, <1>2 DEF MemoryTypes, OtherExecutors
<1> QED
  BY <1>1, <1>2, <1>3, <1>4, TurnLeft DEF InvocationOf, ReportsCompleted, BeforeSend

\* An executor that returns leaves a row that was not begun, or begun and not sent.
LEMMA ReturnStep ==
    ASSUME InvocationInv, NEW i \in Invs, InvocationLeave(i), UNCHANGED <<invocationNative, world>>,
           RowTypes', OtherRows(i), CallerHears(i)',
           \/ state'[i] = state[i]
           \/ state[i] = "APPROVED" /\ state'[i] \in {"FAILED", "DENIED", "EXPIRED"}
           \/ invocationExec[i] \in BeforeSend /\ state'[i] \in {"FAILED", "DENIED"}
    PROVE  InvocationInv'
<1>1. MemoryTypes /\ InvocationOf(i)
  BY InvocationParts
<1>2. MemoryTypes' /\ OtherExecutors(i) /\ invocationExec'[i] = "idle"
  BY <1>1, InvocationLeaveStep
<1> QED
  BY <1>1, <1>2, TurnLeft DEF InvocationOf, ExecutorAlone, BeforeSend, NotRun

LEMMA InvocationBeginStep ==
    ASSUME InvocationInv, NEW i \in Invs, beginInvocation(i)
    PROVE  InvocationInv'
<1>1. RowTypes /\ MemoryTypes /\ InvocationOf(i) /\ CallerHears(i) /\ UNCHANGED <<invocationNative, world>>
  BY InvocationParts DEF beginInvocation
<1>2. CASE InvocationLeave(i) /\ UNCHANGED invocationRows
  <2>1. RowTypes' /\ OtherRows(i) /\ CallerHears(i)' /\ state' = state
    BY <1>1, <1>2, RowsLeft
  <2> QED
    BY <1>1, <1>2, <2>1, ReturnStep
<1>3. CASE state[i] = "APPROVED" /\ failInvocation(i) /\ InvocationLeave(i)
  <2>1. RowTypes' /\ OtherRows(i) /\ CallerHears(i)' /\ state'[i] = "FAILED"
    BY <1>1, <1>3, FailStep
  <2> QED
    BY <1>1, <1>3, <2>1, ReturnStep
<1>4. CASE /\ state[i] = "APPROVED" /\ InvocationLeave(i)
           /\ Record(i, IF invocationLate[i] THEN "EXPIRED" ELSE "DENIED")
  <2>1. PICK s \in {"EXPIRED", "DENIED"} : Record(i, s)
    BY <1>4
  <2>2. s \in InvocationStates /\ state[i] \notin Terminal
    BY <1>4 DEF InvocationStates, Terminal
  <2>3. RowTypes' /\ OtherRows(i) /\ CallerHears(i)' /\ state'[i] = s
    BY <1>1, <2>1, <2>2, RecordStep
  <2> QED
    BY <1>1, <1>4, <2>3, ReturnStep
<1>5. CASE /\ state[i] = "APPROVED" /\ ~ InvocationBusy(i)
           /\ state' = [state EXCEPT ![i] = "RUNNING"]
           /\ handoff' = IF handoff[i].st # "none" /\ ~handoff[i].processed
                         THEN [handoff EXCEPT ![i] = Delivered(handoff[i])] ELSE handoff
           /\ invocationExec' = [invocationExec EXCEPT ![i] = "checking"]
           /\ UNCHANGED <<told, cont, invocationClaim, ok, granted, audit>>
  <2>1. handoff' \in [Invs -> [st : {"none", "PENDING_APPROVAL", "QUEUED", "DELIVERED"} \cup Terminal, processed : BOOLEAN]]
    <3>1. CASE handoff' = handoff
      BY <1>1, <3>1 DEF RowTypes
    <3>2. CASE handoff' = [handoff EXCEPT ![i] = Delivered(handoff[i])]
      BY <1>1, <3>2, DeliveryTyped
    <3> QED
      BY <1>5, <3>1, <3>2
  <2>2. RowTypes' /\ OtherRows(i) /\ CallerHears(i)' /\ state'[i] = "RUNNING"
    BY <1>1, <1>5, <2>1 DEF RowTypes, OtherRows, CallerHears, InvocationStates, Terminal
  <2>3. "checking" \in Phases
    BY DEF Phases
  <2>4. MemoryTypes' /\ OtherExecutors(i) /\ invocationExec'[i] = "checking"
    BY <1>1, <1>5, <2>3, PhaseStep
  <2> QED
    BY <1>1, <1>5, <2>2, <2>4, TurnLeft DEF InvocationOf, RefusedIdle, NotRun, BeforeSend
<1> QED
  BY <1>2, <1>3, <1>4, <1>5 DEF beginInvocation

\* An executor that goes on before it sends.
LEMMA GoesOn ==
    ASSUME InvocationInv, NEW i \in Invs, NEW p \in BeforeSend, invocationExec[i] \in BeforeSend,
           MemoryTypes', OtherExecutors(i), invocationExec'[i] = p, UNCHANGED <<invocationRows, invocationNative, world>>
    PROVE  InvocationInv'
<1>1. RowTypes /\ InvocationOf(i) /\ CallerHears(i)
  BY InvocationParts
<1>2. RowTypes' /\ OtherRows(i) /\ CallerHears(i)' /\ state' = state
  BY <1>1, RowsLeft
<1> QED
  BY <1>1, <1>2, TurnLeft DEF InvocationOf, ExecutorAlone, BeforeSend

LEMMA CheckStep ==
    ASSUME InvocationInv, NEW i \in Invs, checkAuthority(i)
    PROVE  InvocationInv'
<1>1. /\ RowTypes /\ MemoryTypes /\ InvocationOf(i) /\ CallerHears(i) /\ UNCHANGED <<invocationNative, world>>
      /\ invocationExec[i] \in BeforeSend
  BY InvocationParts DEF checkAuthority, BeforeSend
<1>2. CASE denyInvocationForService(i) /\ InvocationLeave(i)
  BY <1>1, <1>2, DenyStep, ReturnStep
<1>3. CASE failInvocation(i) /\ InvocationLeave(i)
  BY <1>1, <1>3, FailStep, ReturnStep
<1>4. CASE /\ invocationExec' = [invocationExec EXCEPT ![i] = "starting"]
           /\ UNCHANGED <<invocationRows, invocationClaim, ok, granted, audit>>
  <2>1. "starting" \in Phases /\ "starting" \in BeforeSend
    BY DEF Phases, BeforeSend
  <2>2. MemoryTypes' /\ OtherExecutors(i) /\ invocationExec'[i] = "starting"
    BY <1>1, <1>4, <2>1, PhaseStep
  <2> QED
    BY <1>1, <1>4, <2>1, <2>2, GoesOn
<1> QED
  BY <1>2, <1>3, <1>4 DEF checkAuthority

\* An executor that fails, whatever it had sent.
LEMMA FailedStep ==
    ASSUME InvocationInv, NEW i \in Invs, finish(i, FALSE), UNCHANGED <<invocationNative, world>>
    PROVE  InvocationInv'
<1>1. RowTypes /\ MemoryTypes /\ InvocationOf(i) /\ CallerHears(i)
  BY InvocationParts
<1>2. PICK v \in BOOLEAN : ~ v /\ finish(i, v)
  BY Zenon
<1>3. /\ RowTypes' /\ OtherRows(i) /\ CallerHears(i)' /\ MemoryTypes' /\ OtherExecutors(i)
      /\ invocationExec'[i] \in {"idle", "reporting"}
      /\ ~ (invocationExec'[i] = "reporting" /\ ok'[i])
      /\ state'[i] = state[i] \/ (state[i] \in {"APPROVED", "RUNNING"} /\ state'[i] = "FAILED")
  BY <1>1, <1>2, InvocationFinishStep
<1> QED
  BY <1>1, <1>3, TurnLeft DEF NotRun, BeforeSend

LEMMA StartRuntimeStep ==
    ASSUME InvocationInv, NEW i \in Invs, startRuntime(i)
    PROVE  InvocationInv'
<1>1. MemoryTypes /\ UNCHANGED <<invocationNative, world>> /\ invocationExec[i] \in BeforeSend
  BY InvocationParts DEF startRuntime, BeforeSend
<1>2. CASE /\ invocationExec' = [invocationExec EXCEPT ![i] = "authorizing"]
           /\ UNCHANGED <<invocationRows, invocationClaim, ok, granted, audit>>
  <2>1. "authorizing" \in Phases /\ "authorizing" \in BeforeSend
    BY DEF Phases, BeforeSend
  <2>2. MemoryTypes' /\ OtherExecutors(i) /\ invocationExec'[i] = "authorizing"
    BY <1>1, <1>2, <2>1, PhaseStep
  <2> QED
    BY <1>1, <1>2, <2>1, <2>2, GoesOn
<1>3. CASE finish(i, FALSE)
  BY <1>1, <1>3, FailedStep
<1> QED
  BY <1>2, <1>3 DEF startRuntime

LEMMA AuthorizeStep ==
    ASSUME InvocationInv, NEW i \in Invs, authorize(i)
    PROVE  InvocationInv'
<1>1. /\ RowTypes /\ MemoryTypes /\ InvocationOf(i) /\ CallerHears(i) /\ UNCHANGED <<invocationNative, world>>
      /\ invocationExec[i] \in BeforeSend
  BY InvocationParts DEF authorize, BeforeSend
<1>2. CASE /\ granted' = [granted EXCEPT ![i] = TRUE]
           /\ invocationExec' = [invocationExec EXCEPT ![i] = "setup"]
           /\ UNCHANGED <<invocationRows, invocationClaim, ok, audit>>
  <2>1. PICK v \in BOOLEAN : granted' = [granted EXCEPT ![i] = v]
    BY <1>2, Zenon
  <2>2. "setup" \in Phases /\ "setup" \in BeforeSend
    BY DEF Phases, BeforeSend
  <2>3. MemoryTypes' /\ OtherExecutors(i) /\ invocationExec'[i] = "setup"
    BY <1>1, <1>2, <2>1, <2>2 DEF MemoryTypes, OtherExecutors
  <2> QED
    BY <1>1, <1>2, <2>2, <2>3, GoesOn
<1>3. CASE denyInvocationForService(i) /\ InvocationLeave(i)
  BY <1>1, <1>3, DenyStep, ReturnStep
<1> QED
  BY <1>2, <1>3 DEF authorize

LEMMA SendStep ==
    ASSUME InvocationInv, NEW i \in Invs, sendTargetBotSetup(i)
    PROVE  InvocationInv'
<1>1. RowTypes /\ MemoryTypes /\ NativeTypes /\ WorldTypes /\ InvocationOf(i) /\ CallerHears(i)
  BY InvocationParts
<1>2. state[i] = "RUNNING" /\ starts[i] = 0 /\ ~ invocationFlight[i] /\ UNCHANGED <<turn, starts, seen, world>>
  BY <1>1 DEF sendTargetBotSetup, InvocationOf, ExecutorAlone, BeforeSend
<1>3. CASE /\ invocationExec' = [invocationExec EXCEPT ![i] = "sent"]
           /\ invocationFlight' = [invocationFlight EXCEPT ![i] = TRUE]
           /\ UNCHANGED <<invocationRows, invocationClaim, ok, granted, audit>>
  <2>1. RowTypes' /\ OtherRows(i) /\ CallerHears(i)' /\ state' = state
    BY <1>1, <1>3, RowsLeft
  <2>2. "sent" \in Phases
    BY DEF Phases
  <2>3. MemoryTypes' /\ OtherExecutors(i) /\ invocationExec'[i] = "sent" /\ ok' = ok
    BY <1>1, <1>3, <2>2, PhaseStep
  <2>4. PICK v \in BOOLEAN : invocationFlight' = [invocationFlight EXCEPT ![i] = v]
    BY <1>3, Zenon
  <2>5. OtherTurns(i) /\ NativeTypes' /\ WorldTypes'
    BY <1>1, <1>2, <2>4 DEF OtherTurns, NativeTypes, WorldTypes, world
  <2>6. InvocationOf(i)'
    BY <1>1, <1>2, <2>1, <2>3 DEF InvocationOf, StartedTurn, SeenTurn, ExecutorAlone, ReportsCompleted, RefusedIdle,
                                  CompletedTurn, BeforeSend, NotRun
  <2> QED
    BY <1>2, <2>1, <2>3, <2>5, <2>6, OnlyOne
<1>4. CASE finish(i, FALSE) /\ UNCHANGED invocationFlight
  <2>1. UNCHANGED <<invocationNative, world>>
    BY <1>2, <1>4 DEF invocationNative
  <2> QED
    BY <1>4, <2>1, FailedStep
<1> QED
  BY <1>3, <1>4 DEF sendTargetBotSetup

LEMMA TimeoutStep ==
    ASSUME InvocationInv, NEW i \in Invs, startupTimeout(i)
    PROVE  InvocationInv'
  BY FailedStep DEF startupTimeout

LEMMA ReportStep ==
    ASSUME InvocationInv, NEW i \in Invs, report(i)
    PROVE  InvocationInv'
<1>1. RowTypes /\ MemoryTypes /\ InvocationOf(i) /\ CallerHears(i) /\ UNCHANGED <<ok, invocationNative, world>>
  BY InvocationParts DEF report
<1>2. PICK done \in BOOLEAN :
        /\ audit' = IF done THEN [audit EXCEPT ![i] = IF ok[i] THEN "COMPLETED" ELSE "FAILED"] ELSE audit
        /\ IF ok[i] /\ done THEN completeInvocation(i) ELSE failInvocation(i)
  BY DEF report
<1>3. audit' \in [Invs -> {"none", "COMPLETED", "FAILED"}]
  <2>1. PICK r \in {"COMPLETED", "FAILED"} : r = IF ok[i] THEN "COMPLETED" ELSE "FAILED"
    OBVIOUS
  <2>2. audit' = [audit EXCEPT ![i] = r] \/ audit' = audit
    BY <1>2, <2>1
  <2> QED
    BY <1>1, <2>2 DEF MemoryTypes
<1>4. PICK v \in BOOLEAN : granted' = [granted EXCEPT ![i] = v]
  BY Zenon DEF report
<1>5. invocationClaim' \in [InvocationBots -> Invs \cup {"free"}]
  BY <1>1 DEF report, release, MemoryTypes
<1>6. MemoryTypes' /\ OtherExecutors(i) /\ invocationExec'[i] = "idle"
  BY <1>1, <1>3, <1>4, <1>5 DEF MemoryTypes, OtherExecutors, report, Phases
<1>7. ok[i] => turn[i] = "completed"
  BY <1>1 DEF report, InvocationOf, ReportsCompleted
<1>8. CASE ok[i] /\ completeInvocation(i)
  BY <1>1, <1>6, <1>7, <1>8, CompleteStep, TurnLeft DEF BeforeSend, NotRun
<1>9. CASE failInvocation(i)
  BY <1>1, <1>6, <1>9, FailStep, TurnLeft DEF BeforeSend, NotRun
<1> QED
  BY <1>2, <1>8, <1>9

\* A turn that starts or ends is the one that was sent.
LEMMA NativeStep ==
    ASSUME InvocationInv, NEW i \in Invs, nativeStart(i) \/ nativeEnd(i)
    PROVE  InvocationInv'
<1>1. RowTypes /\ MemoryTypes /\ NativeTypes /\ WorldTypes /\ InvocationOf(i) /\ CallerHears(i)
  BY InvocationParts
<1>2. UNCHANGED <<invocationRows, memory, seen, world>>
  BY DEF nativeStart, nativeEnd
<1>3. RowTypes' /\ OtherRows(i) /\ CallerHears(i)' /\ state' = state
  BY <1>1, <1>2, RowsLeft
<1>4. MemoryTypes' /\ OtherExecutors(i) /\ invocationExec' = invocationExec /\ ok' = ok
  BY <1>1, <1>2, MemoryLeft
<1>5. WorldTypes'
  BY <1>1, <1>2 DEF WorldTypes, world
<1>6. CASE nativeStart(i)
  <2>1. PICK v \in BOOLEAN : ~ v /\ invocationFlight' = [invocationFlight EXCEPT ![i] = v]
    BY <1>6, Zenon DEF nativeStart
  <2>2. turn' = [turn EXCEPT ![i] = "inProgress"] /\ starts' = [starts EXCEPT ![i] = starts[i] + 1] /\ invocationFlight[i]
    BY <1>6 DEF nativeStart
  <2>3. starts[i] = 0 /\ turn[i] = "none"
    BY <1>1, <2>2 DEF InvocationOf, StartedTurn
  <2>4. NativeTypes' /\ OtherTurns(i)
    BY <1>1, <1>2, <2>1, <2>2 DEF NativeTypes, OtherTurns, Turns
  <2>5. ~ invocationFlight'[i] /\ turn'[i] = "inProgress" /\ starts'[i] = 1 /\ seen'[i] = seen[i]
    BY <1>1, <1>2, <2>1, <2>2, <2>3 DEF NativeTypes
  <2>6. InvocationOf(i)'
    BY <1>1, <1>3, <1>4, <2>2, <2>3, <2>5 DEF InvocationOf, StartedTurn, SeenTurn, ExecutorAlone, ReportsCompleted,
                                              RefusedIdle, CompletedTurn
  <2> QED
    BY <1>3, <1>4, <1>5, <2>4, <2>6, OnlyOne
<1>7. CASE nativeEnd(i)
  <2>1. PICK s \in InvocationEnded : turn' = [turn EXCEPT ![i] = s]
    BY <1>7 DEF nativeEnd
  <2>2. UNCHANGED <<invocationFlight, starts>> /\ turn[i] = "inProgress"
    BY <1>7 DEF nativeEnd
  <2>3. NativeTypes' /\ OtherTurns(i) /\ turn'[i] # "none"
    BY <1>1, <1>2, <2>1, <2>2 DEF NativeTypes, OtherTurns, Turns, InvocationEnded
  <2>4. InvocationOf(i)'
    BY <1>1, <1>2, <1>3, <1>4, <2>2, <2>3 DEF InvocationOf, StartedTurn, SeenTurn, ExecutorAlone, ReportsCompleted,
                                              RefusedIdle, CompletedTurn
  <2> QED
    BY <1>3, <1>4, <1>5, <2>3, <2>4, OnlyOne
<1> QED
  BY <1>6, <1>7

\* What the timeline is shown of a turn.
LEMMA SeenStep ==
    ASSUME InvocationInv, NEW i \in Invs, NEW s \in Turns, seen' = [seen EXCEPT ![i] = s],
           s # "none" => turn[i] # "none", s = "completed" => turn[i] = "completed",
           UNCHANGED <<invocationFlight, turn, starts, world>>
    PROVE  NativeTypes' /\ WorldTypes' /\ OtherTurns(i) /\ StartedTurn(i)' /\ SeenTurn(i)' /\ seen'[i] = s
<1>1. NativeTypes /\ WorldTypes /\ InvocationOf(i)
  BY InvocationParts
<1>2. NativeTypes' /\ WorldTypes' /\ OtherTurns(i) /\ seen'[i] = s
  BY <1>1 DEF NativeTypes, WorldTypes, OtherTurns, world
<1> QED
  BY <1>1, <1>2 DEF InvocationOf, StartedTurn, SeenTurn

\* The row is settled as the turn ended, by an executor that ends or by recovery.
LEMMA SettledAsSeen ==
    ASSUME InvocationInv, NEW i \in Invs, NativeTypes', WorldTypes', OtherTurns(i), StartedTurn(i)', SeenTurn(i)',
           UNCHANGED <<invocationFlight, turn, starts>>, RowTypes', MemoryTypes', OtherRows(i), OtherExecutors(i), CallerHears(i)',
           invocationExec'[i] \in BeforeSend => invocationExec[i] \in BeforeSend /\ state'[i] = state[i],
           invocationExec'[i] = "reporting" /\ ok'[i] => turn[i] = "completed",
           \/ state'[i] = state[i]
           \/ turn[i] = "completed" /\ state[i] = "RUNNING" /\ state'[i] = "COMPLETED"
           \/ state[i] \in {"APPROVED", "RUNNING"} /\ state'[i] = "FAILED"
    PROVE  InvocationInv'
<1>1. InvocationOf(i)
  BY InvocationParts
<1>2. InvocationOf(i)'
  BY <1>1 DEF InvocationOf, ExecutorAlone, ReportsCompleted, RefusedIdle, CompletedTurn, NotRun
<1> QED
  BY <1>2, OnlyOne

LEMMA MessageStep ==
    ASSUME InvocationInv, NEW i \in Invs, onMessage(i)
    PROVE  InvocationInv'
<1>1. RowTypes /\ MemoryTypes /\ NativeTypes /\ WorldTypes /\ InvocationOf(i) /\ CallerHears(i)
  BY InvocationParts
<1>2. UNCHANGED <<invocationFlight, turn, starts, world>> /\ seen[i] # turn[i]
  BY DEF onMessage
<1>3. turn[i] # "none" /\ starts[i] # 0
  BY <1>1, <1>2 DEF InvocationOf, SeenTurn, StartedTurn
<1>4. invocationExec[i] \notin BeforeSend
  BY <1>1, <1>3 DEF InvocationOf, ExecutorAlone
<1>5. PICK s \in IF seen[i] = "none" THEN {"inProgress"} ELSE {turn[i]} :
       /\ seen' = [seen EXCEPT ![i] = s]
       /\ CASE invocationExec[i] = "sent" /\ s = "inProgress" ->
                 /\ invocationExec' = [invocationExec EXCEPT ![i] = "running"]
                 /\ release(i)
                 /\ UNCHANGED <<invocationRows, ok, granted, audit>>
            [] invocationExec[i] \in {"sent", "running"} /\ s \in InvocationEnded ->
                 finish(i, s = "completed")
            [] OTHER -> UNCHANGED <<invocationRows, memory>>
  BY DEF onMessage
<1>6. s \in Turns /\ (s = "completed" => turn[i] = "completed")
  BY <1>1, <1>5 DEF Turns, NativeTypes
<1>7. NativeTypes' /\ WorldTypes' /\ OtherTurns(i) /\ StartedTurn(i)' /\ SeenTurn(i)'
  BY <1>2, <1>3, <1>5, <1>6, SeenStep
<1>8. CASE /\ invocationExec' = [invocationExec EXCEPT ![i] = "running"] /\ release(i)
           /\ UNCHANGED <<invocationRows, ok, granted, audit>>
  <2>1. RowTypes' /\ OtherRows(i) /\ CallerHears(i)' /\ state' = state
    BY <1>1, <1>8, RowsLeft
  <2>2. invocationClaim' \in [InvocationBots -> Invs \cup {"free"}]
    BY <1>1, <1>8 DEF release, MemoryTypes
  <2>3. MemoryTypes' /\ OtherExecutors(i) /\ invocationExec'[i] = "running"
    BY <1>1, <1>8, <2>2 DEF MemoryTypes, OtherExecutors, Phases
  <2> QED
    BY <1>2, <1>7, <2>1, <2>3, SettledAsSeen DEF BeforeSend
<1>9. CASE finish(i, s = "completed")
  <2>1. PICK v \in BOOLEAN : (v <=> s = "completed") /\ finish(i, v)
    BY <1>9, Zenon
  <2>2. /\ RowTypes' /\ OtherRows(i) /\ CallerHears(i)' /\ MemoryTypes' /\ OtherExecutors(i)
        /\ invocationExec'[i] \in {"idle", "reporting"}
        /\ invocationExec'[i] = "reporting" /\ ok'[i] => v
        /\ \/ state'[i] = state[i]
           \/ v /\ state[i] = "RUNNING" /\ state'[i] = "COMPLETED"
           \/ state[i] \in {"APPROVED", "RUNNING"} /\ state'[i] = "FAILED"
    BY <1>1, <2>1, InvocationFinishStep
  <2>3. v => turn[i] = "completed"
    BY <1>6, <2>1
  <2> QED
    BY <1>2, <1>7, <2>2, <2>3, SettledAsSeen DEF BeforeSend
<1>10. CASE UNCHANGED <<invocationRows, memory>>
  <2>1. RowTypes' /\ OtherRows(i) /\ CallerHears(i)' /\ state' = state
    BY <1>1, <1>10, RowsLeft
  <2>2. MemoryTypes' /\ OtherExecutors(i) /\ invocationExec' = invocationExec /\ ok' = ok
    BY <1>1, <1>10, MemoryLeft
  <2> QED
    BY <1>1, <1>2, <1>4, <1>7, <2>1, <2>2, SettledAsSeen DEF InvocationOf, ReportsCompleted
<1> QED
  BY <1>5, <1>8, <1>9, <1>10

\* The runtime takes a turn under way with it; a turn that had ended stays.
LEMMA ExitStep ==
    ASSUME InvocationInv, NEW i \in Invs, onExit(i)
    PROVE  InvocationInv'
<1>1. RowTypes /\ MemoryTypes /\ NativeTypes /\ WorldTypes /\ InvocationOf(i) /\ CallerHears(i)
  BY InvocationParts
<1>2. PICK v \in BOOLEAN : ~ v /\ invocationFlight' = [invocationFlight EXCEPT ![i] = v]
  BY Zenon DEF onExit
<1>3. PICK w \in BOOLEAN : ~ w /\ finish(i, w)
  BY Zenon DEF onExit
<1>4. /\ turn' = [turn EXCEPT ![i] = IF turn[i] = "inProgress" THEN "interrupted" ELSE turn[i]]
      /\ seen' = [seen EXCEPT ![i] = IF invocationExec[i] = "running" /\ seen[i] = "inProgress" THEN "interrupted" ELSE seen[i]]
      /\ UNCHANGED <<starts, invocationLate, invocationBot, shared, invocationCrashes>>
      /\ exits < MaxExits /\ exits' = exits + 1
  BY DEF onExit
<1>5. /\ turn'[i] = IF turn[i] = "inProgress" THEN "interrupted" ELSE turn[i]
      /\ seen'[i] \in {seen[i], "interrupted"} /\ (seen'[i] # "none" <=> seen[i] # "none")
      /\ starts'[i] = starts[i] /\ ~ invocationFlight'[i]
  BY <1>1, <1>2, <1>4 DEF NativeTypes
<1>6. NativeTypes' /\ OtherTurns(i)
  BY <1>1, <1>2, <1>4 DEF NativeTypes, OtherTurns, Turns, InvocationEnded
<1>7. WorldTypes'
  BY <1>1, <1>4, InvocationAssumption DEF WorldTypes
<1>8. /\ RowTypes' /\ OtherRows(i) /\ CallerHears(i)' /\ MemoryTypes' /\ OtherExecutors(i)
      /\ invocationExec'[i] \in {"idle", "reporting"}
      /\ ~ (invocationExec'[i] = "reporting" /\ ok'[i])
      /\ state'[i] = state[i] \/ (state[i] \in {"APPROVED", "RUNNING"} /\ state'[i] = "FAILED")
  BY <1>1, <1>3, InvocationFinishStep
<1>9. InvocationOf(i)'
  BY <1>1, <1>5, <1>8 DEF InvocationOf, StartedTurn, SeenTurn, ExecutorAlone, ReportsCompleted, RefusedIdle,
                          CompletedTurn, BeforeSend, NotRun
<1> QED
  BY <1>6, <1>7, <1>8, <1>9, OnlyOne

\* A row is settled as its turn ended.
LEMMA SettleFromStep ==
    ASSUME RowTypes, NEW i \in Invs, NEW s, CallerHears(i), SettleFrom(i, s)
    PROVE  /\ RowTypes' /\ OtherRows(i) /\ CallerHears(i)'
           /\ \/ state'[i] = state[i]
              \/ s = "completed" /\ state[i] = "RUNNING" /\ state'[i] = "COMPLETED"
              \/ state[i] \in {"APPROVED", "RUNNING"} /\ state'[i] = "FAILED"
  BY CompleteStep, FailStep DEF SettleFrom

LEMMA ReconcileTerminalStep ==
    ASSUME InvocationInv, NEW i \in Invs, reconcileTerminalInvocations(i)
    PROVE  InvocationInv'
<1>1. RowTypes /\ MemoryTypes /\ NativeTypes /\ WorldTypes /\ InvocationOf(i) /\ CallerHears(i)
  BY InvocationParts
<1>2. UNCHANGED <<memory, invocationNative, world>> /\ seen[i] \in InvocationEnded /\ SettleFrom(i, seen[i])
  BY DEF reconcileTerminalInvocations
<1>3. turn[i] # "none" /\ (seen[i] = "completed" => turn[i] = "completed")
  BY <1>1, <1>2 DEF InvocationOf, SeenTurn, InvocationEnded
<1>4. invocationExec[i] \notin BeforeSend
  BY <1>1, <1>3 DEF InvocationOf, ExecutorAlone, StartedTurn
<1>5. MemoryTypes' /\ OtherExecutors(i) /\ invocationExec' = invocationExec /\ ok' = ok
  BY <1>1, <1>2, MemoryLeft
<1>6. /\ RowTypes' /\ OtherRows(i) /\ CallerHears(i)'
      /\ \/ state'[i] = state[i]
         \/ seen[i] = "completed" /\ state[i] = "RUNNING" /\ state'[i] = "COMPLETED"
         \/ state[i] \in {"APPROVED", "RUNNING"} /\ state'[i] = "FAILED"
  BY <1>1, <1>2, SettleFromStep
<1> QED
  BY <1>1, <1>2, <1>3, <1>4, <1>5, <1>6, TurnLeft DEF InvocationOf, ReportsCompleted, NotRun

LEMMA InvocationImportStep ==
    ASSUME InvocationInv, NEW i \in Invs, recoverNativeInvocationResults(i) \/ invocationImportRuntimeHistory(i)
    PROVE  InvocationInv'
<1>1. RowTypes /\ MemoryTypes /\ NativeTypes /\ WorldTypes /\ InvocationOf(i) /\ CallerHears(i)
  BY InvocationParts
<1>2. UNCHANGED <<memory, invocationFlight, turn, starts, world>> /\ turn[i] # seen[i] /\ seen' = [seen EXCEPT ![i] = turn[i]]
  BY DEF recoverNativeInvocationResults, invocationImportRuntimeHistory, Unseen
<1>3. turn[i] # "none" /\ turn[i] \in Turns
  BY <1>1, <1>2 DEF InvocationOf, SeenTurn, NativeTypes
<1>4. invocationExec[i] \notin BeforeSend
  BY <1>1, <1>3 DEF InvocationOf, ExecutorAlone, StartedTurn
<1>5. MemoryTypes' /\ OtherExecutors(i) /\ invocationExec' = invocationExec /\ ok' = ok
  BY <1>1, <1>2, MemoryLeft
<1>6. NativeTypes' /\ WorldTypes' /\ OtherTurns(i) /\ StartedTurn(i)' /\ SeenTurn(i)'
  BY <1>2, <1>3, SeenStep
<1>7. SettleFrom(i, turn[i]) \/ UNCHANGED invocationRows
  BY DEF recoverNativeInvocationResults, invocationImportRuntimeHistory
<1>8. /\ RowTypes' /\ OtherRows(i) /\ CallerHears(i)'
      /\ \/ state'[i] = state[i]
         \/ turn[i] = "completed" /\ state[i] = "RUNNING" /\ state'[i] = "COMPLETED"
         \/ state[i] \in {"APPROVED", "RUNNING"} /\ state'[i] = "FAILED"
  BY <1>1, <1>7, SettleFromStep, RowsLeft
<1> QED
  BY <1>1, <1>2, <1>4, <1>5, <1>6, <1>8, SettledAsSeen DEF InvocationOf, ReportsCompleted

\* Time and the owners change nothing of the work.
LEMMA WorldStep ==
    ASSUME InvocationInv, WorldTypes', UNCHANGED <<invocationRows, memory, invocationNative>>
    PROVE  InvocationInv'
<1>1. RowTypes /\ MemoryTypes /\ NativeTypes
  BY InvocationTypes DEF InvocationInv
<1>2. /\ UNCHANGED <<state, handoff, told, cont>> /\ UNCHANGED <<invocationClaim, invocationExec, ok, granted, audit>>
      /\ UNCHANGED <<invocationFlight, turn, starts, seen>>
  BY DEF invocationRows, memory, invocationNative
<1>3. InvocationsTypeOK'
  BY <1>1, <1>2, InvocationTypesNext DEF RowTypes, MemoryTypes, NativeTypes
<1>4. OneRunning' /\ \A i \in Invs : InvocationOf(i)'
  BY <1>2 DEF InvocationInv, OneRunning, InvocationOf, StartedTurn, SeenTurn, ExecutorAlone, ReportsCompleted,
              CallerHears, RefusedIdle, CompletedTurn
<1> QED
  BY <1>3, <1>4 DEF InvocationInv

LEMMA ExpiryStep ==
    ASSUME InvocationInv, NEW i \in Invs, passExpiry(i)
    PROVE  InvocationInv'
<1>1. WorldTypes /\ UNCHANGED <<invocationRows, memory, invocationNative, invocationBot, shared, invocationCrashes, exits>>
  BY InvocationParts DEF passExpiry
<1>2. PICK v \in BOOLEAN : invocationLate' = [invocationLate EXCEPT ![i] = v]
  BY Zenon DEF passExpiry
<1>3. WorldTypes'
  BY <1>1, <1>2 DEF WorldTypes
<1> QED
  BY <1>1, <1>3, WorldStep

LEMMA ChangeBotStep ==
    ASSUME InvocationInv, NEW b \in InvocationBots, changeBot(b)
    PROVE  InvocationInv'
<1>1. WorldTypes /\ UNCHANGED <<invocationRows, memory, invocationNative, invocationLate, invocationCrashes, exits>>
  BY InvocationTypes DEF InvocationInv, changeBot
<1>2. CASE UNCHANGED shared
  BY <1>1, <1>2, WorldStep DEF changeBot, WorldTypes
<1>3. CASE UNCHANGED invocationBot /\ shared' = [shared EXCEPT ![b] = ~ shared[b]]
  <2>1. PICK v \in BOOLEAN : shared' = [shared EXCEPT ![b] = v]
    BY <1>3, Zenon
  <2>2. WorldTypes'
    BY <1>1, <1>3, <2>1 DEF WorldTypes
  <2> QED
    BY <1>1, <2>2, WorldStep
<1> QED
  BY <1>2, <1>3 DEF changeBot

\* The rows and the native history survive a crash; a turn under way does not.
LEMMA InvocationCrashStep ==
    ASSUME InvocationInv, invocationCrash
    PROVE  InvocationInv'
<1>1. RowTypes /\ MemoryTypes /\ NativeTypes /\ WorldTypes
  BY InvocationTypes DEF InvocationInv
<1>2. UNCHANGED <<state, handoff, told, cont, audit, starts, seen, invocationLate, invocationBot, shared, exits>>
  BY DEF invocationCrash, invocationRows
<1>3. RowTypes'
  BY <1>1, <1>2 DEF RowTypes
<1>4. /\ ok' \in [Invs -> BOOLEAN] /\ granted' \in [Invs -> BOOLEAN] /\ invocationFlight' \in [Invs -> BOOLEAN]
      /\ \A i \in Invs : ~ ok'[i] /\ ~ invocationFlight'[i]
  BY Zenon DEF invocationCrash
<1>5. /\ invocationClaim' \in [InvocationBots -> Invs \cup {"free"}] /\ invocationExec' \in [Invs -> Phases]
      /\ \A i \in Invs : invocationExec'[i] = "idle"
  BY DEF invocationCrash, Phases
<1>6. MemoryTypes'
  BY <1>1, <1>2, <1>4, <1>5 DEF MemoryTypes
<1>7. /\ turn' \in [Invs -> Turns]
      /\ \A i \in Invs : turn'[i] = IF turn[i] = "inProgress" THEN "interrupted" ELSE turn[i]
  BY <1>1 DEF invocationCrash, NativeTypes, Turns, InvocationEnded
<1>8. NativeTypes'
  BY <1>1, <1>2, <1>4, <1>7 DEF NativeTypes
<1>9. WorldTypes'
  BY <1>1, <1>2, InvocationAssumption DEF WorldTypes, invocationCrash
<1>10. ASSUME NEW i \in Invs
       PROVE  InvocationOf(i)'
  <2>1. InvocationOf(i)
    BY DEF InvocationInv
  <2> QED
    BY <1>2, <1>4, <1>5, <1>7, <2>1 DEF InvocationOf, StartedTurn, SeenTurn, ExecutorAlone, ReportsCompleted,
                                        CallerHears, RefusedIdle, CompletedTurn, BeforeSend
<1>11. OneRunning'
  BY <1>2 DEF InvocationInv, OneRunning
<1> QED
  BY <1>3, <1>6, <1>8, <1>9, <1>10, <1>11, InvocationTypesNext DEF InvocationInv

LEMMA InvocationStarts == InvocationInit => InvocationInv
<1> SUFFICES ASSUME InvocationInit
             PROVE  InvocationInv
  OBVIOUS
<1>1. /\ invocationLate \in [Invs -> BOOLEAN] /\ shared \in [InvocationBots -> BOOLEAN] /\ ok \in [Invs -> BOOLEAN]
      /\ granted \in [Invs -> BOOLEAN] /\ invocationFlight \in [Invs -> BOOLEAN]
      /\ \A i \in Invs : ~ ok[i] /\ ~ invocationFlight[i]
  BY Zenon DEF InvocationInit
<1>2. handoff \in [Invs -> [st : {"none", "PENDING_APPROVAL", "QUEUED", "DELIVERED"} \cup Terminal, processed : BOOLEAN]]
  <2>1. PICK v \in BOOLEAN : NoHandoff = [st |-> "none", processed |-> v]
    BY Zenon DEF NoHandoff
  <2> QED
    BY <2>1 DEF InvocationInit
<1>3. RowTypes
  BY <1>2 DEF InvocationInit, RowTypes, InvocationStates
<1>4. MemoryTypes /\ NativeTypes /\ WorldTypes
  BY <1>1, InvocationAssumption DEF InvocationInit, MemoryTypes, NativeTypes, WorldTypes, Phases, Turns
<1>5. OneRunning /\ \A i \in Invs : InvocationOf(i)
  BY <1>1 DEF InvocationInit, OneRunning, InvocationOf, StartedTurn, SeenTurn, ExecutorAlone, ReportsCompleted,
              CallerHears, RefusedIdle, CompletedTurn, BeforeSend, Terminal
<1> QED
  BY <1>3, <1>4, <1>5, InvocationTypes DEF InvocationInv

\* What the invariant says is what is promised.
LEMMA InvocationPromises == InvocationInv => InvocationsSafe
<1> SUFFICES ASSUME InvocationInv
             PROVE  InvocationsSafe
  OBVIOUS
<1>1. NativeTypes /\ \A i \in Invs : InvocationOf(i)
  BY InvocationTypes DEF InvocationInv
<1>2. SentOnceEver
  <2> SUFFICES ASSUME NEW i \in Invs
               PROVE  starts[i] + (IF invocationFlight[i] THEN 1 ELSE 0) <= 1
    BY DEF SentOnceEver
  <2>1. starts[i] \in Nat /\ starts[i] <= 1 /\ (invocationFlight[i] => starts[i] = 0)
    BY <1>1 DEF NativeTypes, InvocationOf, StartedTurn
  <2> QED
    BY <2>1
<1>3. CallerTold
  BY <1>1 DEF InvocationOf, CallerHears, CallerTold
<1>4. RefusedNeverRan /\ CompletedRan
  BY <1>1 DEF InvocationOf, RefusedIdle, CompletedTurn, RefusedNeverRan, CompletedRan, NotRun
<1> QED
  BY <1>2, <1>3, <1>4 DEF InvocationInv, InvocationsSafe

\* Whatever crashes, exits, timeouts, recoveries and repeated dispatches come
\* between two awaits of the executor, the work of an invocation is sent at most
\* once and only if it was approved, a target works on one invocation at a time,
\* the caller is told the outcome there is, and COMPLETED is claimed only of a
\* turn that was completed (executeApprovedBotInvocation, beginInvocation,
\* recoverNativeInvocationResults).
THEOREM InvocationsAreSafe == InvocationSpec => []InvocationsSafe
<1>1. InvocationInit => InvocationInv
  BY InvocationStarts
<1>2. InvocationInv /\ [InvocationNext]_invocationVars => InvocationInv'
  <2> SUFFICES ASSUME InvocationInv, [InvocationNext]_invocationVars
               PROVE  InvocationInv'
    OBVIOUS
  <2>1. ASSUME NEW i \in Invs, Step(i)
        PROVE  InvocationInv'
    BY <2>1, CreateStep, ProcessStep, DecideStep, RunStep, InvocationBeginStep, CheckStep, StartRuntimeStep, AuthorizeStep, SendStep,
       TimeoutStep, ReportStep, NativeStep, MessageStep, ExitStep, ReconcileTerminalStep, InvocationImportStep, ExpiryStep DEF Step
  <2>2. CASE UNCHANGED invocationVars
    <3>1. UNCHANGED <<invocationRows, memory, invocationNative, world>>
      BY <2>2 DEF invocationVars, invocationRows, memory, invocationNative, world
    <3>2. WorldTypes'
      BY <3>1, InvocationTypes DEF InvocationInv, WorldTypes, world
    <3> QED
      BY <3>1, <3>2, WorldStep
  <2> QED
    BY <2>1, <2>2, ChangeBotStep, InvocationCrashStep DEF InvocationNext
<1> QED
  BY <1>1, <1>2, InvocationPromises, PTL DEF InvocationSpec

-----------------------------------------------------------------------------
(* The distillation of a turn *)

MarkerIds == 0..DistillationMaxRevision
RowStates == Due \cup {"NONE", "SUBMITTED", "CANDIDATE", "UNRELATED", "FAILED", "NOT_FOUND"}
Rows == [state : RowStates, marker : MarkerIds, triage : Triages \cup {"none"}, outcome : Outcomes \cup {"none"}, token : Nat]
MarkerStates == Unsettled \cup {"NONE", "CANDIDATE", "FAILED"}
Markers == [state : MarkerStates, content : Contents, triage : Triages \cup {"none"}, attempts : 0..DistillationMaxAttempts,
            waiting : BOOLEAN, token : Nat, lease : {"none", "held", "expired"}]
Pcs == {"idle", "backfill", "classify", "submit", "claim", "status", "complete", "replay"}
WorkerAnswers == Unsettled \cup {"none", "CANDIDATE", "FAILED", "deleted", "conflict", "claimed", "empty", "ok"}
Workers == [pc : Pcs, row : MarkerIds, marker : MarkerIds, revision : MarkerIds, content : Contents,
            outcome : Outcomes \cup {"none"}, token : Nat, answer : WorkerAnswers]
Submissions == [kind : {"submit"}, revision : Revisions, content : Contents, triage : Triages]
Completions == [kind : {"complete"}, marker : Revisions, token : Nat, outcome : Outcomes, content : Contents]
Requests == Submissions \cup Completions \cup {[kind |-> "claim"]}

DistillationTypes ==
    /\ stored \in [revision : Revisions, content : Contents] /\ was \in [Revisions -> Contents]
    /\ distillationRows \in [Revisions -> Rows] /\ worker \in Workers
    /\ net \subseteq Requests /\ IsFiniteSet(net)
    /\ markers \in [Revisions -> Markers] /\ knowledge \in [Revisions -> Contents \cup {"none"}]
    /\ owned \in BOOLEAN /\ distillationTombstone \in BOOLEAN /\ distillationFaults \in 0..DistillationMaxFaults

\* A row is of a revision the turn has had, what was classified is what the turn
\* said then, an outcome is saved only of a marker, and the row agrees with it.
RowOf(entry, r) ==
    /\ entry.state # "NONE" => r <= stored.revision
    /\ entry.marker # 0 => entry.state # "NONE" /\ markers[entry.marker].state # "NONE"
    /\ entry.marker = 0 => entry.outcome = "none"
    /\ entry.triage # "none" => entry.state # "NONE" /\ <<was[r], entry.triage>> \in judged
    /\ entry.marker # 0 /\ entry.state = "CANDIDATE" => markers[entry.marker].state = "CANDIDATE"
    /\ entry.marker # 0 /\ entry.state \in {"FAILED", "NOT_FOUND"} => markers[entry.marker].state = "FAILED"

MarkerOf(r) ==
    /\ markers[r].state # "NONE" =>
         /\ r <= stored.revision /\ markers[r].content = was[r] /\ markers[r].triage \in Triages
         /\ <<markers[r].content, markers[r].triage>> \in judged
    /\ knowledge[r] # "none" <=> markers[r].state = "CANDIDATE"
    /\ knowledge[r] # "none" => knowledge[r] = was[r]
    /\ distillationTombstone => markers[r].state \notin Unsettled

SubmissionOf(q) ==
    /\ q.revision <= stored.revision /\ q.content = was[q.revision] /\ <<q.content, q.triage>> \in judged
    /\ markers[q.revision].state # "NONE" => markers[q.revision].triage = q.triage
    /\ \A p \in net : p.kind = "submit" /\ p.revision = q.revision => p.triage = q.triage

\* What was submitted of the present revision, its row remembers, unless it has a
\* marker already.
Remembers(t) == distillationRows[stored.revision].marker # 0 \/ distillationRows[stored.revision].triage = t
Remembered ==
    /\ \A q \in net : q.kind = "submit" /\ q.revision = stored.revision => Remembers(q.triage)
    /\ markers[stored.revision].state # "NONE" => Remembers(markers[stored.revision].triage)

\* The outcomes that were saved, that are on their way, and that the worker awaits.
Tells(m, t, o) ==
    \/ \E r \in Revisions : /\ distillationRows[r].outcome # "none" /\ distillationRows[r].marker = m
                            /\ distillationRows[r].token = t /\ distillationRows[r].outcome = o
    \/ \E q \in net : q.kind = "complete" /\ q.marker = m /\ q.token = t /\ q.outcome = o
    \/ worker.pc \in {"complete", "replay"} /\ worker.marker = m /\ worker.token = t /\ worker.outcome = o
OneOutcome == \A m \in Revisions, t \in Nat, o, p \in Outcomes : Tells(m, t, o) /\ Tells(m, t, p) => o = p
FreshClaim ==
    worker.pc = "claim" /\ worker.answer = "claimed" => \A m \in Revisions, o \in Outcomes : ~ Tells(m, worker.token, o)

WorksOnRow ==
    worker.pc \in {"classify", "submit"} \/ (worker.pc = "backfill" /\ worker.marker = 0) =>
        /\ worker.row \in Revisions /\ distillationRows[worker.row].marker = 0
        /\ distillationRows[worker.row].state # "NONE"
        /\ worker.pc = "classify" => distillationRows[worker.row].triage = "none" /\ worker.answer = "none"
AwaitsMarker ==
    worker.pc = "submit" =>
        /\ worker.answer # "conflict"
        /\ worker.answer \in Unsettled => markers[worker.row].state # "NONE"
        /\ worker.answer \in {"CANDIDATE", "FAILED"} => markers[worker.row].state = worker.answer
HasClaimed ==
    worker.pc = "claim" /\ worker.answer = "claimed" => worker.marker \in Revisions /\ markers[worker.marker].state # "NONE"
AsksStatus == worker.pc = "status" => worker.row \in Revisions /\ distillationRows[worker.row].marker # 0
TellsOutcome ==
    worker.pc \in {"complete", "replay"} =>
        /\ worker.marker \in Revisions /\ markers[worker.marker].state # "NONE" /\ worker.outcome \in Outcomes
        /\ worker.revision \in Revisions /\ worker.revision <= stored.revision
        /\ worker.row # 0 => distillationRows[worker.row].marker = worker.marker
        /\ worker.answer = "ok" /\ worker.outcome = "CANDIDATE" => markers[worker.marker].state = "CANDIDATE"
        /\ worker.answer = "ok" /\ worker.outcome \in {"CHANGED", "NOT_FOUND"} => markers[worker.marker].state = "FAILED"
WorkerInv == WorksOnRow /\ AwaitsMarker /\ HasClaimed /\ AsksStatus /\ TellsOutcome

DistillationInv ==
    /\ DistillationTypes /\ was[stored.revision] = stored.content
    /\ \A r \in Revisions : RowOf(distillationRows[r], r) /\ MarkerOf(r)
    /\ (\A q \in net : q.kind = "submit" => SubmissionOf(q)) /\ Remembered
    /\ OneOutcome /\ FreshClaim /\ WorkerInv

LEMMA Ids == /\ Revisions \subseteq MarkerIds /\ Revisions \subseteq Nat /\ 0 \in MarkerIds /\ 0 \notin Revisions /\ 1 \in Revisions
             /\ MarkerIds \ {0} = Revisions
  BY DistillationAssumption DEF Revisions, MarkerIds

LEMMA RevisionSelf == ASSUME NEW r \in Revisions PROVE r <= r
  BY DEF Revisions

LEMMA NoRowFields ==
    /\ DistillationNoRow \in Rows /\ DistillationNoRow.state = "NONE" /\ DistillationNoRow.marker = 0
    /\ DistillationNoRow.triage = "none" /\ DistillationNoRow.outcome = "none" /\ DistillationNoRow.token = 0
  BY Ids DEF DistillationNoRow, Rows, RowStates

LEMMA IdleFields ==
    /\ DistillationIdle \in Workers /\ DistillationIdle.pc = "idle" /\ DistillationIdle.row = 0 /\ DistillationIdle.marker = 0
    /\ DistillationIdle.revision = 0 /\ DistillationIdle.content = "partial" /\ DistillationIdle.outcome = "none"
    /\ DistillationIdle.token = 0 /\ DistillationIdle.answer = "none"
  BY Ids DEF DistillationIdle, Workers, Pcs, WorkerAnswers, Contents

\* The rows that a step of the worker may leave: each is sound, and the one of
\* the present revision remembers what was submitted of it.
SoundRows(rs) ==
    /\ rs \in [Revisions -> Rows]
    /\ \A x \in Revisions : RowOf(rs[x], x)
    /\ \/ rs[stored.revision].marker # 0
       \/ /\ distillationRows[stored.revision].marker = 0
          /\ rs[stored.revision].triage = distillationRows[stored.revision].triage
NoNewOutcome(rs) ==
    \A x \in Revisions : rs[x].outcome # "none" =>
          /\ rs[x].marker = distillationRows[x].marker /\ rs[x].token = distillationRows[x].token
          /\ rs[x].outcome = distillationRows[x].outcome
GoodRows(rs) == SoundRows(rs) /\ NoNewOutcome(rs)

LEMMA RowsAreGood == ASSUME DistillationInv PROVE GoodRows(distillationRows)
<1>1. stored.revision \in Revisions /\ distillationRows \in [Revisions -> Rows]
  BY DEF DistillationInv, DistillationTypes
<1> QED
  BY <1>1 DEF DistillationInv, GoodRows, SoundRows, NoNewOutcome

\* A row that is queued is new.
LEMMA EnqueueGood ==
    ASSUME stored.revision \in Revisions, NEW rs, GoodRows(rs)
    PROVE  GoodRows(Enqueue(rs, stored.revision))
<1> DEFINE now == stored.revision
           fresh == [DistillationNoRow EXCEPT !.state = "PENDING"]
           after == Enqueue(rs, now)
<1>1. CASE rs[now].state # "NONE"
  BY <1>1 DEF Enqueue
<1>2. CASE rs[now].state = "NONE"
  <2>1. /\ fresh \in Rows /\ fresh.state = "PENDING" /\ fresh.marker = 0 /\ fresh.triage = "none" /\ fresh.outcome = "none"
    BY Ids DEF DistillationNoRow, Rows, RowStates, Due
  <2>2. rs \in [Revisions -> Rows] /\ RowOf(rs[now], now) /\ now \in Revisions
    BY DEF GoodRows, SoundRows, NoNewOutcome
  <2>3. rs[now].marker = 0 /\ rs[now].triage = "none"
    BY <1>2, <2>2 DEF RowOf
  <2> HIDE DEF fresh
  <2>4. after = [rs EXCEPT ![now] = fresh]
    BY <1>2 DEF Enqueue, fresh
  <2>5. /\ after \in [Revisions -> Rows] /\ after[now] = fresh
        /\ \A x \in Revisions : x # now => after[x] = rs[x]
    BY <2>1, <2>2, <2>4
  <2>6. RowOf(fresh, now)
    BY <2>1, <2>2, Ids DEF RowOf
  <2> HIDE DEF after
  <2>7. \A x \in Revisions : RowOf(after[x], x)
    BY <2>5, <2>6 DEF GoodRows, SoundRows, NoNewOutcome
  <2>8. GoodRows(after)
    BY <2>1, <2>2, <2>3, <2>5, <2>7 DEF GoodRows, SoundRows, NoNewOutcome
  <2> QED
    BY <2>8 DEF after
<1> QED
  BY <1>1, <1>2

LEMMA EnqueueChangedGood ==
    ASSUME stored.revision \in Revisions, NEW rs, GoodRows(rs), NEW r, NEW digest
    PROVE  GoodRows(EnqueueChanged(rs, r, digest))
  BY EnqueueGood DEF EnqueueChanged

\* One row is replaced.
LEMMA ReplaceGood ==
    ASSUME NEW rs, GoodRows(rs), NEW x \in Revisions, NEW entry \in Rows, RowOf(entry, x),
           x = stored.revision => entry.marker # 0 \/ (rs[x].marker = 0 /\ entry.triage = rs[x].triage),
           entry.outcome # "none" =>
               entry.marker = rs[x].marker /\ entry.token = rs[x].token /\ entry.outcome = rs[x].outcome
    PROVE  GoodRows([rs EXCEPT ![x] = entry])
<1> DEFINE after == [rs EXCEPT ![x] = entry]
<1>1. rs \in [Revisions -> Rows]
  BY DEF GoodRows, SoundRows, NoNewOutcome
<1>2. after \in [Revisions -> Rows] /\ after[x] = entry /\ \A y \in Revisions : y # x => after[y] = rs[y]
  BY <1>1
<1> HIDE DEF after
<1>3. \A y \in Revisions : RowOf(after[y], y)
  BY <1>2 DEF GoodRows, SoundRows, NoNewOutcome
<1>4. \/ after[stored.revision].marker # 0
      \/ /\ distillationRows[stored.revision].marker = 0
         /\ after[stored.revision].triage = distillationRows[stored.revision].triage
  <2>1. CASE stored.revision = x
    BY <1>2, <2>1 DEF GoodRows, SoundRows, NoNewOutcome
  <2>2. CASE stored.revision # x
    <3>1. after[stored.revision] = rs[stored.revision]
      BY <1>1, <2>2 DEF after
    <3> QED
      BY <3>1 DEF GoodRows, SoundRows, NoNewOutcome
  <2> QED
    BY <2>1, <2>2
<1>5. \A y \in Revisions : after[y].outcome # "none" =>
          /\ after[y].marker = distillationRows[y].marker /\ after[y].token = distillationRows[y].token
          /\ after[y].outcome = distillationRows[y].outcome
  BY <1>2 DEF GoodRows, SoundRows, NoNewOutcome
<1> QED
  BY <1>2, <1>3, <1>4, <1>5 DEF GoodRows, SoundRows, NoNewOutcome, after

\* A row that is there changes its state.
LEMMA StateGood ==
    ASSUME NEW rs, GoodRows(rs), NEW x \in Revisions, NEW s \in RowStates, s # "NONE", rs[x].state # "NONE",
           rs[x].marker # 0 /\ s = "CANDIDATE" => markers[rs[x].marker].state = "CANDIDATE",
           rs[x].marker # 0 /\ s \in {"FAILED", "NOT_FOUND"} => markers[rs[x].marker].state = "FAILED"
    PROVE  GoodRows([rs EXCEPT ![x].state = s])
<1> DEFINE entry == [rs[x] EXCEPT !.state = s]
<1>1. rs \in [Revisions -> Rows] /\ rs[x] \in Rows /\ RowOf(rs[x], x)
  BY DEF GoodRows, SoundRows, NoNewOutcome
<1>2. /\ entry \in Rows /\ entry.state = s /\ entry.marker = rs[x].marker /\ entry.triage = rs[x].triage
      /\ entry.outcome = rs[x].outcome /\ entry.token = rs[x].token
  BY <1>1 DEF Rows
<1>3. [rs EXCEPT ![x].state = s] = [rs EXCEPT ![x] = entry]
  BY <1>1
<1> HIDE DEF entry
<1>4. RowOf(entry, x)
  BY <1>1, <1>2 DEF RowOf
<1> QED
  BY <1>2, <1>3, <1>4, ReplaceGood

\* A row without a marker takes the turn's present revision.
LEMMA AdoptGood ==
    ASSUME DistillationInv, NEW r \in Revisions, distillationRows[r].marker = 0, distillationRows[r].state # "NONE"
    PROVE  /\ GoodRows(Adopt(distillationRows, r))
           /\ Adopted(r) => /\ Adopt(distillationRows, r)[stored.revision].marker = 0
                            /\ Adopt(distillationRows, r)[stored.revision].state # "NONE"
<1> DEFINE now == stored.revision
           rs == distillationRows
           moved == [rs[r] EXCEPT !.triage = "none"]
           after == Adopt(rs, r)
<1>1. /\ now \in Revisions /\ rs \in [Revisions -> Rows] /\ rs[r] \in Rows /\ GoodRows(rs)
      /\ RowOf(rs[r], r) /\ RowOf(rs[now], now)
  BY RowsAreGood DEF DistillationInv, DistillationTypes
<1>2. CASE r = now
  BY <1>1, <1>2 DEF Adopt
<1>3. CASE r # now
  <2>1. after = [rs EXCEPT ![r] = DistillationNoRow, ![now] = IF rs[now].state = "NONE" THEN moved ELSE rs[now]]
    BY <1>3 DEF Adopt
  <2>2. /\ moved \in Rows /\ moved.state = rs[r].state /\ moved.marker = 0 /\ moved.triage = "none"
        /\ moved.outcome = rs[r].outcome
    BY <1>1 DEF Rows
  <2>3. rs[r].outcome = "none"
    BY <1>1 DEF RowOf
  <2> HIDE DEF moved
  <2>4. GoodRows([rs EXCEPT ![r] = DistillationNoRow])
    <3>1. RowOf(DistillationNoRow, r)
      BY NoRowFields DEF RowOf
    <3> QED
      BY <1>1, <1>3, <3>1, NoRowFields, ReplaceGood
  <2> DEFINE base == [rs EXCEPT ![r] = DistillationNoRow]
  <2>5. base[now] = rs[now] /\ base \in [Revisions -> Rows]
    BY <1>1, <1>3, NoRowFields
  <2>6. CASE rs[now].state = "NONE"
    <3>1. after = [base EXCEPT ![now] = moved]
      BY <1>1, <1>3, <2>1, <2>6
    <3>2. RowOf(moved, now)
      BY <1>1, <2>2, <2>3, Ids DEF RowOf
    <3>3. rs[now].marker = 0 /\ rs[now].triage = "none"
      BY <1>1, <2>6 DEF RowOf
    <3> HIDE DEF base
    <3>4. GoodRows([base EXCEPT ![now] = moved])
      BY <1>1, <2>2, <2>3, <2>4, <2>5, <3>2, <3>3, ReplaceGood DEF base
    <3>5. after[now] = moved
      BY <1>1, <2>5, <3>1
    <3> QED
      BY <2>2, <3>1, <3>4, <3>5
  <2>7. CASE rs[now].state # "NONE"
    <3>1. after = base
      BY <1>1, <1>3, <2>1, <2>7
    <3>2. ~ Adopted(r)
      BY <1>3, <2>7 DEF Adopted
    <3> QED
      BY <2>4, <3>1, <3>2
  <2> QED
    BY <2>6, <2>7
<1> QED
  BY <1>2, <1>3

-----------------------------------------------------------------------------
\* Where no outcome is new, outcomes stay one per lease.
LEMMA TellsNoMore ==
    ASSUME OneOutcome,
           \A m \in Revisions, t \in Nat, o \in Outcomes : Tells(m, t, o)' => Tells(m, t, o)
    PROVE  OneOutcome'
  BY DEF OneOutcome

LEMMA FewerTells ==
    ASSUME GoodRows(distillationRows'), \A q \in net' : q.kind = "complete" => q \in net,
           \/ worker'.pc \notin {"complete", "replay"}
           \/ /\ worker.pc \in {"complete", "replay"} /\ worker'.marker = worker.marker
              /\ worker'.token = worker.token /\ worker'.outcome = worker.outcome,
           NEW m \in Revisions, NEW t \in Nat, NEW o \in Outcomes, Tells(m, t, o)'
    PROVE  Tells(m, t, o)
<1>1. CASE \E r \in Revisions : /\ distillationRows'[r].outcome # "none" /\ distillationRows'[r].marker = m
                                /\ distillationRows'[r].token = t /\ distillationRows'[r].outcome = o
  <2>1. PICK r \in Revisions : /\ distillationRows'[r].outcome # "none" /\ distillationRows'[r].marker = m
                               /\ distillationRows'[r].token = t /\ distillationRows'[r].outcome = o
    BY <1>1
  <2>2. /\ distillationRows[r].outcome # "none" /\ distillationRows[r].marker = m
        /\ distillationRows[r].token = t /\ distillationRows[r].outcome = o
    BY <2>1 DEF GoodRows, SoundRows, NoNewOutcome
  <2> QED
    BY <2>2 DEF Tells
<1>2. CASE \E q \in net' : q.kind = "complete" /\ q.marker = m /\ q.token = t /\ q.outcome = o
  BY <1>2 DEF Tells
<1>3. CASE worker'.pc \in {"complete", "replay"} /\ worker'.marker = m /\ worker'.token = t /\ worker'.outcome = o
  BY <1>3 DEF Tells
<1> QED
  BY <1>1, <1>2, <1>3 DEF Tells

\* A step of the worker leaves the turn and the platform as they are.
TurnAndPlatform == <<stored, was, markers, knowledge, owned, distillationTombstone>>

LEMMA WorkStep ==
    ASSUME DistillationInv, UNCHANGED TurnAndPlatform,
           distillationFaults' \in 0..DistillationMaxFaults, judged \subseteq judged',
           SoundRows(distillationRows'), worker' \in Workers, net' \subseteq Requests, IsFiniteSet(net'),
           \A q \in net' : q.kind = "submit" => q \in net,
           OneOutcome', FreshClaim', WorkerInv'
    PROVE  DistillationInv'
<1>1. UNCHANGED <<stored, was, markers, knowledge, owned, distillationTombstone>>
  BY DEF TurnAndPlatform
<1>2. DistillationTypes'
  BY <1>1 DEF DistillationInv, DistillationTypes, SoundRows
<1>3. was'[stored'.revision] = stored'.content /\ stored.revision \in Revisions
  BY <1>1 DEF DistillationInv, DistillationTypes
<1>4. ASSUME NEW r \in Revisions
      PROVE  RowOf(distillationRows[r], r)' /\ MarkerOf(r)'
  <2>1. RowOf(distillationRows'[r], r) /\ MarkerOf(r)
    BY DEF DistillationInv, SoundRows
  <2> QED
    BY <1>1, <2>1 DEF RowOf, MarkerOf
<1>5. ASSUME NEW q \in net', q.kind = "submit"
      PROVE  SubmissionOf(q)'
  <2>1. q \in net /\ SubmissionOf(q)
    BY <1>5 DEF DistillationInv
  <2> QED
    BY <1>1, <2>1 DEF SubmissionOf
<1>6. ASSUME NEW t, Remembers(t)
      PROVE  Remembers(t)'
  BY <1>1, <1>6 DEF Remembers, SoundRows
<1>7. Remembered'
  BY <1>1, <1>6 DEF DistillationInv, Remembered
<1> QED
  BY <1>2, <1>3, <1>4, <1>5, <1>7 DEF DistillationInv

\* The worker rests.
LEMMA RestStep ==
    ASSUME DistillationInv, UNCHANGED TurnAndPlatform, Rest,
           distillationFaults' \in 0..DistillationMaxFaults, judged \subseteq judged', GoodRows(distillationRows')
    PROVE  DistillationInv'
<1>1. worker' = DistillationIdle /\ net' = net /\ worker'.pc = "idle" /\ worker' \in Workers
  BY IdleFields DEF Rest
<1>2. OneOutcome' /\ FreshClaim' /\ WorkerInv'
  <2>1. \A m \in Revisions, t \in Nat, o \in Outcomes : Tells(m, t, o)' => Tells(m, t, o)
    BY <1>1, FewerTells
  <2> QED
    BY <1>1, <2>1, TellsNoMore DEF DistillationInv, FreshClaim, WorkerInv, WorksOnRow, AwaitsMarker, HasClaimed, AsksStatus, TellsOutcome
<1>3. net' \subseteq Requests /\ IsFiniteSet(net')
  BY <1>1 DEF DistillationInv, DistillationTypes
<1> QED
  BY <1>1, <1>2, <1>3, WorkStep DEF GoodRows

\* The worker works on a row, or asks for the state of a marker.
LEMMA WorkingStep ==
    ASSUME DistillationInv, UNCHANGED TurnAndPlatform, net' = net,
           distillationFaults' = distillationFaults, judged' = judged, GoodRows(distillationRows'),
           worker' \in Workers, worker'.pc \in {"backfill", "classify", "status"},
           WorksOnRow', AsksStatus'
    PROVE  DistillationInv'
<1>1. OneOutcome'
  <2>1. \A m \in Revisions, t \in Nat, o \in Outcomes : Tells(m, t, o)' => Tells(m, t, o)
    BY FewerTells
  <2> QED
    BY <2>1, TellsNoMore DEF DistillationInv
<1>2. FreshClaim' /\ WorkerInv'
  BY DEF FreshClaim, WorkerInv, AwaitsMarker, HasClaimed, TellsOutcome
<1>3. net' \subseteq Requests /\ IsFiniteSet(net') /\ distillationFaults' \in 0..DistillationMaxFaults
  BY DEF DistillationInv, DistillationTypes
<1> QED
  BY <1>1, <1>2, <1>3, WorkStep DEF GoodRows

LEMMA FaultsTyped == ASSUME DistillationInv PROVE distillationFaults \in 0..DistillationMaxFaults
  BY DEF DistillationInv, DistillationTypes

LEMMA FirstSeenStep ==
    ASSUME DistillationInv, FirstSeen
    PROVE  DistillationInv'
<1>1. /\ distillationRows' = Enqueue(distillationRows, stored.revision) /\ worker' = DistillationIdle
      /\ UNCHANGED <<stored, was, net, markers, knowledge, owned, distillationTombstone, judged, distillationFaults>>
  BY DEF FirstSeen
<1>2. GoodRows(distillationRows')
  BY <1>1, RowsAreGood, EnqueueGood DEF DistillationInv, DistillationTypes
<1> QED
  BY <1>1, <1>2, RestStep, FaultsTyped DEF Rest, TurnAndPlatform

LEMMA BackfilledRowStep ==
    ASSUME DistillationInv, NEW found \in BOOLEAN, BackfilledRow(found)
    PROVE  DistillationInv'
<1> DEFINE r == worker.row
           rs == Adopt(distillationRows, r)
           now == stored.revision
           s == IF found THEN "WAITING_HISTORY" ELSE "NOT_FOUND"
<1>1. /\ Rest /\ UNCHANGED TurnAndPlatform /\ UNCHANGED <<judged, distillationFaults>>
      /\ worker.pc = "backfill" /\ worker.marker = 0
      /\ distillationRows' = IF ~ owned THEN distillationRows
                             ELSE IF ~ Adopted(r) \/ Ready(stored.content) THEN rs ELSE [rs EXCEPT ![now].state = s]
  BY DEF BackfilledRow, TurnAndPlatform
<1>2. r \in Revisions /\ distillationRows[r].marker = 0 /\ distillationRows[r].state # "NONE"
  BY <1>1 DEF DistillationInv, WorkerInv, WorksOnRow
<1>3. GoodRows(distillationRows) /\ GoodRows(rs) /\ (Adopted(r) => rs[now].marker = 0 /\ rs[now].state # "NONE")
  BY <1>2, RowsAreGood, AdoptGood
<1>4. now \in Revisions /\ s \in RowStates /\ s # "NONE"
  BY DEF DistillationInv, DistillationTypes, RowStates, Due
<1> HIDE DEF r, rs, now, s
<1>5. Adopted(r) => GoodRows([rs EXCEPT ![now].state = s])
  BY <1>3, <1>4, StateGood
<1>6. GoodRows(distillationRows')
  BY <1>1, <1>3, <1>5
<1> QED
  BY <1>1, <1>6, RestStep, FaultsTyped

LEMMA SubmittedStep ==
    ASSUME DistillationInv, Submitted
    PROVE  DistillationInv'
<1> DEFINE r == worker.row
           to == IF worker.answer \in {"CANDIDATE", "FAILED"} THEN worker.answer ELSE "SUBMITTED"
           rs == [distillationRows EXCEPT ![r].state = to, ![r].marker = r]
           entry == [distillationRows[r] EXCEPT !.state = to, !.marker = r]
<1>1. /\ Rest /\ UNCHANGED TurnAndPlatform /\ UNCHANGED <<judged, distillationFaults>> /\ worker.pc = "submit"
      /\ worker.answer \in {"PENDING", "WAITING", "PROCESSING", "CANDIDATE", "FAILED"}
      /\ distillationRows' = IF to = "SUBMITTED" THEN rs ELSE EnqueueChanged(rs, r, worker.content)
  BY DEF Submitted, TurnAndPlatform
<1>2. r \in Revisions /\ distillationRows[r].marker = 0 /\ distillationRows[r].state # "NONE"
  BY <1>1 DEF DistillationInv, WorkerInv, WorksOnRow
<1>3. /\ distillationRows \in [Revisions -> Rows] /\ distillationRows[r] \in Rows /\ RowOf(distillationRows[r], r)
      /\ stored.revision \in Revisions
  BY <1>2 DEF DistillationInv, DistillationTypes
<1>4. /\ to \in {"CANDIDATE", "FAILED", "SUBMITTED"} /\ markers[r].state # "NONE"
      /\ to \in {"CANDIDATE", "FAILED"} => markers[r].state = to
  BY <1>1 DEF DistillationInv, WorkerInv, AwaitsMarker, Unsettled
<1> HIDE DEF to
<1>5. /\ entry \in Rows /\ entry.state = to /\ entry.marker = r /\ entry.triage = distillationRows[r].triage
      /\ entry.outcome = distillationRows[r].outcome
  BY <1>2, <1>3, <1>4, Ids DEF Rows, RowStates
<1>6. rs = [distillationRows EXCEPT ![r] = entry]
  BY <1>3
<1>7. distillationRows[r].outcome = "none" /\ r # 0
  BY <1>2, <1>3, Ids DEF RowOf
<1> HIDE DEF r, entry
<1>8. RowOf(entry, r)
  BY <1>2, <1>3, <1>4, <1>5, <1>7 DEF RowOf
<1>9. GoodRows([distillationRows EXCEPT ![r] = entry])
  BY <1>2, <1>5, <1>7, <1>8, RowsAreGood, ReplaceGood
<1> HIDE DEF rs
<1>10. GoodRows(distillationRows')
  BY <1>1, <1>3, <1>6, <1>9, EnqueueChangedGood
<1> QED
  BY <1>1, <1>10, RestStep, FaultsTyped

LEMMA SubmissionRefusedStep ==
    ASSUME DistillationInv, SubmissionRefused
    PROVE  DistillationInv'
<1> DEFINE r == worker.row
           rs == [distillationRows EXCEPT ![r].state = "FAILED"]
<1>1. /\ Rest /\ UNCHANGED TurnAndPlatform /\ UNCHANGED <<judged, distillationFaults>> /\ worker.pc = "submit"
      /\ distillationRows' = distillationRows \/ distillationRows' = EnqueueChanged(rs, r, worker.content)
  BY DEF SubmissionRefused, TurnAndPlatform
<1>2. r \in Revisions /\ distillationRows[r].marker = 0 /\ distillationRows[r].state # "NONE"
  BY <1>1 DEF DistillationInv, WorkerInv, WorksOnRow
<1>3. "FAILED" \in RowStates /\ stored.revision \in Revisions
  BY DEF RowStates, DistillationInv, DistillationTypes
<1> HIDE DEF r
<1>4. GoodRows(rs)
  BY <1>2, <1>3, RowsAreGood, StateGood
<1> HIDE DEF rs
<1>5. GoodRows(distillationRows')
  BY <1>1, <1>3, <1>4, RowsAreGood, EnqueueChangedGood
<1> QED
  BY <1>1, <1>5, RestStep, FaultsTyped

LEMMA DistillationReconcileStep ==
    ASSUME DistillationInv, DistillationReconcile
    PROVE  DistillationInv'
<1> DEFINE r == worker.row
           s == markers[distillationRows[r].marker].state
           rs == [distillationRows EXCEPT ![r].state = s]
<1>1. /\ Rest /\ UNCHANGED TurnAndPlatform /\ UNCHANGED <<judged, distillationFaults>> /\ worker.pc = "status"
      /\ distillationRows' = IF ~ owned \/ s \in Unsettled THEN distillationRows ELSE EnqueueChanged(rs, r, "none")
  BY DEF DistillationReconcile, TurnAndPlatform
<1>2. r \in Revisions /\ distillationRows[r].marker # 0
  BY <1>1 DEF DistillationInv, WorkerInv, AsksStatus
<1>3. distillationRows[r] \in Rows /\ RowOf(distillationRows[r], r) /\ stored.revision \in Revisions
  BY <1>2 DEF DistillationInv, DistillationTypes
<1>4. distillationRows[r].marker \in Revisions
  BY <1>2, <1>3, Ids DEF Rows
<1>5. s \in MarkerStates /\ s # "NONE" /\ distillationRows[r].state # "NONE"
  BY <1>2, <1>3, <1>4 DEF RowOf, DistillationInv, DistillationTypes, Markers
<1>6. s \notin Unsettled => s \in {"CANDIDATE", "FAILED"} /\ s \in RowStates
  BY <1>5 DEF MarkerStates, RowStates
<1> HIDE DEF r
<1>7. s \notin Unsettled => GoodRows(rs)
  <2> SUFFICES ASSUME s \notin Unsettled
               PROVE  GoodRows(rs)
    OBVIOUS
  <2>1. s = markers[distillationRows[r].marker].state
    OBVIOUS
  <2> HIDE DEF s
  <2>2. /\ s = "CANDIDATE" => markers[distillationRows[r].marker].state = "CANDIDATE"
        /\ s \in {"FAILED", "NOT_FOUND"} => markers[distillationRows[r].marker].state = "FAILED"
    BY <1>6, <2>1
  <2> QED
    BY <1>2, <1>5, <1>6, <2>2, RowsAreGood, StateGood
<1> HIDE DEF rs, s
<1>8. GoodRows(distillationRows')
  BY <1>1, <1>3, <1>7, RowsAreGood, EnqueueChangedGood
<1> QED
  BY <1>1, <1>8, RestStep, FaultsTyped

LEMMA IdleSteps ==
    ASSUME DistillationInv, BackfilledMarker \/ GiveUp
    PROVE  DistillationInv'
<1>1. Rest /\ UNCHANGED TurnAndPlatform /\ judged' = judged /\ distillationRows' = distillationRows
  BY DEF BackfilledMarker, GiveUp, TurnAndPlatform
<1>2. distillationFaults' \in 0..DistillationMaxFaults
  BY FaultsTyped, DistillationAssumption DEF BackfilledMarker, GiveUp
<1> QED
  BY <1>1, <1>2, RowsAreGood, RestStep

\* Some numbers have a least one.
LEMMA LeastExists ==
    ASSUME NEW S \in SUBSET Nat, S # {}
    PROVE  \E m \in S : \A n \in S : m <= n
<1> DEFINE R == OpToRel(<, Nat)
<1> HIDE DEF R
<1>1. IsWellFoundedOn(R, Nat)
  BY NatLessThanWellFounded DEF R
<1>2. \A x, y \in Nat : <<y, x>> \in R <=> y < x
  BY DEF OpToRel, R
<1>3. PICK m \in S : \A n \in S : ~ (<<n, m>> \in R)
  BY <1>1, WFMin
<1>4. \A n \in S : ~ (n < m)
  BY <1>2, <1>3
<1>5. \A n \in S : m <= n
  BY <1>4
<1> QED
  BY <1>5

LEMMA LeastIsMember ==
    ASSUME NEW S \in SUBSET Nat, S # {}
    PROVE  Least(S) \in S
  BY LeastExists DEF Least

\* What a completion leaves in the inbox, when it was taken.
LEMMA CompletedRows ==
    ASSUME DistillationInv, Completed
    PROVE  GoodRows(distillationRows')
<1> DEFINE m == worker.marker
<1>1. /\ m \in Revisions /\ markers[m].state # "NONE" /\ worker.outcome \in Outcomes
      /\ worker.revision \in Revisions /\ worker.revision <= stored.revision /\ worker.row \in MarkerIds
      /\ worker.row # 0 => distillationRows[worker.row].marker = m
      /\ worker.outcome = "CANDIDATE" => markers[m].state = "CANDIDATE"
      /\ worker.outcome \in {"CHANGED", "NOT_FOUND"} => markers[m].state = "FAILED"
  BY DEF Completed, DistillationInv, DistillationTypes, Workers, WorkerInv, TellsOutcome
<1>2. stored.revision \in Revisions /\ distillationRows \in [Revisions -> Rows] /\ m # 0
  BY <1>1, Ids DEF DistillationInv, DistillationTypes
<1>3. CASE worker.row = 0
  <2> DEFINE r == worker.revision
             entry == [DistillationNoRow EXCEPT !.state = "CANDIDATE", !.marker = m]
             recorded == [distillationRows EXCEPT ![r] = entry]
  <2>1. distillationRows' = IF worker.outcome = "CANDIDATE" THEN EnqueueChanged(recorded, r, worker.content) ELSE distillationRows
    BY <1>3 DEF Completed, RecordCandidate
  <2>2. entry \in Rows /\ entry.state = "CANDIDATE" /\ entry.marker = m /\ entry.triage = "none" /\ entry.outcome = "none"
    BY <1>1, Ids DEF DistillationNoRow, Rows, RowStates
  <2> HIDE DEF entry
  <2>3. CASE worker.outcome = "CANDIDATE"
    <3>1. RowOf(entry, r)
      BY <1>1, <1>2, <2>2, <2>3 DEF RowOf
    <3>2. GoodRows(recorded)
      BY <1>1, <1>2, <2>2, <3>1, RowsAreGood, ReplaceGood
    <3> QED
      BY <1>2, <2>1, <2>3, <3>2, EnqueueChangedGood
  <2>4. CASE worker.outcome # "CANDIDATE"
    BY <2>1, <2>4, RowsAreGood
  <2> QED
    BY <2>3, <2>4
<1>4. CASE worker.row # 0
  <2> DEFINE r == worker.row
             s == Settled(worker.outcome)
             entry == [distillationRows[r] EXCEPT !.state = s, !.outcome = "none", !.token = 0]
             done == [distillationRows EXCEPT ![r].state = s, ![r].outcome = "none", ![r].token = 0]
  <2>1. r \in Revisions /\ distillationRows[r] \in Rows /\ RowOf(distillationRows[r], r) /\ distillationRows[r].marker = m
    BY <1>1, <1>2, <1>4, Ids DEF DistillationInv
  <2>2. /\ s \in {"CANDIDATE", "WAITING_HISTORY", "NOT_FOUND", "FAILED"} /\ (s = "CANDIDATE" <=> worker.outcome = "CANDIDATE")
        /\ s \in {"NOT_FOUND", "FAILED"} => worker.outcome \in {"CHANGED", "NOT_FOUND"}
    BY <1>1 DEF Settled, Outcomes
  <2> HIDE DEF s
  <2>3. /\ entry \in Rows /\ entry.state = s /\ entry.marker = m /\ entry.triage = distillationRows[r].triage
        /\ entry.outcome = "none"
    BY <2>1, <2>2 DEF Rows, RowStates, Due
  <2>4. done = [distillationRows EXCEPT ![r] = entry]
    BY <1>2
  <2>5. distillationRows' = CompleteRow(distillationRows, r, worker.outcome, worker.content)
    BY <1>4 DEF Completed
  <2>6. \/ distillationRows' = done
        \/ distillationRows' = EnqueueChanged(done, r, worker.content)
        \/ distillationRows' = EnqueueChanged(done, r, "none")
    BY <1>1, <2>5 DEF CompleteRow, Outcomes, s
  <2> HIDE DEF entry, r
  <2>7. RowOf(entry, r)
    BY <1>1, <1>2, <2>1, <2>2, <2>3 DEF RowOf
  <2> HIDE DEF done
  <2>8. GoodRows(done)
    <3>1. GoodRows([distillationRows EXCEPT ![r] = entry])
      BY <1>2, <2>1, <2>3, <2>7, RowsAreGood, ReplaceGood
    <3> QED
      BY <2>4, <3>1
  <2> QED
    BY <1>2, <2>6, <2>8, EnqueueChangedGood
<1> QED
  BY <1>3, <1>4

LEMMA OutcomeTaken ==
    ASSUME DistillationInv, Completed
    PROVE  DistillationInv'
<1>1. GoodRows(distillationRows') /\ UNCHANGED TurnAndPlatform /\ UNCHANGED <<net, judged, distillationFaults>>
  BY CompletedRows DEF Completed, TurnAndPlatform
<1>2. CASE worker.outcome = "WAITING"
  <2>1. worker' = [DistillationIdle EXCEPT !.pc = "backfill", !.marker = worker.marker]
    BY <1>2 DEF Completed
  <2>2. worker.marker \in Revisions
    BY DEF Completed, DistillationInv, WorkerInv, TellsOutcome
  <2>3. worker' \in Workers /\ worker'.pc = "backfill" /\ worker'.marker # 0
    BY <2>1, <2>2, Ids, IdleFields DEF Workers, Pcs
  <2> QED
    BY <1>1, <2>3, WorkingStep DEF WorksOnRow, AsksStatus
<1>3. CASE worker.outcome # "WAITING"
  <2>1. Rest
    BY <1>1, <1>3 DEF Completed, Rest
  <2> QED
    BY <1>1, <2>1, RestStep, FaultsTyped
<1> QED
  BY <1>2, <1>3

LEMMA CompletionRefusedStep ==
    ASSUME DistillationInv, CompletionRefused
    PROVE  DistillationInv'
<1> DEFINE r == worker.row
           entry == [distillationRows[r] EXCEPT !.outcome = "none", !.token = 0]
<1>1. /\ Rest /\ UNCHANGED TurnAndPlatform /\ UNCHANGED <<judged, distillationFaults>>
      /\ distillationRows' = distillationRows \/ distillationRows' = [distillationRows EXCEPT ![r].outcome = "none", ![r].token = 0]
  BY DEF CompletionRefused, Discard, TurnAndPlatform
<1>2. distillationRows \in [Revisions -> Rows] /\ \A x \in Revisions : RowOf(distillationRows[x], x)
  BY DEF DistillationInv, DistillationTypes
<1>3. CASE r \in Revisions
  <2>1. distillationRows[r] \in Rows /\ RowOf(distillationRows[r], r)
    BY <1>2, <1>3
  <2>2. /\ entry \in Rows /\ entry.state = distillationRows[r].state /\ entry.marker = distillationRows[r].marker
        /\ entry.triage = distillationRows[r].triage /\ entry.outcome = "none"
    BY <2>1 DEF Rows
  <2>3. [distillationRows EXCEPT ![r].outcome = "none", ![r].token = 0] = [distillationRows EXCEPT ![r] = entry]
    BY <1>2
  <2> HIDE DEF entry, r
  <2>4. RowOf(entry, r)
    BY <2>1, <2>2 DEF RowOf
  <2>5. GoodRows([distillationRows EXCEPT ![r] = entry])
    BY <1>3, <2>2, <2>4, RowsAreGood, ReplaceGood
  <2> QED
    BY <1>1, <2>3, <2>5, RowsAreGood, RestStep, FaultsTyped
<1>4. CASE r \notin Revisions
  <2>1. [distillationRows EXCEPT ![r].outcome = "none", ![r].token = 0] = distillationRows
    BY <1>2, <1>4
  <2> QED
    BY <1>1, <2>1, RowsAreGood, RestStep, FaultsTyped
<1> QED
  BY <1>3, <1>4

LEMMA NothingClaimedStep ==
    ASSUME DistillationInv, NothingClaimed
    PROVE  DistillationInv'
<1> DEFINE open == {r \in Revisions : distillationRows[r].state \in Targets /\ distillationRows[r].marker # 0}
<1>1. /\ worker' = IF open = {} THEN DistillationIdle ELSE [DistillationIdle EXCEPT !.pc = "status", !.row = Least(open)]
      /\ UNCHANGED TurnAndPlatform /\ UNCHANGED <<distillationRows, net, judged, distillationFaults>>
  BY DEF NothingClaimed, TurnAndPlatform
<1>2. CASE open = {}
  BY <1>1, <1>2, RowsAreGood, RestStep, FaultsTyped DEF Rest
<1>3. CASE open # {}
  <2>1. open \in SUBSET Nat
    BY Ids
  <2>2. Least(open) \in open
    BY <1>3, <2>1, LeastIsMember
  <2>3. Least(open) \in Revisions /\ distillationRows[Least(open)].marker # 0
    BY <2>2
  <2>4. worker' = [DistillationIdle EXCEPT !.pc = "status", !.row = Least(open)]
    BY <1>1, <1>3
  <2> HIDE DEF open
  <2>5. worker' \in Workers /\ worker'.pc = "status" /\ worker'.row = Least(open)
    BY <2>3, <2>4, Ids, IdleFields DEF Workers, Pcs
  <2>6. WorksOnRow' /\ AsksStatus'
    BY <1>1, <2>3, <2>5 DEF WorksOnRow, AsksStatus
  <2> QED
    BY <1>1, <2>5, <2>6, RowsAreGood, WorkingStep
<1> QED
  BY <1>2, <1>3

-----------------------------------------------------------------------------
\* A request is one of its kind.
LEMMA RequestKinds ==
    ASSUME NEW q \in Requests
    PROVE  /\ q.kind = "submit" => q \in Submissions
           /\ q.kind = "complete" => q \in Completions
  BY DEF Requests, Submissions, Completions

LEMMA OneMore ==
    ASSUME DistillationInv, NEW q \in Requests, net' = net \cup {q}
    PROVE  net' \subseteq Requests /\ IsFiniteSet(net')
<1>1. IsFiniteSet(net) /\ net \subseteq Requests
  BY DEF DistillationInv, DistillationTypes
<1> QED
  BY <1>1, FS_AddElement

\* What is submitted is what the row of the present revision remembers: it is
\* what was submitted of that revision before.
LEMMA SubmitStep ==
    ASSUME DistillationInv, UNCHANGED TurnAndPlatform, distillationFaults' = distillationFaults, judged \subseteq judged',
           NEW t \in Triages, <<stored.content, t>> \in judged',
           worker' \in Workers, worker'.pc = "submit", worker'.row = stored.revision, worker'.answer = "none",
           net' = net \cup {Submission(stored.revision, t)},
           distillationRows' = [distillationRows EXCEPT ![stored.revision].triage = t],
           distillationRows[stored.revision].marker = 0, distillationRows[stored.revision].state # "NONE",
           distillationRows[stored.revision].triage \in {"none", t}
    PROVE  DistillationInv'
<1> DEFINE now == stored.revision
           q == Submission(now, t)
           entry == [distillationRows[now] EXCEPT !.triage = t]
<1>1. /\ UNCHANGED <<stored, was, markers, knowledge, owned, distillationTombstone>> /\ now \in Revisions
      /\ stored.content \in Contents /\ was[now] = stored.content
      /\ distillationRows \in [Revisions -> Rows] /\ distillationRows[now] \in Rows /\ RowOf(distillationRows[now], now)
      /\ DistillationTypes /\ net \subseteq Requests
  BY DEF TurnAndPlatform, DistillationInv, DistillationTypes
<1>2. q \in Submissions /\ q \in Requests /\ q.kind = "submit" /\ q.revision = now /\ q.content = stored.content /\ q.triage = t
  BY <1>1 DEF Submission, Submissions, Requests
<1>3. /\ entry \in Rows /\ entry.state = distillationRows[now].state /\ entry.marker = 0 /\ entry.triage = t
      /\ entry.outcome = distillationRows[now].outcome /\ entry.token = distillationRows[now].token
  BY <1>1 DEF Rows
<1>4. /\ distillationRows' \in [Revisions -> Rows] /\ distillationRows'[now] = entry
      /\ \A x \in Revisions : x # now => distillationRows'[x] = distillationRows[x]
  BY <1>1, <1>3
<1> HIDE DEF q, entry
<1>5. net' = net \cup {q}
  BY DEF q
<1>6. net' \subseteq Requests /\ IsFiniteSet(net')
  BY <1>2, <1>5, OneMore
<1>7. DistillationTypes'
  BY <1>1, <1>4, <1>6 DEF DistillationTypes
<1>8. "none" \notin Triages
  BY DEF Triages
<1>9. \A p \in net : p.kind = "submit" /\ p.revision = now => p.triage = t
  <2> SUFFICES ASSUME NEW p \in net, p.kind = "submit", p.revision = now
               PROVE  p.triage = t
    OBVIOUS
  <2>1. p \in Submissions
    BY <1>1, RequestKinds
  <2>2. distillationRows[now].triage = p.triage
    BY DEF DistillationInv, Remembered, Remembers
  <2> QED
    BY <1>8, <2>1, <2>2 DEF Submissions
<1>10. markers[now].state # "NONE" => markers[now].triage = t
  <2> SUFFICES ASSUME markers[now].state # "NONE"
               PROVE  markers[now].triage = t
    OBVIOUS
  <2>1. markers[now].triage \in Triages
    BY <1>1 DEF DistillationInv, MarkerOf
  <2>2. distillationRows[now].triage = markers[now].triage
    BY DEF DistillationInv, Remembered, Remembers
  <2> QED
    BY <1>8, <2>1, <2>2
<1>11. ASSUME NEW r \in Revisions
       PROVE  RowOf(distillationRows[r], r)' /\ MarkerOf(r)'
  <2>1. RowOf(distillationRows[r], r) /\ MarkerOf(r)
    BY DEF DistillationInv
  <2>2. MarkerOf(r)'
    BY <1>1, <2>1 DEF MarkerOf
  <2>3. CASE r = now
    <3>1. /\ distillationRows'[r].state = distillationRows[r].state /\ distillationRows'[r].marker = 0
          /\ distillationRows'[r].triage = t /\ distillationRows'[r].outcome = distillationRows[r].outcome
      BY <1>3, <1>4, <2>3
    <3>2. <<was'[r], t>> \in judged'
      BY <1>1, <2>3
    <3> QED
      BY <1>1, <2>1, <2>2, <2>3, <3>1, <3>2 DEF RowOf
  <2>4. CASE r # now
    <3>1. distillationRows'[r] = distillationRows[r]
      BY <1>4, <2>4
    <3> QED
      BY <1>1, <2>1, <2>2, <3>1 DEF RowOf
  <2> QED
    BY <2>3, <2>4
<1>12. ASSUME NEW p \in net', p.kind = "submit"
       PROVE  SubmissionOf(p)'
  <2>1. CASE p = q
    <3>1. now <= now
      BY <1>1, Ids
    <3>2. /\ p.revision <= stored.revision /\ p.content = was[p.revision] /\ <<p.content, p.triage>> \in judged'
          /\ markers[p.revision].state # "NONE" => markers[p.revision].triage = p.triage
      BY <1>1, <1>2, <1>10, <2>1, <3>1
    <3>3. \A x \in net' : x.kind = "submit" /\ x.revision = p.revision => x.triage = p.triage
      BY <1>2, <1>5, <1>9, <2>1
    <3> QED
      BY <1>1, <3>2, <3>3 DEF SubmissionOf
  <2>2. CASE p \in net
    <3>1. SubmissionOf(p)
      BY <1>12, <2>2 DEF DistillationInv
    <3>2. \A x \in net' : x.kind = "submit" /\ x.revision = p.revision => x.triage = p.triage
      BY <1>2, <1>5, <1>9, <1>12, <2>2, <3>1 DEF SubmissionOf
    <3> QED
      BY <1>1, <3>1, <3>2 DEF SubmissionOf
  <2> QED
    BY <1>5, <2>1, <2>2
<1>13. Remembered'
  <2>1. distillationRows'[now].triage = t
    BY <1>3, <1>4
  <2> QED
    BY <1>1, <1>2, <1>5, <1>9, <1>10, <2>1 DEF Remembered, Remembers
<1>14. OneOutcome'
  <2>1. ASSUME NEW m \in Revisions, NEW k \in Nat, NEW o \in Outcomes, Tells(m, k, o)'
        PROVE  Tells(m, k, o)
    <3>1. \A x \in Revisions : /\ distillationRows'[x].outcome = distillationRows[x].outcome
                               /\ distillationRows'[x].marker = distillationRows[x].marker
                               /\ distillationRows'[x].token = distillationRows[x].token
      BY <1>3, <1>4
    <3>2. \A x \in net' : x.kind = "complete" => x \in net
      BY <1>2, <1>5
    <3> QED
      BY <2>1, <3>1, <3>2 DEF Tells
  <2> QED
    BY <2>1, TellsNoMore DEF DistillationInv
<1>15. FreshClaim' /\ WorkerInv'
  <2>1. WorksOnRow'
    BY <1>1, <1>3, <1>4 DEF WorksOnRow
  <2>2. AwaitsMarker'
    BY DEF AwaitsMarker, Unsettled
  <2> QED
    BY <2>1, <2>2 DEF FreshClaim, WorkerInv, HasClaimed, AsksStatus, TellsOutcome
<1>16. was'[stored'.revision] = stored'.content
  BY <1>1
<1> QED
  BY <1>7, <1>11, <1>12, <1>13, <1>14, <1>15, <1>16 DEF DistillationInv

LEMMA TakeRowStep ==
    ASSUME DistillationInv, NEW r \in Revisions, TakeRow(r)
    PROVE  DistillationInv'
<1> DEFINE now == stored.revision
           rs == Adopt(distillationRows, r)
<1>1. /\ distillationRows[r].state \in Due /\ distillationRows[r].marker = 0 /\ distillationRows' = rs
      /\ UNCHANGED TurnAndPlatform /\ UNCHANGED <<judged, distillationFaults>>
  BY DEF TakeRow, TurnAndPlatform
<1>2. distillationRows[r].state # "NONE"
  BY <1>1 DEF Due
<1>3. GoodRows(rs) /\ (Adopted(r) => rs[now].marker = 0 /\ rs[now].state # "NONE")
  BY <1>1, <1>2, AdoptGood
<1>4. /\ now \in Revisions /\ now \in MarkerIds /\ now # 0 /\ stored.content \in Contents /\ was[now] = stored.content
      /\ distillationRows \in [Revisions -> Rows]
  BY Ids DEF DistillationInv, DistillationTypes
<1>5. CASE Rest
  BY <1>1, <1>3, <1>5, RestStep, FaultsTyped
<1>6. CASE Adopted(r) /\ worker' = [DistillationIdle EXCEPT !.pc = "backfill", !.row = now] /\ net' = net
  <2>1. worker' \in Workers /\ worker'.pc = "backfill" /\ worker'.row = now
    BY <1>4, <1>6, IdleFields DEF Workers, Pcs
  <2>2. WorksOnRow' /\ AsksStatus'
    BY <1>1, <1>3, <1>4, <1>6, <2>1 DEF WorksOnRow, AsksStatus
  <2> QED
    BY <1>1, <1>3, <1>6, <2>1, <2>2, WorkingStep
<1>7. CASE /\ Adopted(r) /\ rs[now].triage = "none"
           /\ worker' = [DistillationIdle EXCEPT !.pc = "classify", !.row = now, !.content = stored.content] /\ net' = net
  <2>1. worker' \in Workers /\ worker'.pc = "classify" /\ worker'.row = now /\ worker'.answer = "none"
    BY <1>4, <1>7, IdleFields DEF Workers, Pcs
  <2>2. WorksOnRow' /\ AsksStatus'
    BY <1>1, <1>3, <1>4, <1>7, <2>1 DEF WorksOnRow, AsksStatus
  <2> QED
    BY <1>1, <1>3, <1>7, <2>1, <2>2, WorkingStep
<1>8. CASE /\ Adopted(r) /\ rs[now].triage # "none"
           /\ Send([DistillationIdle EXCEPT !.pc = "submit", !.row = now, !.content = stored.content],
                   Submission(now, rs[now].triage))
  <2>1. r = now
    <3> SUFFICES ASSUME r # now
                 PROVE  FALSE
      OBVIOUS
    <3>1. distillationRows[now].state = "NONE"
      BY <1>8 DEF Adopted
    <3>2. rs[now] = [distillationRows[r] EXCEPT !.triage = "none"]
      BY <1>4, <3>1 DEF Adopt
    <3>3. distillationRows[r] \in Rows
      BY <1>4
    <3>4. rs[now].triage = "none"
      BY <3>2, <3>3 DEF Rows
    <3> QED
      BY <1>8, <3>4
  <2>2. rs = distillationRows
    BY <2>1 DEF Adopt
  <2> DEFINE t == distillationRows[now].triage
  <2>3. distillationRows[now] \in Rows /\ RowOf(distillationRows[now], now)
    BY <1>4 DEF DistillationInv
  <2>4. t \in Triages /\ <<stored.content, t>> \in judged
    BY <1>4, <1>8, <2>2, <2>3 DEF Rows, RowOf
  <2>5. distillationRows' = [distillationRows EXCEPT ![now].triage = t]
    BY <1>1, <1>4, <2>2, <2>3 DEF Rows
  <2>6. /\ worker' = [DistillationIdle EXCEPT !.pc = "submit", !.row = now, !.content = stored.content]
        /\ net' = net \cup {Submission(now, t)}
    BY <1>8, <2>2 DEF Send
  <2>7. worker' \in Workers /\ worker'.pc = "submit" /\ worker'.row = now /\ worker'.answer = "none"
    BY <1>4, <2>6, IdleFields DEF Workers, Pcs
  <2> HIDE DEF t, rs
  <2>8. distillationRows[now].triage \in {"none", t}
    BY DEF t
  <2> QED
    BY <1>1, <1>2, <2>1, <2>4, <2>5, <2>6, <2>7, <2>8, SubmitStep
<1> QED
  BY <1>5, <1>6, <1>7, <1>8 DEF TakeRow

LEMMA ClassifiedStep ==
    ASSUME DistillationInv, NEW triage \in Triages, Classified(triage)
    PROVE  DistillationInv'
<1> DEFINE r == worker.row
           now == stored.revision
           rs == Adopt(distillationRows, r)
<1>1. /\ worker.pc = "classify" /\ judged' = judged \cup {<<worker.content, triage>>}
      /\ UNCHANGED TurnAndPlatform /\ UNCHANGED distillationFaults
  BY DEF Classified, TurnAndPlatform
<1>2. /\ r \in Revisions /\ distillationRows[r].marker = 0 /\ distillationRows[r].state # "NONE"
      /\ distillationRows[r].triage = "none"
  BY <1>1 DEF DistillationInv, WorkerInv, WorksOnRow
<1>3. GoodRows(rs) /\ (Adopted(r) => rs[now].marker = 0 /\ rs[now].state # "NONE")
  BY <1>2, AdoptGood
<1>4. /\ now \in Revisions /\ worker \in Workers /\ "WAITING_HISTORY" \in RowStates /\ "UNRELATED" \in RowStates
  BY DEF DistillationInv, DistillationTypes, RowStates, Due
<1>5. CASE Rest /\ distillationRows' = rs
  BY <1>1, <1>3, <1>5, RestStep, FaultsTyped
<1>6. CASE Rest /\ Adopted(r) /\ distillationRows' = [rs EXCEPT ![now].state = "WAITING_HISTORY"]
  <2> HIDE DEF rs, r, now
  <2>1. GoodRows([rs EXCEPT ![now].state = "WAITING_HISTORY"])
    BY <1>3, <1>4, <1>6, StateGood
  <2> QED
    BY <1>1, <1>6, <2>1, RestStep, FaultsTyped
<1>7. CASE Rest /\ distillationRows' = [distillationRows EXCEPT ![r].state = "UNRELATED"]
  <2> HIDE DEF rs, r, now
  <2>1. GoodRows([distillationRows EXCEPT ![r].state = "UNRELATED"])
    BY <1>2, <1>4, RowsAreGood, StateGood
  <2> QED
    BY <1>1, <1>7, <2>1, RestStep, FaultsTyped
<1>8. CASE Rest /\ distillationRows' = distillationRows
  BY <1>1, <1>8, RowsAreGood, RestStep, FaultsTyped
<1>9. CASE /\ Same(r) /\ distillationRows' = Remember(r, triage)
           /\ Send([worker EXCEPT !.pc = "submit", !.revision = 0], Submission(r, triage))
  <2>1. r = now /\ worker.content = stored.content
    BY <1>9 DEF Same
  <2>2. /\ worker' = [worker EXCEPT !.pc = "submit", !.revision = 0] /\ net' = net \cup {Submission(now, triage)}
        /\ distillationRows' = [distillationRows EXCEPT ![now].triage = triage]
    BY <1>9, <2>1 DEF Send, Remember
  <2>3. worker' \in Workers /\ worker'.pc = "submit" /\ worker'.row = now /\ worker'.answer = worker.answer
    BY <1>4, <2>1, <2>2, Ids DEF Workers, Pcs
  <2>4. worker.answer = "none"
    BY <1>1 DEF DistillationInv, WorkerInv, WorksOnRow
  <2> QED
    BY <1>1, <1>2, <2>1, <2>2, <2>3, <2>4, SubmitStep
<1> QED
  BY <1>5, <1>6, <1>7, <1>8, <1>9 DEF Classified

\* The worker tells an outcome and waits.
LEMMA TellStep ==
    ASSUME DistillationInv, UNCHANGED TurnAndPlatform, UNCHANGED <<judged, distillationFaults>>, SoundRows(distillationRows'),
           NEW q \in Completions, net' = net \cup {q}, worker' \in Workers, worker'.pc \in {"complete", "replay"},
           TellsOutcome', OneOutcome'
    PROVE  DistillationInv'
<1>1. q \in Requests /\ q.kind = "complete"
  BY DEF Requests, Completions
<1>2. net' \subseteq Requests /\ IsFiniteSet(net') /\ \A p \in net' : p.kind = "submit" => p \in net
  BY <1>1, OneMore
<1>3. FreshClaim' /\ WorkerInv'
  BY DEF FreshClaim, WorkerInv, WorksOnRow, AwaitsMarker, HasClaimed, AsksStatus
<1> QED
  BY <1>2, <1>3, WorkStep, FaultsTyped

LEMMA ReplayStep ==
    ASSUME DistillationInv, NEW r \in Revisions, Replay(r)
    PROVE  DistillationInv'
<1> DEFINE entry == distillationRows[r]
           m == distillationRows[r].marker
           w == [DistillationIdle EXCEPT !.pc = "replay", !.row = r, !.marker = m, !.revision = stored.revision,
                             !.content = markers[m].content, !.outcome = entry.outcome, !.token = entry.token]
           q == Completion(m, entry.token, entry.outcome, w.content)
<1>1. /\ entry.outcome # "none" /\ m # 0 /\ worker' = w /\ net' = net \cup {q} /\ distillationRows' = distillationRows
      /\ UNCHANGED TurnAndPlatform /\ UNCHANGED <<judged, distillationFaults>>
  BY DEF Replay, Told, Send, TurnAndPlatform
<1>2. /\ entry \in Rows /\ RowOf(entry, r) /\ stored.revision \in Revisions /\ stored.revision \in MarkerIds
      /\ markers \in [Revisions -> Markers]
  BY Ids DEF DistillationInv, DistillationTypes
<1>3. m \in Revisions /\ markers[m].state # "NONE" /\ entry.outcome \in Outcomes /\ entry.token \in Nat
  BY <1>1, <1>2, Ids DEF Rows, RowOf
<1>4. markers[m].content \in Contents
  BY <1>2, <1>3 DEF Markers
<1> HIDE DEF m
<1>5. /\ w \in Workers /\ w.pc = "replay" /\ w.row = r /\ w.marker = m /\ w.revision = stored.revision
      /\ w.outcome = entry.outcome /\ w.token = entry.token /\ w.answer = "none" /\ w.content = markers[m].content
  BY <1>2, <1>3, <1>4, Ids, IdleFields DEF Workers, Pcs
<1> HIDE DEF w
<1>6. q \in Completions /\ q.kind = "complete" /\ q.marker = m /\ q.token = entry.token /\ q.outcome = entry.outcome
  BY <1>3, <1>4, <1>5 DEF Completion, Completions
<1> HIDE DEF q
<1>7. stored' = stored /\ markers' = markers /\ stored.revision <= stored.revision
  <2>1. stored.revision <= stored.revision
    BY <1>2, RevisionSelf
  <2> QED
    BY <1>1, <2>1 DEF TurnAndPlatform
<1>8. TellsOutcome'
  BY <1>1, <1>2, <1>3, <1>5, <1>7 DEF TellsOutcome, m
<1>9. ASSUME NEW k \in Revisions, NEW t \in Nat, NEW o \in Outcomes, Tells(k, t, o)'
      PROVE  Tells(k, t, o)
  <2>1. CASE k = m /\ t = entry.token /\ o = entry.outcome
    BY <1>1, <2>1 DEF Tells, m
  <2>2. CASE ~ (k = m /\ t = entry.token /\ o = entry.outcome)
    BY <1>1, <1>5, <1>6, <1>9, <2>2 DEF Tells
  <2> QED
    BY <2>1, <2>2
<1>10. OneOutcome'
  BY <1>9, TellsNoMore DEF DistillationInv
<1>11. SoundRows(distillationRows')
  BY <1>1, RowsAreGood DEF GoodRows
<1> QED
  BY <1>1, <1>5, <1>6, <1>8, <1>10, <1>11, TellStep

LEMMA ClaimRequestStep ==
    ASSUME DistillationInv, Claim
    PROVE  DistillationInv'
<1> DEFINE q == [kind |-> "claim"]
<1>1. /\ worker' = [DistillationIdle EXCEPT !.pc = "claim"] /\ net' = net \cup {q} /\ distillationRows' = distillationRows
      /\ UNCHANGED TurnAndPlatform /\ UNCHANGED <<judged, distillationFaults>>
  BY DEF Claim, Send, TurnAndPlatform
<1>2. q \in Requests /\ q.kind = "claim"
  BY DEF Requests
<1> HIDE DEF q
<1>3. net' \subseteq Requests /\ IsFiniteSet(net') /\ \A p \in net' : p.kind \in {"submit", "complete"} => p \in net
  BY <1>1, <1>2, OneMore
<1>4. worker' \in Workers /\ worker'.pc = "claim" /\ worker'.answer = "none"
  BY <1>1, IdleFields DEF Workers, Pcs
<1>5. GoodRows(distillationRows')
  BY <1>1, RowsAreGood
<1>6. OneOutcome'
  <2>1. \A m \in Revisions, t \in Nat, o \in Outcomes : Tells(m, t, o)' => Tells(m, t, o)
    BY <1>3, <1>4, <1>5, FewerTells
  <2> QED
    BY <2>1, TellsNoMore DEF DistillationInv
<1>7. FreshClaim' /\ WorkerInv'
  BY <1>4 DEF FreshClaim, WorkerInv, WorksOnRow, AwaitsMarker, HasClaimed, AsksStatus, TellsOutcome
<1> QED
  BY <1>1, <1>3, <1>4, <1>5, <1>6, <1>7, WorkStep, FaultsTyped DEF GoodRows

\* What is told of a fresh lease is the only thing told of it.
LEMMA ClaimedStep ==
    ASSUME DistillationInv, NEW found \in BOOLEAN, Claimed(found)
    PROVE  DistillationInv'
<1> DEFINE m == worker.marker
           linked == {x \in Revisions : distillationRows[x].marker = m}
           r == IF linked = {} THEN 0 ELSE Least(linked)
           outcome == IF ~ Ready(stored.content) THEN IF found THEN "WAITING" ELSE "NOT_FOUND"
                      ELSE IF stored.content = worker.content THEN "CANDIDATE" ELSE "CHANGED"
           w == [worker EXCEPT !.pc = "complete", !.row = r, !.revision = stored.revision,
                               !.outcome = outcome, !.answer = "none"]
           q == Completion(m, worker.token, outcome, worker.content)
<1>1. /\ worker.pc = "claim" /\ worker.answer = "claimed" /\ UNCHANGED TurnAndPlatform /\ UNCHANGED <<judged, distillationFaults>>
      /\ worker \in Workers /\ worker.token \in Nat /\ worker.content \in Contents
      /\ stored.revision \in Revisions /\ stored.revision \in MarkerIds
      /\ distillationRows \in [Revisions -> Rows]
  BY Ids DEF Claimed, TurnAndPlatform, DistillationInv, DistillationTypes, Workers
<1>2. m \in Revisions /\ markers[m].state # "NONE" /\ m # 0
  BY <1>1, Ids DEF DistillationInv, WorkerInv, HasClaimed
<1>3. \A k \in Revisions, o \in Outcomes : ~ Tells(k, worker.token, o)
  BY <1>1 DEF DistillationInv, FreshClaim
<1>4. CASE Rest /\ distillationRows' = distillationRows
  BY <1>1, <1>4, RowsAreGood, RestStep, FaultsTyped
<1>5. CASE /\ distillationRows' = IF r = 0 THEN distillationRows
                                  ELSE [distillationRows EXCEPT ![r].outcome = outcome, ![r].token = worker.token]
           /\ worker' = w /\ net' = net \cup {q}
  <2>1. outcome \in Outcomes /\ outcome # "none"
    BY DEF Outcomes
  <2>2. r \in MarkerIds /\ (r # 0 => r \in Revisions /\ distillationRows[r].marker = m)
    <3>1. linked \in SUBSET Nat /\ linked \subseteq Revisions
      BY Ids
    <3>2. linked # {} => Least(linked) \in linked
      BY <3>1, LeastIsMember
    <3> QED
      BY <3>2, Ids
  <2> HIDE DEF r, outcome, linked
  <2>3. /\ w \in Workers /\ w.pc = "complete" /\ w.row = r /\ w.marker = m /\ w.revision = stored.revision
        /\ w.outcome = outcome /\ w.token = worker.token /\ w.answer = "none"
    BY <1>1, <2>1, <2>2 DEF Workers, Pcs, WorkerAnswers
  <2>4. q \in Completions /\ q.marker = m /\ q.token = worker.token /\ q.outcome = outcome
    BY <1>1, <1>2, <2>1 DEF Completion, Completions
  <2> HIDE DEF w, q, m
  <2>5. /\ SoundRows(distillationRows')
        /\ \A x \in Revisions : distillationRows'[x].marker = distillationRows[x].marker
        /\ \A x \in Revisions : distillationRows'[x] = distillationRows[x] \/
              (distillationRows'[x].marker = m /\ distillationRows'[x].outcome = outcome /\ distillationRows'[x].token = worker.token)
    <3>1. CASE r = 0
      BY <1>5, <3>1, RowsAreGood DEF GoodRows
    <3>2. CASE r # 0
      <4> DEFINE entry == [distillationRows[r] EXCEPT !.outcome = outcome, !.token = worker.token]
      <4>1. r \in Revisions /\ distillationRows[r].marker = m /\ distillationRows[r] \in Rows /\ RowOf(distillationRows[r], r)
        BY <1>1, <2>2, <3>2 DEF DistillationInv
      <4>2. /\ entry \in Rows /\ entry.state = distillationRows[r].state /\ entry.marker = m
            /\ entry.triage = distillationRows[r].triage /\ entry.outcome = outcome /\ entry.token = worker.token
        BY <1>1, <2>1, <4>1 DEF Rows
      <4>3. distillationRows' = [distillationRows EXCEPT ![r] = entry]
        BY <1>1, <1>5, <3>2
      <4> HIDE DEF entry
      <4>4. RowOf(entry, r)
        BY <1>2, <4>1, <4>2 DEF RowOf
      <4>5. /\ distillationRows' \in [Revisions -> Rows] /\ distillationRows'[r] = entry
            /\ \A x \in Revisions : x # r => distillationRows'[x] = distillationRows[x]
        BY <1>1, <4>1, <4>2, <4>3
      <4>6. \A x \in Revisions : RowOf(distillationRows'[x], x)
        BY <4>4, <4>5 DEF DistillationInv
      <4>7. /\ \A x \in Revisions : distillationRows'[x].marker = distillationRows[x].marker
            /\ distillationRows'[stored.revision].triage = distillationRows[stored.revision].triage
        BY <1>1, <4>1, <4>2, <4>5
      <4>8. SoundRows(distillationRows')
        BY <1>1, <4>5, <4>6, <4>7 DEF SoundRows
      <4> QED
        BY <4>2, <4>5, <4>7, <4>8
    <3> QED
      BY <3>1, <3>2
  <2>6. stored' = stored /\ markers' = markers /\ stored.revision <= stored.revision
    <3>1. stored.revision <= stored.revision
      BY <1>1, RevisionSelf
    <3> QED
      BY <1>1, <3>1 DEF TurnAndPlatform
  <2>7. TellsOutcome'
    <3>1. w.row # 0 => distillationRows'[w.row].marker = m
      BY <2>2, <2>3, <2>5
    <3> QED
      BY <1>1, <1>2, <1>5, <2>1, <2>3, <2>6, <3>1 DEF TellsOutcome
  <2>8. ASSUME NEW k \in Revisions, NEW t \in Nat, NEW o \in Outcomes, Tells(k, t, o)'
        PROVE  Tells(k, t, o) \/ (t = worker.token /\ k = m /\ o = outcome)
    <3>1. CASE \E x \in Revisions : /\ distillationRows'[x].outcome # "none" /\ distillationRows'[x].marker = k
                                    /\ distillationRows'[x].token = t /\ distillationRows'[x].outcome = o
      <4>1. PICK x \in Revisions : /\ distillationRows'[x].outcome # "none" /\ distillationRows'[x].marker = k
                                   /\ distillationRows'[x].token = t /\ distillationRows'[x].outcome = o
        BY <3>1
      <4>2. CASE distillationRows'[x] = distillationRows[x]
        BY <4>1, <4>2 DEF Tells
      <4>3. CASE distillationRows'[x] # distillationRows[x]
        BY <2>5, <4>1, <4>3
      <4> QED
        BY <4>2, <4>3
    <3>2. CASE \E n \in net' : n.kind = "complete" /\ n.marker = k /\ n.token = t /\ n.outcome = o
      BY <1>5, <2>4, <3>2 DEF Tells
    <3>3. CASE worker'.pc \in {"complete", "replay"} /\ worker'.marker = k /\ worker'.token = t /\ worker'.outcome = o
      BY <1>5, <2>3, <3>3
    <3> QED
      BY <2>8, <3>1, <3>2, <3>3 DEF Tells
  <2>9. OneOutcome'
    <3> SUFFICES ASSUME NEW k \in Revisions, NEW t \in Nat, NEW o \in Outcomes, NEW p \in Outcomes,
                        Tells(k, t, o)', Tells(k, t, p)'
                 PROVE  o = p
      BY DEF OneOutcome
    <3>1. CASE t = worker.token
      BY <1>3, <2>8, <3>1
    <3>2. CASE t # worker.token
      BY <2>8, <3>2 DEF DistillationInv, OneOutcome
    <3> QED
      BY <3>1, <3>2
  <2> QED
    BY <1>1, <1>5, <2>3, <2>4, <2>5, <2>7, <2>9, TellStep
<1> QED
  BY <1>4, <1>5 DEF Claimed, Send

-----------------------------------------------------------------------------
\* A new revision of the turn has no row but a fresh one, no marker, and nothing
\* on its way.
LEMMA NewRevisionStep ==
    ASSUME DistillationInv, NEW content \in Contents, NewRevision(content),
           distillationRows' = distillationRows \/ distillationRows' = Enqueue(distillationRows, stored.revision + 1)
    PROVE  DistillationInv'
<1> DEFINE new == stored.revision + 1
           fresh == [DistillationNoRow EXCEPT !.state = "PENDING"]
<1>1. /\ stored \in [revision : Revisions, content : Contents] /\ was \in [Revisions -> Contents]
      /\ distillationRows \in [Revisions -> Rows] /\ DistillationTypes
  BY DEF DistillationInv, DistillationTypes
<1>2. /\ stored' = [revision |-> new, content |-> content] /\ was' = [was EXCEPT ![new] = content]
      /\ UNCHANGED <<worker, net, markers, knowledge, owned, distillationTombstone, judged, distillationFaults>>
      /\ stored.revision < DistillationMaxRevision
  BY DEF NewRevision
<1>3. new \in Revisions /\ \A x \in Revisions : (x <= stored.revision => x # new) /\ (x <= stored.revision => x <= new)
  BY <1>1, <1>2, DistillationAssumption DEF Revisions
<1>4. stored'.revision = new /\ stored'.content = content /\ was' \in [Revisions -> Contents] /\ was'[new] = content
      /\ \A x \in Revisions : x # new => was'[x] = was[x]
  BY <1>1, <1>2, <1>3
<1> HIDE DEF new
<1>5. RowOf(distillationRows[new], new) /\ MarkerOf(new)
  BY <1>3 DEF DistillationInv
<1>6. /\ distillationRows[new].state = "NONE" /\ distillationRows[new].marker = 0 /\ distillationRows[new].triage = "none"
      /\ distillationRows[new].outcome = "none" /\ markers[new].state = "NONE"
  BY <1>3, <1>5 DEF RowOf, MarkerOf
<1>7. fresh \in Rows /\ fresh.state = "PENDING" /\ fresh.marker = 0 /\ fresh.triage = "none" /\ fresh.outcome = "none"
  BY Ids DEF DistillationNoRow, Rows, RowStates, Due
<1>8. distillationRows' = distillationRows \/ distillationRows' = [distillationRows EXCEPT ![new] = fresh]
  BY <1>6 DEF Enqueue, new
<1> HIDE DEF fresh
<1>9. /\ distillationRows' \in [Revisions -> Rows] /\ \A x \in Revisions : x # new => distillationRows'[x] = distillationRows[x]
      /\ distillationRows'[new].marker = 0 /\ distillationRows'[new].triage = "none" /\ distillationRows'[new].outcome = "none"
      /\ distillationRows'[new].state \in {"NONE", "PENDING"}
  <2>1. CASE distillationRows' = distillationRows
    BY <1>1, <1>6, <2>1
  <2>2. CASE distillationRows' = [distillationRows EXCEPT ![new] = fresh]
    BY <1>1, <1>3, <1>7, <2>2
  <2> QED
    BY <1>8, <2>1, <2>2
<1>10. DistillationTypes'
  BY <1>1, <1>2, <1>3, <1>4, <1>9 DEF DistillationTypes
<1>11. ASSUME NEW x \in Revisions
       PROVE  RowOf(distillationRows[x], x)' /\ MarkerOf(x)'
  <2>1. RowOf(distillationRows[x], x) /\ MarkerOf(x)
    BY DEF DistillationInv
  <2>2. MarkerOf(x)'
    <3>1. CASE x = new
      BY <1>2, <1>6, <2>1, <3>1 DEF MarkerOf, Unsettled
    <3>2. CASE x # new
      BY <1>2, <1>3, <1>4, <2>1, <3>2 DEF MarkerOf
    <3> QED
      BY <3>1, <3>2
  <2>3. CASE x = new
    <3>1. new <= stored'.revision
      BY <1>3, <1>4, RevisionSelf
    <3> QED
      BY <1>9, <2>2, <2>3, <3>1 DEF RowOf
  <2>4. CASE x # new
    <3>1. distillationRows'[x] = distillationRows[x] /\ was'[x] = was[x]
      BY <1>4, <1>9, <2>4
    <3> QED
      BY <1>2, <1>3, <1>4, <2>1, <2>2, <3>1 DEF RowOf
  <2> QED
    BY <2>3, <2>4
<1>12. ASSUME NEW q \in net, q.kind = "submit"
       PROVE  SubmissionOf(q)' /\ q.revision # new
  <2>1. SubmissionOf(q)
    BY <1>12 DEF DistillationInv
  <2>2. q.revision \in Revisions
    BY <1>1, <1>12, RequestKinds DEF DistillationTypes, Submissions
  <2>3. q.revision <= stored.revision /\ q.revision # new /\ q.revision <= new
    BY <1>3, <2>1, <2>2 DEF SubmissionOf
  <2> QED
    BY <1>2, <1>4, <2>1, <2>2, <2>3 DEF SubmissionOf
<1>13. Remembered'
  BY <1>2, <1>4, <1>6, <1>12 DEF Remembered
<1>14. OneOutcome' /\ FreshClaim'
  <2>1. ASSUME NEW m \in Revisions, NEW k \in Nat, NEW o \in Outcomes, Tells(m, k, o)'
        PROVE  Tells(m, k, o)
    BY <1>2, <1>9, <2>1 DEF Tells
  <2>2. OneOutcome'
    BY <2>1, TellsNoMore DEF DistillationInv
  <2>3. worker'.token \in Nat
    BY <1>10 DEF DistillationTypes, Workers
  <2>4. FreshClaim'
    BY <1>2, <2>1, <2>3 DEF DistillationInv, FreshClaim
  <2> QED
    BY <2>2, <2>4
<1>15. WorkerInv'
  <2>1. \A x \in Revisions : distillationRows[x].state # "NONE" \/ distillationRows[x].marker # 0 => distillationRows'[x] = distillationRows[x]
    BY <1>6, <1>9
  <2>2. WorksOnRow' /\ AsksStatus'
    BY <1>2, <2>1 DEF DistillationInv, WorkerInv, WorksOnRow, AsksStatus
  <2>3. AwaitsMarker' /\ HasClaimed'
    BY <1>2 DEF DistillationInv, WorkerInv, AwaitsMarker, HasClaimed
  <2>4. worker.row \in MarkerIds
    BY <1>1 DEF DistillationTypes, Workers
  <2>5. TellsOutcome'
    <3> SUFFICES ASSUME worker.pc \in {"complete", "replay"}
                 PROVE  TellsOutcome'
      BY <1>2 DEF TellsOutcome
    <3>1. TellsOutcome /\ worker.marker # 0
      BY Ids DEF DistillationInv, WorkerInv, TellsOutcome
    <3>2. worker.row # 0 => distillationRows'[worker.row].marker = worker.marker
      BY <2>1, <2>4, <3>1, Ids DEF TellsOutcome
    <3>3. worker.revision <= new
      BY <1>3, <3>1 DEF TellsOutcome
    <3> QED
      BY <1>2, <1>4, <3>1, <3>2, <3>3 DEF TellsOutcome
  <2> QED
    BY <2>2, <2>3, <2>5 DEF WorkerInv
<1>16. was'[stored'.revision] = stored'.content
  BY <1>4
<1> QED
  BY <1>2, <1>10, <1>11, <1>12, <1>13, <1>14, <1>15, <1>16 DEF DistillationInv

LEMMA TurnChanges ==
    ASSUME DistillationInv, NEW content \in Contents, LiveChange(content) \/ HistoryImported(content)
    PROVE  DistillationInv'
<1>1. NewRevision(content) /\ (distillationRows' = distillationRows \/ distillationRows' = Enqueue(distillationRows, stored.revision + 1))
  BY DEF LiveChange, HistoryImported
<1> QED
  BY <1>1, NewRevisionStep

-----------------------------------------------------------------------------
\* Finitely many things have finitely many values.
LEMMA ValuesFinite ==
    ASSUME NEW S, IsFiniteSet(S), NEW f
    PROVE  IsFiniteSet({f[x] : x \in S})
<1> DEFINE g == [x \in S |-> f[x]]
           T == {f[x] : x \in S}
<1>1. g \in Surjection(S, T)
  BY DEF Surjection
<1> QED
  BY <1>1, FS_Surjection

\* A token that is fresh is nobody's.
LEMMA FreshIsNew ==
    ASSUME DistillationInv
    PROVE  /\ Fresh \in Nat /\ \A r \in Revisions : distillationRows[r].token # Fresh
           /\ \A q \in net : q.kind = "complete" => q.token # Fresh
<1> DEFINE U1 == {markers[r].token : r \in Revisions}
           U2 == {distillationRows[r].token : r \in Revisions}
           U3 == {q.token : q \in {n \in net : n.kind = "complete"}}
           U4 == {worker.token, 0}
           used == U1 \cup U2 \cup U3 \cup U4
           free == (0..Cardinality(used)) \ used
<1>1. IsFiniteSet(net) /\ IsFiniteSet(Revisions)
  <2>1. IsFiniteSet(1..DistillationMaxRevision)
    BY FS_Interval, DistillationAssumption
  <2> QED
    BY <2>1 DEF DistillationInv, DistillationTypes, Revisions
<1>2. IsFiniteSet(U1)
  <2> DEFINE f == [r \in Revisions |-> markers[r].token]
  <2>1. IsFiniteSet({f[x] : x \in Revisions})
    BY <1>1, ValuesFinite
  <2>2. U1 = {f[x] : x \in Revisions}
    OBVIOUS
  <2> QED
    BY <2>1, <2>2
<1>3. IsFiniteSet(U2)
  <2> DEFINE f == [r \in Revisions |-> distillationRows[r].token]
  <2>1. IsFiniteSet({f[x] : x \in Revisions})
    BY <1>1, ValuesFinite
  <2>2. U2 = {f[x] : x \in Revisions}
    OBVIOUS
  <2> QED
    BY <2>1, <2>2
<1>4. IsFiniteSet(U3)
  <2> DEFINE S == {n \in net : n.kind = "complete"}
             f == [q \in S |-> q.token]
  <2>1. IsFiniteSet(S)
    BY <1>1, FS_Subset
  <2> HIDE DEF S
  <2>2. IsFiniteSet({f[x] : x \in S})
    BY <2>1, ValuesFinite
  <2>3. U3 = {f[x] : x \in S}
    BY DEF S
  <2> QED
    BY <2>2, <2>3
<1>5. IsFiniteSet(U4)
  <2>1. IsFiniteSet({worker.token} \cup {0}) /\ U4 = {worker.token} \cup {0}
    BY FS_Singleton, FS_AddElement
  <2> QED
    BY <2>1
<1> HIDE DEF U1, U2, U3, U4
<1>6. IsFiniteSet(used)
  BY <1>2, <1>3, <1>4, <1>5, FS_Union
<1> DEFINE n == Cardinality(used)
<1>7. n \in Nat
  BY <1>6, FS_CardinalityType
<1>8. free # {}
  <2> SUFFICES ASSUME free = {}
               PROVE  FALSE
    OBVIOUS
  <2>1. 0..n \subseteq used
    OBVIOUS
  <2> HIDE DEF used
  <2>2. Cardinality(0..n) <= n
    BY <1>6, <2>1, FS_Subset
  <2> HIDE DEF n
  <2>3. Cardinality(0..n) = n + 1
    BY <1>7, FS_Interval
  <2> QED
    BY <1>7, <2>2, <2>3
<1>9. free \in SUBSET Nat
  BY <1>7
<1>10. Least(free) \in free
  BY <1>8, <1>9, LeastIsMember
<1>11. Fresh = Least(free)
  BY DEF Fresh, U1, U2, U3, U4
<1>12. Fresh \in Nat /\ Fresh \notin used
  BY <1>9, <1>10, <1>11
<1>13. Fresh \notin U2 /\ Fresh \notin U3
  BY <1>12
<1> QED
  BY <1>12, <1>13 DEF U2, U3

-----------------------------------------------------------------------------
\* A marker that is there stays the same marker, and one that is over stays so.
Onwards ==
    \A r \in Revisions :
        /\ markers[r].state # "NONE" =>
             /\ markers'[r].state # "NONE" /\ markers'[r].content = markers[r].content
             /\ markers'[r].triage = markers[r].triage
        /\ markers[r].state \in {"CANDIDATE", "FAILED"} => markers'[r].state = markers[r].state

\* A marker is made by a submission that was on its way.
MadeBySubmission ==
    \A r \in Revisions : markers[r].state = "NONE" /\ markers'[r].state # "NONE" =>
        \E q \in net : q.kind = "submit" /\ q.revision = r /\ markers'[r].triage = q.triage

\* A step of the platform.
LEMMA PlatformStep ==
    ASSUME DistillationInv, UNCHANGED <<stored, was, distillationRows, judged, distillationFaults>>,
           markers' \in [Revisions -> Markers], knowledge' \in [Revisions -> Contents \cup {"none"}],
           owned' \in BOOLEAN, distillationTombstone' \in BOOLEAN,
           Onwards, MadeBySubmission, \A r \in Revisions : MarkerOf(r)', net' \subseteq net,
           worker' \in Workers, FreshClaim', WorkerInv',
           \/ worker'.pc \notin {"complete", "replay"}
           \/ /\ worker.pc \in {"complete", "replay"} /\ worker'.marker = worker.marker
              /\ worker'.token = worker.token /\ worker'.outcome = worker.outcome
    PROVE  DistillationInv'
<1>1. DistillationTypes /\ stored.revision \in Revisions /\ net \subseteq Requests /\ distillationRows \in [Revisions -> Rows]
  BY DEF DistillationInv, DistillationTypes
<1>2. DistillationTypes'
  <2>1. IsFiniteSet(net')
    BY <1>1, FS_Subset DEF DistillationTypes
  <2> QED
    BY <1>1, <2>1 DEF DistillationTypes
<1>3. ASSUME NEW r \in Revisions
      PROVE  RowOf(distillationRows[r], r)'
  <2>1. RowOf(distillationRows[r], r) /\ distillationRows[r].marker \in MarkerIds
    BY <1>1 DEF DistillationInv, Rows
  <2>2. distillationRows[r].marker # 0 => distillationRows[r].marker \in Revisions
    BY <2>1, Ids
  <2> QED
    BY <2>1, <2>2 DEF RowOf, Onwards
<1>4. ASSUME NEW p \in net, p.kind = "submit"
      PROVE  SubmissionOf(p) /\ p.revision \in Revisions /\ (markers'[p.revision].state # "NONE" => markers'[p.revision].triage = p.triage)
  <2>1. SubmissionOf(p) /\ p.revision \in Revisions
    BY <1>1, <1>4, RequestKinds DEF DistillationInv, Submissions
  <2>2. CASE markers[p.revision].state # "NONE"
    BY <2>1, <2>2 DEF SubmissionOf, Onwards
  <2>3. CASE markers[p.revision].state = "NONE"
    BY <2>1, <2>3 DEF SubmissionOf, MadeBySubmission
  <2> QED
    BY <2>1, <2>2, <2>3
<1>5. ASSUME NEW p \in net', p.kind = "submit"
      PROVE  SubmissionOf(p)'
  <2>1. p \in net
    OBVIOUS
  <2> QED
    BY <1>4, <1>5, <2>1 DEF SubmissionOf
<1>6. Remembered'
  <2>1. ASSUME markers'[stored.revision].state # "NONE"
        PROVE  Remembers(markers'[stored.revision].triage)
    <3>1. CASE markers[stored.revision].state # "NONE"
      BY <1>1, <3>1 DEF DistillationInv, Remembered, Onwards
    <3>2. CASE markers[stored.revision].state = "NONE"
      BY <1>1, <2>1, <3>2 DEF DistillationInv, Remembered, MadeBySubmission
    <3> QED
      BY <3>1, <3>2
  <2>2. ASSUME NEW q \in net, q.kind = "submit", q.revision = stored.revision
        PROVE  Remembers(q.triage)
    BY <2>2 DEF DistillationInv, Remembered
  <2> QED
    BY <2>1, <2>2 DEF Remembered, Remembers
<1>7. OneOutcome'
  <2>1. GoodRows(distillationRows')
    BY RowsAreGood
  <2>2. \A m \in Revisions, k \in Nat, o \in Outcomes : Tells(m, k, o)' => Tells(m, k, o)
    BY <2>1, FewerTells
  <2> QED
    BY <2>2, TellsNoMore DEF DistillationInv
<1>8. was'[stored'.revision] = stored'.content
  BY DEF DistillationInv
<1> QED
  BY <1>2, <1>3, <1>5, <1>6, <1>7, <1>8 DEF DistillationInv

\* A worker that is not answered knows what it knew.
LEMMA WorkerWaits ==
    ASSUME DistillationInv, UNCHANGED <<stored, distillationRows, worker>>, Onwards, net' \subseteq net
    PROVE  worker' \in Workers /\ WorkerInv' /\ FreshClaim'
<1>1. worker \in Workers /\ WorkerInv /\ FreshClaim
  BY DEF DistillationInv, DistillationTypes
<1>2. WorksOnRow' /\ AsksStatus'
  BY <1>1 DEF WorkerInv, WorksOnRow, AsksStatus
<1>3. AwaitsMarker'
  BY <1>1 DEF WorkerInv, WorksOnRow, AwaitsMarker, Onwards
<1>4. HasClaimed'
  BY <1>1 DEF WorkerInv, HasClaimed, Onwards
<1>5. TellsOutcome'
  BY <1>1 DEF WorkerInv, TellsOutcome, Onwards
<1>6. FreshClaim'
  BY <1>1 DEF FreshClaim, Tells
<1> QED
  BY <1>1, <1>2, <1>3, <1>4, <1>5, <1>6 DEF WorkerInv

LEMMA PlatformTypes ==
    ASSUME DistillationInv
    PROVE  /\ markers \in [Revisions -> Markers] /\ knowledge \in [Revisions -> Contents \cup {"none"}]
           /\ owned \in BOOLEAN /\ distillationTombstone \in BOOLEAN /\ net \subseteq Requests /\ worker \in Workers
           /\ \A r \in Revisions : markers[r] \in Markers /\ MarkerOf(r)
  BY DEF DistillationInv, DistillationTypes

LEMMA SubmitAnswered ==
    ASSUME DistillationInv, NEW q \in net, ServeSubmit(q)
    PROVE  DistillationInv'
<1> DEFINE r == q.revision
           m == markers[r]
           same == m.content = q.content /\ m.triage = q.triage
           waits == worker.pc = "submit" /\ worker.row = r
           a == IF distillationTombstone THEN "deleted" ELSE IF m.state = "NONE" THEN "PENDING"
                ELSE IF same THEN m.state ELSE "conflict"
           made == [NoMarker EXCEPT !.state = "PENDING", !.content = q.content, !.triage = q.triage]
<1>1. /\ q.kind = "submit" /\ net' = net \ {q}
      /\ UNCHANGED <<stored, was, distillationRows, knowledge, owned, distillationTombstone, judged, distillationFaults>>
      /\ worker' = IF waits /\ worker.answer = "none" THEN [worker EXCEPT !.answer = a] ELSE worker
      /\ markers' = IF distillationTombstone \/ m.state # "NONE" THEN markers ELSE [markers EXCEPT ![r] = made]
  BY DEF ServeSubmit, Answer
<1>2. /\ markers \in [Revisions -> Markers] /\ knowledge \in [Revisions -> Contents \cup {"none"}]
      /\ owned \in BOOLEAN /\ distillationTombstone \in BOOLEAN /\ worker \in Workers
      /\ \A x \in Revisions : markers[x] \in Markers /\ MarkerOf(x)
  BY PlatformTypes
<1>3. q \in Submissions /\ r \in Revisions /\ q.content \in Contents /\ q.triage \in Triages /\ SubmissionOf(q)
  BY <1>1, PlatformTypes, RequestKinds DEF Submissions, DistillationInv
<1>4. /\ made \in Markers /\ made.state = "PENDING" /\ made.content = q.content /\ made.triage = q.triage
  <2>1. PICK v \in BOOLEAN : NoMarker = [state |-> "NONE", content |-> "partial", triage |-> "none", attempts |-> 0,
                                         waiting |-> v, token |-> 0, lease |-> "none"]
    BY Zenon DEF NoMarker
  <2>2. 0 \in 0..DistillationMaxAttempts
    BY DistillationAssumption
  <2> QED
    BY <1>3, <2>1, <2>2 DEF Markers, MarkerStates, Unsettled
<1>5. same \/ m.state = "NONE"
  BY <1>2, <1>3 DEF MarkerOf, SubmissionOf
<1> HIDE DEF made
<1>6. CASE distillationTombstone \/ m.state # "NONE"
  <2>1. markers' = markers
    BY <1>1, <1>6
  <2>2. Onwards /\ MadeBySubmission /\ \A x \in Revisions : MarkerOf(x)'
    BY <1>1, <1>2, <2>1 DEF Onwards, MadeBySubmission, MarkerOf
  <2>3. CASE ~ (waits /\ worker.answer = "none")
    <3>1. worker' \in Workers /\ WorkerInv' /\ FreshClaim' /\ worker' = worker
      BY <1>1, <2>2, <2>3, WorkerWaits
    <3> QED
      BY <1>1, <1>2, <2>1, <2>2, <3>1, PlatformStep
  <2>4. CASE waits /\ worker.answer = "none"
    <3>1. worker' = [worker EXCEPT !.answer = a]
      BY <1>1, <2>4
    <3>2. a \in WorkerAnswers /\ a # "conflict" /\ (a = "deleted" \/ (a = m.state /\ m.state # "NONE"))
      <4>1. m.state \in MarkerStates
        BY <1>2, <1>3 DEF Markers
      <4> QED
        BY <1>5, <1>6, <4>1 DEF MarkerStates, WorkerAnswers, Unsettled
    <3> HIDE DEF a
    <3>3. worker' \in Workers /\ worker'.pc = "submit" /\ worker'.row = r /\ worker'.answer = a
      BY <1>2, <2>4, <3>1, <3>2 DEF Workers
    <3>4. WorksOnRow'
      BY <1>1, <2>4, <3>3 DEF DistillationInv, WorkerInv, WorksOnRow
    <3>5. AwaitsMarker'
      BY <2>1, <3>2, <3>3 DEF AwaitsMarker, Unsettled
    <3>6. WorkerInv' /\ FreshClaim'
      BY <3>3, <3>4, <3>5 DEF WorkerInv, HasClaimed, AsksStatus, TellsOutcome, FreshClaim
    <3> QED
      BY <1>1, <1>2, <2>1, <2>2, <3>3, <3>6, PlatformStep
  <2> QED
    BY <2>3, <2>4
<1>7. CASE ~ distillationTombstone /\ m.state = "NONE"
  <2>1. /\ markers' \in [Revisions -> Markers] /\ markers'[r] = made
        /\ \A x \in Revisions : x # r => markers'[x] = markers[x]
    BY <1>1, <1>2, <1>3, <1>4, <1>7
  <2>2. Onwards /\ MadeBySubmission
    BY <1>1, <1>4, <1>7, <2>1 DEF Onwards, MadeBySubmission
  <2>3. ASSUME NEW x \in Revisions
        PROVE  MarkerOf(x)'
    <3>1. MarkerOf(x)
      BY <1>2
    <3>2. CASE x = r
      BY <1>1, <1>3, <1>4, <1>7, <2>1, <3>1, <3>2 DEF MarkerOf, SubmissionOf
    <3>3. CASE x # r
      BY <1>1, <2>1, <3>1, <3>3 DEF MarkerOf
    <3> QED
      BY <3>2, <3>3
  <2>4. CASE ~ (waits /\ worker.answer = "none")
    <3>1. worker' \in Workers /\ WorkerInv' /\ FreshClaim' /\ worker' = worker
      BY <1>1, <2>2, <2>4, WorkerWaits
    <3> QED
      BY <1>1, <1>2, <2>1, <2>2, <2>3, <3>1, PlatformStep
  <2>5. CASE waits /\ worker.answer = "none"
    <3>1. worker' = [worker EXCEPT !.answer = "PENDING"]
      BY <1>1, <1>7, <2>5
    <3>2. worker' \in Workers /\ worker'.pc = "submit" /\ worker'.row = r /\ worker'.answer = "PENDING"
      BY <1>2, <2>5, <3>1 DEF Workers, WorkerAnswers, Unsettled
    <3>3. WorksOnRow'
      BY <1>1, <2>5, <3>2 DEF DistillationInv, WorkerInv, WorksOnRow
    <3>4. AwaitsMarker'
      BY <1>4, <2>1, <3>2 DEF AwaitsMarker, Unsettled
    <3>5. WorkerInv' /\ FreshClaim'
      BY <3>2, <3>3, <3>4 DEF WorkerInv, HasClaimed, AsksStatus, TellsOutcome, FreshClaim
    <3> QED
      BY <1>1, <1>2, <2>1, <2>2, <2>3, <3>2, <3>5, PlatformStep
  <2> QED
    BY <2>4, <2>5
<1> QED
  BY <1>6, <1>7

\* What a claim makes of the markers before it takes one.
LEMMA ExhaustedMarkers ==
    ASSUME DistillationInv, NEW ms,
           ms = [r \in Revisions |-> IF Exhausted(markers[r]) THEN [markers[r] EXCEPT !.state = "FAILED"] ELSE markers[r]]
    PROVE  /\ ms \in [Revisions -> Markers]
           /\ \A r \in Revisions :
                /\ ms[r].content = markers[r].content /\ ms[r].triage = markers[r].triage
                /\ ms[r].state = markers[r].state \/ (ms[r].state = "FAILED" /\ markers[r].state \in Unsettled)
                /\ Claimable(ms[r]) => /\ ms[r] = markers[r] /\ ms[r].state \in Unsettled
                                       /\ ms[r].waiting \/ ms[r].attempts < DistillationMaxAttempts
<1>1. \A r \in Revisions : markers[r] \in Markers
  BY PlatformTypes
<1>2. ASSUME NEW r \in Revisions
      PROVE  /\ ms[r] \in Markers
             /\ ms[r].content = markers[r].content /\ ms[r].triage = markers[r].triage
             /\ ms[r].state = markers[r].state \/ (ms[r].state = "FAILED" /\ markers[r].state \in Unsettled)
             /\ Claimable(ms[r]) => /\ ms[r] = markers[r] /\ ms[r].state \in Unsettled
                                    /\ ms[r].waiting \/ ms[r].attempts < DistillationMaxAttempts
  <2>1. CASE Exhausted(markers[r])
    <3>1. ms[r] = [markers[r] EXCEPT !.state = "FAILED"]
      BY <2>1
    <3>2. markers[r].state \in Unsettled
      BY <2>1 DEF Exhausted, Claimable, Unsettled
    <3>3. ms[r] \in Markers /\ ms[r].content = markers[r].content /\ ms[r].triage = markers[r].triage /\ ms[r].state = "FAILED"
      BY <1>1, <3>1 DEF Markers, MarkerStates
    <3> QED
      BY <3>2, <3>3 DEF Claimable
  <2>2. CASE ~ Exhausted(markers[r])
    <3>1. ms[r] = markers[r]
      BY <2>2
    <3>2. markers[r].attempts \in 0..DistillationMaxAttempts
      BY <1>1 DEF Markers
    <3>3. Claimable(markers[r]) => markers[r].waiting \/ markers[r].attempts < DistillationMaxAttempts
      BY <2>2, <3>2, DistillationAssumption DEF Exhausted
    <3> QED
      BY <1>1, <3>1, <3>3 DEF Claimable, Unsettled
  <2> QED
    BY <2>1, <2>2
<1>3. ms \in [Revisions -> Markers]
  BY <1>2
<1> QED
  BY <1>2, <1>3

\* A marker whose lease or state changes is still what was submitted.
LEMMA SameSource ==
    ASSUME DistillationInv, UNCHANGED <<stored, was, knowledge, distillationTombstone, judged>>,
           \A r \in Revisions :
               /\ markers'[r].content = markers[r].content /\ markers'[r].triage = markers[r].triage
               /\ \/ markers'[r].state = markers[r].state
                  \/ /\ markers[r].state \in Unsettled /\ ~ distillationTombstone
                     /\ markers'[r].state \in {"FAILED"} \cup Unsettled
                  \/ markers[r].state \in Unsettled /\ markers'[r].state = "FAILED"
    PROVE  Onwards /\ MadeBySubmission /\ \A r \in Revisions : MarkerOf(r)'
<1>1. \A r \in Revisions : MarkerOf(r)
  BY PlatformTypes
<1>2. Onwards /\ MadeBySubmission
  BY DEF Onwards, MadeBySubmission, Unsettled
<1>3. ASSUME NEW r \in Revisions
      PROVE  MarkerOf(r)'
  <2>1. MarkerOf(r)
    BY <1>1
  <2> QED
    BY <2>1 DEF MarkerOf, Unsettled
<1> QED
  BY <1>2, <1>3

LEMMA ClaimAnswered ==
    ASSUME DistillationInv, NEW q \in net, ServeClaim(q)
    PROVE  DistillationInv'
<1> DEFINE ms == [r \in Revisions |-> IF Exhausted(markers[r]) THEN [markers[r] EXCEPT !.state = "FAILED"] ELSE markers[r]]
           waits == worker.pc = "claim"
           open == {r \in Revisions : Claimable(ms[r])}
<1>1. /\ net' = net \ {q} /\ q.kind = "claim"
      /\ UNCHANGED <<stored, was, distillationRows, knowledge, owned, distillationTombstone, judged, distillationFaults>>
  BY DEF ServeClaim, Answer
<1>2. /\ knowledge \in [Revisions -> Contents \cup {"none"}]
      /\ owned \in BOOLEAN /\ distillationTombstone \in BOOLEAN /\ worker \in Workers
      /\ \A r \in Revisions : markers[r] \in Markers /\ MarkerOf(r)
  BY PlatformTypes
<1>3. /\ ms \in [Revisions -> Markers]
      /\ \A r \in Revisions :
                /\ ms[r].content = markers[r].content /\ ms[r].triage = markers[r].triage
                /\ ms[r].state = markers[r].state \/ (ms[r].state = "FAILED" /\ markers[r].state \in Unsettled)
                /\ Claimable(ms[r]) => /\ ms[r] = markers[r] /\ ms[r].state \in Unsettled
                                       /\ ms[r].waiting \/ ms[r].attempts < DistillationMaxAttempts
  BY ExhaustedMarkers
<1>4. \/ markers' = ms /\ Answer(q, waits, [worker EXCEPT !.answer = "empty"])
      \/ \E r \in open :
            /\ markers' = [ms EXCEPT ![r].state = "PROCESSING", ![r].token = Fresh, ![r].lease = "held",
                                     ![r].attempts = IF ms[r].waiting THEN ms[r].attempts ELSE ms[r].attempts + 1]
            /\ Answer(q, waits, [worker EXCEPT !.answer = "claimed", !.marker = r, !.token = Fresh, !.content = ms[r].content])
  BY DEF ServeClaim, Lease
<1> HIDE DEF ms
<1>5. CASE markers' = ms /\ Answer(q, waits, [worker EXCEPT !.answer = "empty"])
  <2>1. Onwards /\ MadeBySubmission /\ \A r \in Revisions : MarkerOf(r)'
    BY <1>1, <1>3, <1>5, SameSource
  <2>2. worker' = IF waits /\ worker.answer = "none" THEN [worker EXCEPT !.answer = "empty"] ELSE worker
    BY <1>5 DEF Answer
  <2>3. CASE worker' = worker
    <3>1. worker' \in Workers /\ WorkerInv' /\ FreshClaim'
      BY <1>1, <2>1, <2>3, WorkerWaits
    <3> QED
      BY <1>1, <1>2, <1>3, <1>5, <2>1, <2>3, <3>1, PlatformStep
  <2>4. CASE waits /\ worker' = [worker EXCEPT !.answer = "empty"]
    <3>1. worker' \in Workers /\ worker'.pc = "claim" /\ worker'.answer = "empty"
      BY <1>2, <2>4 DEF Workers, WorkerAnswers
    <3>2. WorkerInv' /\ FreshClaim'
      BY <3>1 DEF WorkerInv, WorksOnRow, AwaitsMarker, HasClaimed, AsksStatus, TellsOutcome, FreshClaim
    <3> QED
      BY <1>1, <1>2, <1>3, <1>5, <2>1, <3>1, <3>2, PlatformStep
  <2> QED
    BY <2>2, <2>3, <2>4
<1>6. ASSUME NEW r \in open,
             markers' = [ms EXCEPT ![r].state = "PROCESSING", ![r].token = Fresh, ![r].lease = "held",
                                   ![r].attempts = IF ms[r].waiting THEN ms[r].attempts ELSE ms[r].attempts + 1],
             Answer(q, waits, [worker EXCEPT !.answer = "claimed", !.marker = r, !.token = Fresh, !.content = ms[r].content])
      PROVE  DistillationInv'
  <2>1. /\ Fresh \in Nat /\ \A x \in Revisions : distillationRows[x].token # Fresh
        /\ \A p \in net : p.kind = "complete" => p.token # Fresh
    BY FreshIsNew
  <2>2. /\ r \in Revisions /\ ms[r] = markers[r] /\ ms[r] \in Markers /\ markers[r].state \in Unsettled
        /\ ms[r].waiting \/ ms[r].attempts < DistillationMaxAttempts
    BY <1>2, <1>3
  <2>3. PICK n \in 0..DistillationMaxAttempts : n = IF ms[r].waiting THEN ms[r].attempts ELSE ms[r].attempts + 1
    <3>1. ms[r].attempts \in 0..DistillationMaxAttempts
      BY <2>2 DEF Markers
    <3> QED
      BY <2>2, <3>1, DistillationAssumption
  <2>4. markers' = [ms EXCEPT ![r].state = "PROCESSING", ![r].token = Fresh, ![r].lease = "held", ![r].attempts = n]
    BY <1>6, <2>3
  <2>5. /\ markers' = [ms EXCEPT ![r] = [ms[r] EXCEPT !.state = "PROCESSING", !.token = Fresh, !.lease = "held", !.attempts = n]]
    BY <1>3, <2>2, <2>4
  <2> DEFINE leased == [ms[r] EXCEPT !.state = "PROCESSING", !.token = Fresh, !.lease = "held", !.attempts = n]
  <2>6. leased \in Markers /\ leased.state = "PROCESSING" /\ leased.content = markers[r].content /\ leased.triage = markers[r].triage
    BY <2>1, <2>2, <2>3 DEF Markers, MarkerStates, Unsettled
  <2> HIDE DEF leased
  <2>7. /\ markers' \in [Revisions -> Markers] /\ markers'[r] = leased
        /\ \A x \in Revisions : x # r => markers'[x] = ms[x]
    BY <1>3, <2>2, <2>5, <2>6 DEF leased
  <2>8. ~ distillationTombstone
    BY <1>2, <2>2 DEF MarkerOf
  <2>9. Onwards /\ MadeBySubmission /\ \A x \in Revisions : MarkerOf(x)'
    <3>1. \A x \in Revisions :
               /\ markers'[x].content = markers[x].content /\ markers'[x].triage = markers[x].triage
               /\ \/ markers'[x].state = markers[x].state
                  \/ /\ markers[x].state \in Unsettled /\ ~ distillationTombstone
                     /\ markers'[x].state \in {"FAILED"} \cup Unsettled
      BY <1>3, <2>2, <2>6, <2>7, <2>8 DEF Unsettled
    <3> QED
      BY <1>1, <3>1, SameSource
  <2>10. worker' = IF waits /\ worker.answer = "none"
                   THEN [worker EXCEPT !.answer = "claimed", !.marker = r, !.token = Fresh, !.content = ms[r].content] ELSE worker
    BY <1>6 DEF Answer
  <2>11. CASE worker' = worker
    <3>1. worker' \in Workers /\ WorkerInv' /\ FreshClaim'
      BY <1>1, <2>9, <2>11, WorkerWaits
    <3> QED
      BY <1>1, <1>2, <2>7, <2>9, <2>11, <3>1, PlatformStep
  <2>12. CASE waits /\ worker' = [worker EXCEPT !.answer = "claimed", !.marker = r, !.token = Fresh, !.content = ms[r].content]
    <3>1. ms[r].content \in Contents /\ r \in MarkerIds
      BY <2>2, Ids DEF Markers
    <3>2. /\ worker' \in Workers /\ worker'.pc = "claim" /\ worker'.answer = "claimed" /\ worker'.marker = r
          /\ worker'.token = Fresh
      BY <1>2, <2>1, <2>12, <3>1 DEF Workers, WorkerAnswers
    <3>3. FreshClaim'
      BY <1>1, <2>1, <3>2 DEF FreshClaim, Tells
    <3>4. HasClaimed'
      BY <2>2, <2>6, <2>7, <3>2 DEF HasClaimed
    <3>5. WorkerInv'
      BY <3>2, <3>4 DEF WorkerInv, WorksOnRow, AwaitsMarker, AsksStatus, TellsOutcome
    <3> QED
      BY <1>1, <1>2, <2>7, <2>9, <3>2, <3>3, <3>5, PlatformStep
  <2> QED
    BY <2>10, <2>11, <2>12
<1> QED
  BY <1>4, <1>5, <1>6

\* An outcome settles the marker of the lease, once; told again it is what it was.
LEMMA CompleteAnswered ==
    ASSUME DistillationInv, NEW q \in net, ServeComplete(q)
    PROVE  DistillationInv'
<1> DEFINE r == q.marker
           m == markers[r]
           o == DistillationOutcome(q)
           taken == ~ Again(m, q) /\ Accepts(m, q)
           waits == worker.pc \in {"complete", "replay"} /\ worker.marker = r /\ worker.token = q.token
           a == IF Again(m, q) \/ taken THEN "ok" ELSE "conflict"
<1>1. /\ q.kind = "complete" /\ net' = net \ {q}
      /\ UNCHANGED <<stored, was, distillationRows, owned, distillationTombstone, judged, distillationFaults>>
      /\ worker' = IF waits /\ worker.answer = "none" THEN [worker EXCEPT !.answer = a] ELSE worker
      /\ knowledge' = IF taken /\ q.outcome = "CANDIDATE" THEN [knowledge EXCEPT ![r] = m.content] ELSE knowledge
      /\ ~ taken => markers' = markers
  BY DEF ServeComplete, Answer
<1>2. /\ markers \in [Revisions -> Markers] /\ knowledge \in [Revisions -> Contents \cup {"none"}]
      /\ owned \in BOOLEAN /\ distillationTombstone \in BOOLEAN /\ worker \in Workers
      /\ \A x \in Revisions : markers[x] \in Markers /\ MarkerOf(x)
  BY PlatformTypes
<1>3. q \in Completions /\ r \in Revisions /\ q.token \in Nat /\ q.outcome \in Outcomes
  BY <1>1, PlatformTypes, RequestKinds DEF Completions
<1>4. /\ o \in {"CANDIDATE", "WAITING", "FAILED"} /\ (o = "CANDIDATE" <=> q.outcome = "CANDIDATE")
      /\ q.outcome \in {"CHANGED", "NOT_FOUND"} => o = "FAILED"
  BY <1>3 DEF DistillationOutcome, Outcomes
<1>5. taken => \E v \in BOOLEAN : markers' = [markers EXCEPT ![r].state = o, ![r].lease = "none", ![r].waiting = v]
  <2>1. (o = "WAITING") \in BOOLEAN
    BY Zenon
  <2> SUFFICES ASSUME taken
               PROVE  markers' = [markers EXCEPT ![r].state = o, ![r].lease = "none", ![r].waiting = (o = "WAITING")]
    BY <2>1, Zenon
  <2> QED
    BY DEF ServeComplete
<1>6. taken => m.state = "PROCESSING" /\ ~ distillationTombstone
  BY <1>2, <1>3 DEF Accepts, MarkerOf, Unsettled
<1>7. /\ markers' \in [Revisions -> Markers] /\ \A x \in Revisions : x # r => markers'[x] = markers[x]
      /\ markers'[r].content = m.content /\ markers'[r].triage = m.triage
      /\ taken => markers'[r].state = o
      /\ ~ taken => markers'[r].state = m.state
  <2>1. CASE taken
    <3>1. PICK v \in BOOLEAN : markers' = [markers EXCEPT ![r].state = o, ![r].lease = "none", ![r].waiting = v]
      BY <1>5, <2>1
    <3> DEFINE after == [m EXCEPT !.state = o, !.lease = "none", !.waiting = v]
    <3>2. markers' = [markers EXCEPT ![r] = after]
      BY <1>2, <1>3, <3>1
    <3>3. after \in Markers /\ after.state = o /\ after.content = m.content /\ after.triage = m.triage
      <4>1. m \in Markers
        BY <1>2, <1>3
      <4> HIDE DEF m, o
      <4> QED
        BY <1>4, <4>1 DEF Markers, MarkerStates, Unsettled
    <3> HIDE DEF after, o, taken
    <3> QED
      BY <1>2, <1>3, <2>1, <3>2, <3>3
  <2>2. CASE ~ taken
    BY <1>1, <1>2, <2>2
  <2> QED
    BY <2>1, <2>2
<1>8. a = "ok" => markers'[r].state = o
  BY <1>7 DEF Again
<1>9. knowledge' \in [Revisions -> Contents \cup {"none"}]
  <2>1. m.content \in Contents
    BY <1>2, <1>3 DEF Markers
  <2> QED
    BY <1>1, <1>2, <1>3, <2>1
<1>10. /\ \A x \in Revisions : x # r => knowledge'[x] = knowledge[x]
       /\ taken /\ o = "CANDIDATE" => knowledge'[r] = m.content
       /\ ~ (taken /\ o = "CANDIDATE") => knowledge'[r] = knowledge[r]
  BY <1>1, <1>2, <1>3, <1>4
<1> HIDE DEF o, taken
<1>11. Onwards /\ MadeBySubmission
  <2>1. \A x \in Revisions : \/ x # r /\ markers'[x] = markers[x]
                             \/ x = r /\ ~ taken
                             \/ x = r /\ taken
    BY <1>7
  <2> QED
    BY <1>4, <1>6, <1>7, <2>1 DEF Onwards, MadeBySubmission
<1>12. ASSUME NEW x \in Revisions
       PROVE  MarkerOf(x)'
  <2>1. MarkerOf(x)
    BY <1>2
  <2>2. CASE x # r
    BY <1>1, <1>7, <1>10, <2>1, <2>2 DEF MarkerOf
  <2>3. CASE x = r /\ ~ taken
    BY <1>1, <1>7, <1>10, <2>1, <2>3 DEF MarkerOf
  <2>4. CASE x = r /\ taken
    <3>1. m.content \in Contents /\ "none" \notin Contents
      BY <1>2, <1>3 DEF Markers, Contents
    <3>2. /\ r <= stored.revision /\ m.content = was[r] /\ m.triage \in Triages /\ <<m.content, m.triage>> \in judged
          /\ knowledge[r] = "none"
      BY <1>6, <2>1, <2>4 DEF MarkerOf
    <3>3. /\ markers'[r].state = o /\ o \in {"CANDIDATE", "WAITING", "FAILED"}
          /\ o = "CANDIDATE" => knowledge'[r] = was[r] /\ knowledge'[r] # "none"
          /\ o # "CANDIDATE" => knowledge'[r] = "none"
      BY <1>4, <1>7, <1>10, <2>4, <3>1, <3>2
    <3> QED
      BY <1>1, <1>6, <1>7, <2>4, <3>2, <3>3 DEF MarkerOf
  <2> QED
    BY <2>2, <2>3, <2>4
<1>13. CASE ~ (waits /\ worker.answer = "none")
  <2>1. worker' \in Workers /\ WorkerInv' /\ FreshClaim' /\ worker' = worker
    BY <1>1, <1>11, <1>13, WorkerWaits
  <2> QED
    BY <1>1, <1>2, <1>7, <1>9, <1>11, <1>12, <2>1, PlatformStep
<1>14. CASE waits /\ worker.answer = "none"
  <2>1. worker' = [worker EXCEPT !.answer = a] /\ a \in {"ok", "conflict"}
    BY <1>1, <1>14
  <2> HIDE DEF a
  <2>2. /\ worker' \in Workers /\ worker'.pc = worker.pc /\ worker'.marker = r /\ worker'.outcome = worker.outcome
        /\ worker'.row = worker.row /\ worker'.revision = worker.revision /\ worker'.token = worker.token
        /\ worker'.answer = a /\ worker.marker = r
    BY <1>2, <1>14, <2>1 DEF Workers, WorkerAnswers
  <2>3. /\ worker.outcome \in Outcomes /\ markers[r].state # "NONE" /\ worker.revision \in Revisions
        /\ worker.revision <= stored.revision
        /\ worker.row # 0 => distillationRows[worker.row].marker = r
    BY <1>14 DEF DistillationInv, WorkerInv, TellsOutcome
  <2>4. q.outcome = worker.outcome
    <3>1. Tells(r, q.token, q.outcome)
      BY <1>1 DEF Tells
    <3>2. Tells(r, q.token, worker.outcome)
      BY <1>14 DEF Tells
    <3> QED
      BY <1>3, <2>3, <3>1, <3>2 DEF DistillationInv, OneOutcome
  <2>5. TellsOutcome'
    <3>1. markers'[r].state # "NONE"
      BY <1>3, <1>11, <2>3 DEF Onwards
    <3>2. /\ a = "ok" /\ worker.outcome = "CANDIDATE" => markers'[r].state = "CANDIDATE"
          /\ a = "ok" /\ worker.outcome \in {"CHANGED", "NOT_FOUND"} => markers'[r].state = "FAILED"
      BY <1>4, <1>8, <2>4
    <3> QED
      BY <1>1, <1>3, <2>2, <2>3, <3>1, <3>2 DEF TellsOutcome
  <2>6. FreshClaim' /\ WorkerInv'
    BY <1>14, <2>2, <2>5 DEF FreshClaim, WorkerInv, WorksOnRow, AwaitsMarker, HasClaimed, AsksStatus
  <2> QED
    BY <1>1, <1>2, <1>7, <1>9, <1>11, <1>12, <1>14, <2>2, <2>6, PlatformStep
<1> QED
  BY <1>13, <1>14

LEMMA ExpiresStep ==
    ASSUME DistillationInv, NEW r \in Revisions, LeaseExpires(r)
    PROVE  DistillationInv'
<1>1. /\ markers' = [markers EXCEPT ![r].lease = "expired"]
      /\ UNCHANGED <<stored, was, distillationRows, worker, net, knowledge, owned, distillationTombstone, judged, distillationFaults>>
  BY DEF LeaseExpires
<1>2. /\ markers \in [Revisions -> Markers] /\ knowledge \in [Revisions -> Contents \cup {"none"}]
      /\ owned \in BOOLEAN /\ distillationTombstone \in BOOLEAN /\ worker \in Workers
  BY PlatformTypes
<1>3. markers' \in [Revisions -> Markers]
  BY <1>1, <1>2 DEF Markers
<1>4. \A x \in Revisions : /\ markers'[x].content = markers[x].content /\ markers'[x].triage = markers[x].triage
                           /\ markers'[x].state = markers[x].state
  BY <1>1, <1>2 DEF Markers
<1>5. Onwards /\ MadeBySubmission /\ \A x \in Revisions : MarkerOf(x)'
  BY <1>1, <1>4, SameSource
<1>6. WorkerInv' /\ FreshClaim'
  BY <1>1, <1>5, WorkerWaits
<1> QED
  BY <1>1, <1>2, <1>3, <1>5, <1>6, PlatformStep

LEMMA ArchiveStep ==
    ASSUME DistillationInv, NEW back \in BOOLEAN, Archive(back)
    PROVE  DistillationInv'
<1>1. /\ owned' = back
      /\ UNCHANGED <<stored, was, distillationRows, worker, net, markers, knowledge, distillationTombstone, judged, distillationFaults>>
  BY DEF Archive
<1>2. /\ markers \in [Revisions -> Markers] /\ knowledge \in [Revisions -> Contents \cup {"none"}]
      /\ distillationTombstone \in BOOLEAN /\ worker \in Workers
  BY PlatformTypes
<1>3. Onwards /\ MadeBySubmission /\ \A x \in Revisions : MarkerOf(x)'
  BY <1>1, SameSource
<1>4. WorkerInv' /\ FreshClaim'
  BY <1>1, <1>3, WorkerWaits
<1>5. owned' \in BOOLEAN
  BY <1>1, Zenon
<1> QED
  BY <1>1, <1>2, <1>3, <1>4, <1>5, PlatformStep

\* Deleted, a Bot has no marker that is open.
LEMMA CancelStep ==
    ASSUME DistillationInv, DistillationCancelBot
    PROVE  DistillationInv'
<1>1. /\ distillationTombstone' \in BOOLEAN
      /\ UNCHANGED <<stored, was, distillationRows, worker, net, knowledge, owned, judged, distillationFaults>>
  BY Zenon DEF DistillationCancelBot
<1>2. markers' = [r \in Revisions |->
         IF markers[r].state \in Unsettled
         THEN [markers[r] EXCEPT !.state = "FAILED", !.token = 0, !.lease = "none"] ELSE markers[r]]
  BY DEF DistillationCancelBot
<1>3. /\ knowledge \in [Revisions -> Contents \cup {"none"}] /\ owned \in BOOLEAN /\ worker \in Workers
      /\ \A r \in Revisions : markers[r] \in Markers /\ MarkerOf(r)
  BY PlatformTypes
<1>4. ASSUME NEW r \in Revisions
      PROVE  /\ markers'[r] \in Markers
             /\ markers'[r].content = markers[r].content /\ markers'[r].triage = markers[r].triage
             /\ markers[r].state \in Unsettled => markers'[r].state = "FAILED"
             /\ markers[r].state \notin Unsettled => markers'[r].state = markers[r].state
  <2>1. CASE markers[r].state \in Unsettled
    <3>1. markers'[r] = [markers[r] EXCEPT !.state = "FAILED", !.token = 0, !.lease = "none"]
      BY <1>2, <2>1
    <3>2. markers[r] \in Markers
      BY <1>3
    <3>3. /\ markers'[r].content = markers[r].content /\ markers'[r].triage = markers[r].triage
          /\ markers'[r].state = "FAILED"
      BY <3>1, <3>2 DEF Markers
    <3>4. [markers[r] EXCEPT !.state = "FAILED", !.token = 0, !.lease = "none"] \in Markers
      BY <3>2 DEF Markers, MarkerStates
    <3> QED
      BY <2>1, <3>1, <3>3, <3>4
  <2>2. CASE markers[r].state \notin Unsettled
    BY <1>2, <1>3, <2>2
  <2> QED
    BY <2>1, <2>2
<1>5. markers' \in [Revisions -> Markers]
  <2>1. markers' = [r \in Revisions |-> markers'[r]]
    BY <1>2
  <2> QED
    BY <1>4, <2>1
<1>6. Onwards /\ MadeBySubmission
  BY <1>4 DEF Onwards, MadeBySubmission, Unsettled
<1>7. ASSUME NEW r \in Revisions
      PROVE  MarkerOf(r)'
  <2>1. MarkerOf(r) /\ markers'[r].state \notin Unsettled
    BY <1>3, <1>4 DEF Unsettled
  <2> QED
    BY <1>1, <1>4, <2>1 DEF MarkerOf, Unsettled
<1>8. WorkerInv' /\ FreshClaim'
  BY <1>1, <1>6, WorkerWaits
<1> QED
  BY <1>1, <1>3, <1>5, <1>6, <1>7, <1>8, PlatformStep

-----------------------------------------------------------------------------
LEMMA DistillationInvInit == DistillationInit => DistillationInv
<1> SUFFICES ASSUME DistillationInit PROVE DistillationInv
  OBVIOUS
<1>1. owned \in BOOLEAN /\ distillationTombstone \in BOOLEAN
  BY Zenon DEF DistillationInit
<1>2. /\ stored = [revision |-> 1, content |-> "partial"] /\ was = [r \in Revisions |-> "partial"]
      /\ distillationRows = [r \in Revisions |-> DistillationNoRow] /\ worker = DistillationIdle /\ net = {}
      /\ markers = [r \in Revisions |-> NoMarker] /\ knowledge = [r \in Revisions |-> "none"]
      /\ distillationFaults = 0
  BY DEF DistillationInit
<1>3. NoMarker \in Markers /\ NoMarker.state = "NONE"
  <2>1. PICK v \in BOOLEAN : NoMarker = [state |-> "NONE", content |-> "partial", triage |-> "none", attempts |-> 0,
                                         waiting |-> v, token |-> 0, lease |-> "none"]
    BY Zenon DEF NoMarker
  <2>2. 0 \in 0..DistillationMaxAttempts
    BY DistillationAssumption
  <2> QED
    BY <2>1, <2>2 DEF Markers, MarkerStates, Contents
<1>4. DistillationTypes
  <2>1. 0 \in 0..DistillationMaxFaults
    BY DistillationAssumption
  <2>2. IsFiniteSet(net)
    BY <1>2, FS_EmptySet
  <2>3. stored \in [revision : Revisions, content : Contents] /\ was \in [Revisions -> Contents]
    BY <1>2, Ids DEF Contents
  <2> QED
    BY <1>1, <1>2, <1>3, <2>1, <2>2, <2>3, NoRowFields, IdleFields DEF DistillationTypes
<1>5. was[stored.revision] = stored.content /\ stored.revision \in Revisions
  BY <1>2, Ids
<1>6. ASSUME NEW r \in Revisions
      PROVE  RowOf(distillationRows[r], r) /\ MarkerOf(r)
  <2>1. distillationRows[r] = DistillationNoRow /\ markers[r] = NoMarker /\ knowledge[r] = "none"
    BY <1>2
  <2> QED
    BY <1>3, <2>1, NoRowFields DEF RowOf, MarkerOf, Unsettled
<1>7. Remembered
  BY <1>2, <1>3, <1>5 DEF Remembered
<1>8. OneOutcome
  BY <1>2, NoRowFields, IdleFields DEF OneOutcome, Tells
<1>9. FreshClaim /\ WorkerInv
  BY <1>2, IdleFields DEF FreshClaim, WorkerInv, WorksOnRow, AwaitsMarker, HasClaimed, AsksStatus, TellsOutcome
<1> QED
  BY <1>2, <1>4, <1>5, <1>6, <1>7, <1>8, <1>9 DEF DistillationInv

LEMMA DistillationInvStep == DistillationInv /\ [DistillationNext]_distVars => DistillationInv'
<1> SUFFICES ASSUME DistillationInv, [DistillationNext]_distVars PROVE DistillationInv'
  OBVIOUS
<1>1. CASE Work
  BY <1>1, FirstSeenStep, ClaimRequestStep, NothingClaimedStep, DistillationReconcileStep, SubmittedStep,
     SubmissionRefusedStep, OutcomeTaken, IdleSteps, CompletionRefusedStep, TakeRowStep, ReplayStep, ClassifiedStep,
     BackfilledRowStep, ClaimedStep DEF Work
<1>2. CASE GiveUp
  BY <1>2, IdleSteps
<1>3. CASE DistillationServe
  BY <1>3, SubmitAnswered, ClaimAnswered, CompleteAnswered DEF DistillationServe
<1>4. CASE Expires
  BY <1>4, ExpiresStep DEF Expires
<1>5. CASE Changes
  BY <1>5, TurnChanges, ArchiveStep, CancelStep DEF Changes
<1>6. CASE UNCHANGED distVars
  BY <1>6 DEF distVars, DistillationInv, DistillationTypes, RowOf, MarkerOf, SubmissionOf, Remembered, Remembers, OneOutcome,
     Tells, FreshClaim, WorkerInv, WorksOnRow, AwaitsMarker, HasClaimed, AsksStatus, TellsOutcome
<1> QED
  BY <1>1, <1>2, <1>3, <1>4, <1>5, <1>6 DEF DistillationNext

LEMMA DistillationPromises == DistillationInv => DistillationSafe
<1> SUFFICES ASSUME DistillationInv PROVE DistillationSafe
  OBVIOUS
<1>1. DistillationTypeOK
  BY DEF DistillationInv, DistillationTypes, DistillationTypeOK, Rows, RowStates, Markers, MarkerStates, MarkerIds, Workers, Pcs
<1>2. MarkerIsOfItsSource /\ CandidateOfMarker /\ DeletedHasNoWork
  BY DEF DistillationInv, MarkerOf, MarkerIsOfItsSource, CandidateOfMarker, DeletedHasNoWork
<1>3. InboxAgrees
  BY DEF DistillationInv, RowOf, InboxAgrees
<1>4. NeverConflicts
  BY DEF DistillationInv, WorkerInv, AwaitsMarker, NeverConflicts
<1> QED
  BY <1>1, <1>2, <1>3, <1>4 DEF DistillationSafe

(* While the turn changes under the worker, answers are lost, leases run   *)
(* out and the Bot is deleted, the platform's marker and candidate are of  *)
(* the content they name, the inbox agrees with them, a submission never   *)
(* contradicts an earlier one, and a deleted Bot has no open marker (tick, *)
(* createMarker, claim, complete, cancelBot).                              *)
THEOREM DistillationIsSafe == DistillationSpec => []DistillationSafe
<1>1. DistillationSpec => []DistillationInv
  BY DistillationInvInit, DistillationInvStep, PTL DEF DistillationSpec
<1> QED
  BY <1>1, DistillationPromises, PTL

=============================================================================
