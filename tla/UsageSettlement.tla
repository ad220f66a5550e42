-------------------------- MODULE UsageSettlement ---------------------------
(***************************************************************************)
(* What a request costs: the settlement of a currency budget in Valkey and *)
(* the charge in the platform's ledger.  At the end of a response the      *)
(* processor settles the request's amount and hands a report to the        *)
(* controller's outbox; the platform records the report in one transaction *)
(* and settles the amount again.  A report is sent until it is taken, and  *)
(* a send that timed out may still be at work when the next one is made.   *)
(*                                                                         *)
(* There are one accounting key and one allocation; the budget's window    *)
(* is the one in which the request was authorized.  A report's rows        *)
(* (invocation, charge, quantities, valuations) are one value.             *)
(***************************************************************************)
EXTENDS Integers, FiniteSets

CONSTANTS
    Attempts,                      \* requests that are authorized
    SettlementCorrelations, Corr,  \* the correlation of an attempt; retries share one
    Micros,                        \* of an attempt, the amount its response costs
    Limit,                         \* the budget's limit_micros
    Window,                        \* the budget's window_seconds
    MaxClock,                      \* bound on time
    SettlementMaxFaults,           \* bound on failures of the store, the relay and the platform
    SettlementNone

ASSUME SettlementAssumption ==
    /\ Corr \in [Attempts -> SettlementCorrelations] /\ Micros \in [Attempts -> Nat]
    /\ Limit \in Nat /\ Window \in Nat \ {0} /\ MaxClock \in Nat /\ SettlementMaxFaults \in Nat
    /\ SettlementNone \notin Attempts

VARIABLES
    clock,
    pc,          \* of an attempt: where its request is
    now,         \* when the authorizer read the request
    created,     \* when the response ended: created_at of its report
    deliveries,  \* of an attempt: deliveries that the processor still waits for
    queue,       \* reports in the outbox
    handler,     \* reports that the platform has recorded and is about to settle
    late,        \* the same, where the outbox no longer waits for the answer
    ledger,      \* of a correlation, the attempt whose report is recorded
    settlement,  \* of a correlation, the amount that was settled last
    cost,        \* of a window, the budget's counter
    settlementFaults

settlementVars == <<clock, pc, now, created, deliveries, queue, handler, late, ledger, settlement, cost, settlementFaults>>

Bucket(t) == t \div Window
Buckets == 0..Bucket(MaxClock)
Absent == [n |-> 0, exp |-> 0]
WindowOf(a) == Bucket(now[a])

SettlementTypeOK ==
    /\ clock \in 0..MaxClock
    /\ pc \in [Attempts -> {"new", "admit", "rejected", "process", "deliver", "failed", "done"}]
    /\ now \in [Attempts -> 0..MaxClock] /\ created \in [Attempts -> 0..MaxClock]
    /\ deliveries \in [Attempts -> SUBSET {"settle", "report"}]
    /\ queue \subseteq Attempts /\ handler \subseteq queue /\ late \subseteq Attempts
    /\ ledger \in [SettlementCorrelations -> Attempts \cup {SettlementNone}] /\ settlement \in [SettlementCorrelations -> Nat]
    /\ cost \in [Buckets -> [n : Int, exp : Nat]] /\ settlementFaults \in 0..SettlementMaxFaults

SettlementInit ==
    /\ clock = 0 /\ pc = [a \in Attempts |-> "new"]
    /\ now = [a \in Attempts |-> 0] /\ created = now /\ deliveries = [a \in Attempts |-> {}]
    /\ queue = {} /\ handler = {} /\ late = {}
    /\ ledger = [c \in SettlementCorrelations |-> SettlementNone] /\ settlement = [c \in SettlementCorrelations |-> 0]
    /\ cost = [b \in Buckets |-> Absent] /\ settlementFaults = 0

SettlementGoto(a, p) == pc' = [pc EXCEPT ![a] = p]
SettlementFault == settlementFaults < SettlementMaxFaults /\ settlementFaults' = settlementFaults + 1
storeVars == <<settlement, cost>>
platformVars == <<handler, late, ledger>>

Begin(a) ==
    /\ pc[a] = "new" /\ SettlementGoto(a, "admit") /\ now' = [now EXCEPT ![a] = clock]
    /\ UNCHANGED <<clock, created, deliveries, queue, platformVars, storeVars, settlementFaults>>

(* admissionScript of a policy that has only a currency budget: nothing is *)
(* reserved.                                                               *)
Admit(a) ==
    /\ pc[a] = "admit"
    /\ SettlementGoto(a, IF cost[WindowOf(a)].n > Limit THEN "rejected" ELSE "process")
    /\ UNCHANGED <<clock, now, created, deliveries, queue, platformVars, storeVars, settlementFaults>>

(* The response's last chunk starts both deliveries.                       *)
EndResponse(a) ==
    /\ pc[a] = "process" /\ SettlementGoto(a, "deliver")
    /\ created' = [created EXCEPT ![a] = clock]
    /\ deliveries' = [deliveries EXCEPT ![a] = {"settle", "report"}]
    /\ UNCHANGED <<clock, now, queue, platformVars, storeVars, settlementFaults>>

(* Mutant: every settlement adds its amount.                               *)
SettleAdds(a) ==
    /\ settlement' = [settlement EXCEPT ![Corr[a]] = Micros[a]]
    /\ cost' = [cost EXCEPT ![WindowOf(a)] = [n |-> @.n + Micros[a], exp |-> clock + Window]]

(* settlementScript.                                                       *)
Settle(a) ==
    LET delta == Micros[a] - settlement[Corr[a]]
    IN  /\ settlement' = [settlement EXCEPT ![Corr[a]] = Micros[a]]
        /\ cost' = [cost EXCEPT ![WindowOf(a)] =
                        IF delta = 0 /\ @ = Absent THEN @   \* EXPIRE of no key
                        ELSE [n |-> @.n + delta, exp |-> clock + Window]]

SettlementDelivered(a, d) ==
    /\ deliveries' = [deliveries EXCEPT ![a] = @ \ {d}]
    /\ IF pc[a] = "deliver" /\ deliveries[a] = {d} THEN SettlementGoto(a, "done") ELSE UNCHANGED pc

(* The stream fails with the first delivery that fails; the other goes on. *)
DeliveryFails(a, d) ==
    /\ deliveries' = [deliveries EXCEPT ![a] = @ \ {d}] /\ SettlementGoto(a, "failed") /\ SettlementFault

ProcessorSettles(a) ==
    /\ "settle" \in deliveries[a] /\ Settle(a) /\ SettlementDelivered(a, "settle")
    /\ UNCHANGED <<clock, now, created, queue, platformVars, settlementFaults>>

(* The script may have run.                                                *)
ProcessorSettleFails(a) ==
    /\ "settle" \in deliveries[a] /\ DeliveryFails(a, "settle")
    /\ Settle(a) \/ UNCHANGED storeVars
    /\ UNCHANGED <<clock, now, created, queue, platformVars>>

SettlementReport(a) ==
    /\ "report" \in deliveries[a] /\ queue' = queue \cup {a} /\ SettlementDelivered(a, "report")
    /\ UNCHANGED <<clock, now, created, platformVars, storeVars, settlementFaults>>

(* The relay may have kept the report.                                     *)
ReportFails(a) ==
    /\ "report" \in deliveries[a] /\ DeliveryFails(a, "report")
    /\ queue' \in {queue, queue \cup {a}}
    /\ UNCHANGED <<clock, now, created, platformVars, storeVars>>

(* recordAccounting: rows that are there must equal the report's.          *)
Same(a, b) == created[a] = created[b] /\ Micros[a] = Micros[b]
Conflict(a) == ledger[Corr[a]] # SettlementNone /\ ~Same(ledger[Corr[a]], a)

(* Mutant: the report of a request whose stream failed is not retried.     *)
PlatformRecordsCompleted(a) ==
    /\ a \in queue \ handler /\ ~Conflict(a) /\ pc[a] # "failed"
    /\ ledger' = [ledger EXCEPT ![Corr[a]] = IF @ = SettlementNone THEN a ELSE @]
    /\ handler' = handler \cup {a}
    /\ UNCHANGED <<clock, pc, now, created, deliveries, queue, late, storeVars, settlementFaults>>

(* A report that conflicts is answered with an error and stays queued.     *)
PlatformRecords(a) ==
    /\ a \in queue \ handler /\ ~Conflict(a)
    /\ ledger' = [ledger EXCEPT ![Corr[a]] = IF @ = SettlementNone THEN a ELSE @]
    /\ handler' = handler \cup {a}
    /\ UNCHANGED <<clock, pc, now, created, deliveries, queue, late, storeVars, settlementFaults>>

(* 201, and the outbox removes the report.                                 *)
PlatformSettles(a) ==
    /\ a \in handler /\ Settle(a)
    /\ handler' = handler \ {a} /\ queue' = queue \ {a}
    /\ UNCHANGED <<clock, pc, now, created, deliveries, late, ledger, settlementFaults>>

(* CURRENCY_SETTLEMENT_STORE_UNAVAILABLE, or the answer is lost.           *)
PlatformSettleFails(a) ==
    /\ a \in handler /\ SettlementFault /\ handler' = handler \ {a}
    /\ Settle(a) \/ UNCHANGED storeVars
    /\ UNCHANGED <<clock, pc, now, created, deliveries, queue, late, ledger>>

(* The outbox gives up waiting; the platform goes on.                      *)
SendTimesOut(a) ==
    /\ a \in handler /\ SettlementFault /\ handler' = handler \ {a} /\ late' = late \cup {a}
    /\ UNCHANGED <<clock, pc, now, created, deliveries, queue, ledger, storeVars>>

LateSettles(a) ==
    /\ a \in late /\ Settle(a) /\ late' = late \ {a}
    /\ UNCHANGED <<clock, pc, now, created, deliveries, queue, handler, ledger, settlementFaults>>

Tick ==
    /\ clock < MaxClock /\ clock' = clock + 1
    /\ cost' = [b \in Buckets |-> IF cost[b].exp <= clock + 1 THEN Absent ELSE cost[b]]
    /\ UNCHANGED <<pc, now, created, deliveries, queue, platformVars, settlement, settlementFaults>>

SettlementNext ==
    \/ Tick
    \/ \E a \in Attempts :
        \/ Begin(a) \/ Admit(a) \/ EndResponse(a)
        \/ ProcessorSettles(a) \/ ProcessorSettleFails(a) \/ SettlementReport(a) \/ ReportFails(a)
        \/ PlatformRecords(a) \/ PlatformSettles(a) \/ PlatformSettleFails(a)
        \/ SendTimesOut(a) \/ LateSettles(a)

SettlementSpec == SettlementInit /\ [][SettlementNext]_settlementVars

(* The outbox keeps sending what it holds, and a handler ends.             *)
SettlementFair ==
    \A a \in Attempts :
        WF_settlementVars(PlatformRecords(a)) /\ WF_settlementVars(PlatformSettles(a))

-----------------------------------------------------------------------------
Tried(c) == {a \in Attempts : Corr[a] = c /\ pc[a] # "new"}
Settled(b) == {c \in SettlementCorrelations : \E a \in Tried(c) : WindowOf(a) = b}

(* The micros settled last for the correlations of a window, one by one.   *)
SettledMicros(b) == UNION {{c} \X (1..settlement[c]) : c \in Settled(b)}

(* In the current window the budget's counter is the sum of the amounts    *)
(* settled last for the correlations of the window, whoever settled them,  *)
(* how often and in which order, unless a correlation was tried in two     *)
(* windows.                                                                *)
WindowCost ==
    (\A c \in SettlementCorrelations : \A a, b \in Tried(c) : WindowOf(a) = WindowOf(b))
        => cost[Bucket(clock)].n = Cardinality(SettledMicros(Bucket(clock)))

(* A charge in the ledger is debited from the budget once no request and   *)
(* no report of its correlation is under way; if the correlation was       *)
(* retried, with the amount of one of its attempts.                        *)
ChargedIsSettled ==
    \A c \in SettlementCorrelations :
        /\ ledger[c] # SettlementNone
        /\ \A a \in Tried(c) : a \notin queue \cup late /\ deliveries[a] = {}
        => settlement[c] \in {Micros[a] : a \in Tried(c)}

(* A report in the outbox is taken in the end, unless the ledger has a     *)
(* different report of its correlation.                                    *)
ReportTaken == \A a \in Attempts : a \in queue ~> a \notin queue \/ Conflict(a)

(* The budget's counter and the ledger agree, however often, late and in   *)
(* whichever order the processor and the platform settle a request.        *)
SettlementSafe ==
    /\ SettlementTypeOK /\ WindowCost /\ ChargedIsSettled

=============================================================================
