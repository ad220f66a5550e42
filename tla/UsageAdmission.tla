--------------------------- MODULE UsageAdmission ---------------------------
(***************************************************************************)
(* Usage admission in the gateway's data plane.  The authorizer asks       *)
(* Valkey to admit a request under every policy that matches it, consumes  *)
(* the request's execution grant and hands the concurrency leases over to  *)
(* the processor, which releases them when the stream is over.  Counters,  *)
(* lease indexes and the grant's key expire; a script runs atomically.     *)
(*                                                                         *)
(* Attempts of one correlation are retries of one request.  All policies   *)
(* match all of them.  The record of an operation is kept for a day, which *)
(* is longer than any behaviour here.  Cost budgets are in                 *)
(* UsageSettlement: admission reserves nothing of them.                    *)
(***************************************************************************)
EXTENDS Integers, FiniteSets

CONSTANTS
    Attempts,                                   \* requests that reach the authorizer
    Correlations, Corr,                         \* the correlation of an attempt
    Confirmed,                                  \* attempts that need the execution grant
    Policies,                                   \* 1..n, in the order of their references
    QuotaLimit, ConcurrencyLimit, CreditLimit,  \* per policy; -1: no such limit
    Allocation,                                 \* per policy, the credit allocation it draws on
    Credits,                                    \* credits_per_admitted_request
    QuotaWindow, LeaseTtl, GrantExpiry,
    MaxRevision,                                \* bound on policy revisions
    MaxClock,                                   \* bound on time
    MaxFaults,                                  \* bound on failures of the store, the observer and the processes
    UsageNone

UsageLimits == [Policies -> Nat \cup {-1}]

ASSUME UsageAssumption ==
    /\ Corr \in [Attempts -> Correlations] /\ Confirmed \subseteq Attempts
    /\ IsFiniteSet(Policies) /\ Policies \subseteq Nat
    /\ QuotaLimit \in UsageLimits /\ ConcurrencyLimit \in UsageLimits /\ CreditLimit \in UsageLimits
    /\ Credits \in Nat /\ QuotaWindow \in Nat \ {0} /\ LeaseTtl \in Nat \ {0} /\ GrantExpiry \in Nat
    /\ MaxRevision \in Nat \ {0} /\ MaxClock \in Nat /\ MaxFaults \in Nat
    /\ UsageNone \notin Attempts \cup Correlations

VARIABLES
    clock,
    revision,      \* the policies' revision in the current bundle
    quota,         \* counter of a policy, a revision and a window
    concurrency,   \* counter of a policy and a revision
    credit,        \* counter of an allocation
    index,         \* of a lease, when its index expires; 0 when there is none
    released,      \* leases that releaseConcurrency has deleted
    ops,           \* of an operation, the attempt that it was admitted for
    usageGrant,    \* the grant's key: the correlation that consumed it
    uses,          \* attempts that consumed the grant, and when
    pc, rev, now,  \* of an attempt: where it is, its bundle's revision, its time
    held,          \* the attempt whose leases the attempt carries
    admittedAt,    \* when the script admitted the attempt
    faults

usageVars == <<clock, revision, quota, concurrency, credit, index, released, ops, usageGrant, uses,
               pc, rev, now, held, admittedAt, faults>>

Revisions == 1..MaxRevision
Bucket(t) == t \div QuotaWindow
Buckets == 0..Bucket(MaxClock)
Allocations == {Allocation[p] : p \in Policies}
Leases == Attempts \X Policies
Absent == [n |-> 0, exp |-> 0]
Counter == [n : Nat, exp : Nat]
UsageKeys == Policies \X Revisions
QuotaKeys == Policies \X Revisions \X Buckets
Operations == Correlations \X Revisions

UsageTypeOK ==
    /\ clock \in 0..MaxClock /\ revision \in Revisions
    /\ quota \in [QuotaKeys -> Counter] /\ concurrency \in [UsageKeys -> Counter]
    /\ credit \in [Allocations -> Nat] /\ index \in [Leases -> Nat] /\ released \subseteq Leases
    /\ ops \in [Operations -> Attempts \cup {UsageNone}]
    /\ usageGrant \in [by : Correlations \cup {UsageNone}, exp : Nat] /\ uses \subseteq Attempts \X Nat
    /\ pc \in [Attempts -> {"new", "admit", "rejected", "oauth", "grant", "observe", "denied",
                            "process", "release", "gone", "done"}]
    /\ rev \in [Attempts -> Revisions] /\ now \in [Attempts -> 0..MaxClock]
    /\ held \in [Attempts -> Attempts \cup {UsageNone}] /\ admittedAt \in [Attempts -> 0..MaxClock]
    /\ faults \in 0..MaxFaults

UsageInit ==
    /\ clock = 0 /\ revision = 1
    /\ quota = [k \in QuotaKeys |-> Absent] /\ concurrency = [k \in UsageKeys |-> Absent]
    /\ credit = [l \in Allocations |-> 0] /\ index = [l \in Leases |-> 0] /\ released = {}
    /\ ops = [o \in Operations |-> UsageNone] /\ usageGrant = [by |-> UsageNone, exp |-> 0] /\ uses = {}
    /\ pc = [a \in Attempts |-> "new"] /\ rev = [a \in Attempts |-> 1] /\ now = [a \in Attempts |-> 0]
    /\ held = [a \in Attempts |-> UsageNone] /\ admittedAt = [a \in Attempts |-> 0]
    /\ faults = 0

Goto(a, p) == pc' = [pc EXCEPT ![a] = p]
Fault == faults < MaxFaults /\ faults' = faults + 1

counterVars == <<quota, concurrency, credit, index, ops>>
otherVars == <<clock, revision, released, usageGrant, uses, rev, now>>

(* The authorizer reads the request, the bundle and the time.  A grant     *)
(* must not have expired by then.                                          *)
Begin(a) ==
    /\ pc[a] = "new" /\ (a \in Confirmed => clock < GrantExpiry)
    /\ Goto(a, "admit")
    /\ rev' = [rev EXCEPT ![a] = revision] /\ now' = [now EXCEPT ![a] = clock]
    /\ UNCHANGED <<counterVars, clock, revision, released, usageGrant, uses, held, admittedAt, faults>>

Operation(a) == <<Corr[a], rev[a]>>
QuotaKey(a, p) == <<p, rev[a], Bucket(now[a])>>
ConcurrencyKey(a, p) == <<p, rev[a]>>

(* Only the first policy of an allocation debits it.                       *)
Debits(p) == ~\E q \in Policies : q < p /\ Allocation[q] = Allocation[p] /\ CreditLimit[q] >= 0
CreditAmount(p) == IF Debits(p) THEN Credits ELSE 0

Exhausted(a, p) ==
    \/ QuotaLimit[p] >= 0 /\ quota[QuotaKey(a, p)].n >= QuotaLimit[p]
    \/ ConcurrencyLimit[p] >= 0 /\ concurrency[ConcurrencyKey(a, p)].n >= ConcurrencyLimit[p]
    \/ CreditLimit[p] >= 0 /\ credit[Allocation[p]] + CreditAmount(p) > CreditLimit[p]

(* Mutant: the expiry is a second short.                                   *)
CountOneShort(f, K, ttl) ==
    [k \in DOMAIN f |-> IF k \in K THEN [n |-> f[k].n + 1, exp |-> clock + ttl - 1] ELSE f[k]]

CountOne(f, K, ttl) ==
    [k \in DOMAIN f |-> IF k \in K THEN [n |-> f[k].n + 1, exp |-> clock + ttl] ELSE f[k]]

Debit(a) ==
    LET limited == {p \in Policies : ConcurrencyLimit[p] >= 0}
        debiting(l) == {p \in Policies : CreditLimit[p] >= 0 /\ Allocation[p] = l /\ Debits(p)}
    IN  /\ quota' = CountOne(quota, {QuotaKey(a, p) : p \in {q \in Policies : QuotaLimit[q] >= 0}}, QuotaWindow)
        /\ concurrency' = CountOne(concurrency, {ConcurrencyKey(a, p) : p \in limited}, LeaseTtl)
        /\ index' = [l \in Leases |-> IF l \in {a} \X limited THEN clock + LeaseTtl ELSE index[l]]
        /\ credit' = [l \in Allocations |-> credit[l] + Credits * Cardinality(debiting(l))]
        /\ ops' = [ops EXCEPT ![Operation(a)] = a]
        /\ admittedAt' = [admittedAt EXCEPT ![a] = clock]

(* admissionScript: an operation that was admitted before is admitted with *)
(* the leases of then, whatever became of them.                            *)
AdmissionScript(a) ==
    \/ /\ ops[Operation(a)] # UsageNone
       /\ UNCHANGED <<counterVars, admittedAt>>
    \/ /\ ops[Operation(a)] = UsageNone /\ \A p \in Policies : ~Exhausted(a, p)
       /\ Debit(a)

Admit(a) ==
    /\ pc[a] = "admit" /\ AdmissionScript(a)
    /\ Goto(a, "oauth") /\ held' = [held EXCEPT ![a] = ops'[Operation(a)]]
    /\ UNCHANGED <<otherVars, faults>>

UsageReject(a) ==
    /\ pc[a] = "admit" /\ ops[Operation(a)] = UsageNone /\ \E p \in Policies : Exhausted(a, p)
    /\ Goto(a, "rejected")
    /\ UNCHANGED <<counterVars, otherVars, held, admittedAt, faults>>

(* STORE_UNAVAILABLE: the script may have run.                             *)
AdmitLost(a) ==
    /\ pc[a] = "admit" /\ Fault
    /\ AdmissionScript(a) \/ UNCHANGED <<counterVars, admittedAt>>
    /\ Goto(a, "rejected")
    /\ UNCHANGED <<otherVars, held>>

(* The answer is a denial: no step gives the leases back.                  *)
Deny(a) == Goto(a, "denied") /\ UNCHANGED <<counterVars, clock, revision, released, rev, now, held, admittedAt>>

ResolveOAuth(a) ==
    /\ pc[a] = "oauth"
    /\ Goto(a, IF a \in Confirmed THEN "grant" ELSE "observe")
    /\ UNCHANGED <<counterVars, otherVars, held, admittedAt, faults>>

OAuthFails(a) == pc[a] = "oauth" /\ Fault /\ Deny(a) /\ UNCHANGED <<usageGrant, uses>>

Take(a) ==
    /\ usageGrant.by \in {UsageNone, Corr[a]}
    /\ usageGrant' = IF usageGrant.by = UsageNone
                THEN [by |-> Corr[a], exp |-> clock + (IF GrantExpiry - now[a] > 1 THEN GrantExpiry - now[a] ELSE 1)]
                ELSE usageGrant

Consume(a) ==
    /\ pc[a] = "grant" /\ Take(a)
    /\ uses' = uses \cup {<<a, clock>>} /\ Goto(a, "observe")
    /\ UNCHANGED <<counterVars, clock, revision, released, rev, now, held, admittedAt, faults>>

AlreadyConsumed(a) ==
    /\ pc[a] = "grant" /\ usageGrant.by \notin {UsageNone, Corr[a]} /\ Deny(a)
    /\ UNCHANGED <<usageGrant, uses, faults>>

ConsumeLost(a) ==
    /\ pc[a] = "grant" /\ Fault /\ Deny(a)
    /\ Take(a) \/ UNCHANGED usageGrant
    /\ UNCHANGED uses

Observe(a) ==
    /\ pc[a] = "observe" /\ Goto(a, "process")
    /\ UNCHANGED <<counterVars, otherVars, held, admittedAt, faults>>

ObserveFails(a) == pc[a] = "observe" /\ Fault /\ Deny(a) /\ UNCHANGED <<usageGrant, uses>>

(* The client is gone before the processor's stream, or the processor ends.*)
Vanish(a) ==
    /\ pc[a] = "process" /\ Fault /\ Goto(a, "gone")
    /\ UNCHANGED <<counterVars, otherVars, held, admittedAt>>

(* The stream ended, failed or was cancelled.                              *)
EndStream(a) ==
    /\ pc[a] = "process" /\ Goto(a, "release")
    /\ UNCHANGED <<counterVars, otherVars, held, admittedAt, faults>>

(* releaseScript, for a lease of the attempt whose index is still there.   *)
ReleaseLease(a, p) ==
    LET l == <<held[a], p>>
        k == <<p, rev[held[a]]>>
    IN  /\ pc[a] = "release" /\ index[l] # 0
        /\ index' = [index EXCEPT ![l] = 0] /\ released' = released \cup {l}
        /\ concurrency' = [concurrency EXCEPT ![k].n = IF @ > 0 THEN @ - 1 ELSE 0]
        /\ UNCHANGED <<clock, revision, quota, credit, ops, usageGrant, uses, pc, rev, now, held, admittedAt, faults>>

ReleaseEnds(a) ==
    /\ pc[a] = "release" /\ \A p \in Policies : index[<<held[a], p>>] = 0
    /\ Goto(a, "done")
    /\ UNCHANGED <<counterVars, otherVars, held, admittedAt, faults>>

ReleaseFails(a) ==
    /\ pc[a] = "release" /\ Fault /\ Goto(a, "done")
    /\ UNCHANGED <<counterVars, otherVars, held, admittedAt>>

(* createPolicyRevision, as the next bundle brings it.                     *)
Revise ==
    /\ revision < MaxRevision /\ revision' = revision + 1
    /\ UNCHANGED <<counterVars, clock, released, usageGrant, uses, pc, rev, now, held, admittedAt, faults>>

Lapse(f) == [k \in DOMAIN f |-> IF f[k].exp <= clock + 1 THEN Absent ELSE f[k]]

Tick ==
    /\ clock < MaxClock /\ clock' = clock + 1
    /\ quota' = Lapse(quota) /\ concurrency' = Lapse(concurrency)
    /\ index' = [l \in Leases |-> IF index[l] <= clock + 1 THEN 0 ELSE index[l]]
    /\ usageGrant' = IF usageGrant.exp <= clock + 1 THEN [by |-> UsageNone, exp |-> 0] ELSE usageGrant
    /\ UNCHANGED <<revision, credit, released, ops, uses, pc, rev, now, held, admittedAt, faults>>

UsageNext ==
    \/ Revise \/ Tick
    \/ \E a \in Attempts :
        \/ Begin(a) \/ Admit(a) \/ UsageReject(a) \/ AdmitLost(a)
        \/ ResolveOAuth(a) \/ OAuthFails(a) \/ Consume(a) \/ AlreadyConsumed(a) \/ ConsumeLost(a)
        \/ Observe(a) \/ ObserveFails(a) \/ Vanish(a) \/ EndStream(a)
        \/ ReleaseEnds(a) \/ ReleaseFails(a)
        \/ \E p \in Policies : ReleaseLease(a, p)

UsageSpec == UsageInit /\ [][UsageNext]_usageVars

-----------------------------------------------------------------------------
Admitted == {o \in Operations : ops[o] # UsageNone}

(* In every window of a policy's quota at most as many operations are      *)
(* admitted as it allows, whatever was retried and however late the        *)
(* counter is read: its expiry never resets it within its window.  An      *)
(* admission whose script runs after the request's own window is left out. *)
QuotaHeld ==
    \A p \in Policies, r \in Revisions, b \in Buckets : QuotaLimit[p] >= 0 =>
        Cardinality({o \in Admitted : /\ o[2] = r /\ Bucket(now[ops[o]]) = b
                                      /\ Bucket(admittedAt[ops[o]]) = b}) <= QuotaLimit[p]

Retried(a) == \E b \in Attempts \ {a} : Corr[b] = Corr[a] /\ pc[b] # "new"

(* Requests in the processor under one revision of a policy never exceed   *)
(* its concurrency limit, counting those that are not retries and have not *)
(* outlived their lease: an expired counter forgets no lease that counts.  *)
ConcurrencyHeld ==
    \A k \in UsageKeys : ConcurrencyLimit[k[1]] >= 0 =>
        Cardinality({a \in Attempts : /\ pc[a] = "process" /\ rev[a] = k[2] /\ ~Retried(a)
                                      /\ clock < admittedAt[a] + LeaseTtl}) <= ConcurrencyLimit[k[1]]

Live(k) == {l \in Leases : l[2] = k[1] /\ rev[l[1]] = k[2] /\ index[l] # 0}
Lapsed(k) == {l \in Leases : /\ l[2] = k[1] /\ rev[l[1]] = k[2] /\ <<Corr[l[1]], k[2]>> \in Admitted
                             /\ ops[<<Corr[l[1]], k[2]>>] = l[1] /\ index[l] = 0 /\ l \notin released}

(* The counter of a policy is between its live leases and those and the    *)
(* ones that expired before they were released: a slot is given back once, *)
(* whoever releases it, and only a lease that lapses leaks one.            *)
SlotsAccounted ==
    \A k \in UsageKeys : ConcurrencyLimit[k[1]] >= 0 =>
        /\ Cardinality(Live(k)) <= concurrency[k].n
        /\ concurrency[k].n <= Cardinality(Live(k)) + Cardinality(Lapsed(k))

(* An allocation is debited once for an admitted operation, across the     *)
(* policies that draw on it, retries and answers that were lost.           *)
DebitedOnce ==
    \A l \in Allocations : (\E p \in Policies : Allocation[p] = l /\ CreditLimit[p] >= 0) =>
        credit[l] = Credits * Cardinality(Admitted)

(* An execution grant that is consumed before it expires is consumed by    *)
(* one correlation only.                                                   *)
GrantOnceInTime ==
    \A u, v \in uses : u[2] < GrantExpiry /\ v[2] < GrantExpiry => Corr[u[1]] = Corr[v[1]]

(* Quotas, concurrency limits, credits and the execution grant hold        *)
(* together through retries, lost answers of the store, expired keys and   *)
(* new revisions of the policies.                                          *)
AdmissionSafe ==
    /\ UsageTypeOK /\ QuotaHeld /\ ConcurrencyHeld /\ SlotsAccounted /\ DebitedOnce
    /\ GrantOnceInTime

=============================================================================
