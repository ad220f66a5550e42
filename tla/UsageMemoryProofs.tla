------------------------- MODULE UsageMemoryProofs -------------------------
(***************************************************************************)
(* Usage admission, for every set of attempts, every number of policies    *)
(* and every limit: the counters of the store bound what was admitted      *)
(* however late a script runs, and a lease is carried by the attempts of   *)
(* its operation until it is released or lapses.                           *)
(*                                                                         *)
(* The shared memories, for every number of requests and of memories and   *)
(* every set of users and agents: each write adds the one entry to the log *)
(* that continues the history of its memory.                               *)
(***************************************************************************)
EXTENDS UsageAdmission, SharedMemories, FiniteSetTheorems, WellFoundedInduction, TLAPS

-----------------------------------------------------------------------------
(* Usage admission: the invariant *)

\* What a step relies on, beside the types: an attempt that has begun keeps its
\* revision and its time, and there are finitely many of them.
Started == {a \in Attempts : pc[a] # "new"}

TimesPast ==
    /\ IsFiniteSet(Started)
    /\ \A a \in Attempts : now[a] <= clock /\ admittedAt[a] <= clock

\* An operation was admitted for an attempt of its own correlation and revision.
OwnerOf(o) ==
    ops[o] # UsageNone => /\ Operation(ops[o]) = o
                          /\ pc[ops[o]] \notin {"new", "admit"}
Owners == \A o \in Operations : OwnerOf(o)

Owns(a) == ops[Operation(a)] = a

\* An attempt that was admitted carries the leases of its operation.
Carried ==
    \A a \in Attempts : pc[a] \notin {"new", "admit", "rejected"} =>
        held[a] \in Attempts /\ held[a] = ops[Operation(a)]

Limited == {p \in Policies : ConcurrencyLimit[p] >= 0}

\* A lease is of the attempt that its operation was admitted for and has the
\* time it was given; it is gone only when it lapsed or was released, by an
\* attempt that carried it.
LeaseOf(a, p) ==
    /\ index[<<a, p>>] # 0 => /\ Owns(a) /\ p \in Limited /\ <<a, p>> \notin released
                              /\ index[<<a, p>>] = admittedAt[a] + LeaseTtl
    /\ Owns(a) /\ p \in Limited =>
          index[<<a, p>>] # 0 \/ <<a, p>> \in released \/ admittedAt[a] + LeaseTtl <= clock
    /\ <<a, p>> \in released => /\ Owns(a)
                                /\ \E b \in Attempts : pc[b] \in {"release", "done"} /\ Corr[b] = Corr[a]
LeasesKept == \A a \in Attempts, p \in Policies : LeaseOf(a, p)

\* The counter of a policy outlives its leases.
SlotsOf(k) ==
    /\ concurrency[k].n <= ConcurrencyLimit[k[1]]
    /\ \A l \in Live(k) : index[l] <= concurrency[k].exp
    /\ Cardinality(Live(k)) <= concurrency[k].n
    /\ concurrency[k].n <= Cardinality(Live(k)) + Cardinality(Lapsed(k))
SlotsKept == \A k \in UsageKeys : ConcurrencyLimit[k[1]] >= 0 => SlotsOf(k)

\* The operations that count in a window; while it lasts, the counter has all
\* of them and does not expire.
InWindow(r, b) ==
    {o \in Admitted : o[2] = r /\ Bucket(now[ops[o]]) = b /\ Bucket(admittedAt[ops[o]]) = b}
WindowOf(p, r, b) ==
    /\ Cardinality(InWindow(r, b)) <= QuotaLimit[p]
    /\ Bucket(clock) = b /\ InWindow(r, b) # {} =>
          /\ Cardinality(InWindow(r, b)) <= quota[<<p, r, b>>].n
          /\ \A t \in Nat : Bucket(t) = b => t < quota[<<p, r, b>>].exp
WindowsKept == \A p \in Policies, r \in Revisions, b \in Buckets : QuotaLimit[p] >= 0 => WindowOf(p, r, b)

CreditKept == IsFiniteSet(Admitted) /\ DebitedOnce

\* A grant that was taken is not lost before it expires.
GrantKept ==
    /\ usageGrant.by # UsageNone => usageGrant.exp >= GrantExpiry
    /\ clock < GrantExpiry => \A u \in uses : usageGrant.by = Corr[u[1]]
    /\ GrantOnceInTime

UsageInv ==
    /\ UsageTypeOK /\ TimesPast /\ Owners /\ Carried /\ LeasesKept /\ SlotsKept
    /\ WindowsKept /\ CreditKept /\ GrantKept

-----------------------------------------------------------------------------
\* A window is no longer than its length, and time goes through the windows in
\* their order.
LEMMA WindowLength ==
    ASSUME NEW t \in Nat, NEW u \in Nat, t <= u, Bucket(t) = Bucket(u)
    PROVE  u < t + QuotaWindow
  BY UsageAssumption DEF Bucket

LEMMA WindowOrder ==
    ASSUME NEW t \in Nat, NEW u \in Nat, t <= u
    PROVE  Bucket(t) \in Nat /\ Bucket(u) \in Nat /\ Bucket(t) <= Bucket(u)
  BY UsageAssumption DEF Bucket

\* The windows and the keys of an attempt.
LEMMA KeysOf ==
    ASSUME UsageTypeOK, NEW a \in Attempts
    PROVE  /\ Bucket(now[a]) \in Buckets /\ Bucket(clock) \in Buckets /\ Bucket(admittedAt[a]) \in Buckets
           /\ Operation(a) \in Operations /\ Operation(a) = <<Corr[a], rev[a]>>
           /\ Operation(a)[1] = Corr[a] /\ Operation(a)[2] = rev[a] /\ rev[a] \in Revisions
           /\ ops[Operation(a)] \in Attempts \cup {UsageNone} /\ UsageNone \notin Attempts
           /\ clock \in Nat /\ now[a] \in Nat /\ admittedAt[a] \in Nat
<1>1. /\ now[a] \in 0..MaxClock /\ admittedAt[a] \in 0..MaxClock /\ clock \in 0..MaxClock /\ MaxClock \in Nat
      /\ rev[a] \in Revisions /\ Corr[a] \in Correlations
  BY UsageAssumption DEF UsageTypeOK
<1>2. Bucket(now[a]) \in Buckets /\ Bucket(clock) \in Buckets /\ Bucket(admittedAt[a]) \in Buckets
  <2>1. \A t \in 0..MaxClock : Bucket(t) \in Nat /\ Bucket(t) <= Bucket(MaxClock) /\ Bucket(MaxClock) \in Nat
    BY <1>1, WindowOrder
  <2> QED
    BY <1>1, <2>1 DEF Buckets
<1>3. Operation(a) \in Operations /\ Operation(a) = <<Corr[a], rev[a]>>
  BY <1>1 DEF Operation, Operations
<1>4. ops[Operation(a)] \in Attempts \cup {UsageNone} /\ UsageNone \notin Attempts
  BY <1>3, UsageAssumption DEF UsageTypeOK
<1> QED
  BY <1>1, <1>2, <1>3, <1>4

-----------------------------------------------------------------------------
(* Types *)

LEMMA UsageInitTypes == UsageInit => UsageTypeOK
  BY UsageAssumption DEF UsageInit, UsageTypeOK, Revisions, Counter, Absent

LEMMA CountTypes ==
    ASSUME NEW D, NEW f \in [D -> Counter], NEW K, NEW ttl \in Nat, clock \in Nat
    PROVE  CountOne(f, K, ttl) \in [D -> Counter]
<1>1. \A k \in D : f[k] \in Counter /\ f[k].n \in Nat
  BY DEF Counter
<1>2. \A k \in D : [n |-> f[k].n + 1, exp |-> clock + ttl] \in Counter
  BY <1>1 DEF Counter
<1> QED
  BY <1>1, <1>2 DEF CountOne

LEMMA DebitTypes ==
    ASSUME UsageTypeOK, NEW a \in Attempts, Debit(a)
    PROVE  /\ quota' \in [QuotaKeys -> Counter] /\ concurrency' \in [UsageKeys -> Counter]
           /\ credit' \in [Allocations -> Nat] /\ index' \in [Leases -> Nat]
           /\ ops' \in [Operations -> Attempts \cup {UsageNone}] /\ admittedAt' \in [Attempts -> 0..MaxClock]
<1>1. clock \in Nat /\ clock \in 0..MaxClock /\ QuotaWindow \in Nat /\ LeaseTtl \in Nat /\ Credits \in Nat
  BY UsageAssumption DEF UsageTypeOK
<1>2. quota' \in [QuotaKeys -> Counter] /\ concurrency' \in [UsageKeys -> Counter]
  BY <1>1, CountTypes DEF Debit, UsageTypeOK
<1>3. index' \in [Leases -> Nat]
  BY <1>1 DEF Debit, UsageTypeOK
<1>4. credit' \in [Allocations -> Nat]
  <2> DEFINE D(l) == {p \in Policies : CreditLimit[p] >= 0 /\ Allocation[p] = l /\ Debits(p)}
  <2>1. \A l \in Allocations : Cardinality(D(l)) \in Nat
    <3> SUFFICES ASSUME NEW l \in Allocations PROVE Cardinality(D(l)) \in Nat
      OBVIOUS
    <3>1. IsFiniteSet(Policies) /\ D(l) \in SUBSET Policies
      BY UsageAssumption
    <3> QED
      BY <3>1, FS_Subset, FS_CardinalityType
  <2>2. credit' = [l \in Allocations |-> credit[l] + Credits * Cardinality(D(l))]
    BY DEF Debit
  <2> HIDE DEF D
  <2>3. \A l \in Allocations : credit[l] \in Nat /\ Credits * Cardinality(D(l)) \in Nat
    BY <1>1, <2>1 DEF UsageTypeOK
  <2>4. \A l \in Allocations : credit[l] + Credits * Cardinality(D(l)) \in Nat
    BY <2>3
  <2> QED
    BY <2>2, <2>4
<1>5. ops' \in [Operations -> Attempts \cup {UsageNone}] /\ admittedAt' \in [Attempts -> 0..MaxClock]
  BY <1>1 DEF Debit, UsageTypeOK
<1> QED
  BY <1>2, <1>3, <1>4, <1>5

LEMMA ScriptTypes ==
    ASSUME UsageTypeOK, NEW a \in Attempts, AdmissionScript(a) \/ UNCHANGED <<counterVars, admittedAt>>
    PROVE  /\ quota' \in [QuotaKeys -> Counter] /\ concurrency' \in [UsageKeys -> Counter]
           /\ credit' \in [Allocations -> Nat] /\ index' \in [Leases -> Nat]
           /\ ops' \in [Operations -> Attempts \cup {UsageNone}] /\ admittedAt' \in [Attempts -> 0..MaxClock]
<1>1. CASE Debit(a)
  BY <1>1, DebitTypes
<1>2. CASE UNCHANGED <<counterVars, admittedAt>>
  BY <1>2 DEF counterVars, UsageTypeOK
<1> QED
  BY <1>1, <1>2 DEF AdmissionScript

LEMMA TakeTypes ==
    ASSUME UsageTypeOK, NEW a \in Attempts, Take(a)
    PROVE  /\ usageGrant' \in [by : Correlations \cup {UsageNone}, exp : Nat]
           /\ usageGrant'.by = Corr[a]
           /\ usageGrant.by = UsageNone => usageGrant'.exp \in Nat /\ usageGrant'.exp >= clock + GrantExpiry - now[a]
           /\ usageGrant.by # UsageNone => usageGrant' = usageGrant
<1>1. clock \in Nat /\ now[a] \in Nat /\ GrantExpiry \in Nat /\ Corr[a] \in Correlations
  BY UsageAssumption DEF UsageTypeOK
<1>2. PICK e \in Nat : e = clock + (IF GrantExpiry - now[a] > 1 THEN GrantExpiry - now[a] ELSE 1)
  BY <1>1
<1>3. e >= clock + GrantExpiry - now[a]
  BY <1>1, <1>2
<1>4. CASE usageGrant.by = UsageNone
  BY <1>1, <1>2, <1>3, <1>4 DEF Take
<1>5. CASE usageGrant.by # UsageNone
  BY <1>5 DEF Take, UsageTypeOK
<1> QED
  BY <1>4, <1>5

\* The steps of an attempt that only move it on.
Moves(a, s) ==
    /\ pc[a] \notin {"new", "admit"} /\ s \notin {"new", "admit", "rejected"}
    /\ pc[a] \in {"release", "done"} => s \in {"release", "done"}
    /\ pc[a] # "rejected"
    /\ Goto(a, s)
    /\ UNCHANGED <<counterVars, clock, revision, released, rev, now, held, admittedAt>>

LEMMA MovesOf ==
    ASSUME NEW a \in Attempts,
           \/ ResolveOAuth(a) \/ OAuthFails(a) \/ Consume(a) \/ AlreadyConsumed(a) \/ ConsumeLost(a)
           \/ Observe(a) \/ ObserveFails(a) \/ Vanish(a) \/ EndStream(a) \/ ReleaseEnds(a) \/ ReleaseFails(a)
    PROVE  \E s \in {"grant", "observe", "denied", "process", "release", "gone", "done"} : Moves(a, s)
<1>1. CASE ResolveOAuth(a)
  BY <1>1 DEF ResolveOAuth, Moves, otherVars
<1>2. CASE OAuthFails(a) \/ AlreadyConsumed(a) \/ ConsumeLost(a) \/ ObserveFails(a)
  BY <1>2 DEF OAuthFails, AlreadyConsumed, ConsumeLost, ObserveFails, Deny, Moves, otherVars
<1>3. CASE Consume(a) \/ Observe(a) \/ Vanish(a)
  BY <1>3 DEF Consume, Observe, Vanish, Moves, otherVars
<1>4. CASE EndStream(a) \/ ReleaseEnds(a) \/ ReleaseFails(a)
  BY <1>4 DEF EndStream, ReleaseEnds, ReleaseFails, Moves, otherVars
<1> QED
  BY <1>1, <1>2, <1>3, <1>4

\* What becomes of the grant and of the faults in those steps.
LEMMA GrantSteps ==
    ASSUME NEW a \in Attempts,
           \/ ResolveOAuth(a) \/ OAuthFails(a) \/ Consume(a) \/ AlreadyConsumed(a) \/ ConsumeLost(a)
           \/ Observe(a) \/ ObserveFails(a) \/ Vanish(a) \/ EndStream(a) \/ ReleaseEnds(a) \/ ReleaseFails(a)
    PROVE  /\ \/ UNCHANGED <<usageGrant, uses>>
              \/ Take(a) /\ (UNCHANGED uses \/ uses' = uses \cup {<<a, clock>>})
           /\ UNCHANGED faults \/ Fault
<1>1. CASE ResolveOAuth(a) \/ Observe(a) \/ Vanish(a) \/ EndStream(a) \/ ReleaseEnds(a) \/ ReleaseFails(a)
  BY <1>1 DEF ResolveOAuth, Observe, Vanish, EndStream, ReleaseEnds, ReleaseFails, otherVars
<1>2. CASE OAuthFails(a) \/ AlreadyConsumed(a) \/ ConsumeLost(a) \/ ObserveFails(a) \/ Consume(a)
  BY <1>2 DEF OAuthFails, AlreadyConsumed, ConsumeLost, ObserveFails, Consume
<1> QED
  BY <1>1, <1>2

LEMMA FaultTypes ==
    ASSUME UsageTypeOK, UNCHANGED faults \/ Fault
    PROVE  faults' \in 0..MaxFaults
  BY UsageAssumption DEF UsageTypeOK, Fault

LEMMA UsageTypesStep ==
    ASSUME UsageTypeOK, Carried, LeasesKept, [UsageNext]_usageVars
    PROVE  UsageTypeOK'
<1>1. CASE UNCHANGED usageVars
  BY <1>1 DEF usageVars, UsageTypeOK
<1>2. CASE Revise
  <2>1. revision' \in Revisions
    BY <1>2, UsageAssumption DEF Revise, UsageTypeOK, Revisions
  <2> QED
    BY <1>2, <2>1 DEF Revise, UsageTypeOK, counterVars
<1>3. CASE Tick
  <2>1. clock' \in 0..MaxClock
    BY <1>3, UsageAssumption DEF Tick, UsageTypeOK
  <2>2. quota' \in [QuotaKeys -> Counter] /\ concurrency' \in [UsageKeys -> Counter]
    <3>1. Absent \in Counter
      BY DEF Absent, Counter
    <3> QED
      BY <1>3, <3>1 DEF Tick, Lapse, UsageTypeOK
  <2>3. index' \in [Leases -> Nat]
    BY <1>3 DEF Tick, UsageTypeOK
  <2>4. usageGrant' \in [by : Correlations \cup {UsageNone}, exp : Nat]
    BY <1>3 DEF Tick, UsageTypeOK
  <2> QED
    BY <1>3, <2>1, <2>2, <2>3, <2>4 DEF Tick, UsageTypeOK
<1>4. ASSUME NEW a \in Attempts, Begin(a)
      PROVE  UsageTypeOK'
  BY <1>4 DEF Begin, Goto, UsageTypeOK, counterVars
<1>5. ASSUME NEW a \in Attempts, Admit(a)
      PROVE  UsageTypeOK'
  <2>1. AdmissionScript(a)
    BY <1>5 DEF Admit
  <2>2. ops'[Operation(a)] \in Attempts \cup {UsageNone}
    BY <2>1, ScriptTypes, KeysOf
  <2>3. held' \in [Attempts -> Attempts \cup {UsageNone}]
    BY <1>5, <2>2 DEF Admit, UsageTypeOK
  <2>4. pc' \in [Attempts -> {"new", "admit", "rejected", "oauth", "grant", "observe", "denied",
                            "process", "release", "gone", "done"}]
    BY <1>5 DEF Admit, UsageTypeOK, Goto
  <2> QED
    BY <1>5, <2>1, <2>3, <2>4, ScriptTypes DEF Admit, UsageTypeOK, otherVars
<1>6. ASSUME NEW a \in Attempts, UsageReject(a)
      PROVE  UsageTypeOK'
  BY <1>6 DEF UsageReject, Goto, UsageTypeOK, counterVars, otherVars
<1>7. ASSUME NEW a \in Attempts, AdmitLost(a)
      PROVE  UsageTypeOK'
  <2>1. AdmissionScript(a) \/ UNCHANGED <<counterVars, admittedAt>>
    BY <1>7 DEF AdmitLost
  <2>2. faults' \in 0..MaxFaults
    BY <1>7, FaultTypes DEF AdmitLost
  <2>3. pc' \in [Attempts -> {"new", "admit", "rejected", "oauth", "grant", "observe", "denied",
                            "process", "release", "gone", "done"}]
    BY <1>7 DEF AdmitLost, UsageTypeOK, Goto
  <2> QED
    BY <1>7, <2>1, <2>2, <2>3, ScriptTypes DEF AdmitLost, UsageTypeOK, otherVars
<1>8. ASSUME NEW a \in Attempts,
             \/ ResolveOAuth(a) \/ OAuthFails(a) \/ Consume(a) \/ AlreadyConsumed(a) \/ ConsumeLost(a)
             \/ Observe(a) \/ ObserveFails(a) \/ Vanish(a) \/ EndStream(a) \/ ReleaseEnds(a) \/ ReleaseFails(a)
      PROVE  UsageTypeOK'
  <2>1. PICK s \in {"grant", "observe", "denied", "process", "release", "gone", "done"} : Moves(a, s)
    BY <1>8, MovesOf
  <2>2. faults' \in 0..MaxFaults
    BY <1>8, GrantSteps, FaultTypes
  <2>3. usageGrant' \in [by : Correlations \cup {UsageNone}, exp : Nat]
    <3>1. CASE UNCHANGED usageGrant
      BY <3>1 DEF UsageTypeOK
    <3>2. CASE Take(a)
      BY <3>2, TakeTypes
    <3> QED
      BY <1>8, <3>1, <3>2, GrantSteps
  <2>4. uses' \subseteq Attempts \X Nat
    <3>1. uses' = uses \/ uses' = uses \cup {<<a, clock>>}
      BY <1>8, GrantSteps
    <3>2. clock \in Nat /\ uses \subseteq Attempts \X Nat
      BY UsageAssumption DEF UsageTypeOK
    <3> QED
      BY <3>1, <3>2
  <2>5. pc' \in [Attempts -> {"new", "admit", "rejected", "oauth", "grant", "observe", "denied",
                            "process", "release", "gone", "done"}]
    BY <2>1 DEF Moves, UsageTypeOK, Goto
  <2> QED
    BY <2>1, <2>2, <2>3, <2>4, <2>5 DEF Moves, UsageTypeOK, counterVars
<1>9. ASSUME NEW a \in Attempts, NEW p \in Policies, ReleaseLease(a, p)
      PROVE  UsageTypeOK'
  <2>1. held[a] \in Attempts
    BY <1>9 DEF ReleaseLease, Carried
  <2>2. rev[held[a]] \in Revisions /\ <<held[a], p>> \in Leases /\ <<p, rev[held[a]]>> \in UsageKeys
    BY <2>1 DEF UsageTypeOK, Leases, UsageKeys
  <2>3. index' \in [Leases -> Nat] /\ released' \subseteq Leases
    BY <1>9, <2>2 DEF ReleaseLease, UsageTypeOK
  <2>4. concurrency' \in [UsageKeys -> Counter]
    <3> DEFINE k == <<p, rev[held[a]]>>
    <3>1. concurrency[k] \in Counter /\ concurrency[k].n \in Nat
      BY <2>2 DEF UsageTypeOK, Counter
    <3>2. PICK m \in Nat : m = IF concurrency[k].n > 0 THEN concurrency[k].n - 1 ELSE 0
      BY <3>1
    <3>3. [concurrency[k] EXCEPT !.n = m] \in Counter
      BY <3>1 DEF Counter
    <3>4. concurrency' = [concurrency EXCEPT ![k] = [@ EXCEPT !.n = m]]
      BY <1>9, <3>2 DEF ReleaseLease
    <3> QED
      BY <2>2, <3>3, <3>4 DEF UsageTypeOK
  <2> QED
    BY <1>9, <2>3, <2>4 DEF ReleaseLease, UsageTypeOK
<1> QED
  BY <1>1, <1>2, <1>3, <1>4, <1>5, <1>6, <1>7, <1>8, <1>9 DEF UsageNext

-----------------------------------------------------------------------------
(* What a step that only moves attempts on leaves as it was *)

\* No lease and no operation is of an attempt that has not begun.
LEMMA NotYet ==
    ASSUME UsageTypeOK, Owners, LeasesKept, NEW a \in Attempts, pc[a] = "new"
    PROVE  /\ \A o \in Operations : ops[o] # a
           /\ \A p \in Policies : index[<<a, p>>] = 0
<1>1. \A o \in Operations : ops[o] # a
  BY UsageAssumption DEF Owners, OwnerOf
<1>2. ~ Owns(a)
  BY <1>1, KeysOf DEF Owns
<1> QED
  BY <1>1, <1>2 DEF LeasesKept, LeaseOf

\* The live and the lapsed leases of a counter.
LEMMA LeaseSets ==
    ASSUME UsageTypeOK, NEW k \in UsageKeys, NEW l \in Leases
    PROVE  /\ l = <<l[1], l[2]>> /\ l[1] \in Attempts /\ l[2] \in Policies
           /\ l \in Live(k) <=> l[2] = k[1] /\ rev[l[1]] = k[2] /\ index[l] # 0
           /\ l \in Lapsed(k) <=> /\ l[2] = k[1] /\ rev[l[1]] = k[2] /\ Owns(l[1])
                                  /\ index[l] = 0 /\ l \notin released
<1>1. l = <<l[1], l[2]>> /\ l[1] \in Attempts /\ l[2] \in Policies
  BY DEF Leases
<1>2. l \in Live(k) <=> l[2] = k[1] /\ rev[l[1]] = k[2] /\ index[l] # 0
  BY DEF Live
<1>3. rev[l[1]] = k[2] => (Owns(l[1]) <=> <<Corr[l[1]], k[2]>> \in Admitted /\ ops[<<Corr[l[1]], k[2]>>] = l[1])
  <2>1. Operation(l[1]) \in Operations /\ Operation(l[1]) = <<Corr[l[1]], rev[l[1]]>> /\ UsageNone \notin Attempts
    BY <1>1, KeysOf
  <2> QED
    BY <1>1, <2>1 DEF Owns, Admitted
<1>4. l \in Lapsed(k) <=> /\ l[2] = k[1] /\ rev[l[1]] = k[2] /\ Owns(l[1])
                          /\ index[l] = 0 /\ l \notin released
  BY <1>3 DEF Lapsed
<1> QED
  BY <1>1, <1>2, <1>4

LEMMA LeasesFinite ==
    ASSUME UsageTypeOK, TimesPast, Owners, LeasesKept, NEW k \in UsageKeys
    PROVE  /\ IsFiniteSet(Live(k)) /\ IsFiniteSet(Lapsed(k))
           /\ Cardinality(Live(k)) \in Nat /\ Cardinality(Lapsed(k)) \in Nat
<1>1. IsFiniteSet(Started \X Policies)
  BY UsageAssumption, FS_Product DEF TimesPast
<1>2. \A l \in Leases : l \in Live(k) \/ l \in Lapsed(k) => l \in Started \X Policies
  <2> SUFFICES ASSUME NEW l \in Leases, l \in Live(k) \/ l \in Lapsed(k)
               PROVE  l \in Started \X Policies
    OBVIOUS
  <2>1. l = <<l[1], l[2]>> /\ l[1] \in Attempts /\ l[2] \in Policies
    BY LeaseSets
  <2>2. Owns(l[1])
    <3>1. LeaseOf(l[1], l[2])
      BY <2>1 DEF LeasesKept
    <3> QED
      BY <2>1, <3>1, LeaseSets DEF LeaseOf
  <2>3. pc[l[1]] # "new"
    BY <2>1, <2>2, KeysOf, NotYet DEF Owns
  <2> QED
    BY <2>1, <2>3 DEF Started
<1>3. Live(k) \in SUBSET (Started \X Policies) /\ Lapsed(k) \in SUBSET (Started \X Policies)
  BY <1>2 DEF Live, Lapsed
<1> QED
  BY <1>1, <1>3, FS_Subset, FS_CardinalityType

\* A step that leaves the store, the time and what was admitted as they are, and
\* the revision and the time of every attempt that has begun.
LEMMA StoreFrame ==
    ASSUME UsageTypeOK, UsageTypeOK', Owners, LeasesKept, SlotsKept, WindowsKept, CreditKept,
           UNCHANGED <<clock, quota, concurrency, credit, index, released, ops, admittedAt>>,
           \A b \in Attempts :
              /\ pc[b] # "new" => rev'[b] = rev[b] /\ now'[b] = now[b]
              /\ pc[b] \notin {"new", "admit"} => pc'[b] \notin {"new", "admit"}
              /\ pc[b] \in {"release", "done"} => pc'[b] \in {"release", "done"}
    PROVE  Owners' /\ LeasesKept' /\ SlotsKept' /\ WindowsKept' /\ CreditKept'
<1>1. ASSUME NEW o \in Operations, ops[o] # UsageNone
      PROVE  /\ ops[o] \in Attempts /\ pc[ops[o]] \notin {"new", "admit"} /\ Operation(ops[o]) = o
             /\ rev'[ops[o]] = rev[ops[o]] /\ now'[ops[o]] = now[ops[o]]
  BY <1>1 DEF Owners, OwnerOf, UsageTypeOK
<1>2. Owners'
  <2> SUFFICES ASSUME NEW o \in Operations, ops[o] # UsageNone
               PROVE  Operation(ops[o])' = o /\ pc'[ops[o]] \notin {"new", "admit"}
    BY DEF Owners, OwnerOf
  <2> QED
    BY <1>1 DEF Operation
<1>3. \A a \in Attempts : Owns(a)' <=> Owns(a)
  <2> SUFFICES ASSUME NEW a \in Attempts
               PROVE  Owns(a)' <=> Owns(a)
    OBVIOUS
  <2>1. /\ Operation(a) \in Operations /\ Operation(a)' \in Operations /\ UsageNone \notin Attempts
        /\ Operation(a) = <<Corr[a], rev[a]>> /\ Operation(a)' = <<Corr[a], rev'[a]>>
    <3>1. rev[a] \in Revisions /\ rev'[a] \in Revisions /\ Corr[a] \in Correlations
      BY UsageAssumption DEF UsageTypeOK
    <3> QED
      BY <3>1, UsageAssumption DEF Operation, Operations
  <2>2. CASE pc[a] # "new"
    <3>1. Operation(a)' = Operation(a)
      BY <2>1, <2>2
    <3> QED
      BY <3>1 DEF Owns
  <2>3. CASE pc[a] = "new"
    <3>1. \A o \in Operations : ops[o] # a
      BY <2>3, NotYet
    <3>2. ops[Operation(a)] # a /\ ops'[Operation(a)'] # a
      BY <2>1, <3>1
    <3> QED
      BY <3>2 DEF Owns
  <2> QED
    BY <2>2, <2>3
<1>4. LeasesKept'
  <2> SUFFICES ASSUME NEW a \in Attempts, NEW p \in Policies
               PROVE  LeaseOf(a, p)'
    BY DEF LeasesKept
  <2>1. LeaseOf(a, p) /\ (Owns(a)' <=> Owns(a))
    BY <1>3 DEF LeasesKept
  <2> QED
    BY <2>1 DEF LeaseOf, Limited
<1>5. ASSUME NEW k \in UsageKeys
      PROVE  Live(k)' = Live(k) /\ Lapsed(k)' = Lapsed(k)
  <2>1. ASSUME NEW l \in Leases
        PROVE  (l \in Live(k)' <=> l \in Live(k)) /\ (l \in Lapsed(k)' <=> l \in Lapsed(k))
    <3>1. l = <<l[1], l[2]>> /\ l[1] \in Attempts /\ l[2] \in Policies
      BY <1>5, LeaseSets
    <3>2. /\ l \in Live(k) <=> l[2] = k[1] /\ rev[l[1]] = k[2] /\ index[l] # 0
          /\ l \in Lapsed(k) <=> /\ l[2] = k[1] /\ rev[l[1]] = k[2] /\ Owns(l[1])
                                  /\ index[l] = 0 /\ l \notin released
      BY <1>5, LeaseSets
    <3>3. l \in Live(k)' <=> l[2] = k[1] /\ rev'[l[1]] = k[2] /\ index[l] # 0
      BY DEF Live
    <3>4. l \in Lapsed(k)' <=> /\ l[2] = k[1] /\ rev'[l[1]] = k[2] /\ Owns(l[1])'
                               /\ index[l] = 0 /\ l \notin released
      <4>1. Operation(l[1])' = <<Corr[l[1]], rev'[l[1]]>> /\ Operation(l[1])' \in Operations /\ UsageNone \notin Attempts
        <5>1. rev'[l[1]] \in Revisions /\ Corr[l[1]] \in Correlations
          BY <3>1, UsageAssumption DEF UsageTypeOK
        <5> QED
          BY <5>1, UsageAssumption DEF Operation, Operations
      <4> QED
        BY <3>1, <4>1 DEF Lapsed, Owns, Admitted
    <3>5. CASE pc[l[1]] # "new"
      BY <1>3, <3>1, <3>2, <3>3, <3>4, <3>5
    <3>6. CASE pc[l[1]] = "new"
      <4>1. index[l] = 0 /\ ~ Owns(l[1])
        <5>1. \A o \in Operations : ops[o] # l[1]
          BY <3>1, <3>6, NotYet
        <5>2. index[<<l[1], l[2]>>] = 0
          BY <3>1, <3>6, NotYet
        <5> QED
          BY <3>1, <5>1, <5>2, KeysOf DEF Owns
      <4> QED
        BY <1>3, <3>1, <3>2, <3>3, <3>4, <4>1
    <3> QED
      BY <3>5, <3>6
  <2>2. Live(k) \subseteq Leases /\ Live(k)' \subseteq Leases /\ Lapsed(k) \subseteq Leases /\ Lapsed(k)' \subseteq Leases
    BY DEF Live, Lapsed
  <2> QED
    BY <2>1, <2>2
<1>6. SlotsKept'
  <2> SUFFICES ASSUME NEW k \in UsageKeys, ConcurrencyLimit[k[1]] >= 0
               PROVE  SlotsOf(k)'
    BY DEF SlotsKept
  <2>1. SlotsOf(k) /\ Live(k)' = Live(k) /\ Lapsed(k)' = Lapsed(k)
    BY <1>5 DEF SlotsKept
  <2> QED
    BY <2>1 DEF SlotsOf
<1>7. Admitted' = Admitted
  BY DEF Admitted
<1>8. ASSUME NEW r, NEW b
      PROVE  InWindow(r, b)' = InWindow(r, b)
  <2>1. \A o \in Admitted : now'[ops[o]] = now[ops[o]]
    BY <1>1 DEF Admitted
  <2> QED
    BY <1>7, <2>1 DEF InWindow, Bucket
<1>9. WindowsKept'
  <2> SUFFICES ASSUME NEW p \in Policies, NEW r \in Revisions, NEW b \in Buckets, QuotaLimit[p] >= 0
               PROVE  WindowOf(p, r, b)'
    BY DEF WindowsKept
  <2>1. WindowOf(p, r, b) /\ InWindow(r, b)' = InWindow(r, b)
    BY <1>8 DEF WindowsKept
  <2> QED
    BY <2>1 DEF WindowOf, Bucket
<1>10. CreditKept'
  BY <1>7 DEF CreditKept, DebitedOnce
<1> QED
  BY <1>2, <1>4, <1>6, <1>9, <1>10

-----------------------------------------------------------------------------
(* Admission *)

\* Of the policies that draw on an allocation, one debits it.
LEMMA OneDebits ==
    ASSUME NEW l, NEW p \in Policies, Allocation[p] = l, CreditLimit[p] >= 0
    PROVE  Cardinality({q \in Policies : CreditLimit[q] >= 0 /\ Allocation[q] = l /\ Debits(q)}) = 1
<1> DEFINE T == {q \in Policies : CreditLimit[q] >= 0 /\ Allocation[q] = l}
           R == OpToRel(<, Nat)
<1> HIDE DEF R
<1>1. T \subseteq Nat /\ T # {} /\ Policies \subseteq Nat
  BY UsageAssumption
<1>2. IsWellFoundedOn(R, Nat)
  BY NatLessThanWellFounded DEF R
<1>3. \A x, y \in Nat : <<y, x>> \in R <=> y < x
  BY DEF OpToRel, R
<1>4. PICK d \in T : \A e \in T : ~ (<<e, d>> \in R)
  BY <1>1, <1>2, WFMin
<1>5. \A e \in T : ~ (e < d)
  BY <1>1, <1>3, <1>4
<1>6. \A q \in T : Debits(q) <=> q = d
  <2> SUFFICES ASSUME NEW q \in T PROVE Debits(q) <=> q = d
    OBVIOUS
  <2>1. Debits(q) <=> \A e \in T : ~ (e < q)
    BY DEF Debits
  <2>2. q \in Nat /\ d \in Nat
    BY <1>1
  <2> QED
    BY <1>5, <2>1, <2>2
<1>7. {q \in Policies : CreditLimit[q] >= 0 /\ Allocation[q] = l /\ Debits(q)} = {d}
  BY <1>6
<1> QED
  BY <1>7, FS_Singleton

\* The attempt a was admitted now, as the first one of its operation.
Admission(a) ==
    /\ pc[a] = "admit" /\ ops[Operation(a)] = UsageNone /\ \A p \in Policies : ~ Exhausted(a, p)
    /\ Debit(a)
    /\ Goto(a, "oauth") \/ Goto(a, "rejected")
    /\ UNCHANGED otherVars

LEMMA AdmissionOwners ==
    ASSUME UsageInv, UsageTypeOK', NEW a \in Attempts, Admission(a)
    PROVE  /\ Owners'
           /\ \A b \in Attempts : Owns(b)' <=> Owns(b) \/ b = a
           /\ ~ Owns(a)
           /\ ops' = [ops EXCEPT ![Operation(a)] = a]
           /\ \A o \in Operations : ops[o] # a
<1>1. /\ ops' = [ops EXCEPT ![Operation(a)] = a] /\ rev' = rev /\ pc[a] = "admit" /\ ops[Operation(a)] = UsageNone
      /\ \A b \in Attempts : pc'[b] = IF b = a THEN pc'[a] ELSE pc[b]
      /\ pc'[a] \in {"oauth", "rejected"}
  BY DEF Admission, Debit, otherVars, Goto, UsageInv, UsageTypeOK
<1>2. \A b \in Attempts : /\ Operation(b)' = Operation(b) /\ Operation(b) \in Operations
                          /\ UsageNone \notin Attempts
  BY <1>1, KeysOf DEF UsageInv, Operation
<1>3. \A o \in Operations : ops[o] # a
  BY <1>1, UsageAssumption DEF UsageInv, Owners, OwnerOf
<1>4. ASSUME NEW b \in Attempts
      PROVE  Owns(b)' <=> Owns(b) \/ b = a
  BY <1>1, <1>2 DEF Owns, UsageInv, UsageTypeOK
<1>5. Owners'
  <2> SUFFICES ASSUME NEW o \in Operations, ops'[o] # UsageNone
               PROVE  <<Corr[ops'[o]], rev'[ops'[o]]>> = o /\ pc'[ops'[o]] \notin {"new", "admit"}
    BY DEF Owners, OwnerOf, Operation
  <2>1. CASE o = Operation(a)
    <3>1. ops'[o] = a
      BY <1>1, <1>2, <2>1 DEF UsageInv, UsageTypeOK
    <3> QED
      BY <1>1, <2>1, <3>1 DEF Operation
  <2>2. CASE o # Operation(a)
    <3>1. ops'[o] = ops[o] /\ ops[o] \in Attempts /\ ops[o] # a
      BY <1>1, <1>3, <2>2 DEF UsageInv, UsageTypeOK
    <3>2. Operation(ops[o]) = o /\ pc[ops[o]] \notin {"new", "admit"}
      BY <3>1, UsageAssumption DEF UsageInv, Owners, OwnerOf
    <3> QED
      BY <1>1, <3>1, <3>2 DEF Operation
  <2> QED
    BY <2>1, <2>2
<1>6. ~ Owns(a)
  BY <1>1, <1>2 DEF Owns
<1> QED
  BY <1>1, <1>3, <1>4, <1>5, <1>6

LEMMA AdmissionLeases ==
    ASSUME UsageInv, UsageTypeOK', NEW a \in Attempts, Admission(a)
    PROVE  /\ LeasesKept'
           /\ \A l \in Leases : index'[l] = IF l \in {a} \X Limited THEN clock + LeaseTtl ELSE index[l]
           /\ \A p \in Policies : index[<<a, p>>] = 0 /\ <<a, p>> \notin released
<1>1. /\ index' = [l \in Leases |-> IF l \in {a} \X Limited THEN clock + LeaseTtl ELSE index[l]]
      /\ admittedAt' = [admittedAt EXCEPT ![a] = clock] /\ released' = released /\ clock' = clock
      /\ pc[a] = "admit" /\ \A b \in Attempts : b # a => pc'[b] = pc[b]
  BY DEF Admission, Debit, otherVars, Limited, Goto, UsageInv, UsageTypeOK
<1>2. clock \in Nat /\ LeaseTtl \in Nat \ {0} /\ \A b \in Attempts : admittedAt[b] \in Nat
  BY UsageAssumption, KeysOf DEF UsageInv
<1>3. \A p \in Policies : index[<<a, p>>] = 0 /\ <<a, p>> \notin released
  BY AdmissionOwners DEF UsageInv, LeasesKept, LeaseOf
<1>4. LeasesKept'
  <2> SUFFICES ASSUME NEW b \in Attempts, NEW p \in Policies
               PROVE  LeaseOf(b, p)'
    BY DEF LeasesKept
  <2>1. LeaseOf(b, p) /\ (Owns(b)' <=> Owns(b) \/ b = a) /\ <<b, p>> \in Leases
    BY AdmissionOwners DEF UsageInv, LeasesKept, Leases
  <2>2. CASE b = a
    <3>1. admittedAt'[b] = clock /\ Owns(b)' /\ <<b, p>> \notin released'
      BY <1>1, <1>3, <2>1, <2>2 DEF UsageInv, UsageTypeOK
    <3>2. CASE p \in Limited
      <4>1. index'[<<b, p>>] = clock + LeaseTtl
        BY <1>1, <2>1, <2>2, <3>2
      <4>2. clock + LeaseTtl # 0
        BY <1>2
      <4> QED
        BY <3>1, <3>2, <4>1, <4>2 DEF LeaseOf, Limited
    <3>3. CASE p \notin Limited
      <4>1. index'[<<b, p>>] = 0
        BY <1>1, <1>3, <2>1, <2>2, <3>3
      <4> QED
        BY <3>1, <3>3, <4>1 DEF LeaseOf, Limited
    <3> QED
      BY <3>2, <3>3
  <2>3. CASE b # a
    <3>1. index'[<<b, p>>] = index[<<b, p>>] /\ admittedAt'[b] = admittedAt[b] /\ (Owns(b)' <=> Owns(b))
      BY <1>1, <2>1, <2>3 DEF UsageInv, UsageTypeOK
    <3>2. \A c \in Attempts : pc[c] \in {"release", "done"} => pc'[c] \in {"release", "done"}
      BY <1>1
    <3> QED
      BY <1>1, <2>1, <3>1, <3>2 DEF LeaseOf, Limited
  <2> QED
    BY <2>2, <2>3
<1> QED
  BY <1>1, <1>3, <1>4

LEMMA AdmissionSlots ==
    ASSUME UsageInv, UsageTypeOK', NEW a \in Attempts, Admission(a)
    PROVE  SlotsKept'
<1> SUFFICES ASSUME NEW k \in UsageKeys, ConcurrencyLimit[k[1]] >= 0
             PROVE  SlotsOf(k)'
  BY DEF SlotsKept
<1>1. /\ concurrency' = CountOne(concurrency, {ConcurrencyKey(a, p) : p \in Limited}, LeaseTtl)
      /\ rev' = rev /\ released' = released /\ clock' = clock
      /\ admittedAt' = [admittedAt EXCEPT ![a] = clock]
  BY DEF Admission, Debit, otherVars, Limited
<1>2. /\ k = <<k[1], k[2]>> /\ k[1] \in Limited /\ k[1] \in Policies
      /\ clock \in Nat /\ LeaseTtl \in Nat \ {0} /\ concurrency[k].n \in Nat /\ concurrency[k].exp \in Nat
      /\ ConcurrencyLimit[k[1]] \in Nat
  <2>1. k = <<k[1], k[2]>> /\ k[1] \in Policies /\ concurrency[k] \in Counter /\ clock \in Nat /\ LeaseTtl \in Nat \ {0}
    BY UsageAssumption DEF UsageKeys, UsageInv, UsageTypeOK
  <2>2. ConcurrencyLimit[k[1]] \in Nat \cup {-1}
    BY <2>1, UsageAssumption DEF UsageLimits
  <2>3. ConcurrencyLimit[k[1]] \in Nat /\ k[1] \in Limited
    BY <2>1, <2>2 DEF Limited
  <2> QED
    BY <2>1, <2>3 DEF Counter
<1>3. /\ SlotsOf(k)
      /\ IsFiniteSet(Live(k)) /\ Cardinality(Live(k)) \in Nat /\ Cardinality(Lapsed(k)) \in Nat
  BY LeasesFinite DEF UsageInv, SlotsKept
<1>4. \A l \in Leases : index'[l] = IF l \in {a} \X Limited THEN clock + LeaseTtl ELSE index[l]
  BY AdmissionLeases
<1>5. \A p \in Policies : index[<<a, p>>] = 0 /\ <<a, p>> \notin released
  BY AdmissionLeases
<1>6. ASSUME NEW l \in Leases
      PROVE  /\ l = <<l[1], l[2]>> /\ l[1] \in Attempts /\ l[2] \in Policies
             /\ l \in Live(k) <=> l[2] = k[1] /\ rev[l[1]] = k[2] /\ index[l] # 0
             /\ l \in Lapsed(k) <=> /\ l[2] = k[1] /\ rev[l[1]] = k[2] /\ Owns(l[1])
                                    /\ index[l] = 0 /\ l \notin released
             /\ l \in Live(k)' <=> l[2] = k[1] /\ rev[l[1]] = k[2] /\ index'[l] # 0
             /\ l \in Lapsed(k)' <=> /\ l[2] = k[1] /\ rev[l[1]] = k[2] /\ (Owns(l[1]) \/ l[1] = a)
                                     /\ index'[l] = 0 /\ l \notin released
  <2>1. l = <<l[1], l[2]>> /\ l[1] \in Attempts /\ l[2] \in Policies
    BY LeaseSets DEF UsageInv
  <2>2. /\ l \in Live(k) <=> l[2] = k[1] /\ rev[l[1]] = k[2] /\ index[l] # 0
        /\ l \in Lapsed(k) <=> /\ l[2] = k[1] /\ rev[l[1]] = k[2] /\ Owns(l[1])
                               /\ index[l] = 0 /\ l \notin released
    BY LeaseSets DEF UsageInv
  <2>3. l \in Live(k)' <=> l[2] = k[1] /\ rev[l[1]] = k[2] /\ index'[l] # 0
    BY <1>1 DEF Live
  <2>4. l \in Lapsed(k)' <=> /\ l[2] = k[1] /\ rev[l[1]] = k[2] /\ Owns(l[1])'
                             /\ index'[l] = 0 /\ l \notin released
    <3>1. Operation(l[1])' = <<Corr[l[1]], rev[l[1]]>> /\ Operation(l[1])' \in Operations /\ UsageNone \notin Attempts
      BY <1>1, <2>1, KeysOf DEF UsageInv, Operation
    <3> QED
      BY <1>1, <2>1, <3>1 DEF Lapsed, Owns, Admitted
  <2>5. Owns(l[1])' <=> Owns(l[1]) \/ l[1] = a
    BY <2>1, AdmissionOwners
  <2> QED
    BY <2>1, <2>2, <2>3, <2>4, <2>5
<1>7. Live(k) \subseteq Leases /\ Live(k)' \subseteq Leases /\ Lapsed(k) \subseteq Leases /\ Lapsed(k)' \subseteq Leases
  BY DEF Live, Lapsed
<1>8. Lapsed(k)' = Lapsed(k)
  <2>1. ASSUME NEW l \in Leases
        PROVE  l \in Lapsed(k)' <=> l \in Lapsed(k)
    <3>1. CASE l[1] = a /\ l[2] = k[1]
      <4>1. index'[l] = clock + LeaseTtl /\ clock + LeaseTtl # 0 /\ ~ Owns(a)
        BY <1>2, <1>4, <1>6, <3>1, AdmissionOwners
      <4> QED
        BY <1>6, <3>1, <4>1
    <3>2. CASE l[1] # a
      BY <1>4, <1>6, <3>2
    <3>3. CASE l[2] # k[1]
      BY <1>6, <3>3
    <3> QED
      BY <3>1, <3>2, <3>3
  <2> QED
    BY <1>7, <2>1
<1>9. CASE k[2] = rev[a]
  <2>1. k = ConcurrencyKey(a, k[1]) /\ k \in {ConcurrencyKey(a, p) : p \in Limited}
    BY <1>2, <1>9 DEF ConcurrencyKey
  <2>2. concurrency'[k] = [n |-> concurrency[k].n + 1, exp |-> clock + LeaseTtl]
    BY <1>1, <2>1 DEF CountOne, UsageInv, UsageTypeOK
  <2>3. concurrency[k].n < ConcurrencyLimit[k[1]]
    <3>1. ~ Exhausted(a, k[1])
      BY <1>2 DEF Admission
    <3> QED
      BY <1>2, <2>1, <3>1 DEF Exhausted
  <2>4. Live(k)' = Live(k) \cup {<<a, k[1]>>} /\ <<a, k[1]>> \notin Live(k)
    <3>1. <<a, k[1]>> \in Leases /\ index[<<a, k[1]>>] = 0
      BY <1>2, <1>5 DEF Leases
    <3>2. <<a, k[1]>> \notin Live(k)
      BY <1>6, <3>1
    <3>3. ASSUME NEW l \in Leases
          PROVE  l \in Live(k)' <=> l \in Live(k) \/ l = <<a, k[1]>>
      <4>1. CASE l = <<a, k[1]>>
        <5>1. index'[l] = clock + LeaseTtl /\ clock + LeaseTtl # 0
          BY <1>2, <1>4, <4>1
        <5>2. l[1] = a /\ l[2] = k[1]
          BY <4>1
        <5> QED
          BY <1>6, <1>9, <4>1, <5>1, <5>2
      <4>2. CASE l # <<a, k[1]>>
        <5>1. l[2] = k[1] => index'[l] = index[l]
          BY <1>4, <1>6, <4>2
        <5> QED
          BY <1>6, <4>2, <5>1
      <4> QED
        BY <4>1, <4>2
    <3> QED
      BY <1>7, <3>1, <3>2, <3>3
  <2>5. Cardinality(Live(k)') = Cardinality(Live(k)) + 1
    BY <1>3, <2>4, FS_AddElement
  <2>6. \A l \in Live(k)' : index'[l] <= concurrency'[k].exp
    <3> SUFFICES ASSUME NEW l \in Live(k)'
                 PROVE  index'[l] <= clock + LeaseTtl
      BY <2>2
    <3>1. l \in Leases /\ l = <<l[1], l[2]>> /\ l[1] \in Attempts /\ l[2] \in Policies /\ index'[l] # 0
      BY <1>6, <1>7
    <3>2. CASE index'[l] = index[l]
      <4>1. LeaseOf(l[1], l[2]) /\ admittedAt[l[1]] <= clock /\ admittedAt[l[1]] \in Nat
        BY <3>1, KeysOf DEF UsageInv, LeasesKept, TimesPast
      <4>2. index[l] = admittedAt[l[1]] + LeaseTtl
        BY <3>1, <3>2, <4>1 DEF LeaseOf
      <4> QED
        BY <1>2, <3>2, <4>1, <4>2
    <3>3. CASE index'[l] = clock + LeaseTtl
      BY <1>2, <3>3
    <3> QED
      BY <1>4, <3>1, <3>2, <3>3
  <2>7. /\ concurrency'[k].n = concurrency[k].n + 1
        /\ concurrency[k].n + 1 <= ConcurrencyLimit[k[1]]
        /\ Cardinality(Live(k)) + 1 <= concurrency[k].n + 1
        /\ concurrency[k].n + 1 <= Cardinality(Live(k)) + 1 + Cardinality(Lapsed(k))
    BY <1>2, <1>3, <2>2, <2>3 DEF SlotsOf
  <2> QED
    BY <1>8, <2>5, <2>6, <2>7 DEF SlotsOf
<1>10. CASE k[2] # rev[a]
  <2>1. k \notin {ConcurrencyKey(a, p) : p \in Limited}
    BY <1>10 DEF ConcurrencyKey
  <2>2. concurrency'[k] = concurrency[k]
    BY <1>1, <2>1 DEF CountOne, UsageInv, UsageTypeOK
  <2>3. \A l \in Leases : rev[l[1]] = k[2] => index'[l] = index[l]
    BY <1>4, <1>6, <1>10
  <2>4. Live(k)' = Live(k)
    BY <1>6, <1>7, <2>3
  <2>5. \A l \in Live(k) : index'[l] = index[l]
    BY <1>6, <1>7, <2>3
  <2> QED
    BY <1>3, <1>8, <2>2, <2>4, <2>5 DEF SlotsOf
<1> QED
  BY <1>9, <1>10

LEMMA AdmissionWindows ==
    ASSUME UsageInv, UsageTypeOK', NEW a \in Attempts, Admission(a)
    PROVE  WindowsKept' /\ CreditKept'
<1>1. /\ quota' = CountOne(quota, {QuotaKey(a, p) : p \in {q \in Policies : QuotaLimit[q] >= 0}}, QuotaWindow)
      /\ credit' = [l \in Allocations |->
            credit[l] + Credits * Cardinality({p \in Policies : CreditLimit[p] >= 0 /\ Allocation[p] = l /\ Debits(p)})]
      /\ admittedAt' = [admittedAt EXCEPT ![a] = clock] /\ now' = now /\ clock' = clock /\ rev' = rev
      /\ ops[Operation(a)] = UsageNone
  BY DEF Admission, Debit, otherVars
<1>2. /\ ops' = [ops EXCEPT ![Operation(a)] = a]
      /\ \A o \in Operations : ops[o] # a
  BY AdmissionOwners
<1>3. /\ Operation(a) \in Operations /\ Operation(a)[2] = rev[a] /\ UsageNone \notin Attempts
      /\ clock \in Nat /\ Bucket(clock) \in Buckets /\ rev[a] \in Revisions
  BY KeysOf DEF UsageInv
<1>4. Admitted' = Admitted \cup {Operation(a)} /\ Operation(a) \notin Admitted
  BY <1>1, <1>2, <1>3 DEF Admitted, UsageInv, UsageTypeOK
<1>5. IsFiniteSet(Admitted) /\ IsFiniteSet(Admitted') /\ Cardinality(Admitted') = Cardinality(Admitted) + 1
      /\ Cardinality(Admitted) \in Nat
  BY <1>4, FS_AddElement, FS_CardinalityType DEF UsageInv, CreditKept
<1>6. ASSUME NEW o \in Admitted
      PROVE  ops'[o] = ops[o] /\ now'[ops[o]] = now[ops[o]] /\ admittedAt'[ops[o]] = admittedAt[ops[o]]
  BY <1>1, <1>2, <1>4, <1>6 DEF Admitted, UsageInv, UsageTypeOK
<1>7. ops'[Operation(a)] = a /\ admittedAt'[a] = clock
  BY <1>1, <1>2, <1>3 DEF UsageInv, UsageTypeOK
<1>8. CreditKept'
  <2> SUFFICES ASSUME NEW l \in Allocations, NEW p \in Policies, Allocation[p] = l, CreditLimit[p] >= 0
               PROVE  credit'[l] = Credits * Cardinality(Admitted')
    BY <1>5 DEF CreditKept, DebitedOnce
  <2>1. credit[l] = Credits * Cardinality(Admitted)
    BY DEF UsageInv, CreditKept, DebitedOnce
  <2>2. credit'[l] = credit[l] + Credits * 1
    BY <1>1, OneDebits
  <2>3. Credits \in Nat
    BY UsageAssumption
  <2>4. PICK c \in Nat : c = Cardinality(Admitted)
    BY <1>5
  <2>5. Credits * (c + 1) = Credits * c + Credits * 1
    BY <2>3
  <2> QED
    BY <1>5, <2>1, <2>2, <2>4, <2>5
<1>9. ASSUME NEW p \in Policies, NEW r \in Revisions, NEW b \in Buckets, QuotaLimit[p] >= 0
      PROVE  WindowOf(p, r, b)'
  <2>1. /\ WindowOf(p, r, b)
        /\ IsFiniteSet(InWindow(r, b)) /\ Cardinality(InWindow(r, b)) \in Nat
    <3>1. InWindow(r, b) \in SUBSET Admitted
      BY DEF InWindow
    <3> QED
      BY <1>5, <1>9, <3>1, FS_Subset, FS_CardinalityType DEF UsageInv, WindowsKept
  <2>2. /\ <<p, r, b>> \in QuotaKeys /\ quota[<<p, r, b>>] \in Counter /\ quota[<<p, r, b>>].n \in Nat
        /\ QuotaLimit[p] \in Nat
    <3>1. <<p, r, b>> \in QuotaKeys
      BY <1>9 DEF QuotaKeys
    <3>2. quota[<<p, r, b>>] \in Counter /\ QuotaLimit[p] \in Nat \cup {-1}
      BY <1>9, <3>1, UsageAssumption DEF UsageInv, UsageTypeOK, UsageLimits
    <3> QED
      BY <1>9, <3>1, <3>2 DEF Counter
  <2>3. \A o \in Admitted : o \in InWindow(r, b)' <=> o \in InWindow(r, b)
    BY <1>4, <1>6 DEF InWindow, Bucket
  <2>4. Operation(a) \in InWindow(r, b)' <=> rev[a] = r /\ Bucket(now[a]) = b /\ Bucket(clock) = b
    BY <1>1, <1>3, <1>4, <1>7 DEF InWindow, Bucket
  <2>5. InWindow(r, b)' \subseteq Admitted' /\ InWindow(r, b) \subseteq Admitted
    BY DEF InWindow
  <2>6. CASE rev[a] = r /\ Bucket(now[a]) = b /\ Bucket(clock) = b
    <3>1. InWindow(r, b)' = InWindow(r, b) \cup {Operation(a)} /\ Operation(a) \notin InWindow(r, b)
      BY <1>4, <2>3, <2>4, <2>5, <2>6
    <3>2. Cardinality(InWindow(r, b)') = Cardinality(InWindow(r, b)) + 1
      BY <2>1, <3>1, FS_AddElement
    <3>3. <<p, r, b>> = QuotaKey(a, p)
      BY <2>6 DEF QuotaKey
    <3>4. quota'[<<p, r, b>>] = [n |-> quota[<<p, r, b>>].n + 1, exp |-> clock + QuotaWindow]
      <4>1. <<p, r, b>> \in {QuotaKey(a, q) : q \in {q \in Policies : QuotaLimit[q] >= 0}}
        BY <1>9, <3>3
      <4> QED
        BY <1>1, <2>2, <4>1 DEF CountOne, UsageInv, UsageTypeOK
    <3>5. quota[<<p, r, b>>].n < QuotaLimit[p]
      <4>1. ~ Exhausted(a, p)
        BY DEF Admission
      <4> QED
        BY <1>9, <2>2, <3>3, <4>1 DEF Exhausted
    <3>6. Cardinality(InWindow(r, b)) <= quota[<<p, r, b>>].n
      <4>1. CASE InWindow(r, b) = {}
        BY <2>2, <4>1, FS_EmptySet
      <4>2. CASE InWindow(r, b) # {}
        BY <2>1, <2>6, <4>2 DEF WindowOf
      <4> QED
        BY <4>1, <4>2
    <3>7. ASSUME NEW t \in Nat, Bucket(t) = b
          PROVE  t < clock + QuotaWindow
      <4>1. CASE t <= clock
        BY <1>3, <4>1, UsageAssumption
      <4>2. CASE clock <= t
        BY <1>3, <2>6, <3>7, <4>2, WindowLength
      <4> QED
        BY <1>3, <4>1, <4>2
    <3>8. /\ Cardinality(InWindow(r, b)') <= QuotaLimit[p]
          /\ Cardinality(InWindow(r, b)') <= quota'[<<p, r, b>>].n
      BY <2>1, <2>2, <3>2, <3>4, <3>5, <3>6
    <3>9. \A t \in Nat : Bucket(t) = b => t < quota'[<<p, r, b>>].exp
      BY <3>4, <3>7
    <3> QED
      BY <3>8, <3>9 DEF WindowOf, Bucket
  <2>7. CASE ~ (rev[a] = r /\ Bucket(now[a]) = b /\ Bucket(clock) = b)
    <3>1. InWindow(r, b)' = InWindow(r, b)
      BY <1>4, <2>3, <2>4, <2>5, <2>7
    <3>2. CASE Bucket(clock) # b
      BY <1>1, <2>1, <3>1, <3>2 DEF WindowOf, Bucket
    <3>3. CASE Bucket(clock) = b
      <4>1. <<p, r, b>> \notin {QuotaKey(a, q) : q \in {q \in Policies : QuotaLimit[q] >= 0}}
        BY <2>7, <3>3 DEF QuotaKey
      <4>2. quota'[<<p, r, b>>] = quota[<<p, r, b>>]
        BY <1>1, <2>2, <4>1 DEF CountOne, UsageInv, UsageTypeOK
      <4> QED
        BY <1>1, <2>1, <3>1, <4>2 DEF WindowOf, Bucket
    <3> QED
      BY <3>2, <3>3
  <2> QED
    BY <2>6, <2>7
<1> QED
  BY <1>8, <1>9 DEF WindowsKept

-----------------------------------------------------------------------------
(* Releases *)

LEMMA ReleaseStep ==
    ASSUME UsageInv, UsageTypeOK', NEW a \in Attempts, NEW p \in Policies, ReleaseLease(a, p)
    PROVE  Owners' /\ LeasesKept' /\ SlotsKept' /\ WindowsKept' /\ CreditKept'
<1>1. PICK h \in Attempts : held[a] = h /\ h = ops[Operation(a)]
  BY DEF ReleaseLease, UsageInv, Carried
<1> DEFINE m == <<h, p>>
           c == <<p, rev[h]>>
<1>2. /\ pc[a] = "release" /\ index[m] # 0
      /\ index' = [index EXCEPT ![m] = 0] /\ released' = released \cup {m}
      /\ concurrency' = [concurrency EXCEPT ![c].n = IF @ > 0 THEN @ - 1 ELSE 0]
      /\ UNCHANGED <<clock, revision, quota, credit, ops, usageGrant, uses, pc, rev, now, held, admittedAt, faults>>
  BY <1>1 DEF ReleaseLease
<1>3. m \in Leases /\ m[1] = h /\ m[2] = p /\ c \in UsageKeys /\ c[1] = p /\ c[2] = rev[h]
  BY <1>1 DEF Leases, UsageKeys, UsageInv, UsageTypeOK
<1>4. LeaseOf(h, p) /\ Owns(h) /\ p \in Limited /\ m \notin released
  BY <1>2 DEF UsageInv, LeasesKept, LeaseOf
<1>5. Corr[h] = Corr[a]
  <2>1. Operation(a) \in Operations /\ ops[Operation(a)] # UsageNone /\ Operation(a)[1] = Corr[a] /\ Operation(h)[1] = Corr[h]
    BY <1>1, KeysOf DEF UsageInv
  <2>2. Operation(h) = Operation(a)
    BY <1>1, <2>1 DEF UsageInv, Owners, OwnerOf
  <2> QED
    BY <2>1, <2>2
<1> HIDE DEF m, c
<1>6. \A b \in Attempts : (Owns(b)' <=> Owns(b)) /\ Operation(b)' = Operation(b)
  BY <1>2 DEF Owns, Operation
<1>7. Owners'
  BY <1>2 DEF UsageInv, Owners, OwnerOf, Operation
<1>8. \A l \in Leases : index'[l] = IF l = m THEN 0 ELSE index[l]
  BY <1>2, <1>3 DEF UsageInv, UsageTypeOK
<1>9. LeasesKept'
  <2> SUFFICES ASSUME NEW b \in Attempts, NEW q \in Policies
               PROVE  LeaseOf(b, q)'
    BY DEF LeasesKept
  <2>1. LeaseOf(b, q) /\ (Owns(b)' <=> Owns(b)) /\ <<b, q>> \in Leases
    BY <1>6 DEF UsageInv, LeasesKept, Leases
  <2>2. CASE <<b, q>> = m
    <3>1. index'[<<b, q>>] = 0 /\ <<b, q>> \in released' /\ b = h
      BY <1>2, <1>3, <1>8, <2>1, <2>2 DEF m
    <3>2. Owns(b)' /\ pc'[a] \in {"release", "done"} /\ Corr[a] = Corr[b]
      BY <1>2, <1>4, <1>5, <2>1, <3>1
    <3> QED
      BY <3>1, <3>2 DEF LeaseOf
  <2>3. CASE <<b, q>> # m
    <3>1. index'[<<b, q>>] = index[<<b, q>>] /\ (<<b, q>> \in released' <=> <<b, q>> \in released)
      BY <1>2, <1>8, <2>1, <2>3
    <3> QED
      BY <1>2, <2>1, <3>1 DEF LeaseOf, Limited
  <2> QED
    BY <2>2, <2>3
<1>10. ASSUME NEW k \in UsageKeys, NEW l \in Leases
       PROVE  /\ l = <<l[1], l[2]>>
              /\ l \in Live(k) <=> l[2] = k[1] /\ rev[l[1]] = k[2] /\ index[l] # 0
              /\ l \in Lapsed(k) <=> /\ l[2] = k[1] /\ rev[l[1]] = k[2] /\ Owns(l[1])
                                     /\ index[l] = 0 /\ l \notin released
              /\ l \in Live(k)' <=> l[2] = k[1] /\ rev[l[1]] = k[2] /\ index'[l] # 0
              /\ l \in Lapsed(k)' <=> /\ l[2] = k[1] /\ rev[l[1]] = k[2] /\ Owns(l[1])
                                      /\ index'[l] = 0 /\ l \notin released'
  <2>1. l = <<l[1], l[2]>> /\ l[1] \in Attempts /\ l[2] \in Policies
    BY LeaseSets DEF UsageInv
  <2>2. /\ l \in Live(k) <=> l[2] = k[1] /\ rev[l[1]] = k[2] /\ index[l] # 0
        /\ l \in Lapsed(k) <=> /\ l[2] = k[1] /\ rev[l[1]] = k[2] /\ Owns(l[1])
                               /\ index[l] = 0 /\ l \notin released
    BY LeaseSets DEF UsageInv
  <2>3. l \in Live(k)' <=> l[2] = k[1] /\ rev[l[1]] = k[2] /\ index'[l] # 0
    BY <1>2 DEF Live
  <2>4. l \in Lapsed(k)' <=> /\ l[2] = k[1] /\ rev[l[1]] = k[2] /\ Owns(l[1])
                             /\ index'[l] = 0 /\ l \notin released'
    <3>1. Operation(l[1]) = <<Corr[l[1]], rev[l[1]]>> /\ Operation(l[1]) \in Operations /\ UsageNone \notin Attempts
      BY <2>1, KeysOf DEF UsageInv
    <3> QED
      BY <1>2, <2>1, <3>1 DEF Lapsed, Owns, Admitted
  <2> QED
    BY <2>1, <2>2, <2>3, <2>4
<1>11. SlotsKept'
  <2> SUFFICES ASSUME NEW k \in UsageKeys, ConcurrencyLimit[k[1]] >= 0
               PROVE  SlotsOf(k)'
    BY DEF SlotsKept
  <2>1. /\ SlotsOf(k) /\ IsFiniteSet(Live(k))
        /\ Cardinality(Live(k)) \in Nat /\ Cardinality(Lapsed(k)) \in Nat
    BY LeasesFinite DEF UsageInv, SlotsKept
  <2>2. Live(k) \subseteq Leases /\ Live(k)' \subseteq Leases /\ Lapsed(k) \subseteq Leases /\ Lapsed(k)' \subseteq Leases
    BY DEF Live, Lapsed
  <2>3. concurrency[k] \in Counter /\ concurrency[k].n \in Nat
    BY DEF UsageInv, UsageTypeOK, Counter
  <2>4. Lapsed(k)' = Lapsed(k)
    <3>1. ASSUME NEW l \in Leases
          PROVE  l \in Lapsed(k)' <=> l \in Lapsed(k)
      <4>1. CASE l = m
        <5>1. l \in released' /\ index[l] # 0
          BY <1>2, <4>1
        <5> QED
          BY <1>10, <5>1
      <4>2. CASE l # m
        <5>1. index'[l] = index[l] /\ (l \in released' <=> l \in released)
          BY <1>2, <1>8, <4>2
        <5> QED
          BY <1>10, <5>1
      <4> QED
        BY <4>1, <4>2
    <3> QED
      BY <2>2, <3>1
  <2>5. CASE k = c
    <3>1. m \in Live(k) /\ Live(k)' = Live(k) \ {m}
      <4>1. m \in Live(k)
        BY <1>2, <1>3, <1>10, <2>5
      <4>2. \A l \in Leases : l \in Live(k)' <=> l \in Live(k) /\ l # m
        BY <1>8, <1>10
      <4> QED
        BY <2>2, <4>1, <4>2
    <3>2. Cardinality(Live(k)') = Cardinality(Live(k)) - 1
      BY <2>1, <3>1, FS_RemoveElement
    <3>3. Cardinality(Live(k)) # 0
      BY <2>1, <3>1, FS_EmptySet
    <3>4. concurrency[k].n > 0
      BY <2>1, <2>3, <3>3 DEF SlotsOf
    <3>5. concurrency'[k] = [concurrency[k] EXCEPT !.n = concurrency[k].n - 1]
      BY <1>2, <2>5, <3>4 DEF UsageInv, UsageTypeOK
    <3>6. concurrency'[k].n = concurrency[k].n - 1 /\ concurrency'[k].exp = concurrency[k].exp
      BY <2>3, <3>5 DEF Counter
    <3>7. \A l \in Live(k)' : index'[l] <= concurrency'[k].exp
      BY <1>8, <2>1, <2>2, <3>1, <3>6 DEF SlotsOf
    <3>8. PICK limit \in Nat : limit = ConcurrencyLimit[k[1]]
      <4>1. ConcurrencyLimit[k[1]] \in Nat \cup {-1}
        BY UsageAssumption DEF UsageLimits, UsageKeys
      <4> QED
        BY <4>1
    <3>9. /\ concurrency'[k].n <= ConcurrencyLimit[k[1]]
          /\ Cardinality(Live(k)') <= concurrency'[k].n
          /\ concurrency'[k].n <= Cardinality(Live(k)') + Cardinality(Lapsed(k)')
      BY <2>1, <2>3, <2>4, <3>2, <3>6, <3>8 DEF SlotsOf
    <3> QED
      BY <3>7, <3>9 DEF SlotsOf
  <2>6. CASE k # c
    <3>1. concurrency'[k] = concurrency[k]
      BY <1>2, <2>6 DEF UsageInv, UsageTypeOK
    <3>2. m \notin Live(k)
      <4>1. k = <<k[1], k[2]>>
        BY DEF UsageKeys
      <4> QED
        BY <1>3, <1>10, <2>6, <4>1 DEF c
    <3>3. Live(k)' = Live(k)
      <4>1. \A l \in Leases : l \in Live(k)' <=> l \in Live(k)
        BY <1>8, <1>10, <3>2
      <4> QED
        BY <2>2, <4>1
    <3>4. \A l \in Live(k) : index'[l] = index[l]
      BY <1>8, <2>2, <3>2
    <3> QED
      BY <2>1, <2>4, <3>1, <3>3, <3>4 DEF SlotsOf
  <2> QED
    BY <2>5, <2>6
<1>12. Admitted' = Admitted
  BY <1>2 DEF Admitted
<1>13. \A r, b : InWindow(r, b)' = InWindow(r, b)
  BY <1>2, <1>12 DEF InWindow, Bucket
<1>14. WindowsKept'
  <2> SUFFICES ASSUME NEW q \in Policies, NEW r \in Revisions, NEW b \in Buckets, QuotaLimit[q] >= 0
               PROVE  WindowOf(q, r, b)'
    BY DEF WindowsKept
  <2>1. WindowOf(q, r, b) /\ InWindow(r, b)' = InWindow(r, b)
    BY <1>13 DEF UsageInv, WindowsKept
  <2> QED
    BY <1>2, <2>1 DEF WindowOf, Bucket
<1>15. CreditKept'
  BY <1>2, <1>12 DEF UsageInv, CreditKept, DebitedOnce
<1> QED
  BY <1>7, <1>9, <1>11, <1>14, <1>15

-----------------------------------------------------------------------------
(* Time *)

LEMMA DisjointUnion ==
    ASSUME NEW S, NEW T, IsFiniteSet(S), IsFiniteSet(T), S \cap T = {}
    PROVE  Cardinality(S \cup T) = Cardinality(S) + Cardinality(T)
<1>1. Cardinality(S) \in Nat /\ Cardinality(T) \in Nat /\ Cardinality({}) = 0
  BY FS_CardinalityType, FS_EmptySet
<1>2. Cardinality(S \cup T) = Cardinality(S) + Cardinality(T) - Cardinality(S \cap T)
  BY FS_Union
<1>3. Cardinality(S \cap T) = 0
  BY <1>1
<1> QED
  BY <1>1, <1>2, <1>3

LEMMA TickStep ==
    ASSUME UsageInv, UsageTypeOK', Tick
    PROVE  Owners' /\ LeasesKept' /\ SlotsKept' /\ WindowsKept' /\ CreditKept'
<1>1. /\ clock' = clock + 1 /\ quota' = Lapse(quota) /\ concurrency' = Lapse(concurrency)
      /\ index' = [l \in Leases |-> IF index[l] <= clock + 1 THEN 0 ELSE index[l]]
      /\ UNCHANGED <<revision, credit, released, ops, uses, pc, rev, now, held, admittedAt, faults>>
      /\ clock \in Nat /\ LeaseTtl \in Nat \ {0} /\ index \in [Leases -> Nat]
  BY UsageAssumption DEF Tick, UsageInv, UsageTypeOK
<1>2. Owners'
  BY <1>1 DEF UsageInv, Owners, OwnerOf, Operation
<1>3. \A b \in Attempts : Owns(b)' <=> Owns(b)
  BY <1>1 DEF Owns, Operation
<1>4. LeasesKept'
  <2> SUFFICES ASSUME NEW b \in Attempts, NEW q \in Policies
               PROVE  LeaseOf(b, q)'
    BY DEF LeasesKept
  <2>1. LeaseOf(b, q) /\ (Owns(b)' <=> Owns(b)) /\ <<b, q>> \in Leases /\ admittedAt[b] \in Nat
    BY <1>3, KeysOf DEF UsageInv, LeasesKept, Leases
  <2>2. index'[<<b, q>>] = IF index[<<b, q>>] <= clock + 1 THEN 0 ELSE index[<<b, q>>]
    BY <1>1, <2>1
  <2>3. index'[<<b, q>>] # 0 => index[<<b, q>>] # 0 /\ index'[<<b, q>>] = index[<<b, q>>]
    BY <2>2
  <2>4. index'[<<b, q>>] = 0 /\ index[<<b, q>>] # 0 => admittedAt[b] + LeaseTtl <= clock'
    BY <1>1, <2>1, <2>2 DEF LeaseOf
  <2>5. admittedAt[b] + LeaseTtl <= clock => admittedAt[b] + LeaseTtl <= clock'
    BY <1>1, <2>1
  <2> QED
    BY <1>1, <2>1, <2>3, <2>4, <2>5 DEF LeaseOf, Limited
<1>5. SlotsKept'
  <2> SUFFICES ASSUME NEW k \in UsageKeys, ConcurrencyLimit[k[1]] >= 0
               PROVE  SlotsOf(k)'
    BY DEF SlotsKept
  <2>1. /\ SlotsOf(k) /\ IsFiniteSet(Live(k)) /\ IsFiniteSet(Lapsed(k))
        /\ Cardinality(Live(k)) \in Nat /\ Cardinality(Lapsed(k)) \in Nat
    BY LeasesFinite DEF UsageInv, SlotsKept
  <2>2. Live(k) \subseteq Leases /\ Live(k)' \subseteq Leases /\ Lapsed(k) \subseteq Leases /\ Lapsed(k)' \subseteq Leases
    BY DEF Live, Lapsed
  <2>3. concurrency[k] \in Counter /\ concurrency[k].n \in Nat /\ concurrency[k].exp \in Nat
    BY DEF UsageInv, UsageTypeOK, Counter
  <2>4. PICK limit \in Nat : limit = ConcurrencyLimit[k[1]]
    <3>1. ConcurrencyLimit[k[1]] \in Nat \cup {-1}
      BY UsageAssumption DEF UsageLimits, UsageKeys
    <3> QED
      BY <3>1
  <2>5. ASSUME NEW l \in Leases
        PROVE  /\ l \in Live(k) <=> l[2] = k[1] /\ rev[l[1]] = k[2] /\ index[l] # 0
               /\ l \in Lapsed(k) <=> /\ l[2] = k[1] /\ rev[l[1]] = k[2] /\ Owns(l[1])
                                      /\ index[l] = 0 /\ l \notin released
               /\ l \in Live(k)' <=> l[2] = k[1] /\ rev[l[1]] = k[2] /\ index'[l] # 0
               /\ l \in Lapsed(k)' <=> /\ l[2] = k[1] /\ rev[l[1]] = k[2] /\ Owns(l[1])
                                       /\ index'[l] = 0 /\ l \notin released
               /\ index'[l] = IF index[l] <= clock + 1 THEN 0 ELSE index[l]
               /\ index[l] # 0 => Owns(l[1]) /\ l \notin released
               /\ index[l] \in Nat
    <3>1. l = <<l[1], l[2]>> /\ l[1] \in Attempts /\ l[2] \in Policies
      BY LeaseSets DEF UsageInv
    <3>2. /\ l \in Live(k) <=> l[2] = k[1] /\ rev[l[1]] = k[2] /\ index[l] # 0
          /\ l \in Lapsed(k) <=> /\ l[2] = k[1] /\ rev[l[1]] = k[2] /\ Owns(l[1])
                                 /\ index[l] = 0 /\ l \notin released
      BY LeaseSets DEF UsageInv
    <3>3. l \in Live(k)' <=> l[2] = k[1] /\ rev[l[1]] = k[2] /\ index'[l] # 0
      BY <1>1 DEF Live
    <3>4. l \in Lapsed(k)' <=> /\ l[2] = k[1] /\ rev[l[1]] = k[2] /\ Owns(l[1])
                               /\ index'[l] = 0 /\ l \notin released
      <4>1. Operation(l[1]) = <<Corr[l[1]], rev[l[1]]>> /\ Operation(l[1]) \in Operations /\ UsageNone \notin Attempts
        BY <3>1, KeysOf DEF UsageInv
      <4> QED
        BY <1>1, <3>1, <4>1 DEF Lapsed, Owns, Admitted
    <3>5. index[l] # 0 => Owns(l[1]) /\ l \notin released
      <4>1. LeaseOf(l[1], l[2])
        BY <3>1 DEF UsageInv, LeasesKept
      <4> QED
        BY <3>1, <4>1 DEF LeaseOf
    <3>6. index'[l] = (IF index[l] <= clock + 1 THEN 0 ELSE index[l]) /\ index[l] \in Nat
      BY <1>1
    <3> QED
      BY <3>2, <3>3, <3>4, <3>5, <3>6
  <2>6. Live(k)' \subseteq Live(k)
    BY <2>2, <2>5
  <2>7. Live(k)' \cup Lapsed(k)' = Live(k) \cup Lapsed(k)
    <3>1. \A l \in Leases : l \in Live(k)' \cup Lapsed(k)' <=> l \in Live(k) \cup Lapsed(k)
      BY <2>5
    <3> QED
      BY <2>2, <3>1
  <2>8. Live(k)' \cap Lapsed(k)' = {} /\ Live(k) \cap Lapsed(k) = {}
    BY <2>2, <2>5
  <2>9. /\ IsFiniteSet(Live(k)') /\ IsFiniteSet(Lapsed(k)')
        /\ Cardinality(Live(k)') \in Nat /\ Cardinality(Lapsed(k)') \in Nat
        /\ Cardinality(Live(k)') <= Cardinality(Live(k))
    <3>1. IsFiniteSet(Live(k) \cup Lapsed(k))
      BY <2>1, FS_Union
    <3>2. Lapsed(k)' \in SUBSET (Live(k) \cup Lapsed(k)) /\ Live(k)' \in SUBSET Live(k)
      BY <2>6, <2>7
    <3> QED
      BY <2>1, <3>1, <3>2, FS_Subset, FS_CardinalityType
  <2>10. Cardinality(Live(k)') + Cardinality(Lapsed(k)') = Cardinality(Live(k)) + Cardinality(Lapsed(k))
    <3>1. Cardinality(Live(k) \cup Lapsed(k)) = Cardinality(Live(k)) + Cardinality(Lapsed(k))
      BY <2>1, <2>8, DisjointUnion
    <3>2. Cardinality(Live(k)' \cup Lapsed(k)') = Cardinality(Live(k)') + Cardinality(Lapsed(k)')
      BY <2>8, <2>9, DisjointUnion
    <3> QED
      BY <2>7, <3>1, <3>2
  <2>11. concurrency'[k] = IF concurrency[k].exp <= clock + 1 THEN Absent ELSE concurrency[k]
    BY <1>1 DEF Lapse, UsageInv, UsageTypeOK
  <2>12. CASE concurrency[k].exp <= clock + 1
    <3>1. concurrency'[k].n = 0 /\ concurrency'[k] = Absent
      BY <2>11, <2>12 DEF Absent
    <3>2. Live(k)' = {}
      <4>1. \A l \in Live(k) : index[l] <= clock + 1
        BY <1>1, <2>1, <2>2, <2>3, <2>5, <2>12 DEF SlotsOf
      <4> QED
        BY <2>2, <2>5, <2>6, <4>1
    <3>3. Cardinality(Live(k)') = 0
      BY <3>2, FS_EmptySet
    <3> QED
      BY <2>4, <2>9, <3>1, <3>2, <3>3 DEF SlotsOf
  <2>13. CASE ~ (concurrency[k].exp <= clock + 1)
    <3>1. concurrency'[k] = concurrency[k]
      BY <2>11, <2>13
    <3>2. \A l \in Live(k)' : index'[l] <= concurrency'[k].exp
      <4>1. \A l \in Live(k)' : index'[l] = index[l] /\ l \in Live(k)
        BY <2>2, <2>5, <2>6
      <4> QED
        BY <2>1, <3>1, <4>1 DEF SlotsOf
    <3>3. /\ Cardinality(Live(k)') <= concurrency'[k].n
          /\ concurrency'[k].n <= Cardinality(Live(k)') + Cardinality(Lapsed(k)')
          /\ concurrency'[k].n <= ConcurrencyLimit[k[1]]
      BY <2>1, <2>3, <2>9, <2>10, <3>1 DEF SlotsOf
    <3> QED
      BY <3>2, <3>3 DEF SlotsOf
  <2> QED
    BY <2>12, <2>13
<1>6. Admitted' = Admitted
  BY <1>1 DEF Admitted
<1>7. \A r, b : InWindow(r, b)' = InWindow(r, b)
  BY <1>1, <1>6 DEF InWindow, Bucket
<1>8. WindowsKept'
  <2> SUFFICES ASSUME NEW p \in Policies, NEW r \in Revisions, NEW b \in Buckets, QuotaLimit[p] >= 0
               PROVE  WindowOf(p, r, b)'
    BY DEF WindowsKept
  <2>1. WindowOf(p, r, b) /\ InWindow(r, b)' = InWindow(r, b)
    BY <1>7 DEF UsageInv, WindowsKept
  <2>2. CASE Bucket(clock + 1) = b /\ InWindow(r, b) # {}
    <3>1. Bucket(clock) = b
      <4>1. PICK o \in InWindow(r, b) : TRUE
        BY <2>2
      <4>2. /\ o \in Operations /\ ops[o] \in Attempts /\ Bucket(admittedAt[ops[o]]) = b
        BY <4>1 DEF InWindow, Admitted, UsageInv, UsageTypeOK
      <4>3. admittedAt[ops[o]] \in Nat /\ admittedAt[ops[o]] <= clock
        BY <4>2, KeysOf DEF UsageInv, TimesPast
      <4>4. Bucket(admittedAt[ops[o]]) \in Nat /\ Bucket(clock) \in Nat /\ Bucket(admittedAt[ops[o]]) <= Bucket(clock)
        BY <1>1, <4>3, WindowOrder
      <4>5. Bucket(clock + 1) \in Nat /\ Bucket(clock) <= Bucket(clock + 1)
        BY <1>1, WindowOrder
      <4> QED
        BY <2>2, <4>2, <4>4, <4>5
    <3>2. /\ Cardinality(InWindow(r, b)) <= quota[<<p, r, b>>].n
          /\ \A t \in Nat : Bucket(t) = b => t < quota[<<p, r, b>>].exp
      BY <2>1, <2>2, <3>1 DEF WindowOf
    <3>3. <<p, r, b>> \in QuotaKeys /\ quota[<<p, r, b>>].exp \in Nat
      BY DEF QuotaKeys, UsageInv, UsageTypeOK, Counter
    <3>4. clock + 1 < quota[<<p, r, b>>].exp
      BY <1>1, <2>2, <3>2
    <3>5. quota'[<<p, r, b>>] = quota[<<p, r, b>>]
      BY <1>1, <3>3, <3>4 DEF Lapse, UsageInv, UsageTypeOK
    <3> QED
      BY <1>1, <2>1, <3>2, <3>5 DEF WindowOf, Bucket
  <2>3. CASE ~ (Bucket(clock + 1) = b /\ InWindow(r, b) # {})
    BY <1>1, <2>1, <2>3 DEF WindowOf, Bucket
  <2> QED
    BY <2>2, <2>3
<1>9. CreditKept'
  BY <1>1, <1>6 DEF UsageInv, CreditKept, DebitedOnce
<1> QED
  BY <1>2, <1>4, <1>5, <1>8, <1>9

-----------------------------------------------------------------------------
(* The theorem *)

\* Any step keeps what the store holds in order.
LEMMA StoreStep ==
    ASSUME UsageInv, UsageTypeOK', [UsageNext]_usageVars
    PROVE  Owners' /\ LeasesKept' /\ SlotsKept' /\ WindowsKept' /\ CreditKept'
<1>1. UsageTypeOK /\ Owners /\ LeasesKept /\ SlotsKept /\ WindowsKept /\ CreditKept
  BY DEF UsageInv
<1>2. CASE UNCHANGED usageVars \/ Revise
  BY <1>1, <1>2, StoreFrame DEF usageVars, Revise, counterVars
<1>3. CASE Tick
  BY <1>3, TickStep
<1>4. ASSUME NEW a \in Attempts, Begin(a)
      PROVE  Owners' /\ LeasesKept' /\ SlotsKept' /\ WindowsKept' /\ CreditKept'
  <2>1. UNCHANGED <<clock, quota, concurrency, credit, index, released, ops, admittedAt>>
    BY <1>4 DEF Begin, counterVars
  <2>2. \A b \in Attempts :
              /\ pc[b] # "new" => rev'[b] = rev[b] /\ now'[b] = now[b]
              /\ pc[b] \notin {"new", "admit"} => pc'[b] \notin {"new", "admit"}
              /\ pc[b] \in {"release", "done"} => pc'[b] \in {"release", "done"}
    BY <1>1, <1>4 DEF Begin, Goto, UsageTypeOK
  <2> QED
    BY <1>1, <2>1, <2>2, StoreFrame
<1>5. ASSUME NEW a \in Attempts, Admit(a) \/ AdmitLost(a) \/ UsageReject(a)
      PROVE  Owners' /\ LeasesKept' /\ SlotsKept' /\ WindowsKept' /\ CreditKept'
  <2>1. /\ pc[a] = "admit" /\ UNCHANGED otherVars
        /\ Goto(a, "oauth") \/ Goto(a, "rejected")
        /\ AdmissionScript(a) \/ UNCHANGED <<counterVars, admittedAt>>
    BY <1>5 DEF Admit, AdmitLost, UsageReject
  <2>2. CASE Admission(a)
    BY <2>2, AdmissionOwners, AdmissionLeases, AdmissionSlots, AdmissionWindows
  <2>3. CASE UNCHANGED <<counterVars, admittedAt>>
    <3>1. UNCHANGED <<clock, quota, concurrency, credit, index, released, ops, admittedAt>>
      BY <2>1, <2>3 DEF counterVars, otherVars
    <3>2. \A b \in Attempts :
              /\ pc[b] # "new" => rev'[b] = rev[b] /\ now'[b] = now[b]
              /\ pc[b] \notin {"new", "admit"} => pc'[b] \notin {"new", "admit"}
              /\ pc[b] \in {"release", "done"} => pc'[b] \in {"release", "done"}
      BY <1>1, <2>1 DEF otherVars, Goto, UsageTypeOK
    <3> QED
      BY <1>1, <3>1, <3>2, StoreFrame
  <2> QED
    BY <2>1, <2>2, <2>3 DEF AdmissionScript, Admission
<1>6. ASSUME NEW a \in Attempts,
             \/ ResolveOAuth(a) \/ OAuthFails(a) \/ Consume(a) \/ AlreadyConsumed(a) \/ ConsumeLost(a)
             \/ Observe(a) \/ ObserveFails(a) \/ Vanish(a) \/ EndStream(a) \/ ReleaseEnds(a) \/ ReleaseFails(a)
      PROVE  Owners' /\ LeasesKept' /\ SlotsKept' /\ WindowsKept' /\ CreditKept'
  <2>1. PICK s : Moves(a, s)
    BY <1>6, MovesOf
  <2>2. UNCHANGED <<clock, quota, concurrency, credit, index, released, ops, admittedAt>>
    BY <2>1 DEF Moves, counterVars
  <2>3. \A b \in Attempts :
              /\ pc[b] # "new" => rev'[b] = rev[b] /\ now'[b] = now[b]
              /\ pc[b] \notin {"new", "admit"} => pc'[b] \notin {"new", "admit"}
              /\ pc[b] \in {"release", "done"} => pc'[b] \in {"release", "done"}
    BY <1>1, <2>1 DEF Moves, Goto, UsageTypeOK
  <2> QED
    BY <1>1, <2>2, <2>3, StoreFrame
<1>7. ASSUME NEW a \in Attempts, NEW p \in Policies, ReleaseLease(a, p)
      PROVE  Owners' /\ LeasesKept' /\ SlotsKept' /\ WindowsKept' /\ CreditKept'
  BY <1>7, ReleaseStep
<1> QED
  BY <1>2, <1>3, <1>4, <1>5, <1>6, <1>7 DEF UsageNext

\* Any step keeps where the attempts are in order.
LEMMA AttemptStep ==
    ASSUME UsageInv, UsageTypeOK', [UsageNext]_usageVars
    PROVE  TimesPast' /\ Carried'
<1> DEFINE Fits == TimesPast' /\ Carried'
<1>1. UsageTypeOK /\ TimesPast /\ Carried /\ Owners
  BY DEF UsageInv
<1>2. /\ clock \in Nat /\ UsageNone \notin Attempts
      /\ \A b \in Attempts : /\ now[b] \in Nat /\ admittedAt[b] \in Nat /\ now[b] <= clock /\ admittedAt[b] <= clock
                             /\ Operation(b) \in Operations
  BY <1>1, UsageAssumption, KeysOf DEF TimesPast, UsageTypeOK
<1>3. ASSUME NEW a \in Attempts, \A b \in Attempts : b # a => pc'[b] = pc[b]
      PROVE  IsFiniteSet(Started')
  <2>1. IsFiniteSet(Started \cup {a})
    BY <1>1, FS_AddElement DEF TimesPast
  <2>2. Started' \in SUBSET (Started \cup {a})
    BY <1>3 DEF Started
  <2> QED
    BY <2>1, <2>2, FS_Subset
<1>4. CASE UNCHANGED usageVars \/ Revise \/ Tick
  <2>1. UNCHANGED <<pc, rev, now, held, admittedAt, ops>> /\ clock' \in Nat /\ clock <= clock'
    BY <1>2, <1>4 DEF usageVars, Revise, Tick, counterVars
  <2>2. TimesPast'
    <3>1. Started' = Started
      BY <2>1 DEF Started
    <3> QED
      BY <1>1, <1>2, <2>1, <3>1 DEF TimesPast
  <2> QED
    BY <1>1, <2>1, <2>2 DEF Carried, Operation
<1>5. ASSUME NEW a \in Attempts, Begin(a)
      PROVE  Fits
  <2>1. /\ \A b \in Attempts : b # a => pc'[b] = pc[b] /\ now'[b] = now[b] /\ rev'[b] = rev[b]
        /\ pc'[a] = "admit" /\ now'[a] = clock /\ UNCHANGED <<clock, held, admittedAt, ops>>
    BY <1>1, <1>5 DEF Begin, Goto, UsageTypeOK, counterVars
  <2>2. TimesPast'
    BY <1>2, <1>3, <2>1 DEF TimesPast
  <2> QED
    BY <1>1, <2>1, <2>2 DEF Carried, Operation
<1>6. ASSUME NEW a \in Attempts, Admit(a) \/ AdmitLost(a) \/ UsageReject(a)
      PROVE  Fits
  <2>1. /\ \A b \in Attempts : b # a => pc'[b] = pc[b] /\ held'[b] = held[b]
        /\ UNCHANGED otherVars /\ pc[a] = "admit"
        /\ pc'[a] = "rejected" \/ (pc'[a] = "oauth" /\ held'[a] = ops'[Operation(a)])
        /\ AdmissionScript(a) \/ UNCHANGED <<counterVars, admittedAt>>
    BY <1>1, <1>6 DEF Admit, AdmitLost, UsageReject, Goto, UsageTypeOK
  <2>2. UNCHANGED <<clock, rev, now>>
    BY <2>1 DEF otherVars
  <2>3. /\ admittedAt' = admittedAt \/ admittedAt' = [admittedAt EXCEPT ![a] = clock]
        /\ ops' = ops \/ (ops[Operation(a)] = UsageNone /\ ops' = [ops EXCEPT ![Operation(a)] = a])
    BY <2>1 DEF AdmissionScript, Debit, counterVars
  <2>4. TimesPast'
    <3>1. \A b \in Attempts : admittedAt'[b] <= clock
      BY <1>1, <1>2, <2>3 DEF UsageTypeOK
    <3> QED
      BY <1>2, <1>3, <2>1, <2>2, <3>1 DEF TimesPast
  <2>5. Carried'
    <3> SUFFICES ASSUME NEW b \in Attempts, pc'[b] \notin {"new", "admit", "rejected"}
                 PROVE  held'[b] \in Attempts /\ held'[b] = ops'[Operation(b)]
      BY <2>2 DEF Carried, Operation
    <3>1. CASE b # a
      <4>1. held[b] \in Attempts /\ held[b] = ops[Operation(b)] /\ held'[b] = held[b]
        BY <1>1, <2>1, <3>1 DEF Carried
      <4>2. ops'[Operation(b)] = ops[Operation(b)]
        BY <1>1, <1>2, <2>3, <4>1 DEF UsageTypeOK
      <4> QED
        BY <4>1, <4>2
    <3>2. CASE b = a
      <4>1. held'[a] = ops'[Operation(a)] /\ Admit(a)
        <5>1. pc'[a] = "oauth"
          BY <2>1, <3>2
        <5>2. ~ AdmitLost(a) /\ ~ UsageReject(a)
          BY <1>1, <5>1 DEF AdmitLost, UsageReject, Goto, UsageTypeOK
        <5> QED
          BY <1>6, <2>1, <5>1, <5>2
      <4>2. ops'[Operation(a)] # UsageNone
        <5>1. AdmissionScript(a)
          BY <4>1 DEF Admit
        <5>2. CASE ops[Operation(a)] # UsageNone
          BY <1>2, <2>3, <5>2
        <5>3. CASE ops[Operation(a)] = UsageNone
          <6>1. ops' = [ops EXCEPT ![Operation(a)] = a]
            BY <5>1, <5>3 DEF AdmissionScript, Debit
          <6> QED
            BY <1>1, <1>2, <6>1 DEF UsageTypeOK
        <5> QED
          BY <5>2, <5>3
      <4>3. ops'[Operation(a)] \in Attempts \cup {UsageNone}
        BY <1>2 DEF UsageTypeOK
      <4> QED
        BY <3>2, <4>1, <4>2, <4>3
    <3> QED
      BY <3>1, <3>2
  <2> QED
    BY <2>4, <2>5
<1>7. ASSUME NEW a \in Attempts,
             \/ ResolveOAuth(a) \/ OAuthFails(a) \/ Consume(a) \/ AlreadyConsumed(a) \/ ConsumeLost(a)
             \/ Observe(a) \/ ObserveFails(a) \/ Vanish(a) \/ EndStream(a) \/ ReleaseEnds(a) \/ ReleaseFails(a)
      PROVE  Fits
  <2>1. PICK s : Moves(a, s)
    BY <1>7, MovesOf
  <2>2. /\ \A b \in Attempts : b # a => pc'[b] = pc[b]
        /\ pc[a] \notin {"new", "admit", "rejected"}
        /\ UNCHANGED <<clock, rev, now, held, admittedAt, ops>>
    BY <1>1, <2>1 DEF Moves, Goto, UsageTypeOK, counterVars
  <2>3. TimesPast'
    BY <1>2, <1>3, <2>2 DEF TimesPast
  <2> QED
    BY <1>1, <2>2, <2>3 DEF Carried, Operation
<1>8. ASSUME NEW a \in Attempts, NEW p \in Policies, ReleaseLease(a, p)
      PROVE  Fits
  <2>1. UNCHANGED <<pc, rev, now, held, admittedAt, ops, clock>>
    BY <1>8 DEF ReleaseLease
  <2>2. Started' = Started
    BY <2>1 DEF Started
  <2> QED
    BY <1>1, <2>1, <2>2 DEF TimesPast, Carried, Operation
<1> QED
  BY <1>4, <1>5, <1>6, <1>7, <1>8 DEF UsageNext

\* Any step keeps what is said of the grant.
LEMMA GrantStep ==
    ASSUME UsageInv, UsageTypeOK', [UsageNext]_usageVars
    PROVE  GrantKept'
<1>1. /\ UsageTypeOK /\ GrantKept /\ clock \in Nat /\ GrantExpiry \in Nat /\ uses \subseteq Attempts \X Nat
      /\ usageGrant.exp \in Nat /\ UsageNone \notin Correlations
  BY UsageAssumption DEF UsageInv, UsageTypeOK
<1>2. CASE UNCHANGED <<clock, usageGrant, uses>>
  BY <1>1, <1>2 DEF GrantKept, GrantOnceInTime
<1>3. CASE Tick
  <2>1. /\ clock' = clock + 1 /\ uses' = uses
        /\ usageGrant' = IF usageGrant.exp <= clock + 1 THEN [by |-> UsageNone, exp |-> 0] ELSE usageGrant
    BY <1>3 DEF Tick
  <2>2. usageGrant'.by # UsageNone => usageGrant'.exp >= GrantExpiry
    BY <1>1, <2>1 DEF GrantKept
  <2>3. ASSUME clock' < GrantExpiry, NEW u \in uses
        PROVE  usageGrant'.by = Corr[u[1]]
    <3>1. usageGrant.by = Corr[u[1]] /\ Corr[u[1]] \in Correlations
      BY <1>1, <2>1, <2>3, UsageAssumption DEF GrantKept
    <3>2. usageGrant.exp >= GrantExpiry
      BY <1>1, <3>1 DEF GrantKept
    <3> QED
      BY <1>1, <2>1, <2>3, <3>1, <3>2
  <2> QED
    BY <1>1, <2>1, <2>2, <2>3 DEF GrantKept, GrantOnceInTime
<1>4. ASSUME NEW a \in Attempts, Take(a), UNCHANGED clock,
             UNCHANGED uses \/ uses' = uses \cup {<<a, clock>>}
      PROVE  GrantKept'
  <2>1. /\ usageGrant'.by = Corr[a] /\ usageGrant'.exp \in Nat
        /\ usageGrant.by = UsageNone => usageGrant'.exp >= clock + GrantExpiry - now[a]
        /\ usageGrant.by # UsageNone => usageGrant' = usageGrant
    BY <1>1, <1>4, TakeTypes DEF UsageTypeOK
  <2>2. now[a] <= clock /\ now[a] \in Nat /\ Corr[a] \in Correlations
    BY <1>1, KeysOf, UsageAssumption DEF UsageInv, TimesPast
  <2>3. usageGrant'.exp >= GrantExpiry
    <3>1. CASE usageGrant.by = UsageNone
      BY <1>1, <2>1, <2>2, <3>1
    <3>2. CASE usageGrant.by # UsageNone
      BY <1>1, <2>1, <3>2 DEF GrantKept
    <3> QED
      BY <3>1, <3>2
  <2>4. ASSUME clock < GrantExpiry, NEW u \in uses'
        PROVE  Corr[u[1]] = Corr[a]
    <3>1. CASE u \in uses
      <4>1. usageGrant.by = Corr[u[1]] /\ Corr[u[1]] \in Correlations
        BY <1>1, <2>4, <3>1, UsageAssumption DEF GrantKept
      <4> QED
        BY <1>1, <2>1, <4>1
    <3>2. CASE u = <<a, clock>>
      BY <3>2
    <3> QED
      BY <1>4, <3>1, <3>2
  <2>5. GrantOnceInTime'
    <3> SUFFICES ASSUME NEW u \in uses', NEW v \in uses', u[2] < GrantExpiry, v[2] < GrantExpiry
                 PROVE  Corr[u[1]] = Corr[v[1]]
      BY DEF GrantOnceInTime
    <3>1. CASE clock < GrantExpiry
      BY <2>4, <3>1
    <3>2. CASE ~ (clock < GrantExpiry)
      <4>1. u \in uses /\ v \in uses
        BY <1>4, <3>2
      <4> QED
        BY <1>1, <4>1 DEF GrantKept, GrantOnceInTime
    <3> QED
      BY <3>1, <3>2
  <2> QED
    BY <1>4, <2>1, <2>3, <2>4, <2>5 DEF GrantKept
<1>5. ASSUME NEW a \in Attempts,
             \/ ResolveOAuth(a) \/ OAuthFails(a) \/ Consume(a) \/ AlreadyConsumed(a) \/ ConsumeLost(a)
             \/ Observe(a) \/ ObserveFails(a) \/ Vanish(a) \/ EndStream(a) \/ ReleaseEnds(a) \/ ReleaseFails(a)
      PROVE  GrantKept'
  <2>1. UNCHANGED clock
    BY <1>5, MovesOf DEF Moves
  <2> QED
    BY <1>2, <1>4, <1>5, <2>1, GrantSteps
<1>6. ASSUME NEW a \in Attempts, Begin(a) \/ Admit(a) \/ AdmitLost(a) \/ UsageReject(a)
      PROVE  UNCHANGED <<clock, usageGrant, uses>>
  BY <1>6 DEF Begin, Admit, AdmitLost, UsageReject, otherVars
<1>7. ASSUME NEW a \in Attempts, NEW p \in Policies, ReleaseLease(a, p)
      PROVE  UNCHANGED <<clock, usageGrant, uses>>
  BY <1>7 DEF ReleaseLease
<1>8. UNCHANGED usageVars \/ Revise => UNCHANGED <<clock, usageGrant, uses>>
  BY DEF usageVars, Revise
<1> QED
  BY <1>2, <1>3, <1>5, <1>6, <1>7, <1>8 DEF UsageNext

LEMMA UsageInitially == UsageInit => UsageInv
<1> SUFFICES ASSUME UsageInit PROVE UsageInv
  OBVIOUS
<1>1. UsageTypeOK
  BY UsageInitTypes
<1>2. Started = {} /\ Admitted = {}
  BY DEF UsageInit, Started, Admitted
<1>3. Owners /\ Carried /\ TimesPast
  BY <1>2, FS_EmptySet DEF UsageInit, Owners, OwnerOf, Carried, TimesPast
<1>4. LeasesKept
  <2> SUFFICES ASSUME NEW a \in Attempts, NEW p \in Policies PROVE LeaseOf(a, p)
    BY DEF LeasesKept
  <2>1. index[<<a, p>>] = 0 /\ released = {}
    BY DEF UsageInit, Leases
  <2>2. ~ Owns(a)
    <3>1. Operation(a) \in Operations /\ UsageNone \notin Attempts
      BY <1>1, KeysOf
    <3> QED
      BY <3>1 DEF Owns, UsageInit
  <2> QED
    BY <2>1, <2>2 DEF LeaseOf
<1>5. SlotsKept
  <2> SUFFICES ASSUME NEW k \in UsageKeys, ConcurrencyLimit[k[1]] >= 0 PROVE SlotsOf(k)
    BY DEF SlotsKept
  <2>1. Live(k) = {} /\ Lapsed(k) = {}
    BY <1>2 DEF Live, Lapsed, UsageInit
  <2>2. concurrency[k].n = 0 /\ Cardinality({}) = 0
    BY FS_EmptySet DEF UsageInit, Absent
  <2> QED
    BY <2>1, <2>2 DEF SlotsOf
<1>6. \A r, b : InWindow(r, b) = {}
  BY <1>2 DEF InWindow
<1>7. WindowsKept
  BY <1>6, FS_EmptySet DEF WindowsKept, WindowOf
<1>8. CreditKept
  <2>1. IsFiniteSet(Admitted) /\ Cardinality(Admitted) = 0 /\ Credits * 0 = 0
    BY <1>2, FS_EmptySet, UsageAssumption
  <2> QED
    BY <2>1 DEF CreditKept, DebitedOnce, UsageInit
<1>9. GrantKept
  BY DEF GrantKept, GrantOnceInTime, UsageInit
<1> QED
  BY <1>1, <1>3, <1>4, <1>5, <1>7, <1>8, <1>9 DEF UsageInv

\* Requests under way that are no retries have a live lease each.
LEMMA ProcessingIsLeased ==
    ASSUME UsageInv, NEW k \in UsageKeys, ConcurrencyLimit[k[1]] >= 0
    PROVE  Cardinality({a \in Attempts : /\ pc[a] = "process" /\ rev[a] = k[2] /\ ~Retried(a)
                                         /\ clock < admittedAt[a] + LeaseTtl}) <= ConcurrencyLimit[k[1]]
<1> DEFINE S == {a \in Attempts : /\ pc[a] = "process" /\ rev[a] = k[2] /\ ~Retried(a)
                                  /\ clock < admittedAt[a] + LeaseTtl}
           f == [a \in S |-> <<a, k[1]>>]
<1>1. k[1] \in Policies /\ k[1] \in Limited /\ LeaseTtl \in Nat /\ clock \in Nat
  BY UsageAssumption DEF UsageKeys, Limited, UsageInv, UsageTypeOK
<1>2. ASSUME NEW a \in S
      PROVE  <<a, k[1]>> \in Live(k)
  <2>1. a \in Attempts /\ pc[a] = "process" /\ rev[a] = k[2] /\ ~Retried(a) /\ clock < admittedAt[a] + LeaseTtl
    BY <1>2
  <2>2. /\ Operation(a) \in Operations /\ Operation(a)[1] = Corr[a] /\ UsageNone \notin Attempts
        /\ admittedAt[a] \in Nat
    BY <2>1, KeysOf DEF UsageInv
  <2>3. PICK h \in Attempts : h = ops[Operation(a)]
    BY <2>1 DEF UsageInv, Carried
  <2>4. Operation(h) = Operation(a) /\ pc[h] # "new"
    BY <2>2, <2>3 DEF UsageInv, Owners, OwnerOf
  <2>5. Corr[h] = Corr[a]
    BY <2>2, <2>3, <2>4, KeysOf DEF UsageInv
  <2>6. h = a /\ Owns(a)
    BY <2>1, <2>3, <2>4, <2>5 DEF Retried, Owns
  <2>7. <<a, k[1]>> \notin released
    <3>1. ASSUME NEW b \in Attempts, pc[b] \in {"release", "done"}, Corr[b] = Corr[a]
          PROVE  FALSE
      BY <2>1, <3>1 DEF Retried
    <3> QED
      BY <1>1, <2>1, <3>1 DEF UsageInv, LeasesKept, LeaseOf
  <2>8. index[<<a, k[1]>>] # 0
    <3>1. LeaseOf(a, k[1])
      BY <1>1, <2>1 DEF UsageInv, LeasesKept
    <3>2. ~ (admittedAt[a] + LeaseTtl <= clock)
      BY <1>1, <2>1, <2>2
    <3> QED
      BY <1>1, <2>6, <2>7, <3>1, <3>2 DEF LeaseOf
  <2> QED
    BY <1>1, <2>1, <2>8 DEF Live, Leases
<1>3. /\ SlotsOf(k) /\ IsFiniteSet(Live(k)) /\ Cardinality(Live(k)) \in Nat
  BY LeasesFinite DEF UsageInv, SlotsKept
<1>4. f \in Injection(S, Live(k))
  BY <1>2 DEF Injection, IsInjective
<1>5. Cardinality(S) <= Cardinality(Live(k)) /\ IsFiniteSet(S)
  BY <1>3, <1>4, FS_Injection
<1>6. Cardinality(S) \in Nat
  BY <1>5, FS_CardinalityType
<1>7. concurrency[k].n \in Nat /\ ConcurrencyLimit[k[1]] \in Int
  <2>1. ConcurrencyLimit[k[1]] \in Nat \cup {-1}
    BY <1>1, UsageAssumption DEF UsageLimits
  <2> QED
    BY <2>1 DEF UsageInv, UsageTypeOK, Counter
<1>8. Cardinality(S) <= ConcurrencyLimit[k[1]]
  BY <1>3, <1>5, <1>6, <1>7 DEF SlotsOf
<1> QED
  BY <1>8

\* Quotas, concurrency limits, credits and the execution grant hold together,
\* whatever is retried, however late a script runs, whichever answer of the
\* store is lost and whenever its keys expire (admissionScript, releaseScript
\* and executionGrantScript).
THEOREM AdmissionIsSafe == UsageSpec => []AdmissionSafe
<1>1. UsageInv /\ [UsageNext]_usageVars => UsageInv'
  <2> SUFFICES ASSUME UsageInv, [UsageNext]_usageVars
               PROVE  UsageInv'
    OBVIOUS
  <2>1. UsageTypeOK'
    BY UsageTypesStep DEF UsageInv
  <2> QED
    BY <2>1, StoreStep, AttemptStep, GrantStep DEF UsageInv
<1>2. UsageInv => AdmissionSafe
  <2> SUFFICES ASSUME UsageInv PROVE AdmissionSafe
    OBVIOUS
  <2>1. UsageTypeOK /\ DebitedOnce /\ GrantOnceInTime
    BY DEF UsageInv, CreditKept, GrantKept
  <2>2. QuotaHeld
    BY DEF UsageInv, WindowsKept, WindowOf, InWindow, QuotaHeld
  <2>3. ConcurrencyHeld
    BY ProcessingIsLeased DEF ConcurrencyHeld
  <2>4. SlotsAccounted
    BY DEF UsageInv, SlotsKept, SlotsOf, SlotsAccounted
  <2> QED
    BY <2>1, <2>2, <2>3, <2>4 DEF AdmissionSafe
<1> QED
  BY <1>1, <1>2, UsageInitially, PTL DEF UsageSpec

-----------------------------------------------------------------------------
(* The shared memories: the invariant *)

MemoryRows == [present : BOOLEAN, key : MemoriesKeys \cup {MemoriesNone}, content : MemoriesContents \cup {MemoriesNone},
               rev : Nat, agent : BOOLEAN, confirmed : BOOLEAN]

ProposalRows == [status : {"none", "PENDING", "STALE", "ACCEPTED", "REJECTED"}, id : Ids \cup {0}, base : Nat,
                 content : MemoriesContents \cup {MemoriesNone}, by : Principals \cup {MemoriesNone}, grant : Nat]

\* The types of what the writes read.
MemoriesTypes ==
    /\ memory \in [Ids -> MemoryRows] /\ nextId \in Nat \ {0}
    /\ \E E : log \in Seq(E)
    /\ \A n \in 1 .. Len(log) : log[n].rev \in Nat /\ log[n].id \in Ids /\ log[n].id < nextId /\ log[n].key \in Requests
    /\ proposal \in [Requests -> ProposalRows]
    /\ DOMAIN memoriesGrant = Agents /\ \A a \in Agents : memoriesGrant[a].id \in Nat
    /\ DOMAIN cmd = Requests /\ DOMAIN txn = Requests
    /\ answers \in [Requests -> SUBSET [id : Ids, rev : Nat]]
    /\ role \in [Principals -> {"none", "CONTRIBUTE", "MANAGE"}]

\* A command names a memory, except for one that makes a new memory, and
\* nothing has happened under a key that has none.
CommandOf(r) ==
    /\ cmd[r].op \in {"none", "remember", "delete", "propose"}
    /\ cmd[r].op # "none" => /\ cmd[r].content \in MemoriesContents /\ cmd[r].by \in Principals /\ cmd[r].rev \in Nat
                             /\ cmd[r].key \in MemoriesKeys \cup {MemoriesNone}
                             /\ cmd[r].id \in Ids \cup {0}
    /\ cmd[r].op \in {"delete", "propose"} => cmd[r].id \in Ids
    /\ cmd[r].op = "none" => /\ answers[r] = {} /\ proposal[r].status = "none" /\ ~txn[r].open
                             /\ \A n \in 1 .. Len(log) : log[n].key # r
    /\ txn[r].open => cmd[r].op = "remember" /\ cmd[r].by \in Agents /\ txn[r].id \in Ids \cup {0}
CommandsKept == \A r \in Requests : CommandOf(r)

\* A user's remember makes no proposal, and what it was answered is its
\* mutation.
UserRemembers(r) == cmd[r].op = "remember" /\ cmd[r].by \in Users

ProposalOf(r) ==
    /\ proposal[r].status # "PENDING" <=> proposal[r].content = MemoriesNone
    /\ proposal[r].status = "PENDING" => proposal[r].content = cmd[r].content /\ proposal[r].id \in Ids
                                         /\ proposal[r].base \in Nat
    /\ proposal[r].status # "none" => ~UserRemembers(r)
ProposalsKept == \A r \in Requests : ProposalOf(r)

AnswersKept ==
    \A r \in Requests : cmd[r].by \in Users /\ cmd[r].op # "none" =>
        \A x \in answers[r] :
            /\ cmd[r].op = "remember"
            /\ \E n \in 1 .. Len(log) : log[n].key = r /\ ~log[n].accepted /\ x.id = log[n].id /\ x.rev = log[n].rev

AcceptedOnly == \A n \in 1 .. Len(log) : log[n].accepted => ~UserRemembers(log[n].key)

OneEffect ==
    \A m, n \in 1 .. Len(log) : log[m].key = log[n].key /\ ~log[m].accepted /\ ~log[n].accepted => m = n

RowsKept == \A i \in Ids : memory[i].present => i < nextId /\ memory[i].rev > 0 /\ memory[i].content # MemoriesNone

MemoriesInv ==
    /\ MemoriesTypes /\ RowsKept /\ CommandsKept /\ ProposalsKept /\ AnswersKept /\ AcceptedOnly /\ OneEffect
    /\ PendingCurrent /\ HistoryComplete /\ IdentityOnce /\ ConfirmedAsReviewed

-----------------------------------------------------------------------------
(* The log *)

\* A log that an entry is added to.
LEMMA LogAppended ==
    ASSUME MemoriesTypes, NEW e, log' = Append(log, e)
    PROVE  /\ Len(log) \in Nat /\ Len(log') = Len(log) + 1
           /\ log'[Len(log) + 1] = e
           /\ \A n \in 1 .. Len(log) : log'[n] = log[n]
           /\ \E E : log' \in Seq(E)
<1>1. PICK E : log \in Seq(E)
  BY DEF MemoriesTypes
<1>2. log \in Seq(E \cup {e}) /\ e \in E \cup {e}
  BY <1>1
<1>3. log' \in Seq(E \cup {e})
  BY <1>2
<1> QED
  BY <1>1, <1>2, <1>3

\* The write of request r to memory i: its row becomes new, and e is logged. It
\* makes the memory, replaces it or deletes it.
Creation(i, e, new) ==
    /\ i = nextId /\ e.op = "CREATED" /\ e.prev = 0 /\ new.present
    /\ new.rev = 1 /\ e.rev = new.rev /\ ~new.confirmed
    /\ \A j \in Ids : memory[j].present => memory[j].key # new.key

Replacement(i, e, new) ==
    /\ memory[i].present /\ e.op = "REPLACED" /\ e.prev = memory[i].rev /\ new.present
    /\ new.rev = memory[i].rev + 1 /\ e.rev = new.rev /\ new.key = memory[i].key
    /\ new.agent => new.confirmed

Deletion(i, e, new) ==
    /\ memory[i].present /\ e.op = "DELETED" /\ e.prev = memory[i].rev /\ ~new.present

Writes(r, i, e, new) ==
    /\ memory' = [memory EXCEPT ![i] = new] /\ new \in MemoryRows
    /\ log' = Append(log, e) /\ e.key = r /\ e.id = i /\ e.rev \in Nat
    /\ nextId' \in Nat \ {0} /\ nextId <= nextId' /\ i < nextId'
    /\ new.present => new.content # MemoriesNone
    /\ new.present /\ new.confirmed => e.accepted /\ new.content = cmd[r].content
    /\ Creation(i, e, new) \/ Replacement(i, e, new) \/ Deletion(i, e, new)
    /\ UNCHANGED cmd

LEMMA WritesHistory ==
    ASSUME MemoriesInv, NEW r \in Requests, NEW i \in Ids, NEW e, NEW new, Writes(r, i, e, new)
    PROVE  HistoryComplete'
<1> DEFINE N == Len(log) + 1
<1>1. /\ Len(log) \in Nat /\ Len(log') = N /\ log'[N] = e
      /\ \A n \in 1 .. Len(log) : log'[n] = log[n]
  BY LogAppended DEF MemoriesInv, Writes
<1>2. /\ \A j \in Ids : j # i => History(j)' = History(j) /\ memory'[j] = memory[j]
      /\ History(i)' = History(i) \cup {N}
      /\ memory'[i] = new
  <2>1. e.id = i /\ memory \in [Ids -> MemoryRows] /\ memory' = [memory EXCEPT ![i] = new]
    BY DEF Writes, MemoriesInv, MemoriesTypes
  <2>2. \A j \in Ids : j # i => History(j)' = History(j)
    BY <1>1, <2>1 DEF History
  <2>3. History(i)' = History(i) \cup {N}
    BY <1>1, <2>1 DEF History
  <2> QED
    BY <2>1, <2>2, <2>3
<1>3. \A j \in Ids : \A n \in History(j) : n \in Nat /\ n \in 1 .. Len(log) /\ n < N /\ log'[n] = log[n]
  BY <1>1 DEF History
<1>4. \A j \in Ids :
        /\ \A n \in History(j) :
              /\ log[n].op = "CREATED" <=> \A m \in History(j) : n <= m
              /\ log[n].op = "CREATED" => log[n].prev = 0
              /\ log[n].op = "DELETED" => IsLast(n, j)
        /\ \A m, n \in History(j) :
              m < n /\ ~(\E q \in History(j) : m < q /\ q < n) => log[n].prev = log[m].rev
        /\ memory[j].present <=> \E n \in History(j) : IsLast(n, j) /\ log[n].op # "DELETED"
        /\ \A n \in History(j) : memory[j].present /\ IsLast(n, j) => log[n].rev = memory[j].rev
  BY DEF MemoriesInv, HistoryComplete
<1> HIDE DEF N
<1>5. \A n : IsLast(n, i)' <=> n = N
  <2>1. \A n : IsLast(n, i)' <=> n \in History(i)' /\ \A m \in History(i)' : m <= n
    BY DEF IsLast
  <2>2. N \in Nat
    BY <1>1 DEF N
  <2>3. N \in History(i)' /\ \A m \in History(i)' : m <= N
    BY <1>2, <1>3, <2>2
  <2>4. ASSUME NEW n, n \in History(i)', \A m \in History(i)' : m <= n
        PROVE  n = N
    <3>1. n \in Nat /\ n <= N
      BY <1>2, <1>3, <2>2, <2>4
    <3>2. N <= n
      BY <2>3, <2>4
    <3> QED
      BY <2>2, <3>1, <3>2
  <2> QED
    BY <2>1, <2>3, <2>4
<1>6. ASSUME NEW j \in Ids, j # i
      PROVE  /\ \A n \in History(j)' :
                  /\ log'[n].op = "CREATED" <=> \A m \in History(j)' : n <= m
                  /\ log'[n].op = "CREATED" => log'[n].prev = 0
                  /\ log'[n].op = "DELETED" => IsLast(n, j)'
             /\ \A m, n \in History(j)' :
                  m < n /\ ~(\E q \in History(j)' : m < q /\ q < n) => log'[n].prev = log'[m].rev
             /\ memory'[j].present <=> \E n \in History(j)' : IsLast(n, j)' /\ log'[n].op # "DELETED"
             /\ \A n \in History(j)' : memory'[j].present /\ IsLast(n, j)' => log'[n].rev = memory'[j].rev
  <2>1. History(j)' = History(j) /\ memory'[j] = memory[j]
    BY <1>2, <1>6
  <2>2. \A n : IsLast(n, j)' <=> IsLast(n, j)
    BY <2>1 DEF IsLast
  <2> QED
    BY <1>3, <1>4, <2>1, <2>2
<1>7. /\ History(i) # {} => /\ e.op # "CREATED" /\ memory[i].present /\ e.prev = memory[i].rev
      /\ History(i) = {} => e.op = "CREATED" /\ e.prev = 0
      /\ e.op \in {"CREATED", "REPLACED", "DELETED"}
  <2>1. CASE Creation(i, e, new)
    <3>1. History(i) = {}
      BY <2>1 DEF Creation, History, MemoriesInv, MemoriesTypes
    <3> QED
      BY <2>1, <3>1 DEF Creation
  <2>2. CASE Replacement(i, e, new) \/ Deletion(i, e, new)
    <3>1. memory[i].present /\ e.prev = memory[i].rev /\ e.op \in {"REPLACED", "DELETED"}
      BY <2>2 DEF Replacement, Deletion
    <3>2. History(i) # {}
      BY <1>4, <3>1
    <3> QED
      BY <3>1, <3>2
  <2> QED
    BY <2>1, <2>2 DEF Writes
<1>8. ASSUME NEW m \in History(i), ~ (\E q \in History(i) : m < q)
      PROVE  IsLast(m, i) /\ e.prev = log[m].rev
  <2>1. IsLast(m, i)
    BY <1>3, <1>8 DEF IsLast
  <2> QED
    BY <1>4, <1>7, <2>1
<1>9. \A n \in History(i)' :
          /\ log'[n].op = "CREATED" <=> \A m \in History(i)' : n <= m
          /\ log'[n].op = "CREATED" => log'[n].prev = 0
          /\ log'[n].op = "DELETED" => IsLast(n, i)'
  <2> SUFFICES ASSUME NEW n \in History(i)'
               PROVE  /\ log'[n].op = "CREATED" <=> \A m \in History(i)' : n <= m
                      /\ log'[n].op = "CREATED" => log'[n].prev = 0
                      /\ log'[n].op = "DELETED" => IsLast(n, i)'
    OBVIOUS
  <2>1. N \in Nat
    BY <1>1 DEF N
  <2>2. CASE n = N
    <3>1. (\A m \in History(i)' : N <= m) <=> History(i) = {}
      BY <1>2, <1>3, <2>1
    <3> QED
      BY <1>1, <1>5, <1>7, <2>2, <3>1
  <2>3. CASE n # N
    <3>1. n \in History(i) /\ log'[n] = log[n] /\ n <= N /\ n \in Nat
      BY <1>2, <1>3, <2>1, <2>3
    <3>2. (\A m \in History(i)' : n <= m) <=> \A m \in History(i) : n <= m
      BY <1>2, <3>1
    <3>3. log[n].op # "DELETED"
      <4>1. memory[i].present
        BY <1>7, <3>1
      <4>2. PICK k \in History(i) : IsLast(k, i) /\ log[k].op # "DELETED"
        BY <1>4, <4>1
      <4>3. ASSUME log[n].op = "DELETED"
            PROVE  n = k
        <5>1. IsLast(n, i)
          BY <1>4, <3>1, <4>3
        <5>2. k <= n
          BY <5>1 DEF IsLast
        <5>3. n <= k
          BY <3>1, <4>2 DEF IsLast
        <5>4. n \in Nat /\ k \in Nat
          BY <1>3, <3>1
        <5> QED
          BY <5>2, <5>3, <5>4
      <4> QED
        BY <4>2, <4>3
    <3> QED
      BY <1>4, <3>1, <3>2, <3>3
  <2> QED
    BY <2>2, <2>3
<1>10. \A m, n \in History(i)' :
          m < n /\ ~(\E q \in History(i)' : m < q /\ q < n) => log'[n].prev = log'[m].rev
  <2> SUFFICES ASSUME NEW m \in History(i)', NEW n \in History(i)',
                      m < n, ~(\E q \in History(i)' : m < q /\ q < n)
               PROVE  log'[n].prev = log'[m].rev
    OBVIOUS
  <2>1. N \in Nat
    BY <1>1 DEF N
  <2>2. m \in History(i) /\ log'[m] = log[m]
    BY <1>2, <1>3, <2>1
  <2>3. CASE n = N
    <3>1. ~ (\E q \in History(i) : m < q)
      BY <1>2, <1>3, <2>3
    <3> QED
      BY <1>1, <1>8, <2>2, <2>3, <3>1
  <2>4. CASE n # N
    <3>1. n \in History(i) /\ log'[n] = log[n]
      BY <1>2, <1>3, <2>4
    <3> QED
      BY <1>2, <1>4, <2>2, <3>1
  <2> QED
    BY <2>3, <2>4
<1>11. /\ memory'[i].present <=> \E n \in History(i)' : IsLast(n, i)' /\ log'[n].op # "DELETED"
       /\ \A n \in History(i)' : memory'[i].present /\ IsLast(n, i)' => log'[n].rev = memory'[i].rev
  <2>1. new.present <=> e.op # "DELETED"
    BY DEF Writes, Creation, Replacement, Deletion
  <2>2. new.present => e.rev = new.rev
    BY DEF Writes, Creation, Replacement, Deletion
  <2> QED
    BY <1>1, <1>2, <1>5, <2>1, <2>2
<1> QED
  BY <1>6, <1>9, <1>10, <1>11 DEF HistoryComplete

\* The rows of the memories and the entries that confirmed them.
LEMMA WritesRows ==
    ASSUME MemoriesInv, NEW r \in Requests, NEW i \in Ids, NEW e, NEW new, Writes(r, i, e, new)
    PROVE  /\ memory' \in [Ids -> MemoryRows] /\ nextId' \in Nat \ {0}
           /\ RowsKept' /\ IdentityOnce' /\ ConfirmedAsReviewed'
<1>1. memory \in [Ids -> MemoryRows] /\ nextId \in Nat \ {0} /\ Ids \subseteq Nat
  BY DEF MemoriesInv, MemoriesTypes, Ids
<1>2. /\ memory' = [memory EXCEPT ![i] = new] /\ new \in MemoryRows
      /\ nextId' \in Nat \ {0} /\ nextId <= nextId' /\ i < nextId' /\ cmd' = cmd
  BY DEF Writes
<1>3. /\ memory' \in [Ids -> MemoryRows] /\ memory'[i] = new
      /\ \A j \in Ids : j # i => memory'[j] = memory[j]
  BY <1>1, <1>2
<1>4. /\ Len(log) \in Nat /\ Len(log') = Len(log) + 1 /\ log'[Len(log) + 1] = e
      /\ \A n \in 1 .. Len(log) : log'[n] = log[n]
  BY LogAppended DEF MemoriesInv, Writes
<1>5. /\ \A j \in Ids : memory[j].present => j < nextId /\ memory[j].rev > 0 /\ memory[j].content # MemoriesNone
      /\ \A j \in Ids : memory[j].rev \in Nat
  BY <1>1 DEF MemoriesInv, RowsKept, MemoryRows
<1>6. new.rev \in Nat
  BY <1>2 DEF MemoryRows
<1>7. RowsKept'
  <2> SUFFICES ASSUME NEW j \in Ids, memory'[j].present
               PROVE  j < nextId' /\ memory'[j].rev > 0 /\ memory'[j].content # MemoriesNone
    BY DEF RowsKept, Ids
  <2>1. CASE j # i
    BY <1>1, <1>2, <1>3, <1>5, <2>1
  <2>2. CASE j = i
    <3>1. new.present /\ new.content # MemoriesNone
      BY <1>3, <2>2 DEF Writes
    <3>2. new.rev > 0
      BY <1>5, <3>1 DEF Writes, Creation, Replacement, Deletion
    <3> QED
      BY <1>2, <1>3, <2>2, <3>1, <3>2
  <2> QED
    BY <2>1, <2>2
<1>8. IdentityOnce'
  <2>1. ASSUME NEW j \in Ids, j # i, memory[j].present, new.present
        PROVE  memory[j].key # new.key
    BY <1>5, <2>1 DEF Writes, Creation, Replacement, Deletion, MemoriesInv, IdentityOnce
  <2>2. \A j, k \in Ids : memory[k].present /\ memory[j].present /\ memory[k].key = memory[j].key => k = j
    BY DEF MemoriesInv, IdentityOnce
  <2> SUFFICES ASSUME NEW j \in Ids, NEW k \in Ids, memory'[j].present, memory'[k].present, memory'[j].key = memory'[k].key
               PROVE  j = k
    BY DEF IdentityOnce, Ids
  <2> QED
    BY <1>3, <2>1, <2>2
<1>9. ConfirmedAsReviewed'
  <2> SUFFICES ASSUME NEW j \in Ids, memory'[j].present
               PROVE  /\ memory'[j].confirmed =>
                            \E n \in 1 .. Len(log') :
                                /\ log'[n].id = j /\ log'[n].rev = memory'[j].rev /\ log'[n].accepted
                                /\ memory'[j].content = cmd[log'[n].key].content
                      /\ memory'[j].agent /\ memory'[j].rev > 1 => memory'[j].confirmed
    BY <1>2 DEF ConfirmedAsReviewed, Ids
  <2>1. CASE j # i
    <3>1. memory'[j] = memory[j]
      BY <1>3, <2>1
    <3>2. 1 .. Len(log) \subseteq 1 .. Len(log')
      BY <1>4
    <3> QED
      BY <1>4, <3>1, <3>2 DEF MemoriesInv, ConfirmedAsReviewed
  <2>2. CASE j = i
    <3>1. new.present
      BY <1>3, <2>2
    <3>2. new.confirmed => /\ e.accepted /\ new.content = cmd[r].content
      BY <3>1 DEF Writes
    <3>3. e.id = i /\ e.key = r /\ e.rev = new.rev
      BY <3>1 DEF Writes, Creation, Replacement, Deletion
    <3>4. Len(log) + 1 \in 1 .. Len(log')
      BY <1>4
    <3>5. new.agent /\ new.rev > 1 => new.confirmed
      BY <3>1 DEF Writes, Creation, Replacement, Deletion
    <3> QED
      BY <1>3, <1>4, <2>2, <3>2, <3>3, <3>4, <3>5
  <2> QED
    BY <2>1, <2>2
<1> QED
  BY <1>2, <1>3, <1>7, <1>8, <1>9

-----------------------------------------------------------------------------
(* The rest of the invariant *)

\* An open transaction is closed, if any is.
TxnClosed(r) == txn' = txn \/ txn' = [txn EXCEPT ![r] = NoTxn]

\* What a write of request r does to the log's keys, to the corrections and to
\* the answers.
Effects(r, i, e) ==
    /\ cmd[r].op # "none" /\ e.accepted \in BOOLEAN
    /\ ~e.accepted => ~Prior(r)
    /\ e.accepted => ~UserRemembers(r)
    /\ \/ proposal' = proposal /\ i = nextId
       \/ \E except \in {MemoriesNone, r}, status \in {"STALE", "ACCEPTED"} :
             Settle(i, except, status) /\ (except = r => proposal[r].status = "PENDING" /\ proposal[r].id = i)
    /\ \/ answers' = answers
       \/ /\ answers' = [answers EXCEPT ![r] = @ \cup {[id |-> i, rev |-> e.rev]}]
          /\ cmd[r].op = "remember" /\ ~e.accepted
    /\ TxnClosed(r) /\ UNCHANGED role

LEMMA TxnClosedKept ==
    ASSUME MemoriesInv, NEW r \in Requests, TxnClosed(r)
    PROVE  DOMAIN txn' = Requests /\ \A q \in Requests : txn'[q] = txn[q] \/ ~txn'[q].open
<1>1. DOMAIN txn = Requests
  BY DEF MemoriesInv, MemoriesTypes
<1>2. ~NoTxn.open
  BY DEF NoTxn
<1> QED
  BY <1>1, <1>2 DEF TxnClosed

LEMMA WritesProposals ==
    ASSUME MemoriesInv, NEW r \in Requests, NEW i \in Ids, NEW e, NEW new, Writes(r, i, e, new), Effects(r, i, e)
    PROVE  /\ proposal' \in [Requests -> ProposalRows] /\ ProposalsKept' /\ PendingCurrent'
           /\ \A q \in Requests : proposal'[q].status = "none" <=> proposal[q].status = "none"
<1>1. proposal \in [Requests -> ProposalRows] /\ cmd' = cmd /\ memory \in [Ids -> MemoryRows]
  BY DEF MemoriesInv, MemoriesTypes, Writes
<1>2. \A q \in Requests : ProposalOf(q)
  BY DEF MemoriesInv, ProposalsKept
<1>3. \A q \in Requests : proposal[q].status = "PENDING" =>
          memory[proposal[q].id].present /\ memory[proposal[q].id].rev = proposal[q].base
  BY DEF MemoriesInv, PendingCurrent
<1>4. \A j \in Ids : j # i => memory'[j] = memory[j]
  BY <1>1 DEF Writes
<1>5. CASE proposal' = proposal /\ i = nextId
  <2>1. ~memory[i].present
    BY <1>5 DEF MemoriesInv, RowsKept, MemoriesTypes
  <2>2. \A q \in Requests : proposal[q].status = "PENDING" => memory'[proposal[q].id] = memory[proposal[q].id]
    BY <1>2, <1>3, <1>4, <2>1 DEF ProposalOf
  <2>3. PendingCurrent'
    BY <1>3, <1>5, <2>2 DEF PendingCurrent, Requests
  <2>4. ProposalsKept'
    BY <1>1, <1>2, <1>5 DEF ProposalsKept, ProposalOf, UserRemembers, Requests, Ids
  <2> QED
    BY <1>1, <1>5, <2>3, <2>4
<1>6. CASE \E except \in {MemoriesNone, r}, status \in {"STALE", "ACCEPTED"} :
             Settle(i, except, status) /\ (except = r => proposal[r].status = "PENDING" /\ proposal[r].id = i)
  <2>1. PICK except \in {MemoriesNone, r}, status \in {"STALE", "ACCEPTED"} :
             Settle(i, except, status) /\ (except = r => proposal[r].status = "PENDING" /\ proposal[r].id = i)
    BY <1>6
  <2>2. MemoriesNone \notin Requests
    BY MemoriesAssumption DEF Requests
  <2>3. proposal' \in [Requests -> ProposalRows]
    <3>1. ASSUME NEW q \in Requests, NEW s \in {"STALE", "ACCEPTED"}
          PROVE  [proposal[q] EXCEPT !.status = s, !.content = MemoriesNone] \in ProposalRows
      BY <1>1 DEF ProposalRows
    <3> QED
      BY <1>1, <2>1, <3>1 DEF Settle
  <2>4. ASSUME NEW q \in Requests
        PROVE  \/ proposal'[q] = proposal[q] /\ (proposal[q].status = "PENDING" => proposal[q].id # i)
               \/ proposal[q].status = "PENDING" /\ proposal'[q].status \in {"STALE", "ACCEPTED"}
                  /\ proposal'[q].content = MemoriesNone
    BY <1>1, <2>1, <2>2 DEF Settle, ProposalRows
  <2>5. ProposalsKept'
    <3> SUFFICES ASSUME NEW q \in Requests
                 PROVE  ProposalOf(q)'
      BY DEF ProposalsKept, Requests
    <3> QED
      BY <1>1, <1>2, <2>4 DEF ProposalOf, UserRemembers, Ids
  <2>6. PendingCurrent'
    <3> SUFFICES ASSUME NEW q \in Requests, proposal'[q].status = "PENDING"
                 PROVE  memory'[proposal'[q].id].present /\ memory'[proposal'[q].id].rev = proposal'[q].base
      BY DEF PendingCurrent, Requests
    <3>1. proposal'[q] = proposal[q] /\ proposal[q].id # i
      BY <2>4
    <3>2. proposal[q].id \in Ids
      BY <1>2, <3>1 DEF ProposalOf
    <3> QED
      BY <1>3, <1>4, <3>1, <3>2
  <2> QED
    BY <2>3, <2>4, <2>5, <2>6
<1> QED
  BY <1>5, <1>6 DEF Effects

LEMMA WritesKept ==
    ASSUME MemoriesInv, NEW r \in Requests, NEW i \in Ids, NEW e, NEW new, Writes(r, i, e, new), Effects(r, i, e),
           UNCHANGED memoriesGrant
    PROVE  MemoriesInv'
<1> DEFINE N == Len(log) + 1
<1>1. /\ Len(log) \in Nat /\ Len(log') = N /\ log'[N] = e
      /\ \A n \in 1 .. Len(log) : log'[n] = log[n]
      /\ \E E : log' \in Seq(E)
  BY LogAppended DEF MemoriesInv, Writes
<1>2. 1 .. Len(log') = (1 .. Len(log)) \cup {N} /\ N \notin 1 .. Len(log)
  BY <1>1
<1>3. e.key = r /\ e.id = i /\ e.rev \in Nat /\ cmd' = cmd /\ i < nextId' /\ nextId <= nextId' /\ nextId \in Nat
  BY DEF Writes, MemoriesInv, MemoriesTypes
<1>4. /\ memory' \in [Ids -> MemoryRows] /\ nextId' \in Nat \ {0}
      /\ RowsKept' /\ IdentityOnce' /\ ConfirmedAsReviewed' /\ HistoryComplete'
  BY WritesRows, WritesHistory
<1>5. /\ proposal' \in [Requests -> ProposalRows] /\ ProposalsKept' /\ PendingCurrent'
      /\ \A q \in Requests : proposal'[q].status = "none" <=> proposal[q].status = "none"
  BY WritesProposals
<1>6. DOMAIN txn' = Requests /\ \A q \in Requests : txn'[q] = txn[q] \/ ~txn'[q].open
  BY TxnClosedKept DEF Effects
<1>7. /\ cmd[r].op # "none" /\ (~e.accepted => ~Prior(r)) /\ (e.accepted => ~UserRemembers(r)) /\ e.accepted \in BOOLEAN
      /\ role' = role /\ memoriesGrant' = memoriesGrant
  BY DEF Effects
<1> HIDE DEF N
<1>8. /\ answers' \in [Requests -> SUBSET [id : Ids, rev : Nat]]
      /\ \A q \in Requests : q # r => answers'[q] = answers[q]
      /\ \A x \in answers'[r] : \/ x \in answers[r]
                                \/ x.id = i /\ x.rev = e.rev /\ cmd[r].op = "remember" /\ ~e.accepted
  <2>1. answers \in [Requests -> SUBSET [id : Ids, rev : Nat]]
    BY DEF MemoriesInv, MemoriesTypes
  <2>2. [id |-> i, rev |-> e.rev] \in [id : Ids, rev : Nat]
    BY <1>3
  <2>3. CASE answers' = answers
    BY <2>1, <2>3
  <2>4. CASE /\ answers' = [answers EXCEPT ![r] = @ \cup {[id |-> i, rev |-> e.rev]}]
             /\ cmd[r].op = "remember" /\ ~e.accepted
    BY <2>1, <2>2, <2>4
  <2> QED
    BY <2>3, <2>4 DEF Effects
<1>9. MemoriesTypes'
  <2>1. \A n \in 1 .. Len(log') :
            log'[n].rev \in Nat /\ log'[n].id \in Ids /\ log'[n].id < nextId' /\ log'[n].key \in Requests
    <3>1. \A n \in 1 .. Len(log) :
            log[n].rev \in Nat /\ log[n].id \in Ids /\ log[n].id < nextId /\ log[n].key \in Requests
      BY DEF MemoriesInv, MemoriesTypes
    <3>2. Ids \subseteq Nat
      BY DEF Ids
    <3> SUFFICES ASSUME NEW n \in 1 .. Len(log')
                 PROVE  log'[n].rev \in Nat /\ log'[n].id \in Ids /\ log'[n].id < nextId' /\ log'[n].key \in Requests
      OBVIOUS
    <3>3. CASE n = N
      BY <1>1, <1>3, <3>3
    <3>4. CASE n # N
      <4>1. n \in 1 .. Len(log) /\ log'[n] = log[n]
        BY <1>1, <1>2, <3>4
      <4>2. log[n].id \in Nat /\ log[n].id < nextId /\ nextId' \in Nat
        BY <1>4, <3>1, <3>2, <4>1
      <4>3. log[n].id < nextId'
        BY <1>3, <4>2
      <4> QED
        BY <3>1, <4>1, <4>3
    <3> QED
      BY <3>3, <3>4
  <2>2. /\ DOMAIN memoriesGrant' = Agents /\ \A a \in Agents : memoriesGrant'[a].id \in Nat
        /\ DOMAIN cmd' = Requests /\ role' \in [Principals -> {"none", "CONTRIBUTE", "MANAGE"}]
    BY <1>3, <1>7 DEF MemoriesInv, MemoriesTypes
  <2> QED
    BY <1>1, <1>4, <1>5, <1>6, <1>8, <2>1, <2>2 DEF MemoriesTypes, Ids, Requests, MemoryRows, ProposalRows, Principals
<1>10. CommandsKept'
  <2> SUFFICES ASSUME NEW q \in Requests
               PROVE  CommandOf(q)'
    BY DEF CommandsKept, Requests
  <2>1. CommandOf(q)
    BY DEF MemoriesInv, CommandsKept
  <2>2. cmd[q].op = "none" => /\ answers'[q] = {} /\ proposal'[q].status = "none" /\ ~txn'[q].open
                              /\ \A n \in 1 .. Len(log') : log'[n].key # q
    BY <1>1, <1>2, <1>3, <1>5, <1>6, <1>7, <1>8, <2>1 DEF CommandOf
  <2>3. txn'[q].open => cmd[q].op = "remember" /\ cmd[q].by \in Agents /\ txn'[q].id \in Ids \cup {0}
    BY <1>6, <2>1 DEF CommandOf
  <2> QED
    BY <1>3, <2>1, <2>2, <2>3 DEF CommandOf, Ids, Principals
<1>11. AnswersKept'
  <2> SUFFICES ASSUME NEW q \in Requests, cmd[q].by \in Users, cmd[q].op # "none", NEW x \in answers'[q]
               PROVE  /\ cmd[q].op = "remember"
                      /\ \E n \in 1 .. Len(log') : log'[n].key = q /\ ~log'[n].accepted /\ x.id = log'[n].id /\ x.rev = log'[n].rev
    BY <1>3 DEF AnswersKept, Requests
  <2>1. CASE x \in answers[q]
    <3>1. /\ cmd[q].op = "remember"
          /\ \E n \in 1 .. Len(log) : log[n].key = q /\ ~log[n].accepted /\ x.id = log[n].id /\ x.rev = log[n].rev
      BY <2>1 DEF MemoriesInv, AnswersKept
    <3> QED
      BY <1>1, <1>2, <3>1
  <2>2. CASE x \notin answers[q]
    BY <1>1, <1>2, <1>3, <1>8, <2>2
  <2> QED
    BY <2>1, <2>2
<1>12. AcceptedOnly'
  <2>1. \A n \in 1 .. Len(log) : log[n].accepted => ~UserRemembers(log[n].key)
    BY DEF MemoriesInv, AcceptedOnly
  <2> SUFFICES ASSUME NEW n \in 1 .. Len(log'), log'[n].accepted
               PROVE  ~(cmd[log'[n].key].op = "remember" /\ cmd[log'[n].key].by \in Users)
    BY <1>3 DEF AcceptedOnly, UserRemembers
  <2> QED
    BY <1>1, <1>2, <1>3, <1>7, <2>1 DEF UserRemembers
<1>13. OneEffect'
  <2>1. \A m, n \in 1 .. Len(log) : log[m].key = log[n].key /\ ~log[m].accepted /\ ~log[n].accepted => m = n
    BY DEF MemoriesInv, OneEffect
  <2>2. \A n \in 1 .. Len(log) : ~e.accepted => log[n].key # r
    BY <1>7 DEF Prior
  <2> SUFFICES ASSUME NEW m \in 1 .. Len(log'), NEW n \in 1 .. Len(log'),
                      log'[m].key = log'[n].key, ~log'[m].accepted, ~log'[n].accepted
               PROVE  m = n
    BY DEF OneEffect
  <2> QED
    BY <1>1, <1>2, <1>3, <2>1, <2>2
<1> QED
  BY <1>4, <1>5, <1>9, <1>10, <1>11, <1>12, <1>13 DEF MemoriesInv

\* A step that writes no memory and logs nothing.
LEMMA NothingWritten ==
    ASSUME MemoriesInv, UNCHANGED <<memory, nextId, log>>
    PROVE  RowsKept' /\ OneEffect' /\ IdentityOnce' /\ HistoryComplete'
<1>1. RowsKept' /\ OneEffect' /\ IdentityOnce'
  BY DEF MemoriesInv, RowsKept, OneEffect, IdentityOnce, Ids
<1>2. HistoryComplete'
  BY DEF MemoriesInv, HistoryComplete, History, IsLast, Ids
<1> QED
  BY <1>1, <1>2

LEMMA NothingCommanded ==
    ASSUME MemoriesInv, UNCHANGED <<memory, nextId, log, cmd>>
    PROVE  /\ RowsKept' /\ OneEffect' /\ IdentityOnce' /\ HistoryComplete' /\ AcceptedOnly' /\ ConfirmedAsReviewed'
           /\ UNCHANGED answers => AnswersKept'
<1>1. AcceptedOnly' /\ ConfirmedAsReviewed'
  BY DEF MemoriesInv, AcceptedOnly, ConfirmedAsReviewed, UserRemembers, Ids
<1>2. UNCHANGED answers => AnswersKept'
  BY DEF MemoriesInv, AnswersKept, Requests
<1> QED
  BY <1>1, <1>2, NothingWritten

\* A correction is proposed.
LEMMA ProposeKept ==
    ASSUME MemoriesInv, NEW r \in Requests, NEW id \in Ids, NEW base, NEW p \in Principals,
           Propose(r, id, base, p), cmd[r].op # "none", ~UserRemembers(r), TxnClosed(r),
           UNCHANGED <<memory, nextId, log, memoriesGrant, role, cmd, answers>>
    PROVE  MemoriesInv'
<1>1. /\ proposal \in [Requests -> ProposalRows] /\ memory \in [Ids -> MemoryRows]
      /\ \A a \in Agents : memoriesGrant[a].id \in Nat
  BY DEF MemoriesInv, MemoriesTypes
<1>2. cmd[r].content \in MemoriesContents
  BY DEF MemoriesInv, CommandsKept, CommandOf
<1>3. base \in Nat /\ memory[id].present /\ memory[id].rev = base
  BY <1>1 DEF Propose, MemoryRows
<1>4. GrantOf(p) \in Nat
  BY <1>1 DEF GrantOf
<1>5. PICK new : /\ new = [status |-> "PENDING", id |-> id, base |-> base, content |-> cmd[r].content, by |-> p, grant |-> GrantOf(p)]
                 /\ proposal' = [proposal EXCEPT ![r] = new]
  BY DEF Propose
<1>6. new \in ProposalRows /\ new.status = "PENDING" /\ new.id = id /\ new.base = base /\ new.content = cmd[r].content
  BY <1>2, <1>3, <1>4, <1>5 DEF ProposalRows
<1>7. /\ proposal' \in [Requests -> ProposalRows] /\ proposal'[r] = new
      /\ \A q \in Requests : q # r => proposal'[q] = proposal[q]
  BY <1>1, <1>5, <1>6
<1>8. DOMAIN txn' = Requests /\ \A q \in Requests : txn'[q] = txn[q] \/ ~txn'[q].open
  BY TxnClosedKept
<1>9. MemoriesTypes'
  BY <1>7, <1>8 DEF MemoriesInv, MemoriesTypes, Ids, Requests, MemoryRows, ProposalRows, Principals
<1>10. CommandsKept'
  <2> SUFFICES ASSUME NEW q \in Requests
               PROVE  CommandOf(q)'
    BY DEF CommandsKept, Requests
  <2>1. CommandOf(q)
    BY DEF MemoriesInv, CommandsKept
  <2>2. cmd[q].op = "none" => proposal'[q].status = "none" /\ ~txn'[q].open
    BY <1>7, <1>8, <2>1 DEF CommandOf
  <2>3. txn'[q].open => cmd[q].op = "remember" /\ cmd[q].by \in Agents /\ txn'[q].id \in Ids \cup {0}
    BY <1>8, <2>1 DEF CommandOf
  <2> QED
    BY <2>1, <2>2, <2>3 DEF CommandOf, Ids, Principals
<1>11. ProposalsKept'
  <2> SUFFICES ASSUME NEW q \in Requests
               PROVE  ProposalOf(q)'
    BY DEF ProposalsKept, Requests
  <2>1. ProposalOf(q)
    BY DEF MemoriesInv, ProposalsKept
  <2> QED
    BY <1>2, <1>3, <1>6, <1>7, <2>1, MemoriesAssumption DEF ProposalOf, UserRemembers, Ids
<1>12. PendingCurrent'
  <2> SUFFICES ASSUME NEW q \in Requests, proposal'[q].status = "PENDING"
               PROVE  memory[proposal'[q].id].present /\ memory[proposal'[q].id].rev = proposal'[q].base
    BY DEF PendingCurrent, Requests
  <2> QED
    BY <1>3, <1>6, <1>7 DEF MemoriesInv, PendingCurrent
<1>13. RowsKept' /\ AnswersKept' /\ AcceptedOnly' /\ OneEffect' /\ IdentityOnce' /\ ConfirmedAsReviewed' /\ HistoryComplete'
  BY NothingCommanded
<1> QED
  BY <1>9, <1>10, <1>11, <1>12, <1>13 DEF MemoriesInv

\* Nothing happens but to an open transaction, or to the answers of a request.
AnswersAbout(r) ==
    \/ answers' = answers
    \/ \E i \in Ids :
          /\ answers' = [answers EXCEPT ![r] = @ \cup {[id |-> i, rev |-> memory[i].rev]}]
          /\ cmd[r].op = "remember"
          /\ \/ cmd[r].by \notin Users
             \/ \E n \in 1 .. Len(log) : log[n].key = r /\ i = log[n].id /\ memory[i].rev = log[n].rev

\* A transaction that is opened is an agent's.
TxnsSound ==
    /\ DOMAIN txn' = Requests
    /\ \A q \in Requests :
          \/ txn'[q] = txn[q] \/ ~txn'[q].open
          \/ cmd[q].op = "remember" /\ cmd[q].by \in Agents /\ txn'[q].id \in Ids \cup {0}

LEMMA AnswersOnly ==
    ASSUME MemoriesInv, NEW r \in Requests, AnswersAbout(r), TxnsSound,
           UNCHANGED <<memory, nextId, log, proposal, memoriesGrant, role, cmd>>
    PROVE  MemoriesInv'
<1>1. answers \in [Requests -> SUBSET [id : Ids, rev : Nat]] /\ memory \in [Ids -> MemoryRows]
  BY DEF MemoriesInv, MemoriesTypes
<1>2. \A i \in Ids : memory[i].rev \in Nat
  BY <1>1 DEF MemoryRows
<1>3. /\ answers' \in [Requests -> SUBSET [id : Ids, rev : Nat]]
      /\ \A q \in Requests : \A x \in answers'[q] :
            \/ x \in answers[q]
            \/ /\ q = r /\ cmd[r].op = "remember"
               /\ \/ cmd[r].by \notin Users
                  \/ \E n \in 1 .. Len(log) : log[n].key = r /\ x.id = log[n].id /\ x.rev = log[n].rev
  <2>1. CASE answers' = answers
    BY <1>1, <2>1
  <2>2. CASE answers' # answers
    <3>1. PICK i \in Ids :
            /\ answers' = [answers EXCEPT ![r] = @ \cup {[id |-> i, rev |-> memory[i].rev]}]
            /\ cmd[r].op = "remember"
            /\ \/ cmd[r].by \notin Users
               \/ \E n \in 1 .. Len(log) : log[n].key = r /\ i = log[n].id /\ memory[i].rev = log[n].rev
      BY <2>2 DEF AnswersAbout
    <3>2. PICK a : a = [id |-> i, rev |-> memory[i].rev]
      OBVIOUS
    <3>3. a \in [id : Ids, rev : Nat] /\ a.id = i /\ a.rev = memory[i].rev
      BY <1>2, <3>2
    <3>4. answers' = [answers EXCEPT ![r] = @ \cup {a}]
      BY <3>1, <3>2
    <3> QED
      BY <1>1, <3>1, <3>3, <3>4
  <2> QED
    BY <2>1, <2>2
<1>4. MemoriesTypes'
  BY <1>3 DEF MemoriesInv, MemoriesTypes, TxnsSound, Ids, Requests, MemoryRows, ProposalRows, Principals
<1>5. CommandsKept'
  <2> SUFFICES ASSUME NEW q \in Requests
               PROVE  CommandOf(q)'
    BY DEF CommandsKept, Requests
  <2>1. CommandOf(q)
    BY DEF MemoriesInv, CommandsKept
  <2>2. cmd[q].op = "none" => answers'[q] = {}
    BY <1>3, <2>1 DEF CommandOf
  <2>3. /\ txn'[q].open => cmd[q].op = "remember" /\ cmd[q].by \in Agents /\ txn'[q].id \in Ids \cup {0}
        /\ cmd[q].op = "none" => ~txn'[q].open
    BY <2>1 DEF CommandOf, TxnsSound
  <2> QED
    BY <2>1, <2>2, <2>3 DEF CommandOf, Ids, Principals
<1>6. AnswersKept'
  <2> SUFFICES ASSUME NEW q \in Requests, cmd[q].by \in Users, cmd[q].op # "none", NEW x \in answers'[q]
               PROVE  /\ cmd[q].op = "remember"
                      /\ \E n \in 1 .. Len(log) : log[n].key = q /\ ~log[n].accepted /\ x.id = log[n].id /\ x.rev = log[n].rev
    BY DEF AnswersKept, Requests
  <2>1. CASE x \in answers[q]
    BY <2>1 DEF MemoriesInv, AnswersKept
  <2>2. CASE x \notin answers[q]
    <3>1. q = r /\ cmd[r].op = "remember"
      BY <1>3, <2>2
    <3>2. PICK n \in 1 .. Len(log) : log[n].key = r /\ x.id = log[n].id /\ x.rev = log[n].rev
      BY <1>3, <2>2
    <3>3. ~log[n].accepted
      BY <3>1, <3>2 DEF MemoriesInv, AcceptedOnly, UserRemembers
    <3> QED
      BY <3>1, <3>2, <3>3
  <2> QED
    BY <2>1, <2>2
<1>7. /\ RowsKept' /\ ProposalsKept' /\ AcceptedOnly' /\ OneEffect' /\ IdentityOnce' /\ ConfirmedAsReviewed'
      /\ PendingCurrent' /\ HistoryComplete'
  BY NothingCommanded DEF MemoriesInv, ProposalsKept, ProposalOf, PendingCurrent, UserRemembers, Ids, Requests
<1> QED
  BY <1>4, <1>5, <1>6, <1>7 DEF MemoriesInv

-----------------------------------------------------------------------------
(* The steps *)

\* A client's command is the first under its key.
Issues(c) ==
    /\ c.op \in {"remember", "delete", "propose"} /\ c.content \in MemoriesContents /\ c.by \in Principals
    /\ c.rev \in Nat /\ c.key \in MemoriesKeys \cup {MemoriesNone} /\ c.id \in Ids \cup {0}
    /\ c.op \in {"delete", "propose"} => c.id \in Ids

LEMMA IssueKept ==
    ASSUME MemoriesInv, NEW r \in Requests, NEW c, Fresh(r), cmd' = [cmd EXCEPT ![r] = c], Issues(c),
           UNCHANGED <<memory, nextId, log, proposal, memoriesGrant, role, txn, answers>>
    PROVE  MemoriesInv'
<1>1. DOMAIN cmd = Requests /\ cmd[r].op = "none"
  BY DEF MemoriesInv, MemoriesTypes, Fresh, NoCommand
<1>2. DOMAIN cmd' = Requests /\ cmd'[r] = c /\ \A q \in Requests : q # r => cmd'[q] = cmd[q]
  BY <1>1
<1>3. /\ answers[r] = {} /\ proposal[r].status = "none" /\ ~txn[r].open
      /\ \A n \in 1 .. Len(log) : log[n].key # r /\ cmd'[log[n].key] = cmd[log[n].key]
  BY <1>1, <1>2 DEF MemoriesInv, MemoriesTypes, CommandsKept, CommandOf
<1>4. MemoriesTypes'
  BY <1>2 DEF MemoriesInv, MemoriesTypes, Ids, Requests, MemoryRows, ProposalRows, Principals
<1>5. CommandsKept'
  <2> SUFFICES ASSUME NEW q \in Requests
               PROVE  CommandOf(q)'
    BY DEF CommandsKept, Requests
  <2>1. CommandOf(q)
    BY DEF MemoriesInv, CommandsKept
  <2> QED
    BY <1>2, <1>3, <2>1 DEF CommandOf, Issues, Ids, Principals
<1>6. ProposalsKept'
  <2> SUFFICES ASSUME NEW q \in Requests
               PROVE  ProposalOf(q)'
    BY DEF ProposalsKept, Requests
  <2>1. ProposalOf(q)
    BY DEF MemoriesInv, ProposalsKept
  <2> QED
    BY <1>2, <1>3, <2>1 DEF ProposalOf, UserRemembers, Ids
<1>7. AnswersKept'
  <2> SUFFICES ASSUME NEW q \in Requests, cmd'[q].by \in Users, cmd'[q].op # "none", NEW x \in answers[q]
               PROVE  /\ cmd'[q].op = "remember"
                      /\ \E n \in 1 .. Len(log) : log[n].key = q /\ ~log[n].accepted /\ x.id = log[n].id /\ x.rev = log[n].rev
    BY DEF AnswersKept, Requests
  <2> QED
    BY <1>2, <1>3 DEF MemoriesInv, AnswersKept
<1>8. AcceptedOnly' /\ ConfirmedAsReviewed'
  BY <1>3 DEF MemoriesInv, AcceptedOnly, UserRemembers, ConfirmedAsReviewed, Ids
<1>9. RowsKept' /\ OneEffect' /\ IdentityOnce' /\ PendingCurrent' /\ HistoryComplete'
  BY NothingWritten DEF MemoriesInv, PendingCurrent, Ids, Requests
<1> QED
  BY <1>4, <1>5, <1>6, <1>7, <1>8, <1>9 DEF MemoriesInv

\* The memory of an identity, and that there is none.
LEMMA FindFinds ==
    ASSUME NEW key
    PROVE  /\ Find(key) = 0 => \A j \in Ids : memory[j].present => memory[j].key # key
           /\ Find(key) # 0 => Find(key) \in Ids /\ memory[Find(key)].present /\ memory[Find(key)].key = key
           /\ Find(key) \in Ids \cup {0}
  BY DEF Find, Ids

LEMMA InsertKept ==
    ASSUME MemoriesInv, NEW r \in Requests, NEW p, Insert(r, p), cmd[r].op = "remember",
           ~Prior(r), Find(cmd[r].key) = 0, TxnClosed(r), UNCHANGED <<proposal, memoriesGrant, role, cmd>>
    PROVE  MemoriesInv'
<1>1. CommandOf(r) /\ nextId \in Nat \ {0}
  BY DEF MemoriesInv, CommandsKept, MemoriesTypes
<1>2. nextId \in Ids /\ nextId' = nextId + 1
  BY <1>1, MemoriesAssumption DEF Insert, Ids
<1>3. PICK new : /\ new = [present |-> TRUE, key |-> cmd[r].key, content |-> cmd[r].content,
                           rev |-> 1, agent |-> p \in Agents, confirmed |-> FALSE]
                 /\ memory' = [memory EXCEPT ![nextId] = new]
  BY Zenon DEF Insert
<1>4. /\ new.present /\ ~new.confirmed /\ new.key = cmd[r].key /\ new.content = cmd[r].content /\ new.rev = 1
  BY <1>3, Zenon
<1>5. new \in MemoryRows
  <2>1. cmd[r].key \in MemoriesKeys \cup {MemoriesNone} /\ cmd[r].content \in MemoriesContents \cup {MemoriesNone} /\ 1 \in Nat
    BY <1>1 DEF CommandOf
  <2>2. (p \in Agents) \in BOOLEAN
    OBVIOUS
  <2> QED
    BY <1>3, <2>1, <2>2, Zenon DEF MemoryRows
<1>6. PICK e : e = Mutation(r, nextId, "CREATED", 0, 1, p, GrantOf(p), FALSE) /\ log' = Append(log, e)
  BY DEF Insert
<1>7. e.key = r /\ e.id = nextId /\ e.op = "CREATED" /\ e.prev = 0 /\ e.rev = 1 /\ ~e.accepted
  BY <1>6, Zenon DEF Mutation
<1>8. e.accepted \in BOOLEAN
  BY <1>6, Zenon DEF Mutation
<1>9. \A j \in Ids : memory[j].present => memory[j].key # new.key
  BY <1>4, FindFinds
<1>10. new.content # MemoriesNone
  BY <1>1, <1>4, MemoriesAssumption DEF CommandOf
<1>11. Writes(r, nextId, e, new)
  <2>1. nextId' \in Nat \ {0} /\ nextId <= nextId' /\ nextId < nextId' /\ e.rev \in Nat
    BY <1>1, <1>2, <1>7
  <2>2. Creation(nextId, e, new)
    BY <1>4, <1>7, <1>9, Zenon DEF Creation
  <2> QED
    BY <1>3, <1>4, <1>5, <1>6, <1>7, <1>10, <2>1, <2>2, Zenon DEF Writes
<1>12. Effects(r, nextId, e)
  BY <1>7, <1>8 DEF Effects, Insert, Answer
<1> QED
  BY <1>2, <1>11, <1>12, WritesKept

LEMMA ReplaceKept ==
    ASSUME MemoriesInv, NEW r \in Requests, Replace(r)
    PROVE  MemoriesInv'
<1> DEFINE i == cmd[r].id
<1>1. CommandOf(r) /\ memory \in [Ids -> MemoryRows] /\ nextId \in Nat \ {0}
  BY DEF MemoriesInv, CommandsKept, MemoriesTypes
<1>2. /\ cmd[r].op = "remember" /\ i \in Ids /\ cmd[r].by \in Users /\ ~Prior(r) /\ memory[i].present
      /\ memory[i].rev = cmd[r].rev
  BY <1>1 DEF Replace, CommandOf
<1>3. PICK new : /\ new = [present |-> TRUE, key |-> memory[i].key, content |-> cmd[r].content,
                           rev |-> cmd[r].rev + 1, agent |-> FALSE, confirmed |-> FALSE]
                 /\ memory' = [memory EXCEPT ![i] = new]
  BY Zenon DEF Replace
<1>4. new.present /\ ~new.confirmed /\ ~new.agent /\ new.key = memory[i].key /\ new.content = cmd[r].content /\ new.rev = cmd[r].rev + 1
  BY <1>3, Zenon
<1>5. new \in MemoryRows
  <2>1. memory[i].key \in MemoriesKeys \cup {MemoriesNone}
    BY <1>1, <1>2 DEF MemoryRows
  <2>2. cmd[r].content \in MemoriesContents \cup {MemoriesNone} /\ cmd[r].rev + 1 \in Nat
    BY <1>1, <1>2 DEF CommandOf
  <2> QED
    BY <1>3, <2>1, <2>2, Zenon DEF MemoryRows
<1>6. PICK e : e = Mutation(r, i, "REPLACED", cmd[r].rev, cmd[r].rev + 1, cmd[r].by, 0, FALSE) /\ log' = Append(log, e)
  BY DEF Replace
<1>7. e.key = r /\ e.id = i /\ e.op = "REPLACED" /\ e.prev = cmd[r].rev /\ e.rev = cmd[r].rev + 1 /\ ~e.accepted
  BY <1>6, Zenon DEF Mutation
<1>8. e.accepted \in BOOLEAN
  BY <1>6, Zenon DEF Mutation
<1>9. new.content # MemoriesNone /\ cmd[r].rev \in Nat
  BY <1>1, <1>2, <1>4, MemoriesAssumption DEF CommandOf
<1>10. i < nextId
  BY <1>2 DEF MemoriesInv, RowsKept
<1>11. /\ Settle(i, MemoriesNone, "STALE") /\ Answer(r, i, cmd[r].rev + 1)
       /\ UNCHANGED <<nextId, memoriesGrant, role, cmd, txn>>
  BY DEF Replace
<1>12. MemoriesNone # r
  BY MemoriesAssumption DEF Requests
<1> HIDE DEF i
<1>13. Writes(r, i, e, new)
  <2>1. nextId' \in Nat \ {0} /\ nextId <= nextId' /\ i < nextId' /\ e.rev \in Nat
    BY <1>1, <1>7, <1>9, <1>10, <1>11
  <2>2. Replacement(i, e, new)
    BY <1>2, <1>4, <1>7, Zenon DEF Replacement
  <2> QED
    BY <1>3, <1>4, <1>5, <1>6, <1>7, <1>9, <1>11, <2>1, <2>2, Zenon DEF Writes
<1>14. Effects(r, i, e)
  BY <1>2, <1>7, <1>8, <1>11, <1>12 DEF Effects, Answer, TxnClosed
<1> QED
  BY <1>2, <1>11, <1>13, <1>14, WritesKept

LEMMA DeleteKept ==
    ASSUME MemoriesInv, NEW r \in Requests, Delete(r)
    PROVE  MemoriesInv'
<1> DEFINE i == cmd[r].id
<1>1. CommandOf(r) /\ memory \in [Ids -> MemoryRows] /\ nextId \in Nat \ {0}
  BY DEF MemoriesInv, CommandsKept, MemoriesTypes
<1>2. /\ cmd[r].op = "delete" /\ i \in Ids /\ ~Prior(r) /\ memory[i].present
      /\ memory[i].rev = cmd[r].rev /\ cmd[r].rev \in Nat
  BY <1>1 DEF Delete, CommandOf
<1>3. /\ memory' = [memory EXCEPT ![i] = NoMemory] /\ Settle(i, MemoriesNone, "STALE")
      /\ UNCHANGED <<nextId, memoriesGrant, role, cmd, txn, answers>>
  BY DEF Delete
<1>4. ~NoMemory.present /\ NoMemory \in MemoryRows
  <2>1. 0 \in Nat
    OBVIOUS
  <2> QED
    BY <2>1, Zenon DEF NoMemory, MemoryRows
<1>5. PICK e : e = Mutation(r, i, "DELETED", cmd[r].rev, cmd[r].rev, cmd[r].by, GrantOf(cmd[r].by), FALSE) /\ log' = Append(log, e)
  BY DEF Delete
<1>6. e.key = r /\ e.id = i /\ e.op = "DELETED" /\ e.prev = cmd[r].rev /\ e.rev = cmd[r].rev /\ ~e.accepted
  BY <1>5, Zenon DEF Mutation
<1>7. e.accepted \in BOOLEAN
  BY <1>5, Zenon DEF Mutation
<1>8. i < nextId
  BY <1>2 DEF MemoriesInv, RowsKept
<1>9. MemoriesNone # r
  BY MemoriesAssumption DEF Requests
<1> HIDE DEF i
<1>10. Writes(r, i, e, NoMemory)
  <2>1. nextId' \in Nat \ {0} /\ nextId <= nextId' /\ i < nextId' /\ e.rev \in Nat
    BY <1>1, <1>2, <1>3, <1>6, <1>8
  <2>2. Deletion(i, e, NoMemory)
    BY <1>2, <1>4, <1>6, Zenon DEF Deletion
  <2> QED
    BY <1>3, <1>4, <1>5, <1>6, <2>1, <2>2, Zenon DEF Writes
<1>11. Effects(r, i, e)
  BY <1>2, <1>3, <1>6, <1>7, <1>9 DEF Effects, TxnClosed
<1> QED
  BY <1>2, <1>3, <1>10, <1>11, WritesKept

LEMMA AcceptKept ==
    ASSUME MemoriesInv, NEW r \in Requests, NEW p, Accept(r, p)
    PROVE  MemoriesInv'
<1> DEFINE i == proposal[r].id
           base == proposal[r].base
<1>1. /\ CommandOf(r) /\ ProposalOf(r) /\ memory \in [Ids -> MemoryRows] /\ nextId \in Nat \ {0}
  BY DEF MemoriesInv, CommandsKept, ProposalsKept, MemoriesTypes
<1>2. /\ proposal[r].status = "PENDING" /\ i \in Ids /\ memory[i].present /\ memory[i].rev = base /\ base \in Nat
      /\ proposal[r].content = cmd[r].content /\ ~UserRemembers(r)
  BY <1>1 DEF Accept, ProposalOf
<1>3. cmd[r].op # "none" /\ cmd[r].content \in MemoriesContents
  BY <1>1, <1>2 DEF CommandOf
<1>4. PICK new : /\ new = [present |-> TRUE, key |-> memory[i].key, content |-> proposal[r].content,
                           rev |-> base + 1, agent |-> proposal[r].by \in Agents, confirmed |-> TRUE]
                 /\ memory' = [memory EXCEPT ![i] = new]
  BY Zenon DEF Accept
<1>5. new.present /\ new.confirmed /\ new.key = memory[i].key /\ new.content = proposal[r].content /\ new.rev = base + 1
  BY <1>4, Zenon
<1>6. new \in MemoryRows
  <2>1. memory[i].key \in MemoriesKeys \cup {MemoriesNone}
    BY <1>1, <1>2 DEF MemoryRows
  <2>2. proposal[r].content \in MemoriesContents \cup {MemoriesNone} /\ base + 1 \in Nat
    BY <1>2, <1>3
  <2>3. (proposal[r].by \in Agents) \in BOOLEAN
    OBVIOUS
  <2> QED
    BY <1>4, <2>1, <2>2, <2>3, Zenon DEF MemoryRows
<1>7. PICK e : /\ e = Mutation(r, i, "REPLACED", base, base + 1, proposal[r].by, proposal[r].grant, TRUE)
               /\ log' = Append(log, e)
  BY DEF Accept
<1>8. e.key = r /\ e.id = i /\ e.op = "REPLACED" /\ e.prev = base /\ e.rev = base + 1 /\ e.accepted
  BY <1>7, Zenon DEF Mutation
<1>9. e.accepted \in BOOLEAN
  BY <1>7, Zenon DEF Mutation
<1>10. new.content # MemoriesNone
  BY <1>2, <1>3, <1>5, MemoriesAssumption
<1>11. i < nextId
  BY <1>2 DEF MemoriesInv, RowsKept
<1>12. Settle(i, r, "ACCEPTED") /\ UNCHANGED <<nextId, memoriesGrant, role, cmd, txn, answers>>
  BY DEF Accept
<1>13. base + 1 \in Nat /\ memory[i].rev + 1 = base + 1
  BY <1>2
<1>14. proposal[r].id = i
  OBVIOUS
<1> HIDE DEF i, base
<1>15. Writes(r, i, e, new)
  <2>1. nextId' \in Nat \ {0} /\ nextId <= nextId' /\ i < nextId' /\ e.rev \in Nat
    BY <1>1, <1>8, <1>11, <1>12, <1>13
  <2>2. Replacement(i, e, new)
    BY <1>2, <1>5, <1>8, Zenon DEF Replacement
  <2> QED
    BY <1>2, <1>4, <1>5, <1>6, <1>7, <1>8, <1>10, <1>12, <2>1, <2>2, Zenon DEF Writes
<1>16. Effects(r, i, e)
  BY <1>2, <1>3, <1>8, <1>9, <1>12, <1>14 DEF Effects, TxnClosed
<1> QED
  BY <1>2, <1>12, <1>15, <1>16, WritesKept

LEMMA RejectKept ==
    ASSUME MemoriesInv, NEW r \in Requests, NEW p, MemoriesReject(r, p)
    PROVE  MemoriesInv'
<1>1. proposal \in [Requests -> ProposalRows]
  BY DEF MemoriesInv, MemoriesTypes
<1>2. proposal[r].status = "PENDING" /\ UNCHANGED <<memory, nextId, log, memoriesGrant, role, cmd, txn, answers>>
  BY DEF MemoriesReject
<1>3. PICK new : new = [proposal[r] EXCEPT !.status = "REJECTED", !.content = MemoriesNone]
                 /\ proposal' = [proposal EXCEPT ![r] = new]
  BY <1>1 DEF MemoriesReject, ProposalRows
<1>4. new \in ProposalRows /\ new.status = "REJECTED" /\ new.content = MemoriesNone
  BY <1>1, <1>3 DEF ProposalRows
<1>5. /\ proposal' \in [Requests -> ProposalRows] /\ proposal'[r] = new
      /\ \A q \in Requests : q # r => proposal'[q] = proposal[q]
  BY <1>1, <1>3, <1>4
<1>6. MemoriesTypes'
  BY <1>2, <1>5 DEF MemoriesInv, MemoriesTypes, Ids, Requests, MemoryRows, ProposalRows, Principals
<1>7. CommandsKept'
  <2> SUFFICES ASSUME NEW q \in Requests
               PROVE  CommandOf(q)'
    BY DEF CommandsKept, Requests
  <2>1. CommandOf(q)
    BY DEF MemoriesInv, CommandsKept
  <2> QED
    BY <1>2, <1>4, <1>5, <2>1 DEF CommandOf, Ids, Principals
<1>8. ProposalsKept'
  <2> SUFFICES ASSUME NEW q \in Requests
               PROVE  ProposalOf(q)'
    BY DEF ProposalsKept, Requests
  <2>1. ProposalOf(q)
    BY DEF MemoriesInv, ProposalsKept
  <2> QED
    BY <1>2, <1>4, <1>5, <2>1 DEF ProposalOf, UserRemembers, Ids
<1>9. PendingCurrent'
  <2> SUFFICES ASSUME NEW q \in Requests, proposal'[q].status = "PENDING"
               PROVE  memory[proposal'[q].id].present /\ memory[proposal'[q].id].rev = proposal'[q].base
    BY <1>2 DEF PendingCurrent, Requests
  <2> QED
    BY <1>4, <1>5 DEF MemoriesInv, PendingCurrent
<1>10. RowsKept' /\ AnswersKept' /\ AcceptedOnly' /\ OneEffect' /\ IdentityOnce' /\ ConfirmedAsReviewed' /\ HistoryComplete'
  BY <1>2, NothingCommanded
<1> QED
  BY <1>6, <1>7, <1>8, <1>9, <1>10 DEF MemoriesInv

\* Grants and roles are read by no part of the invariant but their types.
LEMMA DirectoryKept ==
    ASSUME MemoriesInv, DOMAIN memoriesGrant' = Agents, \A a \in Agents : memoriesGrant'[a].id \in Nat,
           role' \in [Principals -> {"none", "CONTRIBUTE", "MANAGE"}],
           UNCHANGED <<memory, nextId, log, proposal, cmd, txn, answers>>
    PROVE  MemoriesInv'
<1>1. MemoriesTypes'
  BY DEF MemoriesInv, MemoriesTypes, Ids, Requests, MemoryRows, ProposalRows, Principals
<1>2. CommandsKept' /\ ProposalsKept' /\ PendingCurrent'
  BY DEF MemoriesInv, CommandsKept, CommandOf, ProposalsKept, ProposalOf, PendingCurrent, UserRemembers, Ids, Requests, Principals
<1>3. RowsKept' /\ AnswersKept' /\ AcceptedOnly' /\ OneEffect' /\ IdentityOnce' /\ ConfirmedAsReviewed' /\ HistoryComplete'
  BY NothingCommanded
<1> QED
  BY <1>1, <1>2, <1>3 DEF MemoriesInv

\* The steps of an agent that remembers.
LEMMA AgentLooksKept ==
    ASSUME MemoriesInv, NEW r \in Requests, AgentLooks(r)
    PROVE  MemoriesInv'
<1> DEFINE id == IF cmd[r].id = 0 THEN Find(cmd[r].key) ELSE cmd[r].id
<1>1. /\ cmd[r].op = "remember" /\ cmd[r].by \in Agents
      /\ UNCHANGED <<memory, nextId, log, proposal, memoriesGrant, role, cmd, changes>>
  BY DEF AgentLooks
<1>2. CommandOf(r) /\ DOMAIN txn = Requests
  BY DEF MemoriesInv, CommandsKept, MemoriesTypes
<1>3. id \in Ids \cup {0}
  BY <1>1, <1>2, FindFinds DEF CommandOf
<1>4. CASE cmd[r].id = 0 /\ id # 0 /\ memory[id].content = cmd[r].content
  <2>1. Answer(r, id, memory[id].rev) /\ txn' = txn /\ id \in Ids
    BY <1>3, <1>4 DEF AgentLooks
  <2>2. cmd[r].by \notin Users
    BY <1>1, MemoriesAssumption
  <2> HIDE DEF id
  <2>3. AnswersAbout(r)
    BY <1>1, <2>1, <2>2 DEF AnswersAbout, Answer
  <2>4. TxnsSound
    BY <1>2, <2>1 DEF TxnsSound
  <2> QED
    BY <1>1, <1>2, <2>1, <2>3, <2>4, AnswersOnly
<1>5. CASE ~(cmd[r].id = 0 /\ id # 0 /\ memory[id].content = cmd[r].content)
  <2>1. answers' = answers
    BY <1>5 DEF AgentLooks
  <2>2. PICK seen, new : new = [open |-> TRUE, id |-> id, rev |-> seen] /\ txn' = [txn EXCEPT ![r] = new]
    BY <1>5, Zenon DEF AgentLooks
  <2>3. new.id = id
    BY <2>2, Zenon
  <2> HIDE DEF id
  <2>4. DOMAIN txn' = Requests /\ txn'[r].id \in Ids \cup {0} /\ \A q \in Requests : q # r => txn'[q] = txn[q]
    BY <1>2, <1>3, <2>2, <2>3
  <2>5. TxnsSound /\ AnswersAbout(r)
    BY <1>1, <2>1, <2>4 DEF TxnsSound, AnswersAbout
  <2> QED
    BY <1>1, <2>5, AnswersOnly
<1> QED
  BY <1>4, <1>5

LEMMA AgentCreatesKept ==
    ASSUME MemoriesInv, NEW r \in Requests, AgentCreates(r)
    PROVE  MemoriesInv'
<1> DEFINE id == Find(cmd[r].key)
<1>1. /\ txn[r].open /\ ~Prior(r) /\ txn' = [txn EXCEPT ![r] = NoTxn]
      /\ UNCHANGED <<memoriesGrant, role, cmd, changes>>
  BY DEF AgentCreates
<1>2. cmd[r].op = "remember" /\ cmd[r].by \in Agents /\ cmd[r].by \in Principals /\ cmd[r].by \notin Users
  BY <1>1, MemoriesAssumption DEF MemoriesInv, CommandsKept, CommandOf, Principals
<1>3. TxnClosed(r) /\ ~UserRemembers(r)
  BY <1>1, <1>2 DEF TxnClosed, UserRemembers
<1>4. id \in Ids \cup {0}
  BY FindFinds
<1>5. CASE id = 0
  <2>1. Insert(r, cmd[r].by) /\ UNCHANGED proposal
    BY <1>5 DEF AgentCreates
  <2> QED
    BY <1>1, <1>2, <1>3, <1>5, <2>1, InsertKept
<1>6. CASE id # 0 /\ memory[id].content = cmd[r].content
  <2>1. Answer(r, id, memory[id].rev) /\ UNCHANGED <<memory, nextId, log, proposal>> /\ id \in Ids
    BY <1>4, <1>6 DEF AgentCreates
  <2>2. TxnsSound
    BY <1>3, TxnClosedKept DEF TxnsSound
  <2> HIDE DEF id
  <2>3. AnswersAbout(r)
    BY <1>2, <2>1 DEF AnswersAbout, Answer
  <2> QED
    BY <1>1, <2>1, <2>2, <2>3, AnswersOnly
<1>7. CASE id # 0 /\ memory[id].content # cmd[r].content
  <2>1. Propose(r, id, memory[id].rev, cmd[r].by) /\ UNCHANGED <<memory, nextId, log, answers>> /\ id \in Ids
    BY <1>4, <1>7 DEF AgentCreates
  <2> HIDE DEF id
  <2> QED
    BY <1>1, <1>2, <1>3, <2>1, ProposeKept
<1> QED
  BY <1>5, <1>6, <1>7

LEMMA ReplayKept ==
    ASSUME MemoriesInv, NEW r \in Requests, Replay(r)
    PROVE  MemoriesInv'
<1>1. /\ cmd[r].op = "remember" /\ UNCHANGED <<memory, nextId, log, proposal, memoriesGrant, role, cmd, txn, changes>>
      /\ DOMAIN txn = Requests
  BY DEF Replay, MemoriesInv, MemoriesTypes
<1>2. PICK n \in 1 .. Len(log) :
          /\ log[n].key = r
          /\ memory[log[n].id].present /\ memory[log[n].id].rev = log[n].rev
          /\ Answer(r, log[n].id, memory[log[n].id].rev)
  BY DEF Replay
<1>3. log[n].id \in Ids
  BY DEF MemoriesInv, MemoriesTypes
<1>4. AnswersAbout(r)
  BY <1>1, <1>2, <1>3 DEF AnswersAbout, Answer
<1>5. TxnsSound
  BY <1>1 DEF TxnsSound
<1> QED
  BY <1>1, <1>4, <1>5, AnswersOnly

LEMMA MemoriesInitially ==
    ASSUME MemoriesInit
    PROVE  MemoriesInv
<1>1. NoMemory \in MemoryRows /\ ~NoMemory.present
  <2>1. 0 \in Nat
    OBVIOUS
  <2> QED
    BY <2>1, Zenon DEF NoMemory, MemoryRows
<1>2. NoProposal \in ProposalRows /\ NoProposal.status = "none" /\ NoProposal.content = MemoriesNone
  BY DEF NoProposal, ProposalRows
<1>3. ~NoTxn.open /\ NoCommand.op = "none"
  BY DEF NoTxn, NoCommand
<1>4. /\ memory = [i \in Ids |-> NoMemory] /\ nextId = 1 /\ log = <<>>
      /\ proposal = [r \in Requests |-> NoProposal] /\ cmd = [r \in Requests |-> NoCommand]
      /\ txn = [r \in Requests |-> NoTxn] /\ answers = [r \in Requests |-> {}]
      /\ role \in [Principals -> {"CONTRIBUTE", "MANAGE"}]
  BY DEF MemoriesInit
<1>5. DOMAIN memoriesGrant = Agents /\ \A a \in Agents : memoriesGrant[a].id \in Nat
  <2>1. memoriesGrant = [a \in Agents |-> [id |-> 1, active |-> TRUE]]
    BY DEF MemoriesInit
  <2>2. DOMAIN memoriesGrant = Agents /\ \A a \in Agents : memoriesGrant[a].id = 1
    BY <2>1, Zenon
  <2> QED
    BY <2>2
<1>6. MemoriesTypes
  <2>1. log \in Seq({}) /\ Len(log) = 0
    BY <1>4
  <2> QED
    BY <1>1, <1>2, <1>4, <1>5, <2>1 DEF MemoriesTypes
<1>7. Len(log) = 0 /\ 1 .. Len(log) = {}
  BY <1>4
<1>8. CommandsKept /\ ProposalsKept /\ PendingCurrent
  BY <1>2, <1>3, <1>4, <1>7 DEF CommandsKept, CommandOf, ProposalsKept, ProposalOf, PendingCurrent
<1>9. RowsKept /\ AnswersKept /\ AcceptedOnly /\ OneEffect /\ IdentityOnce /\ ConfirmedAsReviewed
  BY <1>1, <1>4, <1>7 DEF RowsKept, AnswersKept, AcceptedOnly, OneEffect, IdentityOnce, ConfirmedAsReviewed
<1>10. HistoryComplete
  BY <1>1, <1>4, <1>7 DEF HistoryComplete, History
<1> QED
  BY <1>6, <1>8, <1>9, <1>10 DEF MemoriesInv

LEMMA MemoriesInductive ==
    ASSUME MemoriesInv, [MemoriesNext]_memoriesVars
    PROVE  MemoriesInv'
<1>1. ASSUME NEW r \in Requests, NEW p \in Principals, NEW k \in MemoriesKeys, NEW c \in MemoriesContents,
             IssueCreate(r, p, k, c)
      PROVE  MemoriesInv'
  <2> DEFINE command == [op |-> "remember", by |-> p, id |-> 0, rev |-> 0, key |-> k, content |-> c]
  <2>1. /\ command.op = "remember" /\ command.by = p /\ command.id = 0 /\ command.rev = 0
        /\ command.key = k /\ command.content = c
    OBVIOUS
  <2>2. Fresh(r) /\ cmd' = [cmd EXCEPT ![r] = command] /\ UNCHANGED <<memory, nextId, log, proposal, memoriesGrant, role, txn, answers>>
    BY <1>1 DEF IssueCreate
  <2> HIDE DEF command
  <2>3. Issues(command)
    BY <2>1 DEF Issues
  <2> QED
    BY <2>2, <2>3, IssueKept
<1>2. ASSUME NEW r \in Requests, NEW p \in Principals, NEW i \in Ids, NEW c \in MemoriesContents,
             NEW op \in {"remember", "delete", "propose"}, IssueAbout(r, p, op, i, c)
      PROVE  MemoriesInv'
  <2> DEFINE command == [op |-> op, by |-> p, id |-> i, rev |-> memory[i].rev, key |-> memory[i].key, content |-> c]
  <2>1. /\ command.op = op /\ command.by = p /\ command.id = i /\ command.rev = memory[i].rev
        /\ command.key = memory[i].key /\ command.content = c
    OBVIOUS
  <2>2. Fresh(r) /\ cmd' = [cmd EXCEPT ![r] = command] /\ UNCHANGED <<memory, nextId, log, proposal, memoriesGrant, role, txn, answers>>
    BY <1>2 DEF IssueAbout
  <2>3. memory[i].rev \in Nat /\ memory[i].key \in MemoriesKeys \cup {MemoriesNone}
    BY DEF MemoriesInv, MemoriesTypes, MemoryRows
  <2> HIDE DEF command
  <2>4. Issues(command)
    BY <2>1, <2>3 DEF Issues
  <2> QED
    BY <2>2, <2>4, IssueKept
<1>3. ASSUME NEW r \in Requests, Create(r)
      PROVE  MemoriesInv'
  BY <1>3, InsertKept DEF Create, TxnClosed
<1>4. ASSUME NEW r \in Requests, ProposeDirectly(r)
      PROVE  MemoriesInv'
  <2>1. cmd[r].id \in Ids /\ cmd[r].by \in Principals /\ ~UserRemembers(r) /\ cmd[r].op # "none"
    BY <1>4 DEF ProposeDirectly, MemoriesInv, CommandsKept, CommandOf, UserRemembers
  <2> QED
    BY <1>4, <2>1, ProposeKept DEF ProposeDirectly, TxnClosed
<1>5. ASSUME NEW r \in Requests, AgentProposes(r)
      PROVE  MemoriesInv'
  <2>1. /\ txn[r].id \in Ids /\ cmd[r].op = "remember" /\ cmd[r].by \in Agents
    BY <1>5 DEF AgentProposes, MemoriesInv, CommandsKept, CommandOf
  <2>2. ~UserRemembers(r) /\ cmd[r].by \in Principals
    BY <2>1, MemoriesAssumption DEF UserRemembers, Principals
  <2> QED
    BY <1>5, <2>1, <2>2, ProposeKept DEF AgentProposes, TxnClosed
<1>6. ASSUME NEW r \in Requests, AgentFails(r)
      PROVE  MemoriesInv'
  <2>1. TxnClosed(r) /\ answers' = answers
    BY <1>6 DEF AgentFails, TxnClosed
  <2>2. AnswersAbout(r)
    BY <2>1 DEF AnswersAbout
  <2>3. TxnsSound
    BY <2>1, TxnClosedKept DEF TxnsSound
  <2> QED
    BY <1>6, <2>2, <2>3, AnswersOnly DEF AgentFails
<1>7. ASSUME NEW a \in Agents, EnablePersonalAgent(a) \/ RevokePersonalAgent(a)
      PROVE  MemoriesInv'
  <2>1. /\ DOMAIN memoriesGrant = Agents /\ memoriesGrant[a].id \in Nat /\ memoriesGrant[a].id + 1 \in Nat
        /\ \A b \in Agents : memoriesGrant[b].id \in Nat
        /\ role \in [Principals -> {"none", "CONTRIBUTE", "MANAGE"}]
    BY DEF MemoriesInv, MemoriesTypes
  <2>2. \E new : memoriesGrant' = [memoriesGrant EXCEPT ![a] = new] /\ new.id \in Nat
    BY <1>7, <2>1, Zenon DEF EnablePersonalAgent, RevokePersonalAgent
  <2>3. DOMAIN memoriesGrant' = Agents /\ \A b \in Agents : memoriesGrant'[b].id \in Nat
    BY <2>1, <2>2
  <2> QED
    BY <1>7, <2>1, <2>3, DirectoryKept DEF EnablePersonalAgent, RevokePersonalAgent
<1>8. ASSUME NEW p \in Principals, ChangeRole(p)
      PROVE  MemoriesInv'
  <2>1. /\ DOMAIN memoriesGrant = Agents /\ \A a \in Agents : memoriesGrant[a].id \in Nat
        /\ role \in [Principals -> {"none", "CONTRIBUTE", "MANAGE"}]
    BY DEF MemoriesInv, MemoriesTypes
  <2>2. role' \in [Principals -> {"none", "CONTRIBUTE", "MANAGE"}]
    BY <1>8, <2>1 DEF ChangeRole
  <2> QED
    BY <1>8, <2>1, <2>2, DirectoryKept DEF ChangeRole
<1>9. CASE UNCHANGED memoriesVars
  <2>1. /\ DOMAIN memoriesGrant = Agents /\ \A a \in Agents : memoriesGrant[a].id \in Nat
        /\ role \in [Principals -> {"none", "CONTRIBUTE", "MANAGE"}]
    BY DEF MemoriesInv, MemoriesTypes
  <2> QED
    BY <1>9, <2>1, DirectoryKept DEF memoriesVars
<1> QED
  BY <1>1, <1>2, <1>3, <1>4, <1>5, <1>6, <1>7, <1>8, <1>9, AcceptKept, RejectKept, ReplaceKept, DeleteKept, ReplayKept,
     AgentLooksKept, AgentCreatesKept DEF MemoriesNext

\* The invariant says what MemoriesSafe promises: an answer to a user names the
\* mutation under its key, and there is one.
LEMMA MemoriesInvIsSafe ==
    ASSUME MemoriesInv
    PROVE  MemoriesSafe
<1>1. MemoriesTypeOK
  BY DEF MemoriesInv, MemoriesTypes, RowsKept, ProposalsKept, ProposalOf, CommandsKept, CommandOf, MemoriesTypeOK, MemoryRows
<1>2. ASSUME NEW r \in Requests, cmd[r].by \in Users, NEW x \in answers[r], NEW y \in answers[r]
      PROVE  x = y
  <2>1. cmd[r].op # "none"
    BY DEF MemoriesInv, CommandsKept, CommandOf
  <2>2. PICK m \in 1 .. Len(log) : log[m].key = r /\ ~log[m].accepted /\ x.id = log[m].id /\ x.rev = log[m].rev
    BY <1>2, <2>1 DEF MemoriesInv, AnswersKept
  <2>3. PICK n \in 1 .. Len(log) : log[n].key = r /\ ~log[n].accepted /\ y.id = log[n].id /\ y.rev = log[n].rev
    BY <1>2, <2>1 DEF MemoriesInv, AnswersKept
  <2>4. m = n
    BY <2>2, <2>3 DEF MemoriesInv, OneEffect
  <2>5. x \in [id : Ids, rev : Nat] /\ y \in [id : Ids, rev : Nat]
    BY DEF MemoriesInv, MemoriesTypes
  <2> QED
    BY <2>2, <2>3, <2>4, <2>5
<1>3. OncePerKey
  BY <1>2 DEF OncePerKey, MemoriesInv, OneEffect
<1> QED
  BY <1>1, <1>3 DEF MemoriesSafe, MemoriesInv

(* Users, agents and reviewers that write one scope concurrently and repeat  *)
(* their requests (memories/module.ts over memories/postgres.ts) leave one    *)
(* memory per identity, a log that explains every row, one effect per        *)
(* idempotency key with one answer, and no pending correction of a revision  *)
(* that is gone; what is confirmed is what was reviewed.                     *)
THEOREM MemoriesIsSafe == MemoriesSpec => []MemoriesSafe
<1>1. MemoriesInit => MemoriesInv
  BY MemoriesInitially
<1>2. MemoriesInv /\ [MemoriesNext]_memoriesVars => MemoriesInv'
  BY MemoriesInductive
<1>3. MemoriesInv => MemoriesSafe
  BY MemoriesInvIsSafe
<1> QED
  BY <1>1, <1>2, <1>3, PTL DEF MemoriesSpec

=============================================================================
