----------------------- MODULE GatewayPlatformProofs -----------------------
(***************************************************************************)
(* Proofs about what the Platform does around the release store:           *)
(* registration, Connections, session leases and locks; and about the      *)
(* outbox in which a Gateway Runtime keeps what it observed until the      *)
(* Platform takes it.                                                      *)
(*                                                                         *)
(* The outbox, for every set of observations and every capacity: the       *)
(* invariant says where a file is at each step of enqueue and of the       *)
(* drain, and bounds how often an observation was taken by the faults that *)
(* are over.  Its capacity is counted in files and in bytes: the files     *)
(* that a failure of the machine would bring back are no more than those   *)
(* faults and the one that the drain is moving.                            *)
(***************************************************************************)
EXTENDS ObservationOutbox, ConnectionLifecycle, GatewayRegistration, GatewayReleaseLocks, GatewaySessionLease,
        FiniteSetTheorems, WellFoundedInduction, TLAPS

\* A nonempty set of bounded naturals has a largest element.
LEMMA LargestOf ==
    ASSUME NEW N \in Nat, NEW T \in SUBSET (0..N), T # {}
    PROVE  \E m \in T : \A n \in T : n <= m
<1> DEFINE D == {N - n : n \in T}
           R == OpToRel(<, Nat)
<1> HIDE DEF R
<1>1. D \subseteq Nat /\ D # {}
  <2>1. PICK n \in T : TRUE
    OBVIOUS
  <2>2. N - n \in D
    OBVIOUS
  <2>3. D \subseteq Nat
    OBVIOUS
  <2> QED
    BY <2>2, <2>3
<1>2. IsWellFoundedOn(R, Nat)
  BY NatLessThanWellFounded DEF R
<1>3. \A x, y \in Nat : <<y, x>> \in R <=> y < x
  BY DEF OpToRel, R
<1> HIDE DEF D
<1>4. PICK d \in D : \A e \in D : ~ (<<e, d>> \in R)
  BY <1>1, <1>2, WFMin
<1>5. \A e \in D : ~ (e < d)
  BY <1>1, <1>3, <1>4
<1>6. PICK m \in T : d = N - m
  BY DEF D
<1>7. \A n \in T : ~ (N - n < N - m)
  BY <1>5, <1>6 DEF D
<1> QED
  BY <1>7

-----------------------------------------------------------------------------
(* Registration                                                            *)

Locked == {"client", "secret", "activate", "revoke", "close"}

\* The requests between the database and the identity provider are in an open
\* transaction, and an open transaction holds the lock.
LockHeld ==
    \A q \in Requests : /\ request[q].step \in Locked <=> request[q].open
                        /\ request[q].open <=> lock = q

\* What a request relies on as it goes on.
Relies ==
    \A q \in Requests :
        /\ request[q].step \in {"client", "secret"} => state = "PROVISIONING"
        /\ request[q].step = "activate" =>
             state = "PROVISIONING" /\ client = request[q].secret /\ request[q].secret # 0
        /\ request[q].step = "answer" =>
             state \in {"ACTIVE", "RETIRED"} /\ control.key = request[q].secret
        /\ request[q].step = "close" => client = 0

\* The registration, the runtime's row, the client and what was handed out.
RowsAgree ==
    /\ state \in {"ABSENT", "PROVISIONING"} => control.status = "ABSENT" /\ delivered.secret = 0
    /\ state = "ACTIVE" => client \in {0, control.key}
    /\ state = "RETIRED" => client = 0 /\ control.status # "ACTIVE"
    /\ delivered.secret # 0 => delivered.key = control.key /\ delivered.secret = control.key

RegistrationInv == RegistrationTypeOK /\ (losses = 0 => LockHeld /\ Relies /\ RowsAgree)

RequestRecords == [step : Steps, secret : Secrets, open : BOOLEAN]

\* A request that ends gives the lock back if it has it.
LEMMA EndOfRequest ==
    ASSUME RegistrationTypeOK, NEW q \in Requests, End(q)
    PROVE  /\ request' = [request EXCEPT ![q] = [step |-> "idle", secret |-> 0, open |-> FALSE]]
           /\ lock' = IF lock = q THEN RegistrationNobody ELSE lock
           /\ request' \in [Requests -> RequestRecords]
           /\ lock' \in Requests \cup {RegistrationNobody}
BY RegistrationAssumption DEF RegistrationTypeOK, End, Unlock, Idle, RequestRecords, Steps, Secrets

\* A request that ends keeps what the others rely on.
LEMMA EndKeeps ==
    ASSUME RegistrationInv, NEW q \in Requests, End(q),
           UNCHANGED <<state, control, client, losses>>
    PROVE  losses' = 0 => LockHeld' /\ Relies'
BY EndOfRequest, RegistrationAssumption
   DEF RegistrationInv, RegistrationTypeOK, LockHeld, Relies, Locked, RequestRecords, Steps

\* Goto changes the step and nothing else of a request.
LEMMA GotoStep ==
    ASSUME RegistrationTypeOK, NEW q \in Requests, NEW step \in Steps, Goto(q, step)
    PROVE  request' = [request EXCEPT ![q] =
                         [step |-> step, secret |-> request[q].secret, open |-> request[q].open]]
<1>1. request[q] \in RequestRecords /\ request \in [Requests -> RequestRecords]
  BY DEF RegistrationTypeOK, RequestRecords
<1>2. [request[q] EXCEPT !.step = step] = [step |-> step, secret |-> request[q].secret, open |-> request[q].open]
  BY <1>1 DEF RequestRecords
<1>3. request' = [request EXCEPT ![q] = [request[q] EXCEPT !.step = step]]
  BY <1>1 DEF Goto
<1> QED
  BY <1>2, <1>3

\* Every step of a request keeps the invariant.
LEMMA RegistrationStep ==
    RegistrationInv /\ [RegistrationNext]_registrationVars => RegistrationInv'
<1> SUFFICES ASSUME RegistrationInv, RegistrationNext
             PROVE  RegistrationInv'
  BY DEF registrationVars, RegistrationInv, RegistrationTypeOK, LockHeld, Relies, RowsAgree
<1> PICK q \in Requests :
        \/ Register(q) \/ Begin(q, "provision") \/ Begin(q, "retire") \/ Enter(q)
        \/ EnsureClient(q) \/ RotateSecret(q) \/ Activate(q) \/ Answer(q)
        \/ RevokeClient(q) \/ RegistrationRetire(q)
        \/ StatementFails(q) \/ Fails(q) \/ LoseTransaction(q)
  BY DEF RegistrationNext
<1> USE RegistrationAssumption DEF RegistrationInv, RegistrationTypeOK
<1>1. CASE Register(q)
  <2>1. request' = [request EXCEPT ![q] =
                     [step |-> "provision", secret |-> request[q].secret, open |-> request[q].open]]
    BY <1>1, GotoStep DEF Register, Steps
  <2> QED
    BY <1>1, <2>1 DEF Register, At, LockHeld, Relies, RowsAgree, Locked, RegistrationStates, Steps
<1>2. ASSUME NEW step \in {"provision", "retire"}, Begin(q, step)
      PROVE  RegistrationInv'
  <2>1. request' = [request EXCEPT ![q] =
                     [step |-> step, secret |-> request[q].secret, open |-> request[q].open]]
    BY <1>2, GotoStep DEF Begin, Steps
  <2> QED
    BY <1>2, <2>1 DEF Begin, At, LockHeld, Relies, RowsAgree, Locked, Steps
<1>3. CASE Enter(q)
  <2>1. CASE End(q)
    BY <1>3, <2>1, EndOfRequest, EndKeeps DEF Enter, RequestRecords, RowsAgree
  <2>2. CASE ~ End(q)
    <3>1. /\ request[q].step \in {"provision", "retire"}
          /\ lock = RegistrationNobody /\ lock' = q
          /\ request[q].step = "provision" => state = "PROVISIONING"
          /\ request' = [request EXCEPT ![q] =
               [step |-> IF request[q].step = "provision" THEN "client" ELSE "revoke",
                secret |-> request[q].secret, open |-> TRUE]]
          /\ UNCHANGED <<state, control, client, delivered, serial, registrationFaults, losses>>
      BY <1>3, <2>2 DEF Enter, At, MayProvision
    <3> QED
      BY <3>1 DEF LockHeld, Relies, RowsAgree, Locked, Steps
  <2> QED
    BY <2>1, <2>2
<1>4. CASE EnsureClient(q)
  <2>1. request' = [request EXCEPT ![q] =
                     [step |-> "secret", secret |-> request[q].secret, open |-> request[q].open]]
    BY <1>4, GotoStep DEF EnsureClient, Steps
  <2> QED
    BY <1>4, <2>1 DEF EnsureClient, At, LockHeld, Relies, RowsAgree, Locked, Steps, Secrets
<1>5. CASE RotateSecret(q)
  <2>1. CASE client = 0
    BY <1>5, <2>1, EndOfRequest, EndKeeps DEF RotateSecret, RequestRecords, RowsAgree
  <2>2. CASE client # 0
    <3>1. /\ request[q].step = "secret"
          /\ serial < MaxSecret /\ serial' = serial + 1 /\ client' = serial + 1
          /\ request' = [request EXCEPT ![q] =
               [step |-> "activate", secret |-> serial + 1, open |-> request[q].open]]
          /\ UNCHANGED <<state, control, lock, delivered, registrationFaults, losses>>
      BY <1>5, <2>2 DEF RotateSecret, At
    <3> QED
      BY <3>1 DEF LockHeld, Relies, RowsAgree, Locked, Steps, Secrets
  <2> QED
    BY <2>1, <2>2
<1>6. CASE Activate(q)
  <2>1. /\ request[q].step = "activate" /\ request[q].open /\ state = "PROVISIONING"
        /\ control' = [status |-> "ACTIVE", key |-> request[q].secret]
        /\ state' = "ACTIVE"
        /\ request' = [request EXCEPT ![q] =
             [step |-> "answer", secret |-> request[q].secret, open |-> FALSE]]
        /\ lock' = IF lock = q THEN RegistrationNobody ELSE lock
        /\ UNCHANGED <<client, delivered, serial, registrationFaults, losses>>
    BY <1>6 DEF Activate, At, Unlock
  <2> QED
    BY <2>1 DEF LockHeld, Relies, RowsAgree, Locked, Steps, RegistrationStates
<1>7. CASE Answer(q)
  BY <1>7, EndOfRequest, EndKeeps DEF Answer, At, RequestRecords, RowsAgree, Relies
<1>8. CASE RevokeClient(q)
  <2>1. request' = [request EXCEPT ![q] =
                     [step |-> "close", secret |-> request[q].secret, open |-> request[q].open]]
    BY <1>8, GotoStep DEF RevokeClient, Steps
  <2> QED
    BY <1>8, <2>1 DEF RevokeClient, At, LockHeld, Relies, RowsAgree, Locked, Steps, Secrets
<1>9. CASE RegistrationRetire(q)
  <2>1. /\ request[q].step = "close" /\ request[q].open
        /\ control' \in [status : {"ABSENT", "ACTIVE", "REVOKED"}, key : Secrets]
        /\ control'.status \in {"ABSENT", "REVOKED"} /\ control'.key = control.key
        /\ state' = "RETIRED"
        /\ UNCHANGED <<client, delivered, serial, registrationFaults, losses>>
    BY <1>9 DEF RegistrationRetire, At
  <2>2. End(q)
    BY <1>9 DEF RegistrationRetire
  <2> QED
    BY <2>1, <2>2, EndOfRequest DEF LockHeld, Relies, RowsAgree, Locked, Steps, RegistrationStates, RequestRecords
<1>10. CASE StatementFails(q)
  BY <1>10, EndOfRequest, EndKeeps DEF StatementFails, RequestRecords, RowsAgree
<1>11. CASE Fails(q)
  BY <1>11, EndOfRequest, EndKeeps DEF Fails, RequestRecords, RowsAgree
<1>12. CASE LoseTransaction(q)
  <2>1. [request[q] EXCEPT !.open = FALSE] \in RequestRecords
    BY DEF RequestRecords
  <2>2. request' \in [Requests -> RequestRecords]
    BY <1>12, <2>1 DEF LoseTransaction, RequestRecords
  <2> QED
    BY <1>12, <2>2 DEF LoseTransaction, Unlock, RequestRecords
<1> QED
  BY <1>1, <1>2, <1>3, <1>4, <1>5, <1>6, <1>7, <1>8, <1>9, <1>10, <1>11, <1>12

\* Any number of requests that fail, die or lose answers between the database
\* and the identity provider: a retired Gateway keeps no credentials, and the
\* credentials that were handed out stay the ones in force.
THEOREM RegistrationIsSafe == RegistrationSpec => []RegistrationSafe
<1>1. RegistrationInit => RegistrationInv
  BY RegistrationAssumption
     DEF RegistrationInit, RegistrationInv, RegistrationTypeOK, LockHeld, Relies, RowsAgree, Locked,
         Idle, Steps, Secrets, RegistrationStates
<1>2. RegistrationInv => RegistrationSafe
  BY DEF RegistrationInv, RegistrationSafe, RowsAgree, RetiredIsCutOff, DeliveredStaysValid,
         RegistrationTypeOK, Secrets
<1> QED
  BY <1>1, <1>2, RegistrationStep, PTL DEF RegistrationSpec

-----------------------------------------------------------------------------
(* Locks                                                                   *)

\* The place of a lock in the order of a commit.
Rank(l) ==
    CASE l = "gateway" -> 1 [] l = "resources" -> 2 [] l = "topology" -> 3 [] l = "registration" -> 4
      [] l = "capability" -> 5 [] l = "head" -> 6 [] l = "command" -> 7

\* A transaction holds only locks it has taken.
HeldAreTaken ==
    \A t \in Transactions :
        /\ taken[t] <= Len(Script(t))
        /\ \A l \in Locks : holder[l] = t => \E n \in 1..taken[t] : Script(t)[n] = l

\* Ranks are numbers.
LEMMA RankType == \A l \in Locks : Rank(l) \in 1..7
BY DEF Rank, Locks

LocksInv == LocksTypeOK /\ HeldAreTaken

\* Each kind of transaction but a renewal takes its locks in one order.
LEMMA OneOrder ==
    ASSUME NEW kind \in Kinds \ {"renew"}
    PROVE  /\ Len(LockOrder(kind)) \in 0..7
           /\ \A n \in 1..Len(LockOrder(kind)) : LockOrder(kind)[n] \in Locks
           /\ \A n, m \in 1..Len(LockOrder(kind)) :
                n < m => Rank(LockOrder(kind)[n]) < Rank(LockOrder(kind)[m])
<1>1. CASE kind = "publish"
  BY <1>1 DEF LockOrder, CommitLocks, Locks, Rank
<1>2. CASE kind = "report"
  BY <1>2 DEF LockOrder, Locks, Rank
<1>3. CASE kind = "negotiate"
  BY <1>3 DEF LockOrder, Locks, Rank
<1>4. CASE kind = "rollback"
  BY <1>4 DEF LockOrder, Locks, Rank
<1> QED
  BY <1>1, <1>2, <1>3, <1>4 DEF Kinds

\* The locks of any transaction.
LEMMA ScriptType ==
    ASSUME NEW t \in Transactions
    PROVE  /\ Len(Script(t)) \in 0..8
           /\ \A n \in 1..Len(Script(t)) : Script(t)[n] \in Locks
<1>1. CASE Kind[t] = "renew"
  <2>1. CommitLocks \in Seq(Locks) /\ Len(CommitLocks) = 7
    BY DEF CommitLocks, Locks
  <2>2. Script(t) = <<"head">> \o CommitLocks
    BY <1>1 DEF Script, LockOrder
  <2>3. Len(Script(t)) = 8
    BY <2>2 DEF CommitLocks
  <2>4. \A n \in 1..8 : Script(t)[n] \in Locks
    BY <2>2 DEF Locks, CommitLocks
  <2> QED
    BY <2>3, <2>4
<1>2. CASE Kind[t] # "renew"
  <2>1. Kind[t] \in Kinds \ {"renew"}
    BY <1>2, LocksAssumption
  <2>2. /\ Len(LockOrder(Kind[t])) \in 0..7
        /\ \A n \in 1..Len(LockOrder(Kind[t])) : LockOrder(Kind[t])[n] \in Locks
    BY <2>1, OneOrder
  <2> QED
    BY <2>2 DEF Script
<1> QED
  BY <1>1, <1>2

\* Taking and releasing locks keeps the invariant.
LEMMA LocksStep == LocksInv /\ [LocksNext]_locksVars => LocksInv'
<1> SUFFICES ASSUME LocksInv, [LocksNext]_locksVars
             PROVE  LocksInv'
  OBVIOUS
<1> USE LocksAssumption DEF LocksInv, LocksTypeOK, HeldAreTaken
<1>1. ASSUME NEW t \in Transactions, LocksTake(t)
      PROVE  LocksInv'
  <2>1. taken[t] + 1 \in 1..Len(Script(t)) /\ taken[t] + 1 \in 0..8 /\ Wanted(t) \in Locks
    <3>1. Len(Script(t)) \in 0..8 /\ taken[t] \in 0..8
      BY ScriptType
    <3>2. taken[t] # Len(Script(t)) /\ taken[t] <= Len(Script(t))
      BY <1>1 DEF LocksTake, Finished
    <3>3. taken[t] + 1 \in 1..Len(Script(t)) /\ taken[t] + 1 \in 0..8
      <4>1. \A a, b \in 0..8 : a # b /\ a <= b => a + 1 \in 1..b /\ a + 1 \in 0..8
        OBVIOUS
      <4> QED
        BY <3>1, <3>2, <4>1
    <3> QED
      BY <3>1, <3>3, ScriptType DEF Wanted
  <2>2. taken' = [taken EXCEPT ![t] = taken[t] + 1] /\ holder' = [holder EXCEPT ![Wanted(t)] = t]
    BY <1>1 DEF LocksTake
  <2>3. LocksTypeOK'
    BY <2>1, <2>2
  <2>4. ASSUME NEW u \in Transactions, NEW l \in Locks, holder'[l] = u
        PROVE  \E n \in 1..taken'[u] : Script(u)[n] = l
    <3>1. CASE l = Wanted(t)
      BY <1>1, <2>1, <2>2, <2>4, <3>1 DEF Wanted
    <3>2. CASE l # Wanted(t)
      <4>1. PICK n \in 1..taken[u] : Script(u)[n] = l
        BY <2>2, <2>4, <3>2
      <4> QED
        BY <2>2, <4>1
    <3> QED
      BY <3>1, <3>2
  <2>5. \A u \in Transactions : taken'[u] <= Len(Script(u))
    BY <2>1, <2>2
  <2> QED
    BY <2>3, <2>4, <2>5 DEF Script
<1>2. ASSUME NEW t \in Transactions, LocksRelease(t)
      PROVE  LocksInv'
  <2>1. LocksTypeOK'
    BY <1>2 DEF LocksRelease
  <2>2. \A u \in Transactions : taken'[u] <= Len(Script(u))
    BY <1>2, ScriptType DEF LocksRelease
  <2>3. ASSUME NEW u \in Transactions, NEW l \in Locks, holder'[l] = u
        PROVE  \E n \in 1..taken'[u] : Script(u)[n] = l
    <3>1. u # t /\ holder[l] = u /\ taken'[u] = taken[u]
      BY <1>2, <2>3 DEF LocksRelease
    <3> QED
      BY <3>1
  <2> QED
    BY <2>1, <2>2, <2>3 DEF Script
<1>3. CASE UNCHANGED locksVars
  BY <1>3 DEF locksVars, Script
<1> QED
  BY <1>1, <1>2, <1>3 DEF LocksNext, Commit, Victim

\* Who holds a lock that another waits for, and waits too, waits for a later
\* one; so no set of such transactions waits within itself.
LEMMA NoCycle == LocksInv => DeadlockNeedsRenewal
<1> DEFINE S == {t \in Transactions : Kind[t] # "renew"}
<1> SUFFICES ASSUME LocksInv, NEW C \in SUBSET S, C # {}, \A t \in C : \E u \in C : Waits(t, u)
             PROVE  FALSE
  <2>1. ASSUME LocksInv, Deadlocked(S) # {}
        PROVE  \E C \in SUBSET S : C # {} /\ \A t \in C : \E u \in C : Waits(t, u)
    BY <2>1, Zenon DEF Deadlocked
  <2> QED
    BY <2>1, Zenon DEF DeadlockNeedsRenewal
<1> DEFINE Place(t) == Rank(Wanted(t))
           T == {Place(t) : t \in C}
<1>1. ASSUME NEW t \in C
      PROVE  /\ t \in Transactions /\ Kind[t] \in Kinds \ {"renew"}
             /\ taken[t] + 1 \in 1..Len(Script(t)) /\ taken[t] \in Nat
             /\ Wanted(t) \in Locks /\ Place(t) \in 1..7
  <2>1. t \in Transactions /\ Kind[t] \in Kinds \ {"renew"}
    BY LocksAssumption
  <2>2. taken[t] + 1 \in 1..Len(Script(t)) /\ taken[t] \in Nat
    <3>1. taken[t] # Len(Script(t))
      BY DEF Waits, Finished
    <3>2. taken[t] \in 0..8 /\ taken[t] <= Len(Script(t)) /\ Len(Script(t)) \in 0..8
      BY <2>1, ScriptType DEF LocksInv, LocksTypeOK, HeldAreTaken
    <3> QED
      BY <3>1, <3>2
  <2>3. Wanted(t) \in Locks
    BY <2>1, <2>2, ScriptType DEF Wanted
  <2> QED
    BY <2>1, <2>2, <2>3, RankType
<1>2. PICK t \in C : \A u \in C : Place(u) <= Place(t)
  <2>1. T \in SUBSET (0..7) /\ T # {}
    BY <1>1
  <2>2. PICK m \in T : \A n \in T : n <= m
    BY <2>1, LargestOf
  <2> QED
    BY <2>2
<1>3. PICK u \in C : Waits(t, u)
  OBVIOUS
<1>4. holder[Wanted(t)] = u
  BY <1>3 DEF Waits
<1>5. PICK n \in 1..taken[u] : Script(u)[n] = Wanted(t)
  BY <1>1, <1>4 DEF LocksInv, HeldAreTaken
<1>6. Rank(Script(u)[n]) < Rank(Script(u)[taken[u] + 1])
  <2>1. n \in 1..Len(Script(u)) /\ n < taken[u] + 1
    BY <1>1
  <2> QED
    BY <1>1, <2>1, OneOrder DEF Script
<1>7. Place(t) < Place(u)
  BY <1>5, <1>6 DEF Wanted
<1>8. Place(t) \in 1..7 /\ Place(u) \in 1..7 /\ Place(u) <= Place(t)
  BY <1>1, <1>2
<1> HIDE DEF Place
<1> QED
  BY <1>7, <1>8

\* For any number of transactions of any kinds: only a renewal can be part of
\* a circle of waits.
THEOREM LocksAreSafe == LocksSpec => []LocksSafe
<1>1. LocksInit => LocksInv
  <2> SUFFICES ASSUME LocksInit PROVE LocksInv
    OBVIOUS
  <2>1. \A t \in Transactions : Len(Script(t)) \in 0..8
    BY ScriptType
  <2> QED
    BY <2>1, LocksAssumption DEF LocksInit, LocksInv, LocksTypeOK, HeldAreTaken
<1>2. LocksInv => LocksSafe
  BY NoCycle DEF LocksInv, LocksSafe
<1> QED
  BY <1>1, <1>2, LocksStep, PTL DEF LocksSpec

-----------------------------------------------------------------------------
(* Connections                                                             *)

\* A verification under way that the row has not overtaken read its
\* configuration.
ReadAsConfigured ==
    \A v \in Verifiers : verifying[v] # NoVerification =>
        /\ verifying[v].row <= conn.row
        /\ verifying[v].row = conn.row => verifying[v].config = conn.config

\* Runtimes acknowledge what they were sent, and are sent what was released.
SentAndAcked ==
    \A r \in ConnectionRuntimes : acked[r] <= sent[r] /\ sent[r] <= HeadRevision

\* What an active runtime was sent, or has acknowledged, after the mark of a
\* pending revocation, or under a revoked Connection at all, is without it.
NotCarried ==
    \A r \in connectionActive : \A n \in {sent[r], acked[r]} :
        /\ conn.lifecycle = "REVOKE_PENDING" /\ n > conn.mark => carries[n] = FALSE
        /\ conn.lifecycle = "REVOKED" /\ n # 0 => carries[n] = FALSE

ConnectionInv ==
    /\ ConnectionTypeOK /\ VerifiedAsConfigured /\ ReadAsConfigured /\ SentAndAcked /\ NotCarried

\* The head revision counts the releases.
LEMMA HeadCounts ==
    ASSUME NEW n \in Nat, NEW f \in [1..n -> BOOLEAN], carries = f
    PROVE  HeadRevision = n
<1>1. DOMAIN carries = 1..n
  OBVIOUS
<1>2. Cardinality(1..n) = n
  BY FS_Interval
<1> QED
  BY <1>1, <1>2 DEF HeadRevision

LEMMA HeadType ==
    ASSUME ConnectionTypeOK
    PROVE  HeadRevision \in 0..MaxHead /\ carries \in [1..HeadRevision -> BOOLEAN]
<1>1. PICK n \in 0..MaxHead : carries \in [1..n -> BOOLEAN]
  BY DEF ConnectionTypeOK
<1>2. HeadRevision = n
  BY <1>1, HeadCounts
<1> QED
  BY <1>1, <1>2

\* A row, field by field.
ConnRow(lifecycle, config, checked, mark, final) ==
    [lifecycle |-> lifecycle, row |-> conn.row + 1, config |-> config, checked |-> checked,
     mark |-> mark, final |-> final]

\* What each write of the row does to it.
LEMMA Writes ==
    ASSUME ConnectionTypeOK
    PROVE  /\ Reconfigure => conn' = ConnRow(conn.lifecycle, conn.row + 1, 0, conn.mark, conn.final)
           /\ Touch => conn' = ConnRow(conn.lifecycle, conn.config, conn.checked, conn.mark, conn.final)
           /\ Enable => conn' = ConnRow("ENABLED", conn.config, conn.checked, conn.mark, conn.final)
           /\ Disable => conn' = ConnRow("DISABLED", conn.config, conn.checked, conn.mark, conn.final)
           /\ RequestRevoke =>
                conn' = ConnRow("REVOKE_PENDING", conn.config, conn.checked, Watermark, conn.final)
           /\ \A n : ConfirmRevoked(n) =>
                conn' = ConnRow("REVOKED", conn.config, conn.checked, conn.mark, conn.config)
           /\ \A v : EndVerify(v) /\ Unchanged(v) =>
                conn' = ConnRow("ENABLED", conn.config, verifying[v].config, conn.mark, conn.final)
<1> USE DEF ConnectionTypeOK, ConnRow, Write
<1>1. Reconfigure => conn' = ConnRow(conn.lifecycle, conn.row + 1, 0, conn.mark, conn.final)
  BY DEF Reconfigure
<1>2. Touch => conn' = ConnRow(conn.lifecycle, conn.config, conn.checked, conn.mark, conn.final)
  BY DEF Touch
<1>3. Enable => conn' = ConnRow("ENABLED", conn.config, conn.checked, conn.mark, conn.final)
  BY DEF Enable
<1>4. Disable => conn' = ConnRow("DISABLED", conn.config, conn.checked, conn.mark, conn.final)
  BY DEF Disable
<1>5. RequestRevoke =>
        conn' = ConnRow("REVOKE_PENDING", conn.config, conn.checked, Watermark, conn.final)
  BY DEF RequestRevoke
<1>6. \A n : ConfirmRevoked(n) =>
        conn' = ConnRow("REVOKED", conn.config, conn.checked, conn.mark, conn.config)
  BY DEF ConfirmRevoked
<1>7. \A v : EndVerify(v) /\ Unchanged(v) =>
        conn' = ConnRow("ENABLED", conn.config, verifying[v].config, conn.mark, conn.final)
  BY DEF EndVerify
<1> QED
  BY <1>1, <1>2, <1>3, <1>4, <1>5, <1>6, <1>7

\* The watermark is the newest release any active runtime was sent.
LEMMA WatermarkBounds ==
    ASSUME ConnectionTypeOK
    PROVE  Watermark \in 0..MaxHead /\ \A r \in connectionActive : sent[r] <= Watermark
<1> DEFINE S == {sent[r] : r \in connectionActive}
<1>1. S \in SUBSET (0..MaxHead)
  BY DEF ConnectionTypeOK
<1>2. CASE S = {}
  BY <1>2, ConnectionAssumption DEF Watermark, ConnectionNewest
<1>3. CASE S # {}
  <2>1. \E m \in S : \A n \in S : n <= m
    BY <1>1, <1>3, ConnectionAssumption, LargestOf
  <2>2. Watermark = CHOOSE m \in S : \A n \in S : n <= m
    BY <1>3 DEF Watermark, ConnectionNewest
  <2>3. Watermark \in S /\ \A n \in S : n <= Watermark
    BY <2>1, <2>2
  <2> QED
    BY <1>1, <2>3
<1> QED
  BY <1>2, <1>3

\* A write of the row overtakes every verification under way.
LEMMA WriteOvertakes ==
    ASSUME ConnectionInv, NEW v \in Verifiers, verifying[v] # NoVerification
    PROVE  verifying[v].row < conn.row + 1
BY ConnectionAssumption DEF ConnectionInv, ConnectionTypeOK, ReadAsConfigured

\* The invariant is kept by a write of the row that leaves the releases alone.
LEMMA RowKeeps ==
    ASSUME ConnectionInv, conn.row < MaxRow, UNCHANGED Row,
           \A v \in Verifiers : verifying'[v] \in {verifying[v], NoVerification},
           verifying' \in [Verifiers -> [row : 0..MaxRow, config : 0..MaxRow]],
           NEW lifecycle \in ConnectionStates, NEW config \in 1..MaxRow, NEW checked \in {0, config},
           NEW mark \in 0..MaxHead, NEW final \in 0..MaxRow,
           conn' = ConnRow(lifecycle, config, checked, mark, final),
           \A r \in connectionActive : \A n \in {sent[r], acked[r]} :
               /\ lifecycle = "REVOKE_PENDING" /\ n > mark => carries[n] = FALSE
               /\ lifecycle = "REVOKED" /\ n # 0 => carries[n] = FALSE
    PROVE  ConnectionInv'
<1> USE ConnectionAssumption
<1>1. conn.row \in 1..MaxRow /\ conn.row + 1 \in 1..MaxRow
  BY DEF ConnectionInv, ConnectionTypeOK
<1>2. ConnectionTypeOK'
  BY <1>1 DEF ConnectionInv, ConnectionTypeOK, ConnRow, Row
<1>3. VerifiedAsConfigured'
  BY DEF VerifiedAsConfigured, ConnectionVerified, ConnRow
<1>4. ReadAsConfigured'
  <2> SUFFICES ASSUME NEW v \in Verifiers, verifying'[v] # NoVerification
               PROVE  verifying'[v].row < conn'.row
    BY <1>1, <1>2 DEF ReadAsConfigured, ConnectionTypeOK, ConnRow
  <2>1. verifying'[v] = verifying[v]
    OBVIOUS
  <2> QED
    BY <2>1, WriteOvertakes DEF ConnRow
<1>5. SentAndAcked'
  BY DEF ConnectionInv, SentAndAcked, Row, HeadRevision
<1>6. NotCarried'
  BY DEF NotCarried, ConnRow, Row
<1> QED
  BY <1>2, <1>3, <1>4, <1>5, <1>6 DEF ConnectionInv

\* A release made while the Connection is not ready does not carry it.
LEMMA NotReadyNotCarried ==
    ASSUME ~ FromSnapshot, conn.lifecycle # "ENABLED", NEW snapshot, NEW healthy \in BOOLEAN
    PROVE  Carried(snapshot, healthy) = FALSE
BY DEF Carried, Ready

\* A new release keeps the invariant if it does not carry a Connection whose
\* revocation is pending or done.
LEMMA ReleaseKeeps ==
    ASSUME ConnectionInv, NEW carried \in BOOLEAN, ConnectionRelease(carried), approved' \in BOOLEAN,
           conn.lifecycle # "ENABLED" => carried = FALSE
    PROVE  ConnectionInv'
<1> USE ConnectionAssumption
<1>1. HeadRevision \in 0..MaxHead /\ HeadRevision < MaxHead /\ carries \in [1..HeadRevision -> BOOLEAN]
  BY HeadType DEF ConnectionRelease, ConnectionInv
<1> DEFINE n == HeadRevision + 1
<1>2. n \in 1..MaxHead /\ carries' \in [1..n -> BOOLEAN]
  BY <1>1 DEF ConnectionRelease
<1>3. HeadRevision' = n
  <2>1. DOMAIN carries' = 1..n
    BY <1>2
  <2>2. Cardinality(1..n) = n
    BY <1>2, FS_Interval
  <2> QED
    BY <2>1, <2>2 DEF HeadRevision
<1>4. carries'[n] = carried /\ \A k \in 1..HeadRevision : carries'[k] = carries[k]
  BY <1>1 DEF ConnectionRelease
<1>5. \A r \in ConnectionRuntimes : sent'[r] = IF r \in connectionActive THEN n ELSE sent[r]
  BY DEF ConnectionRelease
<1>6. sent' \in [ConnectionRuntimes -> 0..MaxHead]
  BY <1>2 DEF ConnectionRelease, ConnectionInv, ConnectionTypeOK
<1> HIDE DEF n
<1>7. ConnectionTypeOK'
  BY <1>2, <1>6 DEF ConnectionRelease, ConnectionInv, ConnectionTypeOK
<1>8. \A r \in ConnectionRuntimes : sent[r] \in 0..HeadRevision /\ acked[r] \in 0..HeadRevision
  BY <1>1 DEF ConnectionInv, ConnectionTypeOK, SentAndAcked
<1>9. SentAndAcked'
  BY <1>1, <1>3, <1>5, <1>8 DEF ConnectionRelease, ConnectionInv, SentAndAcked, n
<1>10. NotCarried'
  <2> SUFFICES ASSUME NEW r \in connectionActive, NEW k \in {n, acked[r]}
               PROVE  /\ conn.lifecycle = "REVOKE_PENDING" /\ k > conn.mark => carries'[k] = FALSE
                      /\ conn.lifecycle = "REVOKED" /\ k # 0 => carries'[k] = FALSE
    <3>1. UNCHANGED <<conn, connectionActive, acked>> /\ \A r \in connectionActive : sent'[r] = n
      BY <1>5 DEF ConnectionRelease, ConnectionInv, ConnectionTypeOK
    <3> QED
      BY <3>1 DEF NotCarried
  <2>1. CASE k = n
    BY <1>4, <2>1
  <2>2. CASE k = acked[r]
    <3>1. k \in 0..HeadRevision /\ conn.mark \in 0..MaxHead
      BY <1>8, <2>2 DEF ConnectionInv, ConnectionTypeOK
    <3>2. k # 0 => carries'[k] = carries[k]
      BY <1>1, <1>4, <3>1
    <3> QED
      BY <2>2, <3>1, <3>2 DEF ConnectionInv, NotCarried
  <2> QED
    BY <2>1, <2>2
<1>11. VerifiedAsConfigured' /\ ReadAsConfigured'
  BY DEF ConnectionRelease, ConnectionInv, VerifiedAsConfigured, ReadAsConfigured, ConnectionVerified
<1> QED
  BY <1>7, <1>9, <1>10, <1>11 DEF ConnectionInv

\* Every step of the Connection, its releases and its runtimes keeps the
\* invariant, where releases read the Connection.
LEMMA ConnectionStep ==
    ASSUME ~ FromSnapshot, ConnectionInv, [ConnectionNext]_connectionVars
    PROVE  ConnectionInv'
<1> USE ConnectionAssumption
<1> DEFINE Marked(lifecycle, mark) ==
             \A r \in connectionActive : \A n \in {sent[r], acked[r]} :
               /\ lifecycle = "REVOKE_PENDING" /\ n > mark => carries[n] = FALSE
               /\ lifecycle = "REVOKED" /\ n # 0 => carries[n] = FALSE
<1>a. /\ conn.lifecycle \in ConnectionStates /\ conn.row \in 1..MaxRow /\ conn.config \in 1..MaxRow
      /\ conn.checked \in {0, conn.config} /\ conn.mark \in 0..MaxHead /\ conn.final \in 0..MaxRow
  BY DEF ConnectionInv, ConnectionTypeOK, VerifiedAsConfigured, ConnectionVerified
<1>b. verifying \in [Verifiers -> [row : 0..MaxRow, config : 0..MaxRow]]
  BY DEF ConnectionInv, ConnectionTypeOK
<1>c. Marked(conn.lifecycle, conn.mark)
  BY DEF ConnectionInv, NotCarried
<1>d. \A l \in {"DRAFT", "ENABLED", "DISABLED"} : Marked(l, conn.mark)
  OBVIOUS
<1>e. \A r \in ConnectionRuntimes : /\ sent[r] \in 0..MaxHead /\ acked[r] \in 0..MaxHead
                                    /\ acked[r] <= sent[r]
  BY DEF ConnectionInv, ConnectionTypeOK, SentAndAcked
<1>f. ConnectionTypeOK
  BY DEF ConnectionInv
<1>g. connectionActive \subseteq ConnectionRuntimes
  BY <1>f DEF ConnectionTypeOK
<1>h. ASSUME UNCHANGED verifying
      PROVE  /\ verifying' \in [Verifiers -> [row : 0..MaxRow, config : 0..MaxRow]]
             /\ \A w \in Verifiers : verifying'[w] \in {verifying[w], NoVerification}
  BY <1>b, <1>h
<1>1. CASE Reconfigure
  <2>1. conn.row < MaxRow /\ conn.row + 1 \in 1..MaxRow /\ UNCHANGED <<verifying, Row>>
    BY <1>1, <1>a DEF Reconfigure, Write
  <2>2. conn' = ConnRow(conn.lifecycle, conn.row + 1, 0, conn.mark, conn.final)
    BY <1>1, <1>f, Writes
  <2> QED
    BY <1>a, <1>c, <1>h, <2>1, <2>2, RowKeeps
<1>2. CASE Touch
  <2>1. conn.row < MaxRow /\ UNCHANGED <<verifying, Row>>
    BY <1>2 DEF Touch, Write
  <2>2. conn' = ConnRow(conn.lifecycle, conn.config, conn.checked, conn.mark, conn.final)
    BY <1>2, <1>f, Writes
  <2> QED
    BY <1>a, <1>c, <1>h, <2>1, <2>2, RowKeeps
<1>3. CASE Enable
  <2>1. conn.row < MaxRow /\ UNCHANGED <<verifying, Row>>
    BY <1>3 DEF Enable, Write
  <2>2. conn' = ConnRow("ENABLED", conn.config, conn.checked, conn.mark, conn.final)
    BY <1>3, <1>f, Writes
  <2> QED
    BY <1>a, <1>d, <1>h, <2>1, <2>2, RowKeeps DEF ConnectionStates
<1>4. CASE Disable
  <2>1. conn.row < MaxRow /\ UNCHANGED <<verifying, Row>>
    BY <1>4 DEF Disable, Write
  <2>2. conn' = ConnRow("DISABLED", conn.config, conn.checked, conn.mark, conn.final)
    BY <1>4, <1>f, Writes
  <2> QED
    BY <1>a, <1>d, <1>h, <2>1, <2>2, RowKeeps DEF ConnectionStates
<1>5. CASE RequestRevoke
  <2>1. Watermark \in 0..MaxHead /\ \A r \in connectionActive : sent[r] <= Watermark
    BY <1>f, WatermarkBounds
  <2>2. \A r \in connectionActive : \A n \in {sent[r], acked[r]} : ~ (n > Watermark)
    BY <1>e, <1>g, <2>1
  <2>3. Marked("REVOKE_PENDING", Watermark)
    BY <2>2
  <2>4. conn' = ConnRow("REVOKE_PENDING", conn.config, conn.checked, Watermark, conn.final)
    BY <1>5, <1>f, Writes
  <2>5. conn.row < MaxRow /\ UNCHANGED <<verifying, Row>>
    BY <1>5 DEF RequestRevoke, Write
  <2> QED
    BY <1>a, <1>h, <2>1, <2>3, <2>4, <2>5, RowKeeps DEF ConnectionStates
<1>6. ASSUME NEW revision \in 1..MaxHead, ConfirmRevoked(revision)
      PROVE  ConnectionInv'
  <2>1. \A r \in connectionActive : acked[r] > conn.mark /\ sent[r] > conn.mark
    BY <1>6, <1>a, <1>e, <1>g DEF ConfirmRevoked
  <2>2. Marked("REVOKED", conn.mark)
    BY <1>6, <1>c, <2>1 DEF ConfirmRevoked
  <2>3. conn' = ConnRow("REVOKED", conn.config, conn.checked, conn.mark, conn.config)
    BY <1>6, <1>f, Writes
  <2>4. conn.row < MaxRow /\ UNCHANGED <<verifying, Row>> /\ conn.config \in 0..MaxRow
    BY <1>6, <1>a DEF ConfirmRevoked, Write
  <2> QED
    BY <1>a, <1>h, <2>2, <2>3, <2>4, RowKeeps DEF ConnectionStates
<1>7. ASSUME NEW v \in Verifiers, BeginVerify(v)
      PROVE  ConnectionInv'
  <2>1. verifying' = [verifying EXCEPT ![v] = [row |-> conn.row, config |-> conn.config]]
        /\ UNCHANGED <<conn, approved, carries, connectionActive, sent, acked>>
    BY <1>7 DEF BeginVerify, Row
  <2>2. ConnectionTypeOK'
    BY <1>a, <1>b, <2>1, <1>f DEF ConnectionTypeOK
  <2>3. ReadAsConfigured'
    BY <1>a, <1>b, <2>1 DEF ConnectionInv, ReadAsConfigured
  <2> QED
    BY <2>1, <2>2, <2>3 DEF ConnectionInv, VerifiedAsConfigured, ConnectionVerified, SentAndAcked,
       NotCarried, HeadRevision
<1>8. ASSUME NEW v \in Verifiers, EndVerify(v), Unchanged(v)
      PROVE  ConnectionInv'
  <2>1. verifying[v].config = conn.config
    BY <1>8 DEF EndVerify, Unchanged, ConnectionInv, ReadAsConfigured
  <2>2. conn' = ConnRow("ENABLED", conn.config, conn.config, conn.mark, conn.final)
    BY <1>8, <1>f, <2>1, Writes
  <2>3. verifying' = [verifying EXCEPT ![v] = NoVerification] /\ UNCHANGED Row /\ conn.row < MaxRow
    BY <1>8 DEF EndVerify, Write
  <2>4. /\ verifying' \in [Verifiers -> [row : 0..MaxRow, config : 0..MaxRow]]
        /\ \A w \in Verifiers : verifying'[w] \in {verifying[w], NoVerification}
    BY <1>b, <2>3 DEF NoVerification
  <2> QED
    BY <1>a, <1>d, <2>2, <2>3, <2>4, RowKeeps DEF ConnectionStates
<1>9. ASSUME NEW v \in Verifiers, VerifyFails(v) \/ (EndVerify(v) /\ ~ Unchanged(v))
      PROVE  ConnectionInv'
  <2>1. verifying' = [verifying EXCEPT ![v] = NoVerification]
        /\ UNCHANGED <<conn, approved, carries, connectionActive, sent, acked>>
    BY <1>9 DEF VerifyFails, EndVerify, Row
  <2>2. ConnectionTypeOK'
    BY <1>b, <2>1, <1>f DEF ConnectionTypeOK, NoVerification
  <2>3. ReadAsConfigured'
    BY <1>b, <2>1 DEF ConnectionInv, ReadAsConfigured
  <2> QED
    BY <2>1, <2>2, <2>3 DEF ConnectionInv, VerifiedAsConfigured, ConnectionVerified, SentAndAcked,
       NotCarried, HeadRevision
<1>10. ASSUME NEW healthy \in BOOLEAN, Reconcile(healthy)
       PROVE  ConnectionInv'
  <2>1. Carried(approved, healthy) \in BOOLEAN
    BY <1>f DEF Carried, Ready, ConnectionVerified, ConnectionTypeOK
  <2>2. conn.lifecycle # "ENABLED" => Carried(approved, healthy) = FALSE
    BY NotReadyNotCarried
  <2> QED
    BY <1>10, <1>f, <2>1, <2>2, ReleaseKeeps DEF Reconcile, ConnectionTypeOK
<1>11. ASSUME NEW with \in BOOLEAN, Publish(with)
       PROVE  ConnectionInv'
  <2>1. Carried(with, TRUE) \in BOOLEAN
    BY <1>f DEF Carried, Ready, ConnectionVerified, ConnectionTypeOK
  <2>2. conn.lifecycle # "ENABLED" => Carried(with, TRUE) = FALSE
    BY NotReadyNotCarried
  <2> QED
    BY <1>11, <2>1, <2>2, ReleaseKeeps DEF Publish
<1>12. ASSUME NEW healthy \in BOOLEAN, Resend(healthy)
       PROVE  ConnectionInv'
  <2>1. HeadRevision \in 1..MaxHead
    BY <1>12, <1>f, HeadType DEF Resend
  <2>2. conn.lifecycle # "ENABLED" => carries[HeadRevision] = FALSE
    BY <1>12, NotReadyNotCarried DEF Resend
  <2>3. \A r \in ConnectionRuntimes : sent'[r] = IF r \in connectionActive THEN HeadRevision ELSE sent[r]
    BY <1>12 DEF Resend
  <2>4. UNCHANGED <<conn, verifying, approved, carries, connectionActive, acked>> /\ HeadRevision' = HeadRevision
    BY <1>12 DEF Resend, HeadRevision
  <2>5. sent' \in [ConnectionRuntimes -> 0..MaxHead]
    BY <1>12, <1>f, <2>1 DEF Resend, ConnectionTypeOK
  <2>6. ConnectionTypeOK'
    BY <1>f, <2>4, <2>5 DEF ConnectionTypeOK
  <2>7. SentAndAcked'
    BY <1>e, <2>1, <2>3, <2>4 DEF ConnectionInv, SentAndAcked
  <2>8. NotCarried'
    BY <1>g, <2>2, <2>3, <2>4 DEF ConnectionInv, NotCarried
  <2> QED
    BY <2>4, <2>6, <2>7, <2>8 DEF ConnectionInv, VerifiedAsConfigured, ConnectionVerified, ReadAsConfigured
<1>13. ASSUME NEW r \in ConnectionRuntimes, Acknowledge(r)
       PROVE  ConnectionInv'
  <2>1. acked' = [acked EXCEPT ![r] = sent[r]] /\ UNCHANGED <<conn, verifying, approved, carries, connectionActive, sent>>
    BY <1>13 DEF Acknowledge
  <2>2. ConnectionTypeOK'
    BY <1>e, <1>f, <2>1 DEF ConnectionTypeOK
  <2>3. SentAndAcked' /\ NotCarried'
    BY <1>e, <1>f, <1>g, <2>1 DEF ConnectionInv, SentAndAcked, NotCarried, HeadRevision, ConnectionTypeOK
  <2> QED
    BY <2>1, <2>2, <2>3 DEF ConnectionInv, VerifiedAsConfigured, ConnectionVerified, ReadAsConfigured
<1>14. ASSUME NEW r \in ConnectionRuntimes, Join(r) \/ Leave(r)
       PROVE  ConnectionInv'
  <2>1. /\ connectionActive' \subseteq ConnectionRuntimes
        /\ \A s \in connectionActive' : s \in connectionActive \/ sent[s] = 0
        /\ UNCHANGED <<conn, verifying, approved, carries, sent, acked>>
    BY <1>14, <1>g DEF Join, Leave
  <2>2. \A s \in connectionActive' : s \in connectionActive \/ (sent[s] = 0 /\ acked[s] = 0)
    BY <1>e, <2>1
  <2>3. NotCarried'
    BY <1>a, <2>1, <2>2 DEF ConnectionInv, NotCarried
  <2> QED
    BY <2>1, <2>3 DEF ConnectionInv, ConnectionTypeOK, VerifiedAsConfigured, ConnectionVerified,
       ReadAsConfigured, SentAndAcked, HeadRevision
<1>15. CASE UNCHANGED connectionVars
  BY <1>15 DEF connectionVars, ConnectionInv, ConnectionTypeOK, VerifiedAsConfigured, ConnectionVerified,
     ReadAsConfigured, SentAndAcked, HeadRevision, NotCarried
<1> QED
  BY <1>1, <1>2, <1>3, <1>4, <1>5, <1>6, <1>7, <1>8, <1>9, <1>10, <1>11, <1>12, <1>13, <1>14, <1>15
     DEF ConnectionNext

\* Where releases read the Connection: it counts as verified only for the
\* configuration that was tried, and once it is revoked no active runtime
\* serves it, for any number of runtimes and verifications.
THEOREM ConnectionIsSafe == ~ FromSnapshot => (ConnectionSpec => []ConnectionSafe)
<1> SUFFICES ASSUME ~ FromSnapshot PROVE ConnectionSpec => []ConnectionSafe
  OBVIOUS
<1>1. ConnectionInit => ConnectionInv
  <2> SUFFICES ASSUME ConnectionInit PROVE ConnectionInv
    OBVIOUS
  <2> USE ConnectionAssumption
  <2>1. carries \in [1..0 -> BOOLEAN]
    BY DEF ConnectionInit
  <2>2. HeadRevision = 0
    BY <2>1, HeadCounts
  <2>3. carries \in UNION {[1..n -> BOOLEAN] : n \in 0..MaxHead}
    BY <2>1
  <2>4. ConnectionTypeOK
    <3>1. conn \in [lifecycle : ConnectionStates, row : 1..MaxRow, config : 1..MaxRow,
                    checked : 0..MaxRow, mark : 0..MaxHead, final : 0..MaxRow]
      BY DEF ConnectionInit, ConnectionStates
    <3>2. verifying \in [Verifiers -> [row : 0..MaxRow, config : 0..MaxRow]]
      BY DEF ConnectionInit, NoVerification
    <3>3. approved \in BOOLEAN /\ connectionActive \subseteq ConnectionRuntimes
      BY DEF ConnectionInit
    <3>4. sent \in [ConnectionRuntimes -> 0..MaxHead] /\ acked \in [ConnectionRuntimes -> 0..MaxHead]
      BY DEF ConnectionInit
    <3> QED
      BY <2>3, <3>1, <3>2, <3>3, <3>4 DEF ConnectionTypeOK
  <2> QED
    BY <2>2, <2>4 DEF ConnectionInit, ConnectionInv, VerifiedAsConfigured, ConnectionVerified,
       ReadAsConfigured, SentAndAcked, NotCarried
<1>2. ConnectionInv /\ [ConnectionNext]_connectionVars => ConnectionInv'
  BY ConnectionStep
<1>3. ConnectionInv => ConnectionSafe
  BY DEF ConnectionInv, ConnectionSafe, NotCarried, RevokedIsNotServed, NothingAfterMark
<1> QED
  BY <1>1, <1>2, <1>3, PTL DEF ConnectionSpec

-----------------------------------------------------------------------------
(* Session leases                                                          *)

Has(q, task) == \E i \in 1..Len(q) : q[i] = task

Begun == {"first poll", "serving", "ended"}

\* What one socket keeps.
SocketInv(s) ==
    \* A lease expires only under the eyes of the history.
    /\ lease = s /\ ~ live => lapsed[s]
    \* A socket that has not claimed does not hold the lease, and one that has
    \* and whose lease never expired still does.
    /\ start[s] \in {"unused", "assert", "claim"} => lease # s
    /\ start[s] = "answer" /\ ~ lapsed[s] => lease = s
    /\ started[s] /\ ~ lapsed[s] => lease = s
    \* The flags of a socket follow its start.
    /\ started[s] => ~ closed[s]
    /\ start[s] = "ended" => closed[s]
    /\ start[s] = "unused" => ~ closed[s] /\ queue[s] = << >>
    /\ claimed[s] => start[s] \in Begun
    /\ ~ closed[s] /\ start[s] \in Begun => claimed[s]
    \* The release is queued when a claimed socket closes, and not before.
    /\ Has(queue[s], "release") => closed[s] /\ start[s] \in Begun
    /\ Has(queue[s], "first poll") => start[s] \in Begun
    /\ /\ leaseFaults = 0 /\ lease = s /\ live
       /\ start[s] \in Begun /\ closed[s] /\ ~ claimed[s]
       => Has(queue[s], "release")

LeaseInv == LeaseTypeOK /\ \A s \in Sockets : SocketInv(s)

\* A task at the end of a queue.
LEMMA QueueAppend ==
    ASSUME NEW q \in Seq(Tasks), NEW task \in Tasks
    PROVE  /\ Append(q, task) \in Seq(Tasks)
           /\ \A other : Has(Append(q, task), other) <=> Has(q, other) \/ task = other
<1>1. /\ Append(q, task) \in Seq(Tasks) /\ Len(Append(q, task)) = Len(q) + 1
      /\ Append(q, task)[Len(q) + 1] = task
      /\ \A i \in 1..Len(q) : Append(q, task)[i] = q[i]
  OBVIOUS
<1>2. Len(q) \in Nat
  OBVIOUS
<1>3. 1..(Len(q) + 1) = (1..Len(q)) \cup {Len(q) + 1}
  BY <1>2
<1> QED
  BY <1>1, <1>3 DEF Has

\* The queue without its first task.
LEMMA QueueTail ==
    ASSUME NEW q \in Seq(Tasks), q # << >>
    PROVE  /\ Head(q) \in Tasks /\ Tail(q) \in Seq(Tasks)
           /\ \A task : Has(q, task) <=> Has(Tail(q), task) \/ Head(q) = task
<1>1. /\ Tail(q) \in Seq(Tasks) /\ Len(q) \in Nat \ {0} /\ Len(Tail(q)) = Len(q) - 1 /\ Head(q) = q[1]
      /\ \A i \in 1..(Len(q) - 1) : Tail(q)[i] = q[i + 1]
  OBVIOUS
<1>2. Head(q) \in Tasks
  BY <1>1
<1>3. ASSUME NEW task, Has(q, task)
      PROVE  Has(Tail(q), task) \/ Head(q) = task
  <2>1. PICK i \in 1..Len(q) : q[i] = task
    BY <1>3 DEF Has
  <2>2. CASE i = 1
    BY <1>1, <2>1, <2>2
  <2>3. CASE i # 1
    <3>1. i - 1 \in 1..(Len(q) - 1) /\ Tail(q)[i - 1] = q[(i - 1) + 1] /\ (i - 1) + 1 = i
      BY <1>1, <2>1, <2>3
    <3> QED
      BY <1>1, <2>1, <3>1 DEF Has
  <2> QED
    BY <2>2, <2>3
<1>4. ASSUME NEW task, Has(Tail(q), task) \/ Head(q) = task
      PROVE  Has(q, task)
  <2>1. CASE Head(q) = task
    BY <1>1, <2>1 DEF Has
  <2>2. CASE Has(Tail(q), task)
    <3>1. PICK i \in 1..(Len(q) - 1) : Tail(q)[i] = task
      BY <1>1, <2>2 DEF Has
    <3>2. i + 1 \in 1..Len(q) /\ q[i + 1] = task
      BY <1>1, <3>1
    <3> QED
      BY <3>2 DEF Has
  <2> QED
    BY <1>4, <2>1, <2>2
<1> QED
  BY <1>1, <1>2, <1>3, <1>4

Same(t) ==
    /\ start'[t] = start[t] /\ queue'[t] = queue[t] /\ lapsed'[t] = lapsed[t]
    /\ closed'[t] = closed[t] /\ started'[t] = started[t] /\ claimed'[t] = claimed[t]

\* A step of others may only take the row of a socket whose lease has expired.
LEMMA OthersKeep ==
    ASSUME NEW t \in Sockets, SocketInv(t), Same(t),
           leaseFaults' = 0 => leaseFaults = 0,
           (lease' = lease /\ live' = live) \/ (lease' # t /\ (lease # t \/ ~ live))
    PROVE  SocketInv(t)'
<1>1. \A task : Has(queue'[t], task) <=> Has(queue[t], task)
  BY DEF Same
<1>2. CASE lease' = lease /\ live' = live
  BY <1>1, <1>2 DEF SocketInv, Same
<1>3. CASE lease' # t /\ (lease # t \/ ~ live)
  BY <1>1, <1>3 DEF SocketInv, Same
<1> QED
  BY <1>2, <1>3

\* Finishing an open socket whose queue is then tasks.
LEMMA FinishKeeps ==
    ASSUME LeaseInv, NEW s \in Sockets, ~ closed[s],
           NEW tasks \in Seq(Tasks), ~ Has(tasks, "release"),
           Has(tasks, "first poll") => start[s] \in Begun,
           FinishWith(s, tasks), UNCHANGED <<leaseActive, lease, live, lapsed>>,
           leaseFaults' \in 0..LeaseMaxFaults, leaseFaults' = 0 => leaseFaults = 0,
           start' \in [Sockets -> Starts], \A t \in Sockets \ {s} : start'[t] = start[t],
           \/ start'[s] = start[s] /\ start[s] # "unused"
           \/ start'[s] = "ended" /\ start[s] \in Begun
           \/ start'[s] = "ended" /\ lease # s
           \/ start'[s] = "ended" /\ leaseFaults' # 0 
    PROVE  LeaseInv'
<1> DEFINE rest == IF claimed[s] THEN Append(tasks, "release") ELSE tasks
<1>1. /\ rest \in Seq(Tasks) /\ (Has(rest, "release") <=> claimed[s])
      /\ Has(rest, "first poll") => Has(tasks, "first poll")
  <2>1. "release" \in Tasks
    BY DEF Tasks
  <2> QED
    BY <2>1, QueueAppend DEF LeaseInv, LeaseTypeOK
<1> HIDE DEF rest
<1>2. queue' = [queue EXCEPT ![s] = rest]
  BY DEF FinishWith, rest
<1>3. LeaseTypeOK'
  BY <1>1, <1>2 DEF LeaseInv, LeaseTypeOK, FinishWith
<1>4. ASSUME NEW t \in Sockets \ {s}
      PROVE  SocketInv(t)'
  <2>1. Same(t)
    BY <1>2 DEF Same, FinishWith, LeaseInv, LeaseTypeOK
  <2> QED
    BY <2>1, OthersKeep DEF LeaseInv
<1>5. SocketInv(s)'
  <2>1. closed'[s] /\ ~ started'[s] /\ ~ claimed'[s] /\ queue'[s] = rest
    BY <1>2 DEF FinishWith, LeaseInv, LeaseTypeOK
  <2>2. SocketInv(s)
    BY DEF LeaseInv
  <2> QED
    BY <1>1, <2>1, <2>2 DEF SocketInv, Begun
<1> QED
  BY <1>3, <1>4, <1>5 DEF LeaseInv

\* Every await, event, task and timer of sockets and heartbeats keeps the
\* invariant.
LEMMA LeaseStep == LeaseInv /\ [LeaseNext]_leaseVars => LeaseInv'
<1> SUFFICES ASSUME LeaseInv, [LeaseNext]_leaseVars
             PROVE  LeaseInv'
  OBVIOUS
<1> USE LeaseAssumption
<1>t. LeaseTypeOK
  BY DEF LeaseInv
<1>i. \A s \in Sockets : SocketInv(s)
  BY DEF LeaseInv
<1>o. ASSUME LeaseTypeOK', NEW s \in Sockets, SocketInv(s)', leaseFaults' = 0 => leaseFaults = 0,
             \A t \in Sockets \ {s} :
               /\ Same(t)
               /\ (lease' = lease /\ live' = live) \/ (lease' # t /\ (lease # t \/ ~ live))
      PROVE  LeaseInv'
  BY <1>i, <1>o, OthersKeep DEF LeaseInv
<1>1. ASSUME NEW s \in Sockets, Open(s) \/ Asserted(s)
      PROVE  LeaseInv'
  <2>1. /\ start[s] \in {"unused", "assert"} /\ start' = [start EXCEPT ![s] = IF start[s] = "unused" THEN "assert" ELSE "claim"]
        /\ UNCHANGED <<leaseActive, lease, live, closed, started, claimed, ready, queue, lapsed, leaseFaults>>
    BY <1>1 DEF Open, Asserted, flags
  <2>2. LeaseTypeOK'
    BY <1>t, <2>1 DEF LeaseTypeOK, Starts
  <2>3. start'[s] \in {"assert", "claim"}
    BY <1>t, <2>1 DEF LeaseTypeOK
  <2>4. SocketInv(s)'
    BY <1>i, <2>1, <2>3 DEF SocketInv, Begun
  <2>5. \A t \in Sockets \ {s} : Same(t)
    BY <1>t, <2>1 DEF Same, LeaseTypeOK
  <2> QED
    BY <1>o, <2>1, <2>2, <2>4, <2>5
<1>2. ASSUME NEW s \in Sockets, StartFails(s), UNCHANGED <<leaseActive, lease, live, lapsed>>,
             start[s] \in {"assert", "claim"} \/ (start[s] = "answer" /\ leaseFaults' # 0),
             leaseFaults' \in 0..LeaseMaxFaults, leaseFaults' = 0 => leaseFaults = 0
      PROVE  LeaseInv'
  <2>1. start' = [start EXCEPT ![s] = "ended"]
    BY <1>2 DEF StartFails
  <2>2. start'[s] = "ended" /\ start' \in [Sockets -> Starts] /\ \A t \in Sockets \ {s} : start'[t] = start[t]
    BY <1>t, <2>1 DEF LeaseTypeOK, Starts
  <2>3. SocketInv(s)
    BY <1>i
  <2>4. CASE closed[s]
    <3>1. UNCHANGED <<closed, started, claimed, ready, queue>>
      BY <1>2, <2>4 DEF StartFails, flags
    <3>2. LeaseTypeOK'
      BY <1>2, <1>t, <2>2, <3>1 DEF LeaseTypeOK
    <3>3. SocketInv(s)'
      BY <1>2, <2>2, <2>3, <2>4, <3>1 DEF SocketInv, Begun
    <3>4. \A t \in Sockets \ {s} : Same(t)
      BY <1>2, <2>2, <3>1 DEF Same
    <3> QED
      BY <1>o, <1>2, <3>2, <3>3, <3>4
  <2>5. CASE ~ closed[s]
    <3>1. FinishWith(s, queue[s])
      BY <1>2, <2>5 DEF StartFails, Finish
    <3>2. /\ queue[s] \in Seq(Tasks) /\ ~ Has(queue[s], "release")
          /\ Has(queue[s], "first poll") => start[s] \in Begun
      BY <1>t, <2>3, <2>5 DEF LeaseTypeOK, SocketInv
    <3>3. lease # s \/ leaseFaults' # 0
      BY <1>2, <2>3 DEF SocketInv
    <3> QED
      BY <1>2, <2>2, <2>5, <3>1, <3>2, <3>3, FinishKeeps
  <2> QED
    BY <2>4, <2>5
<1>3. ASSUME NEW s \in Sockets, Refused(s) \/ ClaimRefused(s) \/ ClaimLost(s)
      PROVE  LeaseInv'
  <2>1. /\ StartFails(s) /\ leaseActive' = leaseActive /\ lease' = lease /\ live' = live /\ lapsed' = lapsed
        /\ \/ start[s] \in {"assert", "claim"} /\ leaseFaults' = leaseFaults
           \/ start[s] = "answer" /\ leaseFaults < LeaseMaxFaults /\ leaseFaults' = leaseFaults + 1
    BY <1>3, Zenon DEF Refused, ClaimRefused, ClaimLost
  <2>2. leaseFaults \in 0..LeaseMaxFaults
    BY <1>t DEF LeaseTypeOK
  <2>3. /\ leaseFaults' \in 0..LeaseMaxFaults /\ (leaseFaults' = 0 => leaseFaults = 0)
        /\ start[s] = "answer" => leaseFaults' # 0
    BY <2>1, <2>2
  <2> QED
    BY <1>2, <2>1, <2>3
<1>4. ASSUME NEW s \in Sockets, Claim(s)
      PROVE  LeaseInv'
  <2>1. /\ start[s] = "claim" /\ start' = [start EXCEPT ![s] = "answer"]
        /\ lease' = s /\ live' = TRUE /\ (lease \in {Free, s} \/ ~ live)
        /\ UNCHANGED <<leaseActive, closed, started, claimed, ready, queue, lapsed, leaseFaults>>
    BY <1>4 DEF Claim, Claimable, LeaseTake, flags
  <2>2. LeaseTypeOK' /\ start'[s] = "answer"
    BY <1>t, <2>1 DEF LeaseTypeOK, Starts, Owners
  <2>3. SocketInv(s)'
    BY <1>i, <2>1, <2>2 DEF SocketInv, Begun
  <2>4. \A t \in Sockets \ {s} : Same(t) /\ lease' # t /\ (lease # t \/ ~ live)
    BY <1>t, <2>1 DEF Same, LeaseTypeOK
  <2> QED
    BY <1>o, <2>1, <2>2, <2>3, <2>4
<1>5. ASSUME NEW s \in Sockets, Claimed(s)
      PROVE  LeaseInv'
  <2>1. /\ start[s] = "answer" /\ claimed' = [claimed EXCEPT ![s] = TRUE]
        /\ UNCHANGED <<leaseActive, lease, live, lapsed, leaseFaults, closed>>
    BY <1>5 DEF Claimed
  <2>2. SocketInv(s)
    BY <1>i
  <2>3. CASE closed[s]
    <3>1. start' = [start EXCEPT ![s] = "ended"] /\ UNCHANGED <<started, ready, queue>>
      BY <1>5, <2>3 DEF Claimed
    <3>2. LeaseTypeOK' /\ start'[s] = "ended" /\ claimed'[s]
      BY <1>t, <2>1, <3>1 DEF LeaseTypeOK, Starts
    <3>3. SocketInv(s)'
      BY <2>1, <2>2, <2>3, <3>1, <3>2 DEF SocketInv, Begun
    <3>4. \A t \in Sockets \ {s} : Same(t)
      BY <1>t, <2>1, <3>1 DEF Same, LeaseTypeOK
    <3> QED
      BY <1>o, <2>1, <3>2, <3>3, <3>4
  <2>4. CASE ~ closed[s]
    <3>1. /\ start' = [start EXCEPT ![s] = "first poll"] /\ started' = [started EXCEPT ![s] = TRUE]
          /\ ready' = [ready EXCEPT ![s] = "yes"]
          /\ queue' = [queue EXCEPT ![s] = Append(queue[s], "first poll")]
      BY <1>5, <2>4 DEF Claimed
    <3>2. /\ Append(queue[s], "first poll") \in Seq(Tasks)
          /\ Has(Append(queue[s], "first poll"), "release") <=> Has(queue[s], "release")
      BY <1>t, QueueAppend DEF LeaseTypeOK, Tasks
    <3>3. LeaseTypeOK' /\ start'[s] = "first poll" /\ claimed'[s] /\ queue'[s] = Append(queue[s], "first poll")
      BY <1>t, <2>1, <3>1, <3>2 DEF LeaseTypeOK, Starts
    <3>4. SocketInv(s)'
      BY <2>1, <2>2, <2>4, <3>2, <3>3 DEF SocketInv, Begun
    <3>5. \A t \in Sockets \ {s} : Same(t)
      BY <1>t, <2>1, <3>1 DEF Same, LeaseTypeOK
    <3> QED
      BY <1>o, <2>1, <3>3, <3>4, <3>5
  <2> QED
    BY <2>3, <2>4
<1>6. ASSUME NEW s \in Sockets, Close(s)
      PROVE  LeaseInv'
  <2>1. /\ start[s] # "unused" /\ ~ closed[s] /\ FinishWith(s, queue[s])
        /\ UNCHANGED <<leaseActive, lease, live, start, lapsed, leaseFaults>>
    BY <1>6 DEF Close, Finish
  <2>2. /\ queue[s] \in Seq(Tasks) /\ ~ Has(queue[s], "release")
        /\ Has(queue[s], "first poll") => start[s] \in Begun
    BY <1>i, <1>t, <2>1 DEF LeaseTypeOK, SocketInv
  <2>3. start' \in [Sockets -> Starts] /\ leaseFaults' \in 0..LeaseMaxFaults
    BY <1>t, <2>1 DEF LeaseTypeOK
  <2> QED
    BY <2>1, <2>2, <2>3, FinishKeeps
<1>7. ASSUME NEW s \in Sockets, NEW task \in {"report", "poll", "renew"}, Enqueue(s, task)
      PROVE  LeaseInv'
  <2>1. /\ queue' = [queue EXCEPT ![s] = Append(queue[s], task)] /\ ~ closed[s] /\ start[s] # "unused"
        /\ UNCHANGED <<leaseActive, lease, live, start, closed, started, claimed, ready, lapsed, leaseFaults>>
    BY <1>7 DEF Enqueue, flags
  <2>2. /\ Append(queue[s], task) \in Seq(Tasks)
        /\ Has(Append(queue[s], task), "release") <=> Has(queue[s], "release")
        /\ Has(Append(queue[s], task), "first poll") <=> Has(queue[s], "first poll")
    BY <1>t, QueueAppend DEF LeaseTypeOK, Tasks
  <2>3. LeaseTypeOK' /\ queue'[s] = Append(queue[s], task)
    BY <1>t, <2>1, <2>2 DEF LeaseTypeOK
  <2>4. SocketInv(s)'
    BY <1>i, <2>1, <2>2, <2>3 DEF SocketInv
  <2>5. \A t \in Sockets \ {s} : Same(t)
    BY <1>t, <2>1 DEF Same, LeaseTypeOK
  <2> QED
    BY <1>o, <2>1, <2>3, <2>4, <2>5
<1>8. ASSUME NEW s \in Sockets, queue[s] # << >>, queue' = [queue EXCEPT ![s] = Tail(queue[s])],
             UNCHANGED <<closed, started, claimed, ready>>, UNCHANGED <<leaseActive, lapsed>>,
             Head(queue[s]) # "release" \/ leaseFaults' # 0 \/ lease' # s,
             leaseFaults' \in 0..LeaseMaxFaults, leaseFaults' = 0 => leaseFaults = 0,
             /\ start' \in [Sockets -> Starts] /\ \A t \in Sockets \ {s} : start'[t] = start[t]
             /\ \/ start'[s] = start[s]
                \/ start[s] \in Begun /\ start'[s] = "serving"
                \/ start[s] \in Begun /\ start'[s] = "ended" /\ closed[s],
             \/ lease' = lease /\ live' = live
             \/ lease = s /\ live /\ lease' = s /\ live' = TRUE
             \/ lease = s /\ lease' = Free /\ live' = FALSE /\ closed[s] /\ start[s] \in Begun
      PROVE  LeaseInv'
  <2>1. /\ Tail(queue[s]) \in Seq(Tasks)
        /\ \A task : Has(queue[s], task) <=> Has(Tail(queue[s]), task) \/ Head(queue[s]) = task
    BY <1>8, <1>t, QueueTail DEF LeaseTypeOK
  <2>2. LeaseTypeOK' /\ queue'[s] = Tail(queue[s])
    BY <1>8, <1>t, <2>1 DEF LeaseTypeOK, Owners
  <2>3. SocketInv(s)'
    <3>1. SocketInv(s)
      BY <1>i
    <3>2. /\ Has(queue'[s], "release") => Has(queue[s], "release")
          /\ Has(queue'[s], "first poll") => Has(queue[s], "first poll")
          /\ Has(queue[s], "release") /\ Head(queue[s]) # "release" => Has(queue'[s], "release")
      BY <2>1, <2>2
    <3>3. closed'[s] = closed[s] /\ started'[s] = started[s] /\ claimed'[s] = claimed[s] /\ lapsed'[s] = lapsed[s]
      BY <1>8
    <3>4. start'[s] = start[s] \/ (start[s] \in Begun /\ start'[s] \in Begun /\ (start'[s] = "ended" => closed[s]))
      BY <1>8 DEF Begun
    <3>5. CASE lease' = lease /\ live' = live
      BY <1>8, <3>1, <3>2, <3>3, <3>4, <3>5 DEF SocketInv, Begun
    <3>6. CASE lease = s /\ live /\ lease' = s /\ live' = TRUE
      BY <1>8, <3>1, <3>2, <3>3, <3>4, <3>6 DEF SocketInv, Begun
    <3>7. CASE lease = s /\ lease' = Free /\ live' = FALSE /\ closed[s] /\ start[s] \in Begun
      BY <1>8, <3>1, <3>2, <3>3, <3>4, <3>7 DEF SocketInv, Begun
    <3> QED
      BY <1>8, <3>5, <3>6, <3>7
  <2>4. \A t \in Sockets \ {s} : Same(t)
    BY <1>8, <1>t DEF Same, LeaseTypeOK
  <2> QED
    BY <1>o, <1>8, <2>2, <2>3, <2>4
<1>9. ASSUME NEW s \in Sockets, queue[s] # << >>, Head(queue[s]) = "first poll"
      PROVE  start[s] \in Begun
  <2>1. Has(queue[s], "first poll")
    BY <1>9, <1>t, QueueTail DEF LeaseTypeOK
  <2> QED
    BY <1>i, <2>1 DEF SocketInv
<1>10. ASSUME NEW s \in Sockets, TaskRuns(s)
       PROVE  LeaseInv'
  <2>1. /\ queue[s] # << >> /\ Head(queue[s]) # "release"
        /\ queue' = [queue EXCEPT ![s] = Tail(queue[s])]
        /\ UNCHANGED <<closed, started, claimed, ready>>
        /\ leaseActive' = leaseActive /\ lapsed' = lapsed /\ lease' = lease /\ live' = live
        /\ leaseFaults' = leaseFaults
    BY <1>10 DEF TaskRuns, HasTask, Done, flags
  <2>2. start' = IF Head(queue[s]) # "first poll" THEN start
                 ELSE [start EXCEPT ![s] = IF ~ closed[s] THEN "serving" ELSE "ended"]
    BY <1>10 DEF TaskRuns, AfterFirst
  <2>3. /\ start' \in [Sockets -> Starts] /\ \A t \in Sockets \ {s} : start'[t] = start[t]
        /\ \/ start'[s] = start[s]
           \/ start[s] \in Begun /\ start'[s] = "serving"
           \/ start[s] \in Begun /\ start'[s] = "ended" /\ closed[s]
    BY <1>9, <1>t, <2>1, <2>2 DEF LeaseTypeOK, Starts
  <2>4. leaseFaults' \in 0..LeaseMaxFaults
    BY <1>t, <2>1 DEF LeaseTypeOK
  <2> QED
    BY <1>8, <2>1, <2>3, <2>4
<1>11. ASSUME NEW s \in Sockets, queue[s] # << >>, Head(queue[s]) # "release", FailTask(s),
              UNCHANGED <<leaseActive, lease, live, lapsed>>,
              leaseFaults' \in 0..LeaseMaxFaults, leaseFaults' = 0 => leaseFaults = 0,
              start' = start \/ (start[s] \in Begun /\ start' = [start EXCEPT ![s] = "ended"]),
              start[s] # "unused", ~ closed[s]
       PROVE  LeaseInv'
  <2>1. FinishWith(s, Tail(queue[s]))
    BY <1>11 DEF FailTask
  <2>2. /\ Tail(queue[s]) \in Seq(Tasks)
        /\ \A task : Has(queue[s], task) <=> Has(Tail(queue[s]), task) \/ Head(queue[s]) = task
    BY <1>11, <1>t, QueueTail DEF LeaseTypeOK
  <2>3. ~ Has(Tail(queue[s]), "release") /\ (Has(Tail(queue[s]), "first poll") => start[s] \in Begun)
    BY <1>11, <1>i, <2>2 DEF SocketInv
  <2>4. /\ start' \in [Sockets -> Starts] /\ \A t \in Sockets \ {s} : start'[t] = start[t]
        /\ start'[s] = start[s] \/ (start'[s] = "ended" /\ start[s] \in Begun)
    BY <1>11, <1>t DEF LeaseTypeOK, Starts
  <2> QED
    BY <1>11, <2>1, <2>2, <2>3, <2>4, FinishKeeps
<1>12. ASSUME NEW s \in Sockets, queue[s] # << >>, ~ closed[s]
       PROVE  start[s] # "unused"
  BY <1>12, <1>i DEF SocketInv
<1>13. ASSUME NEW s \in Sockets, TaskFails(s)
       PROVE  LeaseInv'
  <2>1. /\ queue[s] # << >> /\ Head(queue[s]) # "release" /\ ~ closed[s] /\ FailTask(s)
        /\ leaseActive' = leaseActive /\ lapsed' = lapsed /\ lease' = lease /\ live' = live
    BY <1>13 DEF TaskFails, HasTask
  <2>2. leaseFaults' = leaseFaults \/ (leaseFaults < LeaseMaxFaults /\ leaseFaults' = leaseFaults + 1)
    BY <1>13 DEF TaskFails
  <2>3. leaseFaults' \in 0..LeaseMaxFaults /\ (leaseFaults' = 0 => leaseFaults = 0)
    BY <1>t, <2>2 DEF LeaseTypeOK
  <2>4. start' = start \/ (start[s] \in Begun /\ start' = [start EXCEPT ![s] = "ended"])
    BY <1>9, <1>13, <2>1 DEF TaskFails, AfterFirst
  <2> QED
    BY <1>11, <1>12, <2>1, <2>3, <2>4
<1>14. ASSUME NEW s \in Sockets, RenewTask(s)
       PROVE  LeaseInv'
  <2>1. /\ queue[s] # << >> /\ Head(queue[s]) # "release"
        /\ leaseActive' = leaseActive /\ lapsed' = lapsed /\ start' = start /\ leaseFaults' = leaseFaults
    BY <1>14 DEF RenewTask, HasTask
  <2>2. leaseFaults' \in 0..LeaseMaxFaults /\ start' \in [Sockets -> Starts]
    BY <1>t, <2>1 DEF LeaseTypeOK
  <2>3. CASE closed[s] \/ Renewable(s)
    <3>1. /\ queue' = [queue EXCEPT ![s] = Tail(queue[s])]
          /\ UNCHANGED <<closed, started, claimed, ready>>
          /\ \/ lease' = lease /\ live' = live
             \/ lease = s /\ live /\ lease' = s /\ live' = TRUE
      BY <1>14, <2>3 DEF RenewTask, Done, flags, Renewable, LeaseTake
    <3> QED
      BY <1>8, <2>1, <2>2, <3>1
  <2>4. CASE ~ closed[s] /\ ~ Renewable(s)
    <3>1. FailTask(s) /\ lease' = lease /\ live' = live
      BY <1>14, <2>4 DEF RenewTask
    <3> QED
      BY <1>11, <1>12, <2>1, <2>2, <2>4, <3>1
  <2> QED
    BY <2>3, <2>4
<1>15. ASSUME NEW s \in Sockets, ReleaseTask(s) \/ ReleaseFails(s)
       PROVE  LeaseInv'
  <2>1. /\ queue[s] # << >> /\ Head(queue[s]) = "release"
        /\ queue' = [queue EXCEPT ![s] = Tail(queue[s])]
        /\ UNCHANGED <<closed, started, claimed, ready>>
        /\ leaseActive' = leaseActive /\ lapsed' = lapsed /\ start' = start
    BY <1>15 DEF ReleaseTask, ReleaseFails, HasTask, Done, flags
  <2>2. closed[s] /\ start[s] \in Begun
    <3>1. Has(queue[s], "release")
      BY <1>t, <2>1, QueueTail DEF LeaseTypeOK
    <3> QED
      BY <1>i, <3>1 DEF SocketInv
  <2>3. leaseFaults \in 0..LeaseMaxFaults /\ start' \in [Sockets -> Starts]
    BY <1>t, <2>1 DEF LeaseTypeOK
  <2>4. CASE ReleaseTask(s)
    <3>1. /\ leaseFaults' = leaseFaults /\ lease' # s
          /\ \/ lease' = lease /\ live' = live
             \/ lease = s /\ lease' = Free /\ live' = FALSE
      BY <2>4 DEF ReleaseTask, Delete
    <3> QED
      BY <1>8, <2>1, <2>2, <2>3, <3>1
  <2>5. CASE ReleaseFails(s)
    <3>1. leaseFaults' = leaseFaults + 1 /\ leaseFaults < LeaseMaxFaults /\ lease' = lease /\ live' = live
      BY <2>5 DEF ReleaseFails
    <3>2. leaseFaults' \in 0..LeaseMaxFaults /\ leaseFaults' # 0
      BY <2>3, <3>1
    <3> QED
      BY <1>8, <2>1, <2>3, <3>1, <3>2
  <2> QED
    BY <1>15, <2>4, <2>5
<1>16. ASSUME LeaseTypeOK', \A s \in Sockets : SocketInv(s)'
       PROVE  LeaseInv'
  BY <1>16 DEF LeaseInv
<1>17. CASE Lapse \/ LateRenewal
  <2>1. /\ live' = FALSE /\ lapsed' = [s \in Sockets |-> lapsed[s] \/ s = lease]
        /\ lease' = lease /\ start' = start /\ queue' = queue /\ leaseActive' = leaseActive
        /\ UNCHANGED <<closed, started, claimed, ready>>
        /\ leaseFaults' = leaseFaults \/ (leaseFaults < LeaseMaxFaults /\ leaseFaults' = leaseFaults + 1)
    BY <1>17 DEF Lapse, LateRenewal, Expire, flags
  <2>2. leaseFaults' \in 0..LeaseMaxFaults /\ (leaseFaults' = 0 => leaseFaults = 0)
    BY <1>t, <2>1 DEF LeaseTypeOK
  <2>3. LeaseTypeOK'
    BY <1>t, <2>1, <2>2 DEF LeaseTypeOK
  <2>4. ASSUME NEW s \in Sockets
        PROVE  SocketInv(s)'
    <3>1. lapsed'[s] <=> lapsed[s] \/ s = lease
      BY <2>1
    <3> QED
      BY <1>i, <2>1, <3>1 DEF SocketInv
  <2> QED
    BY <1>16, <2>3, <2>4
<1>18. CASE HeartbeatClaims
  <2>1. /\ lease' = Heartbeat /\ live' = TRUE /\ (lease \in {Free, Heartbeat} \/ ~ live)
        /\ UNCHANGED <<leaseActive, start, closed, started, claimed, ready, queue, lapsed, leaseFaults>>
    BY <1>18 DEF HeartbeatClaims, Claimable, LeaseTake, flags
  <2>2. LeaseTypeOK'
    BY <1>t, <2>1 DEF LeaseTypeOK, Owners
  <2>3. \A s \in Sockets : Same(s) /\ lease' # s /\ (lease # s \/ ~ live)
    BY <2>1 DEF Same
  <2>4. \A s \in Sockets : SocketInv(s)'
    BY <1>i, <2>1, <2>3, OthersKeep
  <2> QED
    BY <1>16, <2>2, <2>4
<1>19. CASE LeaseRetire \/ UNCHANGED leaseVars
  <2>1. UNCHANGED <<lease, live, start, closed, started, claimed, ready, queue, lapsed, leaseFaults>>
        /\ leaseActive' \in BOOLEAN
    BY <1>19, <1>t DEF LeaseRetire, leaseVars, flags, LeaseTypeOK
  <2>2. LeaseTypeOK'
    BY <1>t, <2>1 DEF LeaseTypeOK
  <2>3. \A s \in Sockets : Same(s)
    BY <2>1 DEF Same
  <2>4. \A s \in Sockets : SocketInv(s)'
    BY <1>i, <2>1, <2>3, OthersKeep
  <2> QED
    BY <1>16, <2>2, <2>4
<1> QED
  BY <1>1, <1>3, <1>4, <1>5, <1>6, <1>7, <1>10, <1>13, <1>14, <1>15, <1>17, <1>18, <1>19
     DEF LeaseNext, LeaseStart, LeaseQueue

\* Whatever sockets and heartbeats compete for the lease of a runtime, and
\* however events, queued tasks and awaits interleave: who serves holds the
\* lease unless it once expired, and only a socket that closed while claiming
\* leaves it behind.
THEOREM LeaseIsSafe == LeaseSpec => []LeaseSafe
<1>1. LeaseInit => LeaseInv
  <2> SUFFICES ASSUME LeaseInit PROVE LeaseInv
    OBVIOUS
  <2>1. LeaseTypeOK
    <3>1. queue \in [Sockets -> Seq(Tasks)]
      BY DEF LeaseInit
    <3>2. leaseActive \in BOOLEAN /\ live \in BOOLEAN /\ lease \in Owners \cup {Free}
      BY DEF LeaseInit
    <3> QED
      BY <3>1, <3>2, LeaseAssumption DEF LeaseInit, LeaseTypeOK, Starts
  <2>2. \A task : ~ Has(<< >>, task)
    BY DEF Has
  <2> QED
    BY <2>1, <2>2, LeaseAssumption DEF LeaseInit, LeaseInv, SocketInv, Begun
<1>2. LeaseInv => LeaseSafe
  <2> SUFFICES ASSUME LeaseInv PROVE LeaseSafe
    OBVIOUS
  <2>1. \A task : ~ Has(<< >>, task)
    BY DEF Has
  <2> QED
    BY <2>1 DEF LeaseInv, SocketInv, LeaseSafe, ServingHoldsLease, OnlyTheRaceLeaks, Over, Begun
<1> QED
  BY <1>1, <1>2, LeaseStep, PTL DEF LeaseSpec

-----------------------------------------------------------------------------
(* The observation outbox *)

Kept == {"pending", "quarantine"}

\* The types the proof needs.
Shape ==
    /\ place \in [Observations -> Places] /\ durable \in [Observations -> Places]
    /\ progress \in [Observations -> {"new", "count", "write", "rename", "sync", "end"}]
    /\ answer \in [Observations -> {"none", "accepted", "full", "failed"}]
    /\ drain \in [pc : {"idle", "next", "send", "remove", "move", "sync"},
                  todo : SUBSET Observations, of : SUBSET Observations]
    /\ received \in [Observations -> Nat]
    /\ stopped \in BOOLEAN /\ faults \in Nat /\ (stopped => faults > 0)

\* Where enqueue's file is, and what it has answered.
Written(o) ==
    /\ progress[o] \in {"new", "count", "write"} => place[o] = "none" /\ durable[o] = "none"
    /\ progress[o] = "rename" => place[o] = "tmp"
    /\ progress[o] # "end" => answer[o] = "none"
    /\ progress[o] \notin {"sync", "end"} => received[o] = 0
    /\ progress[o] = "sync" /\ received[o] = 0 => place[o] \in Kept

\* The drain has files of the pending directory before it.
Drained(o) ==
    /\ o \in drain.todo => place[o] = "pending" /\ o \notin drain.of
    /\ o \in drain.of /\ drain.pc \in {"send", "remove", "move"} => place[o] = "pending"
    /\ o \in drain.of /\ drain.pc = "remove" => received[o] > 0

\* A stop counts when the process starts again.
FaultsOver == IF stopped THEN faults - 1 ELSE faults

Repeated(o) ==
    /\ received[o] <= 1 + FaultsOver
    /\ place[o] = "pending" /\ ~ (o \in drain.of /\ drain.pc = "remove") => received[o] <= FaultsOver

Safe(o) == answer[o] = "accepted" /\ received[o] = 0 => place[o] \in Kept /\ durable[o] \in Kept

Each(o) == Written(o) /\ Drained(o) /\ Repeated(o) /\ Safe(o)

OutboxInv == Shape /\ \A o \in Observations : Each(o)

LEMMA InitOutbox == OutboxInit => OutboxInv
<1>. SUFFICES ASSUME OutboxInit PROVE OutboxInv
  OBVIOUS
<1>1. Shape BY DEF OutboxInit, Shape, NoDrain, Places, Directories
<1>2. ASSUME NEW o \in Observations PROVE Each(o)
  BY DEF OutboxInit, Each, Written, Drained, Repeated, Safe, FaultsOver, NoDrain
<1>. QED BY <1>1, <1>2 DEF OutboxInv

\* One step of enqueue.
LEMMA EnqueueKeeps ==
    ASSUME OutboxInv, NEW p \in Observations, Enqueueing(p)
    PROVE  OutboxInv'
<1>. USE DEF OutboxInv, Each
<1>1. CASE EnqueueObservation(p)
  <2>1. Shape' BY <1>1 DEF EnqueueObservation, Shape
  <2>2. ASSUME NEW o \in Observations PROVE Each(o)'
    BY <1>1, <2>2 DEF EnqueueObservation, Shape, Written, Drained, Repeated, Safe, FaultsOver
  <2>. QED BY <2>1, <2>2
<1>2. CASE \E dir \in Directories : CountFiles(p, dir)
  <2>1. UNCHANGED <<place, durable, progress, answer, drain, received, stopped, faults>> BY <1>2 DEF CountFiles
  <2>. QED BY <2>1 DEF Shape, Written, Drained, Repeated, Safe, FaultsOver
<1>3. CASE Counted(p)
  <2>1. Shape' BY <1>3 DEF Counted, Shape
  <2>2. ASSUME NEW o \in Observations PROVE Each(o)'
    BY <1>3, <2>2 DEF Counted, Shape, Written, Drained, Repeated, Safe, FaultsOver
  <2>. QED BY <2>1, <2>2
<1>4. CASE WriteFile(p)
  <2>1. Shape' BY <1>4 DEF WriteFile, Shape, Places, Directories
  <2>2. ASSUME NEW o \in Observations PROVE Each(o)'
    BY <1>4, <2>2 DEF WriteFile, Shape, Written, Drained, Repeated, Safe, FaultsOver, Kept
  <2>. QED BY <2>1, <2>2
<1>5. CASE RenameFile(p)
  <2>1. Shape' BY <1>5 DEF RenameFile, Shape, Places, Directories
  <2>2. ASSUME NEW o \in Observations PROVE Each(o)'
    BY <1>5, <2>2 DEF RenameFile, Shape, Written, Drained, Repeated, Safe, FaultsOver, Kept
  <2>. QED BY <2>1, <2>2
<1>6. CASE SyncFile(p)
  <2>1. Shape' BY <1>6 DEF SyncFile, Shape
  <2>2. ASSUME NEW o \in Observations PROVE Each(o)'
    BY <1>6, <2>2 DEF SyncFile, Shape, Written, Drained, Repeated, Safe, FaultsOver, Kept
  <2>. QED BY <2>1, <2>2
<1>. QED BY <1>1, <1>2, <1>3, <1>4, <1>5, <1>6 DEF Enqueueing

\* One step of the drain.
LEMMA DrainKeeps ==
    ASSUME OutboxInv, Draining
    PROVE  OutboxInv'
<1>. USE DEF OutboxInv, Each
<1>1. CASE BeginDrain
  <2>1. Shape' BY <1>1 DEF BeginDrain, Shape, NextFile, Entries, In
  <2>2. ASSUME NEW o \in Observations PROVE Each(o)'
    BY <1>1, <2>2 DEF BeginDrain, NextFile, Entries, In, Shape, Written, Drained, Repeated, Safe, FaultsOver
  <2>. QED BY <2>1, <2>2
<1>2. CASE EndDrain
  <2>1. Shape' BY <1>2 DEF EndDrain, Shape, NoDrain
  <2>2. ASSUME NEW o \in Observations PROVE Each(o)'
    BY <1>2, <2>2 DEF EndDrain, NoDrain, Shape, Written, Drained, Repeated, Safe, FaultsOver
  <2>. QED BY <2>1, <2>2
<1>3. ASSUME NEW p \in Observations, TakeFile(p) PROVE OutboxInv'
  <2>1. Shape' BY <1>3 DEF TakeFile, Shape, NextFile
  <2>2. ASSUME NEW o \in Observations PROVE Each(o)'
    BY <1>3, <2>2 DEF TakeFile, NextFile, Shape, Written, Drained, Repeated, Safe, FaultsOver
  <2>. QED BY <2>1, <2>2
<1>4. ASSUME NEW p \in Observations, MoveFile(p) PROVE OutboxInv'
  <2>1. Shape' BY <1>4 DEF MoveFile, Shape, AtFile, Places, Directories
  <2>2. ASSUME NEW o \in Observations PROVE Each(o)'
    BY <1>4, <2>2 DEF MoveFile, AtFile, Shape, Written, Drained, Repeated, Safe, FaultsOver, Kept
  <2>. QED BY <2>1, <2>2
<1>5. ASSUME NEW p \in Observations, SyncMoved(p) PROVE OutboxInv'
  <2>1. Shape' BY <1>5 DEF SyncMoved, Shape, NextFile
  <2>2. ASSUME NEW o \in Observations PROVE Each(o)'
    BY <1>5, <2>2 DEF SyncMoved, NextFile, Shape, Written, Drained, Repeated, Safe, FaultsOver, Kept
  <2>. QED BY <2>1, <2>2
<1>6. ASSUME NEW p \in Observations, NEW status \in {"accepted", "refused", "unavailable"}, Sent(p, status)
      PROVE  OutboxInv'
  <2>1. Shape' BY <1>6 DEF Sent, Taken, Shape, NextFile, AtFile
  <2>2. ASSUME NEW o \in Observations PROVE Each(o)'
    BY <1>6, <2>2 DEF Sent, Taken, NextFile, AtFile, Shape, Written, Drained, Repeated, Safe, FaultsOver
  <2>. QED BY <2>1, <2>2
<1>. QED BY <1>1, <1>2, <1>3, <1>4, <1>5, <1>6 DEF Draining

\* One fault.
LEMMA FaultKeeps ==
    ASSUME OutboxInv, Faults
    PROVE  OutboxInv'
<1>. USE DEF OutboxInv, Each
<1>1. CASE MoveFails
  <2>1. Shape' BY <1>1 DEF MoveFails, Fault, Shape, NextFile
  <2>2. ASSUME NEW o \in Observations PROVE Each(o)'
    BY <1>1, <2>2 DEF MoveFails, Fault, NextFile, Shape, Written, Drained, Repeated, Safe, FaultsOver
  <2>. QED BY <2>1, <2>2
<1>2. CASE Stop
  <2>1. Shape' BY <1>2 DEF Stop, Fault, Shape
  <2>2. ASSUME NEW o \in Observations PROVE Each(o)'
    BY <1>2, <2>2 DEF Stop, Fault, Shape, Written, Drained, Repeated, Safe, FaultsOver
  <2>. QED BY <2>1, <2>2
<1>3. ASSUME NEW p \in Observations, InvalidFile(p) PROVE OutboxInv'
  <2>1. Shape' BY <1>3 DEF InvalidFile, Fault, Shape, AtFile
  <2>2. ASSUME NEW o \in Observations PROVE Each(o)'
    BY <1>3, <2>2 DEF InvalidFile, Fault, AtFile, Shape, Written, Drained, Repeated, Safe, FaultsOver
  <2>. QED BY <2>1, <2>2
<1>4. ASSUME NEW p \in Observations, AnswerLost(p) PROVE OutboxInv'
  <2>1. Shape' BY <1>4 DEF AnswerLost, Fault, Shape, NextFile
  <2>2. ASSUME NEW o \in Observations PROVE Each(o)'
    BY <1>4, <2>2 DEF AnswerLost, Fault, NextFile, Shape, Written, Drained, Repeated, Safe, FaultsOver
  <2>. QED BY <2>1, <2>2
<1>5. ASSUME NEW p \in Observations, NEW cleaned \in BOOLEAN, WriteFails(p, cleaned) PROVE OutboxInv'
  <2>1. Shape' BY <1>5 DEF WriteFails, Fault, Shape, Places, Directories
  <2>2. ASSUME NEW o \in Observations PROVE Each(o)'
    BY <1>5, <2>2 DEF WriteFails, Fault, Shape, Written, Drained, Repeated, Safe, FaultsOver, Kept
  <2>. QED BY <2>1, <2>2
<1>6. ASSUME NEW undone \in SUBSET Observations, NEW kept \in SUBSET In({"tmp"}), Restart(undone, kept)
      PROVE  OutboxInv'
  <2>1. /\ place' \in [Observations -> Places]
        /\ \A o \in Observations : place'[o] \in {place[o], durable[o], "none"}
        /\ \A o \in Observations : place[o] \in Kept /\ durable[o] \in Kept => place'[o] \in Kept
    BY <1>6 DEF Restart, Recovered, Shape, Places, Directories, Kept
  <2>2. /\ stopped' = FALSE /\ faults' \in Nat /\ FaultsOver' = FaultsOver + 1
    BY <1>6 DEF Restart, Fault, Shape, FaultsOver
  <2>3. Shape'
    BY <1>6, <2>1, <2>2 DEF Restart, Shape, NoDrain
  <2>4. ASSUME NEW o \in Observations PROVE Each(o)'
    <3>1. Written(o)' BY <1>6, <2>1 DEF Restart, Written, Shape
    <3>2. Drained(o)' BY <1>6 DEF Restart, Drained, NoDrain
    <3>3. FaultsOver \in Int BY DEF FaultsOver, Shape
    <3>4. Repeated(o)' BY <1>6, <2>2, <3>3 DEF Restart, Repeated, Shape
    <3>5. Safe(o)' BY <1>6, <2>1 DEF Restart, Safe, Shape
    <3>. QED BY <3>1, <3>2, <3>4, <3>5
  <2>. QED BY <2>3, <2>4
<1>. QED BY <1>1, <1>2, <1>3, <1>4, <1>5, <1>6 DEF Faults

LEMMA NextKeeps == OutboxInv /\ [OutboxNext]_outboxVars => OutboxInv'
<1>. SUFFICES ASSUME OutboxInv, [OutboxNext]_outboxVars PROVE OutboxInv'
  OBVIOUS
<1>1. ASSUME NEW p \in Observations, DelayEnds(p) PROVE OutboxInv'
  BY <1>1 DEF DelayEnds, OutboxInv, Each, Shape, Written, Drained, Repeated, Safe, FaultsOver
<1>2. CASE UNCHANGED outboxVars
  BY <1>2 DEF outboxVars, OutboxInv, Each, Shape, Written, Drained, Repeated, Safe, FaultsOver
<1>. QED BY <1>1, <1>2, EnqueueKeeps, DrainKeeps, FaultKeeps DEF OutboxNext

\* The files are where enqueue and the drain take them to be, and the platform
\* has not taken an observation more often than faults explain.
THEOREM OutboxInvariant == OutboxSpec => []OutboxInv
BY InitOutbox, NextKeeps, PTL DEF OutboxSpec

\* An observation that enqueue has acknowledged is taken, or is a durable file,
\* after any number of crashes and faults of the file system.
THEOREM AcknowledgedIsKept == OutboxSpec => []AcknowledgedKept
<1>1. OutboxInv => AcknowledgedKept BY DEF OutboxInv, Each, Safe, AcknowledgedKept, Kept
<1>. QED BY <1>1, OutboxInvariant, PTL

\* The platform gets an observation again only after a fault.
THEOREM DuplicatesNeedFaults == OutboxSpec => []DuplicateNeedsFault
<1>1. OutboxInv => DuplicateNeedsFault
  BY DEF OutboxInv, Shape, Each, Repeated, DuplicateNeedsFault, FaultsOver
<1>. QED BY <1>1, OutboxInvariant, PTL

\* An observation that is durably in the quarantine stays there, unsent.
THEOREM QuarantineIsForGood == OutboxSpec => QuarantinedForGood
<1> DEFINE Stays(o) == place[o] = "quarantine" /\ durable[o] = "quarantine" =>
                         place'[o] = "quarantine" /\ received'[o] = received[o]
<1>1. ASSUME OutboxInv, [OutboxNext]_outboxVars, NEW o \in Observations PROVE Stays(o)
  <2>. USE DEF OutboxInv, Each
  <2>1. ASSUME NEW p \in Observations, Enqueueing(p) PROVE Stays(o)
    BY <1>1, <2>1 DEF Enqueueing, EnqueueObservation, CountFiles, Counted, WriteFile, RenameFile, SyncFile, Shape, Written
  <2>2. CASE Draining
    BY <1>1, <2>2 DEF Draining, BeginDrain, EndDrain, TakeFile, MoveFile, SyncMoved, Sent, Shape, Drained
  <2>3. CASE Faults
    <3>1. ASSUME NEW undone \in SUBSET Observations, NEW kept \in SUBSET In({"tmp"}), Restart(undone, kept) PROVE Stays(o)
      BY <3>1 DEF Restart, Recovered
    <3>2. ASSUME NEW p \in Observations, InvalidFile(p) \/ AnswerLost(p) PROVE Stays(o)
      BY <1>1, <3>2 DEF InvalidFile, AnswerLost, Shape, Drained
    <3>3. ASSUME NEW p \in Observations, NEW cleaned \in BOOLEAN, WriteFails(p, cleaned) PROVE Stays(o)
      BY <3>3, <1>1 DEF WriteFails, Shape
    <3>4. CASE MoveFails \/ Stop
      BY <3>4 DEF MoveFails, Stop
    <3>. QED BY <2>3, <3>1, <3>2, <3>3, <3>4 DEF Faults
  <2>4. ASSUME NEW p \in Observations, DelayEnds(p) PROVE Stays(o)
    BY <2>4 DEF DelayEnds
  <2>5. CASE UNCHANGED outboxVars
    BY <2>5 DEF outboxVars
  <2>. QED BY <1>1, <2>1, <2>2, <2>3, <2>4, <2>5 DEF OutboxNext
<1>2. OutboxInv /\ [OutboxNext]_outboxVars => \A o \in Observations : Stays(o)
  BY <1>1
<1>. QED BY <1>2, OutboxInvariant, PTL DEF OutboxSpec, QuarantinedForGood

-----------------------------------------------------------------------------
(* The capacity of the observation outbox *)

\* The files that count as pending, and those that a failure of the machine
\* would bring back: they were moved away and the directory was not synced.
Held == In({"pending", "tmp"})
Undoable == {o \in Observations : durable[o] = "pending" /\ place[o] \notin {"pending", "tmp"}}
Unsynced == IF drain.pc = "sync" THEN 1 ELSE 0

\* One enqueue at a time, and finitely many have begun.
EnqueueBegun == {o \in Observations : progress[o] # "new"}
OneEnqueue ==
    /\ \A o, p \in Observations : {progress[o], progress[p]} \cap {"new", "end"} = {} => o = p
    /\ IsFiniteSet(EnqueueBegun)
    /\ waits \in SUBSET Observations /\ faults \in 0..MaxFaults

\* What was counted of the pending and the temporary files includes those that
\* are still there.
CountOf(o) ==
    /\ counted[o] \in [dirs : SUBSET Directories, files : SUBSET (Directories \X Observations)]
    /\ counted[o].files \subseteq Directories \X EnqueueBegun
    /\ progress[o] # "count" => counted[o] = NothingCounted
    /\ progress[o] = "count" => \A dir \in counted[o].dirs \cap {"pending", "tmp"} : \A q \in In({dir}) : <<dir, q>> \in counted[o].files
CountsKept == counted = [o \in Observations |-> counted[o]] /\ \A o \in Observations : CountOf(o)

\* An enqueue that is about to write has room.
RoomOf(o) == progress[o] = "write" => Cardinality(Held) + 1 <= MaxFiles /\ Bytes(Held) + Size[o] <= MaxBytes

\* A file that was moved away is one more than the faults that are over only
\* until the directory is synced.
Capacity ==
    /\ Cardinality(Held) <= MaxFiles + FaultsOver
    /\ Cardinality(Undoable) <= FaultsOver + Unsynced
    /\ Cardinality(Held \cup Undoable) <= MaxFiles + FaultsOver + Unsynced
    /\ faults = 0 => Bytes(Held) <= MaxBytes

CapacityInv == OneEnqueue /\ CountsKept /\ (\A o \in Observations : RoomOf(o)) /\ Capacity

-----------------------------------------------------------------------------
(* Files and bytes *)

ByteSet(S) == UNION {{o} \X (1..Size[o]) : o \in S}

LEMMA ByteSetMembers ==
    ASSUME NEW S
    PROVE  /\ \A x : x \in ByteSet(S) <=> \E o \in S : \E i \in 1..Size[o] : x = <<o, i>>
           /\ Bytes(S) = Cardinality(ByteSet(S))
  BY DEF ByteSet, Bytes

LEMMA BytesOfOne ==
    ASSUME NEW o \in Observations
    PROVE  IsFiniteSet({o} \X (1..Size[o])) /\ Cardinality({o} \X (1..Size[o])) = Size[o]
<1>1. Size[o] \in Nat /\ Size[o] \in Int /\ 1 \in Int
  BY OutboxAssumption
<1>2. IsFiniteSet({o}) /\ Cardinality({o}) = 1
  BY FS_Singleton
<1>3. IsFiniteSet(1..Size[o]) /\ Cardinality(1..Size[o]) = Size[o]
  BY <1>1, FS_Interval
<1>4. /\ IsFiniteSet({o} \X (1..Size[o]))
      /\ Cardinality({o} \X (1..Size[o])) = Cardinality({o}) * Cardinality(1..Size[o])
  BY <1>2, <1>3, FS_Product
<1> QED
  BY <1>1, <1>2, <1>3, <1>4

\* The values that a function has on a finite set are finitely many.
LEMMA ValuesFinite ==
    ASSUME NEW S, IsFiniteSet(S), NEW f
    PROVE  IsFiniteSet({f[x] : x \in S})
<1>1. [x \in S |-> f[x]] \in Surjection(S, {f[x] : x \in S})
  BY DEF Surjection
<1> QED
  BY <1>1, FS_Surjection

LEMMA BytesFinite ==
    ASSUME NEW S \in SUBSET Observations, IsFiniteSet(S)
    PROVE  IsFiniteSet(ByteSet(S)) /\ Bytes(S) \in Nat
<1> DEFINE g == [o \in S |-> {o} \X (1..Size[o])]
           G == {g[o] : o \in S}
<1>1. IsFiniteSet(G)
  <2> HIDE DEF g
  <2> QED
    BY ValuesFinite
<1>2. \A T \in G : IsFiniteSet(T)
  BY BytesOfOne
<1>3. IsFiniteSet(UNION G)
  <2> HIDE DEF G
  <2> QED
    BY <1>1, <1>2, FS_UNION
<1>4. ByteSet(S) = UNION G
  BY DEF ByteSet
<1> QED
  BY <1>3, <1>4, FS_CardinalityType DEF Bytes, ByteSet

LEMMA BytesLess ==
    ASSUME NEW T \in SUBSET Observations, IsFiniteSet(T), NEW S \in SUBSET T
    PROVE  Bytes(S) <= Bytes(T) /\ Bytes(S) \in Nat /\ Bytes(T) \in Nat
<1>1. ByteSet(S) \subseteq ByteSet(T)
  BY DEF ByteSet
<1>2. IsFiniteSet(ByteSet(T)) /\ Bytes(T) \in Nat
  BY BytesFinite
<1>3. IsFiniteSet(S)
  BY FS_Subset
<1>4. Bytes(S) \in Nat
  BY <1>3, BytesFinite
<1>5. Cardinality(ByteSet(S)) <= Cardinality(ByteSet(T))
  BY <1>1, <1>2, FS_Subset
<1> QED
  BY <1>2, <1>4, <1>5 DEF Bytes, ByteSet

LEMMA BytesMore ==
    ASSUME NEW S \in SUBSET Observations, IsFiniteSet(S), NEW o \in Observations
    PROVE  Bytes(S \cup {o}) <= Bytes(S) + Size[o]
<1> DEFINE B == {o} \X (1..Size[o])
<1>1. IsFiniteSet(B) /\ Cardinality(B) = Size[o]
  BY BytesOfOne
<1>2. IsFiniteSet(ByteSet(S)) /\ Bytes(S) \in Nat
  BY BytesFinite
<1>3. ByteSet(S \cup {o}) = ByteSet(S) \cup B
  BY DEF ByteSet
<1> HIDE DEF B
<1>4. Cardinality(ByteSet(S) \cup B) = Cardinality(ByteSet(S)) + Cardinality(B) - Cardinality(ByteSet(S) \cap B)
  BY <1>1, <1>2, FS_Union
<1>5. Cardinality(ByteSet(S) \cap B) \in Nat
  <2>1. IsFiniteSet(ByteSet(S) \cap B)
    BY <1>1, FS_Subset
  <2> QED
    BY <2>1, FS_CardinalityType
<1>6. Bytes(S) = Cardinality(ByteSet(S)) /\ Bytes(S \cup {o}) = Cardinality(ByteSet(S \cup {o}))
  BY ByteSetMembers
<1>7. Size[o] \in Nat
  BY OutboxAssumption
<1>8. Bytes(S \cup {o}) = Bytes(S) + Size[o] - Cardinality(ByteSet(S) \cap B)
  BY <1>1, <1>3, <1>4, <1>6
<1> QED
  BY <1>2, <1>5, <1>7, <1>8

\* One more file.
LEMMA CardinalityMore ==
    ASSUME NEW S, IsFiniteSet(S), NEW o
    PROVE  IsFiniteSet(S \cup {o}) /\ Cardinality(S \cup {o}) <= Cardinality(S) + 1 /\ Cardinality(S) \in Nat
           /\ Cardinality(S \cup {o}) \in Nat
<1>1. IsFiniteSet(S \cup {o}) /\ Cardinality(S \cup {o}) = IF o \in S THEN Cardinality(S) ELSE Cardinality(S) + 1
  BY FS_AddElement
<1>2. Cardinality(S) \in Nat
  BY FS_CardinalityType
<1> QED
  BY <1>1, <1>2

LEMMA CardinalityLess ==
    ASSUME NEW T, IsFiniteSet(T), NEW S \in SUBSET T
    PROVE  IsFiniteSet(S) /\ Cardinality(S) <= Cardinality(T) /\ Cardinality(S) \in Nat /\ Cardinality(T) \in Nat
  BY FS_Subset, FS_CardinalityType

\* What the files that were counted hold.
FileBytes(F) == UNION {{f} \X (1..Size[f[2]]) : f \in F}

LEMMA FileBytesFinite ==
    ASSUME NEW F \in SUBSET (Directories \X Observations), IsFiniteSet(F)
    PROVE  IsFiniteSet(FileBytes(F))
<1> DEFINE g == [f \in F |-> {f} \X (1..Size[f[2]])]
           G == {g[f] : f \in F}
<1>1. IsFiniteSet(G)
  <2> HIDE DEF g
  <2> QED
    BY ValuesFinite
<1>2. ASSUME NEW f \in F
      PROVE  IsFiniteSet({f} \X (1..Size[f[2]]))
  <2>1. f[2] \in Observations
    OBVIOUS
  <2>2. Size[f[2]] \in Int /\ 1 \in Int
    BY <2>1, OutboxAssumption
  <2>3. IsFiniteSet({f}) /\ IsFiniteSet(1..Size[f[2]])
    BY <2>2, FS_Interval, FS_Singleton
  <2> QED
    BY <2>3, FS_Product
<1>3. \A T \in G : IsFiniteSet(T)
  BY <1>2
<1>4. IsFiniteSet(UNION G)
  <2> HIDE DEF G
  <2> QED
    BY <1>1, <1>3, FS_UNION
<1>5. FileBytes(F) = UNION G
  BY DEF FileBytes
<1> QED
  BY <1>4, <1>5

\* Files that are counted, each in its directory, have at most the bytes that
\* were counted.
LEMMA CountedEnough ==
    ASSUME NEW F \in SUBSET (Directories \X Observations), IsFiniteSet(F),
           NEW S \in SUBSET Observations, NEW f, \A o \in S : <<f[o], o>> \in F
    PROVE  /\ Cardinality(S) <= Cardinality(F) /\ Cardinality(F) \in Nat
           /\ Bytes(S) <= Cardinality(FileBytes(F)) /\ Cardinality(FileBytes(F)) \in Nat
<1> DEFINE h == [o \in S |-> <<f[o], o>>]
<1>1. h \in [S -> F] /\ \A o, p \in S : h[o] = h[p] => o = p
  OBVIOUS
<1> HIDE DEF h
<1>2. Cardinality(S) <= Cardinality(F)
  <2>1. h \in Injection(S, F)
    BY <1>1 DEF Injection, IsInjective
  <2> QED
    BY <2>1, FS_Injection
<1> DEFINE g == [x \in ByteSet(S) |-> <<<<f[x[1]], x[1]>>, x[2]>>]
<1>3. ASSUME NEW x \in ByteSet(S)
      PROVE  g[x] \in FileBytes(F) /\ x = <<x[1], x[2]>>
  <2>1. PICK o \in S : \E i \in 1..Size[o] : x = <<o, i>>
    BY <1>3, ByteSetMembers
  <2>2. PICK i \in 1..Size[o] : x = <<o, i>>
    BY <2>1
  <2>3. g[x] = <<<<f[o], o>>, i>>
    BY <1>3, <2>2
  <2>4. <<f[o], o>> \in F /\ <<f[o], o>>[2] = o
    OBVIOUS
  <2>5. <<<<f[o], o>>, i>> \in {<<f[o], o>>} \X (1..Size[<<f[o], o>>[2]])
    BY <2>4
  <2>6. <<<<f[o], o>>, i>> \in FileBytes(F)
    BY <2>4, <2>5 DEF FileBytes
  <2> QED
    BY <2>2, <2>3, <2>6
<1>4. g \in Injection(ByteSet(S), FileBytes(F))
  <2>1. g \in [ByteSet(S) -> FileBytes(F)]
    BY <1>3
  <2>2. ASSUME NEW x \in ByteSet(S), NEW y \in ByteSet(S), g[x] = g[y]
        PROVE  x = y
    <3>1. x = <<x[1], x[2]>> /\ y = <<y[1], y[2]>>
      BY <1>3
    <3>2. x[1] = y[1] /\ x[2] = y[2]
      BY <2>2
    <3> QED
      BY <3>1, <3>2
  <2> HIDE DEF g
  <2> QED
    BY <2>1, <2>2 DEF Injection, IsInjective
<1>5. IsFiniteSet(FileBytes(F))
  BY FileBytesFinite
<1>6. Cardinality(ByteSet(S)) <= Cardinality(FileBytes(F))
  <2> HIDE DEF g
  <2> QED
    BY <1>4, <1>5, FS_Injection
<1>7. Bytes(S) = Cardinality(ByteSet(S))
  BY ByteSetMembers
<1> QED
  BY <1>2, <1>5, <1>6, <1>7, FS_CardinalityType

-----------------------------------------------------------------------------
(* The steps *)

LEMMA HeldFinite ==
    ASSUME OutboxInv, CapacityInv
    PROVE  /\ IsFiniteSet(Held) /\ IsFiniteSet(Undoable) /\ IsFiniteSet(Held \cup Undoable)
           /\ Held \in SUBSET Observations /\ FaultsOver \in Nat /\ Unsynced \in {0, 1}
           /\ Cardinality(Held) \in Nat /\ Cardinality(Undoable) \in Nat /\ Cardinality(Held \cup Undoable) \in Nat
<1>1. Held \cup Undoable \subseteq EnqueueBegun
  BY DEF Held, In, Undoable, EnqueueBegun, OutboxInv, Each, Written, Shape
<1>2. IsFiniteSet(EnqueueBegun)
  BY DEF CapacityInv, OneEnqueue
<1>3. IsFiniteSet(Held \cup Undoable) /\ IsFiniteSet(Held) /\ IsFiniteSet(Undoable)
  <2>1. Held \subseteq EnqueueBegun /\ Undoable \subseteq EnqueueBegun
    BY <1>1
  <2> QED
    BY <1>1, <1>2, <2>1, FS_Subset
<1>4. FaultsOver \in Nat /\ Unsynced \in {0, 1}
  BY DEF OutboxInv, Shape, FaultsOver, Unsynced
<1>5. Held \in SUBSET Observations
  BY DEF Held, In
<1> QED
  BY <1>3, <1>4, <1>5, FS_CardinalityType

\* A step that holds nothing more.
LEMMA CapacityStays ==
    ASSUME OutboxInv, CapacityInv, Held' \subseteq Held, FaultsOver' \in Nat, Unsynced' \in {0, 1}, FaultsOver <= FaultsOver',
           faults' = 0 => faults = 0,
           \/ Undoable' \subseteq Undoable /\ FaultsOver + Unsynced <= FaultsOver' + Unsynced'
           \/ \E q \in Held : Undoable' \subseteq Undoable \cup {q} /\ FaultsOver + Unsynced + 1 <= FaultsOver' + Unsynced'
           \/ Undoable' = {},
           \A o \in Observations : progress'[o] = "write" => progress[o] = "write"
    PROVE  Capacity' /\ \A o \in Observations : RoomOf(o)'
<1>1. /\ IsFiniteSet(Held) /\ IsFiniteSet(Undoable) /\ IsFiniteSet(Held \cup Undoable)
      /\ Held \in SUBSET Observations /\ FaultsOver \in Nat /\ Unsynced \in {0, 1}
      /\ Cardinality(Held) \in Nat /\ Cardinality(Undoable) \in Nat /\ Cardinality(Held \cup Undoable) \in Nat
  BY HeldFinite
<1>2. /\ Cardinality(Held) <= MaxFiles + FaultsOver
      /\ Cardinality(Undoable) <= FaultsOver + Unsynced
      /\ Cardinality(Held \cup Undoable) <= MaxFiles + FaultsOver + Unsynced
      /\ faults = 0 => Bytes(Held) <= MaxBytes
  BY DEF CapacityInv, Capacity
<1>3. MaxFiles \in Nat /\ MaxBytes \in Nat
  BY OutboxAssumption
<1> DEFINE m == FaultsOver + Unsynced
           n == FaultsOver' + Unsynced'
<1>a. /\ m \in Nat /\ n \in Nat
      /\ Cardinality(Undoable) <= m /\ Cardinality(Held \cup Undoable) <= MaxFiles + m
      /\ MaxFiles + FaultsOver' + Unsynced' = MaxFiles + n
      /\ FaultsOver + Unsynced + 1 = m + 1
  <2>1. Unsynced \in Nat /\ Unsynced' \in Nat
    BY <1>1
  <2>2. m \in Nat /\ n \in Nat
    <3>1. FaultsOver \in Nat /\ FaultsOver' \in Nat
      BY <1>1
    <3>2. \A a, b \in Nat : a + b \in Nat
      OBVIOUS
    <3> QED
      BY <2>1, <3>1, <3>2
  <2>3. MaxFiles + FaultsOver + Unsynced = MaxFiles + m
    BY <1>1, <1>3, <2>1
  <2>4. MaxFiles + FaultsOver' + Unsynced' = MaxFiles + n
    BY <1>3, <2>1
  <2>5. Cardinality(Undoable) <= m /\ Cardinality(Held \cup Undoable) <= MaxFiles + m
    BY <1>2, <2>3
  <2> QED
    BY <2>2, <2>4, <2>5
<1>4. Cardinality(Held') <= Cardinality(Held) /\ Cardinality(Held') \in Nat
  BY <1>1, CardinalityLess
<1>5. Bytes(Held') <= Bytes(Held) /\ Bytes(Held) \in Nat /\ Bytes(Held') \in Nat
  BY <1>1, BytesLess
<1>6. Cardinality(Held') <= MaxFiles + FaultsOver' /\ (faults' = 0 => Bytes(Held') <= MaxBytes)
  BY <1>1, <1>2, <1>3, <1>4, <1>5
<1>7. /\ Cardinality(Undoable') <= FaultsOver' + Unsynced'
      /\ Cardinality(Held' \cup Undoable') <= MaxFiles + FaultsOver' + Unsynced'
  <2>1. CASE Undoable' \subseteq Undoable /\ FaultsOver + Unsynced <= FaultsOver' + Unsynced'
    <3>1. Held' \cup Undoable' \subseteq Held \cup Undoable
      BY <2>1
    <3>2. Cardinality(Undoable') <= Cardinality(Undoable) /\ Cardinality(Undoable') \in Nat
      BY <1>1, <2>1, CardinalityLess
    <3>3. Cardinality(Held' \cup Undoable') <= Cardinality(Held \cup Undoable) /\ Cardinality(Held' \cup Undoable') \in Nat
      BY <1>1, <3>1, CardinalityLess
    <3>4. m <= n
      BY <2>1
    <3> HIDE DEF m, n
    <3>5. Cardinality(Undoable') <= n
      BY <1>1, <1>a, <3>2, <3>4
    <3>6. Cardinality(Held' \cup Undoable') <= MaxFiles + n
      BY <1>1, <1>3, <1>a, <3>3, <3>4
    <3> QED
      BY <1>a, <3>5, <3>6 DEF n
  <2>2. CASE \E q \in Held : Undoable' \subseteq Undoable \cup {q} /\ FaultsOver + Unsynced + 1 <= FaultsOver' + Unsynced'
    <3>1. PICK q \in Held : Undoable' \subseteq Undoable \cup {q}
      BY <2>2
    <3>2. Held' \cup Undoable' \subseteq Held \cup Undoable
      BY <3>1
    <3>3. /\ IsFiniteSet(Undoable \cup {q}) /\ Cardinality(Undoable \cup {q}) <= Cardinality(Undoable) + 1
          /\ Cardinality(Undoable \cup {q}) \in Nat
      BY <1>1, CardinalityMore
    <3>4. Cardinality(Undoable') <= Cardinality(Undoable \cup {q}) /\ Cardinality(Undoable') \in Nat
      BY <3>1, <3>3, CardinalityLess
    <3>5. Cardinality(Held' \cup Undoable') <= Cardinality(Held \cup Undoable) /\ Cardinality(Held' \cup Undoable') \in Nat
      BY <1>1, <3>2, CardinalityLess
    <3>6. m + 1 <= n
      BY <1>a, <2>2
    <3> HIDE DEF m, n
    <3>7. Cardinality(Undoable') <= n
      BY <1>1, <1>a, <3>3, <3>4, <3>6
    <3>8. Cardinality(Held' \cup Undoable') <= MaxFiles + n
      BY <1>1, <1>3, <1>a, <3>5, <3>6
    <3> QED
      BY <1>a, <3>7, <3>8 DEF n
  <2>3. CASE Undoable' = {}
    <3>1. Held' \cup Undoable' = Held' /\ Cardinality(Undoable') = 0
      BY <2>3, FS_EmptySet
    <3>2. \A a, b, c \in Nat : \A i \in {0, 1} : 0 <= b + i /\ (a <= c + b => a <= c + b + i)
      OBVIOUS
    <3> QED
      BY <1>3, <1>4, <1>6, <3>1, <3>2
  <2> QED
    BY <2>1, <2>2, <2>3
<1>8. Capacity'
  BY <1>6, <1>7 DEF Capacity
<1>9. ASSUME NEW o \in Observations, progress'[o] = "write"
      PROVE  Cardinality(Held') + 1 <= MaxFiles /\ Bytes(Held') + Size[o] <= MaxBytes
  <2>1. Cardinality(Held) + 1 <= MaxFiles /\ Bytes(Held) + Size[o] <= MaxBytes /\ Size[o] \in Nat
    BY <1>9, OutboxAssumption DEF CapacityInv, RoomOf
  <2> QED
    BY <1>1, <1>3, <1>4, <1>5, <2>1
<1> QED
  BY <1>8, <1>9 DEF RoomOf

\* Enqueues go on or end, and a count still has the files that are there.
LEMMA EnqueueStays ==
    ASSUME OutboxInv, CapacityInv, counted' = counted, waits' \in SUBSET Observations, faults' \in 0..MaxFaults,
           \A o \in Observations : /\ progress'[o] = "new" <=> progress[o] = "new"
                                   /\ progress'[o] # "new" /\ progress'[o] # "end" => progress[o] # "new" /\ progress[o] # "end"
                                   /\ progress'[o] = "count" <=> progress[o] = "count",
           \/ \A o \in Observations : progress'[o] # "count"
           \/ \A q \in Observations : place'[q] \in {"pending", "tmp"} => place[q] = place'[q]
    PROVE  OneEnqueue' /\ CountsKept'
<1>1. EnqueueBegun' = EnqueueBegun
  BY DEF EnqueueBegun
<1>2. OneEnqueue'
  <2>1. ASSUME NEW o \in Observations, NEW p \in Observations, {progress'[o], progress'[p]} \cap {"new", "end"} = {}
        PROVE  o = p
    <3>1. {progress[o], progress[p]} \cap {"new", "end"} = {}
      BY <2>1
    <3> QED
      BY <3>1 DEF CapacityInv, OneEnqueue
  <2> QED
    BY <1>1, <2>1 DEF CapacityInv, OneEnqueue
<1>3. CountsKept'
  <2>1. counted = [o \in Observations |-> counted[o]]
    BY DEF CapacityInv, CountsKept
  <2> SUFFICES ASSUME NEW o \in Observations
               PROVE  CountOf(o)'
    BY <2>1 DEF CountsKept
  <2>2. CountOf(o)
    BY DEF CapacityInv, CountsKept
  <2>3. ASSUME progress'[o] = "count", NEW dir \in counted[o].dirs \cap {"pending", "tmp"}, NEW q \in Observations, place'[q] = dir
        PROVE  <<dir, q>> \in counted[o].files
    <3>1. progress[o] = "count" /\ place[q] = dir
      BY <2>3
    <3>2. q \in In({dir})
      BY <3>1 DEF In
    <3> QED
      BY <2>2, <3>1, <3>2 DEF CountOf
  <2>4. progress'[o] = "count" => \A dir \in counted[o].dirs \cap {"pending", "tmp"} : \A q \in In({dir})' : <<dir, q>> \in counted[o].files
    BY <2>3 DEF In
  <2> QED
    BY <1>1, <2>2, <2>4 DEF CountOf, Directories
<1> QED
  BY <1>2, <1>3

-----------------------------------------------------------------------------
LEMMA OverNumbers ==
    /\ OutboxInv => FaultsOver \in Nat /\ Unsynced \in {0, 1}
    /\ OutboxInv' => FaultsOver' \in Nat /\ Unsynced' \in {0, 1}
<1>1. ASSUME OutboxInv
      PROVE  FaultsOver \in Nat /\ Unsynced \in {0, 1}
  BY <1>1 DEF OutboxInv, Shape, FaultsOver, Unsynced
<1>2. ASSUME OutboxInv'
      PROVE  FaultsOver' \in Nat /\ Unsynced' \in {0, 1}
  <2>1. stopped' \in BOOLEAN /\ faults' \in Nat /\ (stopped' => faults' > 0)
    BY <1>2 DEF OutboxInv, Shape
  <2>2. CASE stopped'
    <3>1. FaultsOver' = faults' - 1 /\ Unsynced' \in {0, 1}
      BY <2>2 DEF FaultsOver, Unsynced
    <3>2. \A a \in Nat : a > 0 => a - 1 \in Nat
      OBVIOUS
    <3> QED
      BY <2>1, <2>2, <3>1, <3>2
  <2>3. CASE ~ stopped'
    BY <2>1, <2>3 DEF FaultsOver, Unsynced
  <2> QED
    BY <2>2, <2>3
<1> QED
  BY <1>1, <1>2

\* A step of the drain that moves nothing.
LEMMA QuietStep ==
    ASSUME OutboxInv, CapacityInv, OutboxInv', UNCHANGED <<place, durable, progress, counted>>,
           waits' \in SUBSET Observations, faults' \in 0..MaxFaults, FaultsOver <= FaultsOver', faults' = 0 => faults = 0,
           FaultsOver + Unsynced <= FaultsOver' + Unsynced'
    PROVE  CapacityInv'
<1>1. FaultsOver' \in Nat /\ Unsynced' \in {0, 1}
  BY OverNumbers
<1>2. Held' = Held /\ Undoable' = Undoable
  BY DEF Held, Undoable, In
<1>3. Capacity' /\ \A o \in Observations : RoomOf(o)'
  BY <1>1, <1>2, CapacityStays
<1>4. OneEnqueue' /\ CountsKept'
  BY EnqueueStays
<1> QED
  BY <1>3, <1>4 DEF CapacityInv

LEMMA DrainStays ==
    ASSUME OutboxInv, CapacityInv, OutboxInv', Draining
    PROVE  CapacityInv'
<1>0. /\ waits \in SUBSET Observations /\ faults \in 0..MaxFaults
      /\ FaultsOver \in Nat /\ FaultsOver' \in Nat /\ Unsynced \in {0, 1} /\ Unsynced' \in {0, 1}
  BY OverNumbers DEF CapacityInv, OneEnqueue
<1>1. ASSUME NEW o \in Observations, MoveFile(o) PROVE CapacityInv'
  <2>1. place[o] = "pending" /\ o \in Held
    BY <1>1 DEF MoveFile, OutboxInv, Each, Drained, Held, In
  <2>2. place' = [place EXCEPT ![o] = IF drain.pc = "remove" THEN "none" ELSE "quarantine"]
        /\ UNCHANGED <<durable, progress, counted, waits, stopped, faults>>
    BY <1>1 DEF MoveFile
  <2>3. \A q \in Observations : place'[q] \in {"pending", "tmp"} => place[q] = place'[q]
    BY <2>2 DEF OutboxInv, Shape
  <2>4. Held' \subseteq Held /\ Undoable' \subseteq Undoable \cup {o}
    BY <2>2, <2>3 DEF Held, Undoable, In, OutboxInv, Shape
  <2>5. Unsynced = 0 /\ Unsynced' = 1 /\ FaultsOver' = FaultsOver
    BY <1>1, <2>2 DEF MoveFile, Unsynced, AtFile, FaultsOver
  <2>6. FaultsOver + Unsynced + 1 <= FaultsOver' + Unsynced' /\ FaultsOver <= FaultsOver'
    BY <1>0, <2>5
  <2>7. Capacity' /\ \A q \in Observations : RoomOf(q)'
    BY <1>0, <2>1, <2>2, <2>4, <2>6, CapacityStays
  <2>8. OneEnqueue' /\ CountsKept'
    BY <1>0, <2>2, <2>3, EnqueueStays
  <2> QED
    BY <2>7, <2>8 DEF CapacityInv
<1>2. ASSUME NEW o \in Observations, SyncMoved(o) PROVE CapacityInv'
  <2>1. UNCHANGED <<place, progress, counted, stopped, faults>> /\ durable' = place /\ waits' \in SUBSET Observations
    BY <1>0, <1>2 DEF SyncMoved
  <2>2. Held' = Held /\ Undoable' = {} /\ FaultsOver' = FaultsOver
    BY <2>1 DEF Held, Undoable, In, FaultsOver
  <2>3. FaultsOver <= FaultsOver'
    BY <1>0, <2>2
  <2>4. Capacity' /\ \A q \in Observations : RoomOf(q)'
    BY <1>0, <2>1, <2>2, <2>3, CapacityStays
  <2>5. OneEnqueue' /\ CountsKept'
    BY <1>0, <2>1, EnqueueStays
  <2> QED
    BY <2>4, <2>5 DEF CapacityInv
<1>3. CASE \/ BeginDrain \/ EndDrain \/ \E o \in Observations : TakeFile(o)
           \/ \E o \in Observations : \E status \in {"accepted", "refused", "unavailable"} : Sent(o, status)
  <2>1. UNCHANGED <<place, durable, progress, counted, stopped, faults>>
    BY <1>3 DEF BeginDrain, EndDrain, TakeFile, Sent
  <2>2. waits' \in SUBSET Observations
    BY <1>0, <1>3 DEF BeginDrain, EndDrain, TakeFile, Sent
  <2>3. Unsynced = 0 /\ FaultsOver' = FaultsOver
    BY <1>3, <2>1 DEF BeginDrain, EndDrain, TakeFile, Sent, Unsynced, FaultsOver
  <2>4. FaultsOver <= FaultsOver' /\ FaultsOver + Unsynced <= FaultsOver' + Unsynced'
    <3>1. \A a \in Nat, b \in {0, 1} : a <= a /\ a + 0 <= a + b
      OBVIOUS
    <3> QED
      BY <1>0, <2>3, <3>1
  <2> QED
    BY <1>0, <2>1, <2>2, <2>4, QuietStep
<1> QED
  BY <1>1, <1>2, <1>3 DEF Draining

LEMMA RestartStays ==
    ASSUME OutboxInv, CapacityInv, OutboxInv', NEW undone \in SUBSET Observations, NEW kept \in SUBSET In({"tmp"}),
           Restart(undone, kept)
    PROVE  CapacityInv'
<1>1. /\ stopped' = FALSE /\ FaultsOver' = FaultsOver + 1 /\ Unsynced' = 0 /\ faults' # 0 /\ faults' \in 0..MaxFaults /\ FaultsOver' \in Nat
  <2>1. stopped' = FALSE /\ drain'.pc = "idle" /\ (IF stopped THEN faults' = faults ELSE faults < MaxFaults /\ faults' = faults + 1)
    BY DEF Restart, Fault, NoDrain
  <2>2. stopped \in BOOLEAN /\ faults \in Nat /\ (stopped => faults > 0) /\ faults \in 0..MaxFaults /\ MaxFaults \in Nat
    BY OutboxAssumption DEF OutboxInv, Shape, CapacityInv, OneEnqueue
  <2>3. Unsynced' = 0 /\ FaultsOver' = faults'
    BY <2>1 DEF Unsynced, FaultsOver
  <2>4. CASE stopped
    BY <2>1, <2>2, <2>3, <2>4 DEF FaultsOver
  <2>5. CASE ~ stopped
    BY <2>1, <2>2, <2>3, <2>5 DEF FaultsOver
  <2> QED
    BY <2>4, <2>5
<1>2. \A o \in Observations : place'[o] \in {"pending", "tmp"} => o \in Held \cup Undoable
  BY DEF Restart, Recovered, Held, Undoable, In
<1>3. Held' \subseteq Held \cup Undoable
  BY <1>2 DEF Held, In
<1>4. Undoable' = {}
  BY DEF Undoable, Restart
<1>5. /\ IsFiniteSet(Held \cup Undoable) /\ FaultsOver \in Nat /\ Unsynced \in {0, 1}
      /\ Cardinality(Held \cup Undoable) \in Nat /\ MaxFiles \in Nat
  BY HeldFinite, OutboxAssumption
<1>6. Cardinality(Held') <= Cardinality(Held \cup Undoable) /\ Cardinality(Held') \in Nat
  BY <1>3, <1>5, CardinalityLess
<1>7. Cardinality(Held \cup Undoable) <= MaxFiles + FaultsOver + Unsynced
  BY DEF CapacityInv, Capacity
<1>8. Cardinality(Held') <= MaxFiles + FaultsOver'
  <2>1. Cardinality(Held \cup Undoable) <= MaxFiles + (FaultsOver + 1)
    BY <1>5, <1>7
  <2> QED
    BY <1>1, <1>5, <1>6, <2>1
<1>9. Capacity'
  <2>1. Held' \cup Undoable' = Held' /\ Cardinality(Undoable') = 0
    BY <1>4, FS_EmptySet
  <2>2. Cardinality(Undoable') <= FaultsOver' + Unsynced' /\ Cardinality(Held' \cup Undoable') <= MaxFiles + FaultsOver' + Unsynced'
    <3>1. \A a \in Nat : a + 0 = a /\ 0 <= a
      OBVIOUS
    <3>2. MaxFiles + FaultsOver' \in Nat
      BY <1>1, <1>5
    <3> QED
      BY <1>1, <1>8, <2>1, <3>1, <3>2
  <2> QED
    BY <1>1, <1>8, <2>2 DEF Capacity
<1>10. \A o \in Observations : progress'[o] \in {"new", "end"} /\ (progress'[o] = "new" <=> progress[o] = "new")
  BY DEF Restart
<1>11. EnqueueBegun' = EnqueueBegun
  BY <1>10 DEF EnqueueBegun
<1>12. OneEnqueue'
  BY <1>1, <1>10, <1>11 DEF CapacityInv, OneEnqueue, Restart
<1>13. CountsKept'
  BY <1>10 DEF CountsKept, CountOf, Restart, NothingCounted
<1>14. \A o \in Observations : RoomOf(o)'
  BY <1>10 DEF RoomOf
<1> QED
  BY <1>9, <1>12, <1>13, <1>14 DEF CapacityInv

LEMMA FaultStays ==
    ASSUME OutboxInv, CapacityInv, OutboxInv', Faults
    PROVE  CapacityInv'
<1>0. /\ waits \in SUBSET Observations /\ faults \in 0..MaxFaults /\ MaxFaults \in Nat /\ faults \in Nat
      /\ FaultsOver \in Nat /\ FaultsOver' \in Nat /\ Unsynced \in {0, 1} /\ Unsynced' \in {0, 1}
  BY OverNumbers, OutboxAssumption DEF CapacityInv, OneEnqueue, OutboxInv, Shape
<1>a. ASSUME Fault, stopped' = stopped
      PROVE  FaultsOver' = FaultsOver + 1 /\ faults' \in 0..MaxFaults /\ faults' # 0
  <2>1. faults' = faults + 1 /\ faults < MaxFaults /\ stopped \in BOOLEAN
    BY <1>a DEF Fault, OutboxInv, Shape
  <2>2. faults' \in 0..MaxFaults /\ faults' # 0
    BY <1>0, <2>1
  <2>3. FaultsOver' = FaultsOver + 1
    BY <1>0, <1>a, <2>1 DEF FaultsOver
  <2> QED
    BY <2>2, <2>3
<1>b. \A a \in Nat : \A i, j \in {0, 1} : a <= a + 1 /\ a + i <= (a + 1) + j /\ a <= a /\ (i = j => a + i <= a + j)
  OBVIOUS
<1>1. CASE MoveFails \/ \E o \in Observations : InvalidFile(o) \/ AnswerLost(o)
  <2>1. Fault /\ UNCHANGED <<place, durable, progress, counted, stopped>> /\ waits' \in SUBSET Observations
    BY <1>0, <1>1 DEF MoveFails, InvalidFile, AnswerLost
  <2>2. FaultsOver' = FaultsOver + 1 /\ faults' \in 0..MaxFaults /\ faults' # 0
    BY <1>a, <2>1
  <2>3. FaultsOver <= FaultsOver' /\ FaultsOver + Unsynced <= FaultsOver' + Unsynced'
    BY <1>0, <1>b, <2>2
  <2> QED
    BY <2>1, <2>2, <2>3, QuietStep
<1>2. CASE Stop
  <2>1. /\ faults' = faults + 1 /\ faults < MaxFaults /\ stopped = FALSE /\ stopped' = TRUE
        /\ UNCHANGED <<place, durable, progress, counted, waits, drain>>
    BY <1>2 DEF Stop, Fault, OutboxInv, Shape
  <2>2. FaultsOver' = FaultsOver /\ Unsynced' = Unsynced /\ faults' \in 0..MaxFaults /\ faults' # 0
    BY <1>0, <2>1 DEF FaultsOver, Unsynced
  <2>3. FaultsOver <= FaultsOver' /\ FaultsOver + Unsynced <= FaultsOver' + Unsynced'
    BY <1>0, <1>b, <2>2
  <2> QED
    BY <1>0, <2>1, <2>2, <2>3, QuietStep
<1>3. ASSUME NEW o \in Observations, NEW cleaned \in BOOLEAN, WriteFails(o, cleaned)
      PROVE  CapacityInv'
  <2>1. /\ Fault /\ progress[o] \in {"write", "rename", "sync"} /\ progress' = [progress EXCEPT ![o] = "end"]
        /\ place' = place \/ (place[o] = "tmp" /\ place' = [place EXCEPT ![o] = "none"])
        /\ UNCHANGED <<durable, counted, drain, waits, stopped>>
    BY <1>3 DEF WriteFails
  <2>2. FaultsOver' = FaultsOver + 1 /\ faults' \in 0..MaxFaults /\ faults' # 0 /\ Unsynced' = Unsynced
    BY <1>a, <2>1 DEF Unsynced
  <2>3. FaultsOver <= FaultsOver' /\ FaultsOver + Unsynced <= FaultsOver' + Unsynced' /\ FaultsOver + Unsynced + 1 <= FaultsOver' + Unsynced'
    <3>1. \A a \in Nat : \A i \in {0, 1} : a + i + 1 <= (a + 1) + i
      OBVIOUS
    <3> QED
      BY <1>0, <1>b, <2>2, <3>1
  <2>4. Held' \subseteq Held /\ (Undoable' \subseteq Undoable \/ (o \in Held /\ Undoable' \subseteq Undoable \cup {o}))
    <3>1. CASE place' = place
      BY <2>1, <3>1 DEF Held, Undoable, In
    <3>2. CASE place[o] = "tmp" /\ place' = [place EXCEPT ![o] = "none"]
      BY <2>1, <3>2 DEF Held, Undoable, In, OutboxInv, Shape
    <3> QED
      BY <2>1, <3>1, <3>2
  <2>5. \A q \in Observations : progress'[q] = (IF q = o THEN "end" ELSE progress[q])
    BY <2>1 DEF OutboxInv, Shape
  <2>6. Capacity' /\ \A q \in Observations : RoomOf(q)'
    BY <1>0, <2>2, <2>3, <2>4, <2>5, CapacityStays
  <2>7. \A q \in Observations : place'[q] \in {"pending", "tmp"} => place[q] = place'[q]
    BY <2>1 DEF OutboxInv, Shape
  <2>8. OneEnqueue' /\ CountsKept'
    BY <1>0, <2>1, <2>2, <2>5, <2>7, EnqueueStays
  <2> QED
    BY <2>6, <2>8 DEF CapacityInv
<1> QED
  BY <1>1, <1>2, <1>3, RestartStays DEF Faults

LEMMA BegunOnly ==
    ASSUME OutboxInv, CapacityInv, NEW o \in Observations, progress[o] \notin {"new", "end"},
           NEW q \in Observations, q # o
    PROVE  progress[q] \in {"new", "end"}
  BY DEF CapacityInv, OneEnqueue

LEMMA CountStays ==
    ASSUME OutboxInv, CapacityInv, OutboxInv', NEW o \in Observations, EnqueueObservation(o) \/ \E dir \in Directories : CountFiles(o, dir)
    PROVE  CapacityInv'
<1>0. /\ waits \in SUBSET Observations /\ faults \in 0..MaxFaults /\ FaultsOver \in Nat /\ Unsynced \in {0, 1}
      /\ progress \in [Observations -> {"new", "count", "write", "rename", "sync", "end"}]
  BY OverNumbers DEF CapacityInv, OneEnqueue, OutboxInv, Shape
<1>1. UNCHANGED <<place, durable, answer, drain, waits, received, stopped, faults>>
  BY DEF EnqueueObservation, CountFiles
<1>2. \A q \in Observations : progress'[q] = "write" => progress[q] = "write"
  BY <1>0 DEF EnqueueObservation, CountFiles
<1>3. Held' = Held /\ Undoable' = Undoable /\ FaultsOver' = FaultsOver /\ Unsynced' = Unsynced
  BY <1>1 DEF Held, Undoable, In, FaultsOver, Unsynced
<1>4. \A a \in Nat : \A i \in {0, 1} : a <= a /\ a + i <= a + i
  OBVIOUS
<1>5. FaultsOver <= FaultsOver' /\ FaultsOver + Unsynced <= FaultsOver' + Unsynced'
  BY <1>0, <1>3, <1>4
<1>6. Capacity' /\ \A q \in Observations : RoomOf(q)'
  BY <1>0, <1>1, <1>2, <1>3, <1>5, CapacityStays
<1>a. counted = [q \in Observations |-> counted[q]]
  BY DEF CapacityInv, CountsKept
<1>7. DOMAIN counted = Observations /\ IsFiniteSet(EnqueueBegun)
  BY <1>a DEF CapacityInv, OneEnqueue
<1>8. CASE EnqueueObservation(o)
  <2>1. progress[o] = "new" /\ progress' = [progress EXCEPT ![o] = "count"] /\ counted' = counted
        /\ \A q \in Observations : progress[q] \in {"new", "end"}
    BY <1>8 DEF EnqueueObservation, EnqueueFree
  <2>2. EnqueueBegun' = EnqueueBegun \cup {o}
    BY <1>0, <2>1 DEF EnqueueBegun
  <2>3. IsFiniteSet(EnqueueBegun')
    BY <1>7, <2>2, FS_AddElement
  <2>4. OneEnqueue'
    <3>1. \A p \in Observations : progress'[p] \notin {"new", "end"} => p = o
      BY <1>0, <2>1
    <3>2. \A p, q \in Observations : {progress'[p], progress'[q]} \cap {"new", "end"} = {} => p = q
      BY <3>1
    <3> QED
      BY <1>0, <1>1, <2>3, <3>2 DEF OneEnqueue
  <2>5. CountsKept'
    <3> SUFFICES ASSUME NEW q \in Observations PROVE CountOf(q)'
      BY <1>a, <2>1 DEF CountsKept
    <3>1. CountOf(q)
      BY DEF CapacityInv, CountsKept
    <3>2. counted[q] = NothingCounted
      BY <2>1, <3>1 DEF CountOf
    <3> QED
      BY <2>1, <3>2 DEF CountOf, NothingCounted
  <2> QED
    BY <1>6, <2>4, <2>5 DEF CapacityInv
<1>9. ASSUME NEW dir \in Directories, CountFiles(o, dir)
      PROVE  CapacityInv'
  <2>1. /\ progress[o] = "count" /\ progress' = progress
        /\ counted' = [counted EXCEPT ![o].dirs = @ \cup {dir}, ![o].files = @ \cup ({dir} \X In({dir}))]
    BY <1>9 DEF CountFiles
  <2>2. EnqueueBegun' = EnqueueBegun
    BY <2>1 DEF EnqueueBegun
  <2>3. OneEnqueue'
    BY <1>1, <2>1, <2>2 DEF CapacityInv, OneEnqueue
  <2>4. In({dir}) \subseteq EnqueueBegun
    BY <1>0 DEF In, EnqueueBegun, OutboxInv, Each, Written, Directories
  <2>5. CountOf(o)
    BY DEF CapacityInv, CountsKept
  <2>6. /\ counted'[o] \in [dirs : SUBSET Directories, files : SUBSET (Directories \X Observations)]
        /\ counted'[o].dirs = counted[o].dirs \cup {dir}
        /\ counted'[o].files = counted[o].files \cup ({dir} \X In({dir}))
    BY <1>7, <2>1, <2>5 DEF CountOf, In
  <2>7. CountOf(o)'
    <3>1. counted'[o].files \subseteq Directories \X EnqueueBegun'
      BY <2>2, <2>4, <2>5, <2>6 DEF CountOf
    <3>2. ASSUME NEW d \in counted'[o].dirs \cap {"pending", "tmp"}, NEW q \in Observations, place[q] = d
          PROVE  <<d, q>> \in counted'[o].files
      <4>1. CASE d = dir
        BY <2>6, <3>2, <4>1 DEF In
      <4>2. CASE d # dir
        <5>1. d \in counted[o].dirs \cap {"pending", "tmp"} /\ q \in In({d})
          BY <2>6, <3>2, <4>2 DEF In
        <5> QED
          BY <2>1, <2>5, <2>6, <5>1 DEF CountOf
      <4> QED
        BY <4>1, <4>2
    <3>3. \A d \in counted'[o].dirs \cap {"pending", "tmp"} : \A q \in In({d})' : <<d, q>> \in counted'[o].files
      BY <1>1, <3>2 DEF In
    <3> QED
      BY <2>1, <2>6, <3>1, <3>3 DEF CountOf, Directories
  <2>8. ASSUME NEW q \in Observations, q # o
        PROVE  CountOf(q)'
    <3>1. counted'[q] = counted[q]
      BY <1>7, <2>1, <2>8
    <3>2. CountOf(q) /\ progress[q] # "count"
      BY <2>1, <2>8, BegunOnly DEF CapacityInv, CountsKept
    <3> QED
      BY <2>1, <2>2, <3>1, <3>2 DEF CountOf, Directories
  <2>9. CountsKept'
    BY <1>7, <2>1, <2>7, <2>8 DEF CountsKept
  <2> QED
    BY <1>6, <2>3, <2>9 DEF CapacityInv
<1> QED
  BY <1>8, <1>9

\* A count that leaves room was of at least the files that are there.
LEMMA RoomWhenCounted ==
    ASSUME OutboxInv, CapacityInv, NEW o \in Observations, progress[o] = "count", counted[o].dirs = Directories,
           Fits(o, counted[o].files)
    PROVE  Cardinality(Held) + 1 <= MaxFiles /\ Bytes(Held) + Size[o] <= MaxBytes
<1> DEFINE F == counted[o].files
<1>1. CountOf(o) /\ IsFiniteSet(EnqueueBegun) /\ EnqueueBegun \subseteq Observations
  BY DEF CapacityInv, CountsKept, OneEnqueue, EnqueueBegun
<1>2. F \in SUBSET (Directories \X Observations) /\ F \subseteq Directories \X EnqueueBegun
  BY <1>1 DEF CountOf
<1>3. IsFiniteSet(F)
  <2>1. IsFiniteSet({"pending"}) /\ IsFiniteSet({"quarantine"}) /\ IsFiniteSet({"tmp"})
    BY FS_Singleton
  <2>2. IsFiniteSet({"pending"} \cup {"quarantine"}) /\ Directories = ({"pending"} \cup {"quarantine"}) \cup {"tmp"}
    BY <2>1, FS_Union DEF Directories
  <2>3. IsFiniteSet(Directories)
    <3>1. IsFiniteSet(({"pending"} \cup {"quarantine"}) \cup {"tmp"})
      BY <2>1, <2>2, FS_Union
    <3> QED
      BY <2>2, <3>1
  <2>4. IsFiniteSet(Directories \X EnqueueBegun)
    BY <1>1, <2>3, FS_Product
  <2> QED
    BY <1>2, <2>4, FS_Subset
<1>4. \A q \in Held : <<place[q], q>> \in F
  <2> SUFFICES ASSUME NEW q \in Held PROVE <<place[q], q>> \in F
    OBVIOUS
  <2>1. place[q] \in counted[o].dirs \cap {"pending", "tmp"} /\ q \in In({place[q]})
    BY DEF Held, In, Directories
  <2> QED
    BY <1>1, <2>1 DEF CountOf
<1>5. Held \in SUBSET Observations
  BY DEF Held, In
<1>6. Cardinality(F) + 1 <= MaxFiles /\ Cardinality(FileBytes(F)) + Size[o] <= MaxBytes
  BY DEF Fits, FileBytes
<1> HIDE DEF F
<1>7. /\ Cardinality(Held) <= Cardinality(F) /\ Cardinality(F) \in Nat
      /\ Bytes(Held) <= Cardinality(FileBytes(F)) /\ Cardinality(FileBytes(F)) \in Nat
  BY <1>2, <1>3, <1>4, <1>5, CountedEnough
<1>8. IsFiniteSet(Held) /\ Cardinality(Held) \in Nat /\ Bytes(Held) \in Nat
  BY <1>5, HeldFinite, BytesFinite
<1>9. MaxFiles \in Nat /\ MaxBytes \in Nat /\ Size[o] \in Nat
  BY OutboxAssumption
<1> QED
  BY <1>6, <1>7, <1>8, <1>9

LEMMA CountedStays ==
    ASSUME OutboxInv, CapacityInv, OutboxInv', NEW o \in Observations, Counted(o)
    PROVE  CapacityInv'
<1>0. /\ waits \in SUBSET Observations /\ faults \in 0..MaxFaults /\ FaultsOver \in Nat /\ Unsynced \in {0, 1}
      /\ progress \in [Observations -> {"new", "count", "write", "rename", "sync", "end"}]
      /\ DOMAIN counted = Observations
  BY OverNumbers DEF CapacityInv, OneEnqueue, OutboxInv, Shape, CountsKept
<1>1. /\ UNCHANGED <<place, durable, drain, waits, received, stopped, faults>>
      /\ counted' = [counted EXCEPT ![o] = NothingCounted] /\ progress[o] = "count"
  BY DEF Counted
<1>2. /\ progress'[o] \in {"write", "end"}
      /\ progress'[o] = "write" => Fits(o, counted[o].files)
      /\ \A q \in Observations : q # o => progress'[q] = progress[q]
  BY <1>0 DEF Counted
<1>3. \A q \in Observations : q # o => progress[q] \in {"new", "end"}
  BY <1>1, BegunOnly
<1>4. Held' = Held /\ Undoable' = Undoable /\ FaultsOver' = FaultsOver /\ Unsynced' = Unsynced
  BY <1>1 DEF Held, Undoable, In, FaultsOver, Unsynced
<1>5. Capacity'
  BY <1>1, <1>4 DEF Capacity, CapacityInv
<1>6. \A q \in Observations : RoomOf(q)'
  <2>1. ASSUME progress'[o] = "write"
        PROVE  Cardinality(Held') + 1 <= MaxFiles /\ Bytes(Held') + Size[o] <= MaxBytes
    BY <1>1, <1>2, <1>4, <2>1, RoomWhenCounted DEF Counted
  <2> QED
    BY <1>2, <1>3, <2>1 DEF RoomOf
<1>7. EnqueueBegun' = EnqueueBegun
  BY <1>1, <1>2 DEF EnqueueBegun
<1>8. OneEnqueue'
  <2>1. \A p, q \in Observations : {progress'[p], progress'[q]} \cap {"new", "end"} = {} => p = q
    BY <1>2, <1>3
  <2> QED
    BY <1>0, <1>1, <1>7, <2>1 DEF CapacityInv, OneEnqueue
<1>9. CountsKept'
  <2> SUFFICES ASSUME NEW q \in Observations PROVE CountOf(q)'
    BY <1>0, <1>1 DEF CountsKept
  <2>1. counted'[q] = NothingCounted /\ progress'[q] # "count"
    <3>1. CASE q = o
      BY <1>0, <1>1, <1>2, <3>1
    <3>2. CASE q # o
      <4>1. CountOf(q)
        BY DEF CapacityInv, CountsKept
      <4> QED
        BY <1>0, <1>1, <1>2, <1>3, <3>2, <4>1 DEF CountOf
    <3> QED
      BY <3>1, <3>2
  <2> QED
    BY <2>1 DEF CountOf, NothingCounted
<1> QED
  BY <1>5, <1>6, <1>8, <1>9 DEF CapacityInv

\* The file that is written is the one there was room for.
LEMMA WriteStays ==
    ASSUME OutboxInv, CapacityInv, OutboxInv', NEW o \in Observations, WriteFile(o)
    PROVE  CapacityInv'
<1>0. /\ waits \in SUBSET Observations /\ faults \in 0..MaxFaults
      /\ progress \in [Observations -> {"new", "count", "write", "rename", "sync", "end"}]
      /\ place \in [Observations -> Places]
  BY DEF CapacityInv, OneEnqueue, OutboxInv, Shape
<1>1. /\ UNCHANGED <<durable, counted, answer, drain, waits, received, stopped, faults>>
      /\ progress[o] = "write" /\ progress' = [progress EXCEPT ![o] = "rename"] /\ place' = [place EXCEPT ![o] = "tmp"]
  BY DEF WriteFile
<1>2. place[o] = "none"
  BY <1>1 DEF OutboxInv, Each, Written
<1>3. Held' = Held \cup {o} /\ Undoable' \subseteq Undoable
  BY <1>0, <1>1, <1>2 DEF Held, In, Undoable
<1>4. FaultsOver' = FaultsOver /\ Unsynced' = Unsynced
  BY <1>1 DEF FaultsOver, Unsynced
<1>5. Cardinality(Held) + 1 <= MaxFiles /\ Bytes(Held) + Size[o] <= MaxBytes
  BY <1>1 DEF CapacityInv, RoomOf
<1>6. MaxFiles \in Nat /\ MaxBytes \in Nat /\ Size[o] \in Nat
  BY OutboxAssumption
<1>7. /\ IsFiniteSet(Held) /\ IsFiniteSet(Undoable) /\ Held \in SUBSET Observations /\ FaultsOver \in Nat /\ Unsynced \in {0, 1}
      /\ Cardinality(Held) \in Nat /\ Cardinality(Undoable) \in Nat
  BY HeldFinite
<1>8. IsFiniteSet(Held') /\ Cardinality(Held') \in Nat /\ Cardinality(Held') <= MaxFiles
  <2>1. /\ IsFiniteSet(Held \cup {o}) /\ Cardinality(Held \cup {o}) <= Cardinality(Held) + 1
        /\ Cardinality(Held \cup {o}) \in Nat
    BY <1>7, CardinalityMore
  <2>2. Cardinality(Held \cup {o}) <= MaxFiles
    BY <1>5, <1>6, <1>7, <2>1
  <2> QED
    BY <1>3, <2>1, <2>2
<1>9. Bytes(Held') <= MaxBytes
  <2>1. Bytes(Held \cup {o}) <= Bytes(Held) + Size[o] /\ Bytes(Held) \in Nat /\ Bytes(Held \cup {o}) \in Nat
    <3>1. IsFiniteSet(Held \cup {o}) /\ Held \cup {o} \in SUBSET Observations
      BY <1>3, <1>7, <1>8
    <3> QED
      BY <1>7, <3>1, BytesMore, BytesFinite
  <2> QED
    BY <1>3, <1>5, <1>6, <2>1
<1>10. /\ Cardinality(Undoable') <= Cardinality(Undoable) /\ IsFiniteSet(Undoable') /\ Cardinality(Undoable') \in Nat
  BY <1>3, <1>7, CardinalityLess
<1>11. Cardinality(Held' \cup Undoable') <= Cardinality(Held') + Cardinality(Undoable')
       /\ Cardinality(Held' \cup Undoable') \in Nat
  <2>1. IsFiniteSet(Held' \cup Undoable')
        /\ Cardinality(Held' \cup Undoable') = Cardinality(Held') + Cardinality(Undoable') - Cardinality(Held' \cap Undoable')
    BY <1>8, <1>10, FS_Union
  <2>2. IsFiniteSet(Held' \cap Undoable')
    BY <1>8, FS_Subset
  <2>3. Cardinality(Held' \cap Undoable') \in Nat /\ Cardinality(Held' \cup Undoable') \in Nat
    BY <2>1, <2>2, FS_CardinalityType
  <2> QED
    BY <1>8, <1>10, <2>1, <2>3
<1>12. Capacity'
  <2> DEFINE m == FaultsOver + Unsynced
  <2>1. Cardinality(Undoable) <= m /\ m \in Nat /\ MaxFiles + FaultsOver + Unsynced = MaxFiles + m
    <3>1. Cardinality(Undoable) <= FaultsOver + Unsynced
      BY DEF CapacityInv, Capacity
    <3>2. \A a, b \in Nat : \A i \in {0, 1} : a + i \in Nat /\ b + a + i = b + (a + i)
      OBVIOUS
    <3> QED
      BY <1>6, <1>7, <3>1, <3>2
  <2>2. Cardinality(Held') <= MaxFiles + FaultsOver
    BY <1>6, <1>7, <1>8
  <2> HIDE DEF m
  <2>3. Cardinality(Undoable') <= m
    BY <1>7, <1>10, <2>1
  <2>4. Cardinality(Held' \cup Undoable') <= MaxFiles + m
    BY <1>6, <1>8, <1>10, <1>11, <2>1, <2>3
  <2> QED
    BY <1>1, <1>4, <1>9, <2>1, <2>2, <2>3, <2>4 DEF Capacity, m
<1>13. \A q \in Observations : progress'[q] = (IF q = o THEN "rename" ELSE progress[q])
  BY <1>0, <1>1
<1>14. \A q \in Observations : q # o => progress[q] \in {"new", "end"}
  BY <1>1, BegunOnly
<1>15. \A q \in Observations : RoomOf(q)'
  BY <1>13, <1>14 DEF RoomOf
<1>16. OneEnqueue' /\ CountsKept'
  BY <1>0, <1>1, <1>13, <1>14, EnqueueStays
<1> QED
  BY <1>12, <1>15, <1>16 DEF CapacityInv

LEMMA EnqueueingStays ==
    ASSUME OutboxInv, CapacityInv, OutboxInv', NEW o \in Observations, Enqueueing(o)
    PROVE  CapacityInv'
<1>0. /\ waits \in SUBSET Observations /\ faults \in 0..MaxFaults
      /\ FaultsOver \in Nat /\ FaultsOver' \in Nat /\ Unsynced \in {0, 1} /\ Unsynced' \in {0, 1}
      /\ progress \in [Observations -> {"new", "count", "write", "rename", "sync", "end"}]
      /\ place \in [Observations -> Places]
  BY OverNumbers DEF CapacityInv, OneEnqueue, OutboxInv, Shape
<1>a. \A a \in Nat : \A i \in {0, 1} : a <= a /\ a + i <= a + i
  OBVIOUS
<1>1. CASE RenameFile(o) \/ SyncFile(o)
  <2>1. UNCHANGED <<counted, drain, waits, received, stopped, faults>> /\ progress[o] \in {"rename", "sync"}
    BY <1>1 DEF RenameFile, SyncFile
  <2>2. \A q \in Observations : q # o => progress[q] \in {"new", "end"}
    BY <2>1, BegunOnly
  <2>3. progress'[o] \in {"sync", "end"} /\ \A q \in Observations : q # o => progress'[q] = progress[q]
    BY <1>0, <1>1 DEF RenameFile, SyncFile
  <2>4. FaultsOver' = FaultsOver /\ Unsynced' = Unsynced
    BY <2>1 DEF FaultsOver, Unsynced
  <2>5. FaultsOver <= FaultsOver' /\ FaultsOver + Unsynced <= FaultsOver' + Unsynced'
    BY <1>0, <1>a, <2>4
  <2>6. Held' \subseteq Held /\ Undoable' \subseteq Undoable
    <3>1. CASE RenameFile(o)
      <4>1. place[o] = "tmp" /\ place' = [place EXCEPT ![o] = "pending"] /\ durable' = durable
        BY <3>1 DEF RenameFile, OutboxInv, Each, Written
      <4> QED
        BY <1>0, <4>1 DEF Held, Undoable, In
    <3>2. CASE SyncFile(o)
      BY <3>2 DEF SyncFile, Held, Undoable, In
    <3> QED
      BY <1>1, <3>1, <3>2
  <2>7. Capacity' /\ \A q \in Observations : RoomOf(q)'
    BY <1>0, <2>1, <2>3, <2>5, <2>6, CapacityStays
  <2>8. \A q \in Observations : progress'[q] # "count"
    BY <2>2, <2>3
  <2>9. OneEnqueue' /\ CountsKept'
    BY <1>0, <2>1, <2>2, <2>3, <2>8, EnqueueStays
  <2> QED
    BY <2>7, <2>9 DEF CapacityInv
<1> QED
  BY <1>1, CountStays, CountedStays, WriteStays DEF Enqueueing

LEMMA CapacityStep == OutboxInv /\ CapacityInv /\ [OutboxNext]_outboxVars => CapacityInv'
<1> SUFFICES ASSUME OutboxInv, CapacityInv, [OutboxNext]_outboxVars PROVE CapacityInv'
  OBVIOUS
<1>1. OutboxInv'
  BY NextKeeps
<1>0. /\ waits \in SUBSET Observations /\ faults \in 0..MaxFaults /\ FaultsOver \in Nat /\ Unsynced \in {0, 1}
  BY OverNumbers DEF CapacityInv, OneEnqueue
<1>2. CASE (\E o \in Observations : DelayEnds(o)) \/ UNCHANGED outboxVars
  <2>1. UNCHANGED <<place, durable, progress, counted, drain, stopped, faults>> /\ waits' \in SUBSET Observations
    BY <1>0, <1>2 DEF DelayEnds, outboxVars
  <2>2. FaultsOver' = FaultsOver /\ Unsynced' = Unsynced
    BY <2>1 DEF FaultsOver, Unsynced
  <2>3. \A a \in Nat : \A i \in {0, 1} : a <= a /\ a + i <= a + i
    OBVIOUS
  <2>4. FaultsOver <= FaultsOver' /\ FaultsOver + Unsynced <= FaultsOver' + Unsynced'
    BY <1>0, <2>2, <2>3
  <2> QED
    BY <1>0, <1>1, <2>1, <2>4, QuietStep
<1> QED
  BY <1>1, <1>2, EnqueueingStays, DrainStays, FaultStays DEF OutboxNext

LEMMA InitCapacity == OutboxInit => CapacityInv
<1> SUFFICES ASSUME OutboxInit PROVE CapacityInv
  OBVIOUS
<1>1. EnqueueBegun = {} /\ Held = {} /\ Undoable = {} /\ Held \cup Undoable = {} /\ FaultsOver = 0 /\ Unsynced = 0 /\ faults = 0
  BY DEF OutboxInit, EnqueueBegun, Held, Undoable, In, FaultsOver, Unsynced, NoDrain
<1>2. IsFiniteSet({}) /\ Cardinality({}) = 0 /\ Bytes({}) = 0
  <2>1. ByteSet({}) = {}
    BY DEF ByteSet
  <2>2. Bytes({}) = Cardinality(ByteSet({}))
    BY ByteSetMembers
  <2> QED
    BY <2>1, <2>2, FS_EmptySet
<1>3. OneEnqueue
  <2>1. \A o, p \in Observations : "new" \in {progress[o], progress[p]} \cap {"new", "end"}
    BY DEF OutboxInit
  <2>2. waits \in SUBSET Observations /\ faults \in 0..MaxFaults
    BY <1>1, OutboxAssumption DEF OutboxInit
  <2>3. IsFiniteSet(EnqueueBegun)
    BY <1>1, <1>2
  <2> QED
    BY <2>1, <2>2, <2>3 DEF OneEnqueue
<1>4. CountsKept
  BY DEF OutboxInit, CountsKept, CountOf, NothingCounted
<1>5. Capacity
  BY <1>1, <1>2, OutboxAssumption DEF Capacity
<1> QED
  BY <1>3, <1>4, <1>5 DEF CapacityInv, RoomOf, OutboxInit

\* What the outbox promises through faults of the disk, the network and the
\* process holds for every set of observations, size and capacity: what was
\* acknowledged is kept, the pending directory stays within its limits, and
\* duplicates are explained by faults.
THEOREM OutboxIsSafe == OutboxSpec => []OutboxSafe
<1>1. OutboxSpec => []CapacityInv
  BY InitCapacity, CapacityStep, OutboxInvariant, PTL DEF OutboxSpec
<1>2. ASSUME OutboxInv, CapacityInv
      PROVE  OutboxSafe
  <2>1. OutboxTypeOK
    <3>1. counted \in [Observations -> [dirs : SUBSET Directories, files : SUBSET (Directories \X Observations)]]
      <4>1. \A o \in Observations : counted[o] \in [dirs : SUBSET Directories, files : SUBSET (Directories \X Observations)]
        BY <1>2 DEF CapacityInv, CountsKept, CountOf
      <4>2. counted = [o \in Observations |-> counted[o]]
        BY <1>2 DEF CapacityInv, CountsKept
      <4> QED
        BY <4>1, <4>2
    <3> QED
      BY <1>2, <3>1 DEF OutboxTypeOK, OutboxInv, Shape, CapacityInv, OneEnqueue
  <2>2. AcknowledgedKept
    BY <1>2 DEF OutboxInv, Each, Safe, AcknowledgedKept, Kept
  <2>3. DuplicateNeedsFault
    BY <1>2 DEF OutboxInv, Shape, Each, Repeated, DuplicateNeedsFault, FaultsOver
  <2>4. PendingBounded
    <3>1. Cardinality(Held) <= MaxFiles + FaultsOver /\ (faults = 0 => Bytes(Held) <= MaxBytes)
      BY <1>2 DEF CapacityInv, Capacity
    <3>2. FaultsOver \in Nat /\ FaultsOver <= faults /\ faults \in Nat /\ MaxFiles \in Nat /\ Cardinality(Held) \in Nat
      BY <1>2, HeldFinite, OutboxAssumption DEF FaultsOver, OutboxInv, Shape
    <3>3. Cardinality(Held) <= MaxFiles + faults
      BY <3>1, <3>2
    <3> QED
      BY <3>1, <3>3 DEF PendingBounded, Held
  <2> QED
    BY <2>1, <2>2, <2>3, <2>4 DEF OutboxSafe
<1> QED
  BY <1>1, <1>2, OutboxInvariant, PTL

=============================================================================
