-------------------------- MODULE ManagementProofs --------------------------
(***************************************************************************)
(* Access to a Resource and its publication, for any number of             *)
(* transactions, requests, entitlements, publications and reviews.         *)
(*                                                                         *)
(* Access.  The inductive invariant has three parts: what is committed;    *)
(* what one open transaction will write, which its locks keep true until   *)
(* it commits; and that two open transactions write different rows and     *)
(* never both hold the Resource, of which a foreign key's lock is a weak   *)
(* form.  A commit then turns the second part into the first.              *)
(*                                                                         *)
(* Publishing.  The attempt of a review is its own and the Resource's      *)
(* revision counts its edits: so a build that was claimed is committed for *)
(* the revision it was claimed for, or not at all.                         *)
(***************************************************************************)
EXTENDS ResourcePublication, AccessEntitlements, FiniteSetTheorems, WellFoundedInduction, TLAPS

-----------------------------------------------------------------------------
(* Access *)

AccessOps == {"NONE", "request", "approve", "deny", "cancel", "grant", "auto", "revoke", "publish", "lifecycle"}
Resolved == {"APPROVED", "DENIED", "CANCELLED"}

TxRows ==
    [op : AccessOps, step : Steps, subject : Subjects \cup {Nobody}, key : Keys \cup {NoKey},
     req : 0..MaxRequests, reqState : Resolved \cup {"NONE", "PENDING"},
     ent : 0..MaxEntitlements, entState : {"NONE", "ACTIVE", "REVOKED"},
     born : AccessLifecycles \cup {"NONE"}, gateway : BOOLEAN,
     life : {"NONE", "PUBLISHED", "DEPRECATED", "RETIRED"}, released : BOOLEAN, snap : SUBSET EntIds]

\* The types the proof needs.
AccessShape ==
    /\ lifecycle \in AccessLifecycles /\ visibility \in Visibilities
    /\ requests \in [RequestIds ->
          [state : Resolved \cup {"NONE", "PENDING"},
           subject : Subjects \cup {Nobody}, ent : 0..MaxEntitlements]]
    /\ ents \in [EntIds ->
          [state : {"NONE", "ACTIVE", "REVOKED"}, subject : Subjects \cup {Nobody},
           key : Keys \cup {NoKey}, via : {"NONE", "approve", "grant", "auto"},
           born : AccessLifecycles \cup {"NONE"}]]
    /\ lapsed \subseteq EntIds /\ head \subseteq EntIds
    /\ audit \in [AutoKeys -> [ent : 0..MaxEntitlements,
                               activation : {"NONE", "GRANTED", "ALREADY_ENTITLED"}]]
    /\ answers \in [Keys -> SUBSET EntIds]
    /\ tx \in [Transactions -> TxRows] /\ DOMAIN held = Transactions

-----------------------------------------------------------------------------
(* What is committed. *)

OnePendingEach ==
    \A q, r \in RequestIds : /\ requests[q].state = "PENDING" /\ requests[r].state = "PENDING"
                             /\ requests[q].subject = requests[r].subject
                             => q = r

\* Approvals and the entitlements they made, one to one.
ApprovalsInv ==
    /\ \A r \in RequestIds : requests[r].state = "APPROVED" =>
          /\ requests[r].ent \in EntIds /\ ents[requests[r].ent].via = "approve"
          /\ ents[requests[r].ent].subject = requests[r].subject
    /\ \A e \in EntIds : ents[e].via = "approve" =>
          \E r \in RequestIds : requests[r].state = "APPROVED" /\ requests[r].ent = e
    /\ \A q, r \in RequestIds : /\ requests[q].state = "APPROVED" /\ requests[r].state = "APPROVED"
                                /\ requests[q].ent = requests[r].ent
                                => q = r

\* A key is an entitlement's, and is answered with it; a correlation is answered
\* with what its event names.
KeysInv ==
    /\ \A e \in EntIds : ents[e].state = "NONE" => ents[e] = NoEnt
    /\ \A d, e \in EntIds : ents[d].key # NoKey /\ ents[d].key = ents[e].key => d = e
    /\ \A k \in GrantKeys : answers[k] \subseteq KeyedBy(k)
    /\ \A k \in AutoKeys : answers[k] \subseteq {audit[k].ent}

OneAutoEach ==
    \A d, e \in EntIds : /\ Effective(d) /\ Effective(e) /\ ents[d].via = "auto" /\ ents[e].via = "auto"
                         /\ ents[d].subject = ents[e].subject
                         => d = e

CommittedInv ==
    /\ OnePendingEach /\ ApprovalsInv /\ KeysInv /\ OneAutoEach /\ GrantedIsCarried /\ RetiredIsWithheld

-----------------------------------------------------------------------------
(* What a transaction will write. *)

Active(t) == tx[t].entState = "ACTIVE"

\* Which operation is at which step.
OpInv(t) ==
    /\ tx[t].step \in {"active", "existing", "pending"} => tx[t].op = "request"
    /\ tx[t].step = "find" => tx[t].op = "grant"
    /\ tx[t].step = "insert" => tx[t].op \in {"approve", "grant", "auto"}
    /\ tx[t].step = "publication" => tx[t].op \in {"approve", "grant"}
    /\ tx[t].step \in {"target", "prior", "current", "audit"} => tx[t].op = "auto"
    /\ tx[t].step = "lock" => tx[t].op = "revoke"
    /\ tx[t].step = "served" => tx[t].op = "lifecycle"
    /\ tx[t].op = "auto" => tx[t].key \in AutoKeys
    /\ tx[t].op = "grant" => tx[t].key \in GrantKeys \cup {NoKey}
    /\ tx[t].op \notin {"auto", "grant"} => tx[t].key = NoKey
    /\ tx[t].life # "NONE" => tx[t].op \in {"publish", "lifecycle"}

\* The request it inserts is its own, the one it resolves is locked and pending.
RequestInv(t) ==
    /\ tx[t].req # 0 =>
         \/ /\ tx[t].op = "request" /\ tx[t].reqState = "PENDING"
            /\ requests[tx[t].req].state = "NONE" /\ PendingFor(tx[t].subject) = {}
         \/ /\ tx[t].op \in {"approve", "deny", "cancel"} /\ tx[t].reqState \in Resolved
            /\ RequestRow(tx[t].req) \in held[t] /\ requests[tx[t].req].state = "PENDING"
    /\ tx[t].reqState = "APPROVED" <=> tx[t].op = "approve"
    /\ tx[t].op = "approve" => tx[t].req # 0 /\ (tx[t].step = "insert" \/ Active(t))

\* The entitlement it grants is its own, and the Resource is held as the
\* foreign key's target; the one it returns was granted before.
EntInv(t) ==
    /\ Active(t) =>
         /\ tx[t].ent \in EntIds /\ ents[tx[t].ent].state = "NONE"
         /\ tx[t].op \in {"approve", "grant", "auto"} /\ ResourceKey \in held[t]
         /\ KeyedBy(tx[t].key) = {}
         /\ tx[t].step \in {"publication", "gateway", "compile", "read", "audit", "commit"}
    /\ tx[t].entState = "REVOKED" => tx[t].ent \in EntIds /\ ents[tx[t].ent].state # "NONE"
    /\ tx[t].step = "lock" => tx[t].ent \in EntIds /\ ents[tx[t].ent].state # "NONE"
    /\ tx[t].op = "grant" /\ ~ Active(t) =>
         /\ tx[t].step \in {"find", "insert", "commit"}
         /\ tx[t].step = "commit" => tx[t].ent \in KeyedBy(tx[t].key)
    /\ tx[t].step = "commit" /\ Active(t) /\ ~ tx[t].released => lifecycle # "PUBLISHED"

\* An activation holds the Resource, and nothing else is granted to its subject
\* automatically meanwhile; at its end it agrees with the event of its correlation.
AutoInv(t) ==
    tx[t].op = "auto" =>
       /\ tx[t].step \notin {"idle", "target"} => Resource \in held[t]
       /\ tx[t].step \in {"insert", "gateway", "compile", "read"} \/ Active(t) =>
            \A e \in EntIds : Effective(e) /\ ents[e].subject = tx[t].subject => ents[e].via # "auto"
       /\ tx[t].step \in {"current", "insert"} => KeyedBy(tx[t].key) = {}
       /\ tx[t].step \in {"gateway", "compile", "read"} => Active(t)
       /\ tx[t].step \in {"audit", "commit"} => tx[t].ent \in EntIds /\ (Active(t) => tx[t].released)
       /\ tx[t].step = "commit" => audit[tx[t].key].ent \in {0, tx[t].ent}

\* A release carries what is in force, or nothing when the Resource is not served.
ReleaseInv(t) ==
    /\ tx[t].step = "read" \/ tx[t].op = "lifecycle" => Resource \in held[t]
    /\ tx[t].released =>
         /\ tx[t].step \in {"audit", "commit"} /\ Resource \in held[t]
         /\ IF LifecycleIn(t) \in Served
            THEN \A e \in EntIds : StateIn(t, e) = "ACTIVE" /\ e \notin lapsed => e \in tx[t].snap
            ELSE tx[t].snap = {}
    /\ tx[t].step = "commit" /\ tx[t].life # "NONE" => tx[t].released

TxInv(t) == OpInv(t) /\ RequestInv(t) /\ EntInv(t) /\ AutoInv(t) /\ ReleaseInv(t)

\* Two transactions write different rows, and only one has the Resource.
Apart(t, u) ==
    /\ tx[t].req # 0 => tx[u].req # tx[t].req
    /\ (tx[t].op = "request" /\ tx[t].req # 0) /\ (tx[u].op = "request" /\ tx[u].req # 0) =>
         tx[t].subject # tx[u].subject
    /\ Active(t) => tx[u].ent # tx[t].ent
    /\ Active(t) /\ Active(u) /\ tx[t].key # NoKey => tx[u].key # tx[t].key
    /\ Resource \in held[t] => Resource \notin held[u] /\ ResourceKey \notin held[u]

AccessInv ==
    /\ AccessShape /\ CommittedInv
    /\ \A t \in Transactions : TxInv(t)
    /\ \A t, u \in Transactions : t # u => Apart(t, u)

-----------------------------------------------------------------------------
\* A transaction that has not begun.
LEMMA IdleRow ==
    /\ AccessIdle \in TxRows
    /\ AccessIdle.op = "NONE" /\ AccessIdle.step = "idle" /\ AccessIdle.subject = Nobody
    /\ AccessIdle.key = NoKey /\ AccessIdle.req = 0 /\ AccessIdle.reqState = "NONE"
    /\ AccessIdle.ent = 0 /\ AccessIdle.entState = "NONE" /\ AccessIdle.born = "NONE"
    /\ ~ AccessIdle.gateway /\ AccessIdle.life = "NONE" /\ ~ AccessIdle.released /\ AccessIdle.snap = {}
<1>1. PICK v \in BOOLEAN, w \in BOOLEAN : /\ ~ v /\ ~ w
        /\ AccessIdle = [op |-> "NONE", step |-> "idle", subject |-> Nobody, key |-> NoKey,
              req |-> 0, reqState |-> "NONE", ent |-> 0, entState |-> "NONE",
              born |-> "NONE", gateway |-> v, life |-> "NONE", released |-> w, snap |-> {}]
  BY Zenon DEF AccessIdle
<1>2. 0 \in 0..MaxRequests /\ 0 \in 0..MaxEntitlements
  BY AccessAssumption
<1> QED
  BY <1>1, <1>2 DEF TxRows, AccessOps, Steps

\* A set of ids that is not empty has a smallest one.
LEMMA SmallestId ==
    ASSUME NEW T, T \subseteq Nat, T # {}
    PROVE  Min(T) \in T
<1> DEFINE R == OpToRel(<, Nat)
<1> HIDE DEF R
<1>1. IsWellFoundedOn(R, Nat)
  BY NatLessThanWellFounded DEF R
<1>2. \A x, y \in Nat : <<y, x>> \in R <=> y < x
  BY DEF OpToRel, R
<1>3. PICK m \in T : \A n \in T : ~ (<<n, m>> \in R)
  BY <1>1, WFMin
<1>4. \A n \in T : m =< n
  <2>1. \A n \in T : ~ (n < m)
    BY <1>2, <1>3
  <2> QED
    BY <2>1
<1> QED
  BY <1>4 DEF Min

\* The ids the inserts take are free: no row and no transaction has them.
LEMMA NewIds ==
    /\ FreeRequests # {} => NewRequest \in FreeRequests /\ NewRequest \in RequestIds
    /\ FreeEnts # {} => NewEnt \in FreeEnts /\ NewEnt \in EntIds
<1>1. FreeRequests \subseteq RequestIds /\ RequestIds \subseteq Nat
  BY AccessAssumption DEF FreeRequests, RequestIds
<1>2. FreeEnts \subseteq EntIds /\ EntIds \subseteq Nat
  BY AccessAssumption DEF FreeEnts, EntIds
<1> QED
  BY <1>1, <1>2, SmallestId DEF NewRequest, NewEnt

\* The rows a step takes are nobody else's.
ApartStep(t) ==
    /\ tx'[t].req \in {0, tx[t].req} \/ \A u \in Transactions \ {t} : tx[u].req # tx'[t].req
    /\ tx'[t].op = "request" /\ tx'[t].req # 0 =>
         \A u \in Transactions \ {t} : tx[u].op = "request" /\ tx[u].req # 0 => tx[u].subject # tx'[t].subject
    /\ tx'[t].entState = "ACTIVE" =>
         \/ Active(t) /\ tx'[t].ent = tx[t].ent /\ tx'[t].key = tx[t].key
         \/ \A u \in Transactions \ {t} :
               /\ tx[u].ent # tx'[t].ent
               /\ Active(u) /\ tx'[t].key # NoKey => tx[u].key # tx'[t].key
    /\ \A u \in Transactions \ {t} : Active(u) => tx[u].ent # tx'[t].ent
    /\ Resource \in held'[t] => Resource \in held[t] \/ ResourceFree(t)
    /\ ResourceKey \in held'[t] => ResourceKey \in held[t] \/ Free(t, Resource)

\* A transaction's step that commits nothing.
Quiet(t) ==
    /\ UNCHANGED Tables
    /\ tx' \in [Transactions -> TxRows] /\ DOMAIN held' = Transactions
    /\ \A u \in Transactions \ {t} : tx'[u] = tx[u] /\ held'[u] = held[u]

\* Transactions stay apart when the rows a step takes are nobody else's.
LEMMA ApartKeeps ==
    ASSUME AccessInv, NEW t \in Transactions, ApartStep(t),
           \A u \in Transactions \ {t} : tx'[u] = tx[u] /\ held'[u] = held[u]
    PROVE  \A u, v \in Transactions : u # v => Apart(u, v)'
<1>1. ASSUME NEW u \in Transactions, u # t PROVE Apart(t, u)' /\ Apart(u, t)'
  <2>1. tx'[u] = tx[u] /\ held'[u] = held[u] /\ Apart(t, u) /\ Apart(u, t)
    BY <1>1 DEF AccessInv
  <2>2. Apart(t, u)'
    BY <1>1, <2>1 DEF ApartStep, Apart, Active, Free, ResourceFree
  <2>3. Apart(u, t)'
    BY <1>1, <2>1 DEF ApartStep, Apart, Active, Free, ResourceFree
  <2> QED
    BY <2>2, <2>3
<1>2. ASSUME NEW u \in Transactions, NEW v \in Transactions, u # v PROVE Apart(u, v)'
  <2>1. CASE u # t /\ v # t
    <3>1. tx'[u] = tx[u] /\ held'[u] = held[u] /\ tx'[v] = tx[v] /\ held'[v] = held[v] /\ Apart(u, v)
      BY <1>2, <2>1 DEF AccessInv
    <3> QED
      BY <3>1 DEF Apart, Active
  <2> QED
    BY <1>1, <1>2, <2>1
<1> QED
  BY <1>2

\* A step that commits nothing keeps the invariant when what the transaction itself
\* will write stays right and the rows it takes are nobody else's.
LEMMA QuietStep ==
    ASSUME AccessInv, NEW t \in Transactions, Quiet(t), ApartStep(t), TxInv(t)'
    PROVE  AccessInv'
<1>1. AccessShape'
  BY DEF AccessInv, AccessShape, Quiet, Tables
<1>2. CommittedInv'
  BY DEF AccessInv, CommittedInv, Quiet, Tables, OnePendingEach, ApprovalsInv, KeysInv, OneAutoEach,
     GrantedIsCarried, RetiredIsWithheld, KeyedBy, Effective
<1>3. ASSUME NEW u \in Transactions, u # t PROVE TxInv(u)'
  <2>1. tx'[u] = tx[u] /\ held'[u] = held[u] /\ TxInv(u)
    BY <1>3 DEF AccessInv, Quiet
  <2>2. LifecycleIn(u)' = LifecycleIn(u) /\ \A e \in EntIds : StateIn(u, e)' = StateIn(u, e)
    BY <2>1 DEF LifecycleIn, StateIn, Quiet, Tables
  <2>3. /\ PendingFor(tx[u].subject)' = PendingFor(tx[u].subject) /\ KeyedBy(tx[u].key)' = KeyedBy(tx[u].key)
        /\ \A e \in EntIds : Effective(e)' = Effective(e)
    BY <2>1 DEF PendingFor, KeyedBy, Effective, Quiet, Tables
  <2> QED
    BY <2>1, <2>2, <2>3 DEF TxInv, OpInv, RequestInv, EntInv, AutoInv, ReleaseInv, Active, Quiet, Tables
<1>4. \A u, v \in Transactions : u # v => Apart(u, v)'
  BY ApartKeeps DEF Quiet
<1> QED
  BY <1>1, <1>2, <1>3, <1>4 DEF AccessInv

\* A transaction that ends without committing.
LEMMA EndStep ==
    ASSUME AccessInv, NEW t \in Transactions, End(t), UNCHANGED Tables
    PROVE  AccessInv'
<1>1. /\ tx'[t] = AccessIdle /\ held'[t] = {} /\ Quiet(t)
  BY IdleRow DEF AccessInv, AccessShape, End, Set, Quiet
<1>2. ApartStep(t)
  <2>1. \A u \in Transactions : Active(u) => tx[u].ent # 0
    BY AccessAssumption DEF AccessInv, TxInv, EntInv, EntIds
  <2> QED
    BY <1>1, <2>1, IdleRow DEF ApartStep
<1>3. TxInv(t)'
  BY <1>1, IdleRow DEF TxInv, OpInv, RequestInv, EntInv, AutoInv, ReleaseInv, Active
<1> QED
  BY <1>1, <1>2, <1>3, QuietStep

\* A transaction that begins has written nothing yet.
LEMMA BeginStep ==
    ASSUME AccessInv, NEW t \in Transactions, Quiet(t), At(t, "idle"), held[t] \subseteq held'[t],
           tx'[t].op \in AccessOps \ {"NONE"}, tx'[t].entState = "NONE", ~ tx'[t].released, OpInv(t)',
           /\ tx'[t].req = 0
              \/ /\ Free(t, RequestRow(tx'[t].req)) /\ tx'[t].op \in {"approve", "deny", "cancel"}
                 /\ tx'[t].reqState \in Resolved /\ tx'[t].req \in RequestIds
                 /\ RequestRow(tx'[t].req) \in held'[t] /\ requests[tx'[t].req].state = "PENDING"
           /\ tx'[t].reqState = "APPROVED" <=> tx'[t].op = "approve"
           /\ tx'[t].op = "approve" => tx'[t].req # 0 /\ tx'[t].step = "insert"
           /\ tx'[t].ent = 0 \/ (tx'[t].ent \in EntIds /\ ents[tx'[t].ent].state # "NONE")
           /\ tx'[t].step = "lock" => tx'[t].ent # 0,
           tx'[t].op = "grant" => tx'[t].step \in {"find", "insert"},
           tx'[t].op = "auto" => tx'[t].step = "target",
           tx'[t].step \in {"active", "find", "insert", "commit", "target", "lock", "gateway", "served"},
           tx'[t].op = "lifecycle" => Resource \in held'[t],
           tx'[t].step = "commit" => tx'[t].life = "NONE",
           Resource \in held'[t] => Resource \in held[t] \/ ResourceFree(t),
           ResourceKey \in held'[t] => ResourceKey \in held[t]
    PROVE  AccessInv'
<1>0. UNCHANGED Tables
  BY DEF Quiet
<1>1. ApartStep(t)
  <2>1. ASSUME NEW u \in Transactions, u # t, tx'[t].req # 0 PROVE tx[u].req # tx'[t].req
    <3> SUFFICES ASSUME tx[u].req = tx'[t].req PROVE FALSE
      OBVIOUS
    <3>1. RequestInv(u) /\ tx[u].req # 0
      BY <2>1 DEF AccessInv, TxInv
    <3>2. requests[tx[u].req].state = "PENDING" /\ RequestRow(tx[u].req) \notin held[u]
      BY <2>1 DEF Free
    <3> QED
      BY <3>1, <3>2 DEF RequestInv
  <2>2. ASSUME NEW u \in Transactions, Active(u) PROVE tx[u].ent # tx'[t].ent
    <3>1. EntInv(u)
      BY DEF AccessInv, TxInv
    <3> QED
      BY <2>2, <3>1, AccessAssumption DEF EntInv, EntIds
  <2> QED
    BY <2>1, <2>2 DEF ApartStep
<1>2. RequestInv(t)'
  BY <1>0, AccessAssumption DEF RequestInv, Tables
<1>3. EntInv(t)'
  BY <1>0 DEF EntInv, Active, Tables
<1>4. AutoInv(t)' /\ ReleaseInv(t)'
  BY DEF AutoInv, ReleaseInv, Active
<1> QED
  BY <1>1, <1>2, <1>3, <1>4, QuietStep DEF TxInv

\* A statement that writes the transaction's own row and takes locks.
LEMMA Setting ==
    ASSUME AccessInv, NEW t \in Transactions, NEW row \in TxRows, NEW rows,
           Set(t, row), Hold(t, rows) \/ (rows = {} /\ UNCHANGED held), UNCHANGED Tables
    PROVE  Quiet(t) /\ tx'[t] = row /\ held'[t] = held[t] \cup rows
<1>1. tx \in [Transactions -> TxRows] /\ DOMAIN held = Transactions
  BY DEF AccessInv, AccessShape
<1> QED
  BY <1>1 DEF Set, Hold, Quiet

\* Every operation's first statement.
LEMMA Begins ==
    ASSUME AccessInv, NEW t \in Transactions,
           \/ \E s \in Subjects : \/ RequestAccess(t, s)
                                  \/ \E k \in GrantKeys \cup {NoKey} : AccessGrant(t, s, k)
                                  \/ \E k \in AutoKeys : AutoSubject(t, s, k)
           \/ \E r \in RequestIds : Cancel(t, r) \/ \E op \in {"approve", "deny"} : AccessDecide(t, r, op)
           \/ \E e \in EntIds : RevokeRead(t, e)
           \/ \E to \in Changes : AccessSetLifecycle(t, to)
           \/ AccessPublish(t)
    PROVE  AccessInv'
<1>0. /\ tx \in [Transactions -> TxRows] /\ DOMAIN held = Transactions /\ lifecycle \in AccessLifecycles
      /\ \A r \in RequestIds : requests[r].subject \in Subjects \cup {Nobody}
      /\ \A e \in EntIds : ents[e].subject \in Subjects \cup {Nobody}
      /\ RequestIds \subseteq 0..MaxRequests /\ EntIds \subseteq 0..MaxEntitlements
      /\ 0 \notin EntIds /\ 0 \notin RequestIds
      /\ NoKey \notin Keys /\ Keys = GrantKeys \cup AutoKeys
  BY AccessAssumption DEF AccessInv, AccessShape, RequestIds, EntIds, Keys
<1> DEFINE Fresh(row) ==
             /\ row.entState = "NONE" /\ ~ row.released
             /\ row.key = NoKey \/ row.op \in {"grant", "auto"}
             /\ row.req = 0 \/ row.op \in {"approve", "deny", "cancel"}
             /\ row.ent = 0 \/ row.op = "revoke"
             /\ row.life = "NONE" \/ row.op \in {"publish", "lifecycle"}
             /\ row.reqState = "NONE" \/ row.op \in {"approve", "deny", "cancel"}
           Resolving(r, op) == IF op = "cancel" THEN Cancel(t, r) ELSE AccessDecide(t, r, op)
<1>a. Resource # ResourceKey
  BY DEF Resource, ResourceKey
<1>b. /\ \A r : RequestRow(r) # Resource /\ RequestRow(r) # ResourceKey
      /\ \A s : SubjectRow(s) # Resource /\ SubjectRow(s) # ResourceKey
  BY DEF Resource, ResourceKey, RequestRow, SubjectRow
<1>1. ASSUME NEW s \in Subjects, RequestAccess(t, s) PROVE AccessInv'
  <2> DEFINE row == [AccessIdle EXCEPT !.op = "request", !.step = "active", !.subject = s]
  <2>a. Set(t, row)
    BY <1>1 DEF RequestAccess
  <2>1. row \in TxRows /\ row.op = "request" /\ row.step = "active" /\ Fresh(row)
    BY IdleRow DEF TxRows, AccessOps, Steps
  <2> HIDE DEF row
  <2>2. Quiet(t) /\ tx'[t] = row /\ held'[t] = held[t]
    BY <1>1, <2>a, <2>1, Setting DEF RequestAccess
  <2>3. OpInv(t)'
    BY <2>1, <2>2 DEF OpInv
  <2> QED
    BY <1>1, <2>1, <2>2, <2>3, BeginStep DEF RequestAccess, AccessOps
<1>2. ASSUME NEW s \in Subjects, NEW k \in GrantKeys \cup {NoKey}, AccessGrant(t, s, k) PROVE AccessInv'
  <2> DEFINE row == [AccessIdle EXCEPT !.op = "grant", !.subject = s, !.key = k,
                                       !.step = IF k = NoKey THEN "insert" ELSE "find"]
  <2>a. Set(t, row)
    BY <1>2 DEF AccessGrant
  <2>1. /\ row \in TxRows /\ row.op = "grant" /\ row.step \in {"find", "insert"}
        /\ row.key = k /\ Fresh(row)
    <3> DEFINE next == IF k = NoKey THEN "insert" ELSE "find"
    <3>1. next \in {"find", "insert"} /\ k \in Keys \cup {NoKey}
      BY <1>0
    <3> HIDE DEF next
    <3>2. row = [AccessIdle EXCEPT !.op = "grant", !.subject = s, !.key = k, !.step = next]
      BY DEF next
    <3> HIDE DEF row
    <3> QED
      BY <3>1, <3>2, IdleRow, ZenonT(60) DEF TxRows, AccessOps, Steps
  <2> HIDE DEF row
  <2>2. Quiet(t) /\ tx'[t] = row /\ held'[t] = held[t]
    BY <1>2, <2>a, <2>1, Setting DEF AccessGrant
  <2>3. OpInv(t)'
    BY <2>1, <2>2 DEF OpInv
  <2> QED
    BY <1>2, <2>1, <2>2, <2>3, BeginStep DEF AccessGrant, AccessOps
<1>3. ASSUME NEW s \in Subjects, NEW k \in AutoKeys, AutoSubject(t, s, k) PROVE AccessInv'
  <2> DEFINE row == [AccessIdle EXCEPT !.op = "auto", !.subject = s, !.key = k, !.step = "target"]
  <2>a. Set(t, row)
    BY <1>3 DEF AutoSubject
  <2>1. row \in TxRows /\ row.op = "auto" /\ row.step = "target" /\ row.key = k /\ Fresh(row)
    BY <1>0, <1>3, IdleRow, ZenonT(60) DEF TxRows, AccessOps, Steps
  <2> HIDE DEF row
  <2>2. Quiet(t) /\ tx'[t] = row /\ held'[t] = held[t] \cup {SubjectRow(s)}
    BY <1>3, <2>a, <2>1, Setting DEF AutoSubject
  <2>3. OpInv(t)'
    BY <2>1, <2>2 DEF OpInv
  <2> QED
    BY <1>b, <1>3, <2>1, <2>2, <2>3, BeginStep DEF AutoSubject, AccessOps
<1>4. ASSUME NEW r \in RequestIds, NEW op \in {"approve", "deny", "cancel"},
             Resolving(r, op)
      PROVE  AccessInv'
  <2> DEFINE state == IF op = "cancel" THEN "CANCELLED" ELSE IF op = "approve" THEN "APPROVED" ELSE "DENIED"
             row == [AccessIdle EXCEPT !.op = op, !.subject = requests[r].subject, !.req = r, !.reqState = state,
                                       !.step = IF op = "approve" THEN "insert" ELSE "commit"]
  <2>a. Set(t, row)
    BY <1>4 DEF Cancel, AccessDecide
  <2>1. /\ row \in TxRows /\ row.op = op /\ row.req = r /\ Fresh(row)
        /\ row.step = IF op = "approve" THEN "insert" ELSE "commit"
        /\ row.reqState \in Resolved /\ (row.reqState = "APPROVED" <=> op = "approve")
    <3> DEFINE next == IF op = "approve" THEN "insert" ELSE "commit"
               who == requests[r].subject
    <3>1. /\ next \in {"insert", "commit"} /\ r \in 0..MaxRequests /\ who \in Subjects \cup {Nobody}
          /\ state \in Resolved /\ (state = "APPROVED" <=> op = "approve")
      BY <1>0, <1>4 DEF Resolved
    <3>2. row = [AccessIdle EXCEPT !.op = op, !.subject = who, !.req = r, !.reqState = state, !.step = next]
      OBVIOUS
    <3> HIDE DEF who, state, next, row
    <3>a. op \in AccessOps /\ next \in Steps
      BY <3>1 DEF AccessOps, Steps
    <3>3. row \in TxRows
      BY <3>1, <3>2, <3>a, IdleRow DEF TxRows
    <3>4. /\ row.op = op /\ row.req = r /\ row.step = next /\ row.reqState = state /\ Fresh(row)
      BY <1>4, <3>1, <3>2, IdleRow DEF TxRows
    <3> QED
      BY <3>1, <3>3, <3>4 DEF next
  <2> HIDE DEF row
  <2>2. /\ At(t, "idle") /\ Free(t, RequestRow(r)) /\ requests[r].state = "PENDING"
        /\ Hold(t, {RequestRow(r)}) /\ UNCHANGED Tables
    BY <1>4 DEF Cancel, AccessDecide
  <2>3. Quiet(t) /\ tx'[t] = row /\ held'[t] = held[t] \cup {RequestRow(r)}
    BY <2>a, <2>1, <2>2, Setting
  <2>4. OpInv(t)'
    BY <2>1, <2>3 DEF OpInv
  <2> QED
    BY <1>0, <1>b, <1>4, <2>1, <2>2, <2>3, <2>4, BeginStep DEF AccessOps
<1>5. ASSUME NEW e \in EntIds, RevokeRead(t, e) PROVE AccessInv'
  <2>0. PICK v \in BOOLEAN : Set(t, [AccessIdle EXCEPT !.op = "revoke", !.ent = e, !.subject = ents[e].subject,
                                                      !.gateway = v, !.step = "lock"])
    BY <1>5, Zenon DEF RevokeRead
  <2> DEFINE row == [AccessIdle EXCEPT !.op = "revoke", !.ent = e, !.subject = ents[e].subject,
                                       !.gateway = v, !.step = "lock"]
  <2>a. Set(t, row)
    BY <2>0
  <2>1. row \in TxRows /\ row.op = "revoke" /\ row.step = "lock" /\ row.ent = e /\ Fresh(row)
    <3> DEFINE who == ents[e].subject
    <3>1. who \in Subjects \cup {Nobody} /\ e \in 0..MaxEntitlements
      BY <1>0
    <3> HIDE DEF who
    <3>2. row = [AccessIdle EXCEPT !.op = "revoke", !.ent = e, !.subject = who, !.gateway = v, !.step = "lock"]
      BY DEF who
    <3> HIDE DEF row
    <3> QED
      BY <3>1, <3>2, IdleRow, ZenonT(60) DEF TxRows, AccessOps, Steps
  <2> HIDE DEF row
  <2>2. Quiet(t) /\ tx'[t] = row /\ held'[t] = held[t]
    BY <1>5, <2>a, <2>1, Setting DEF RevokeRead
  <2>3. OpInv(t)'
    BY <2>1, <2>2 DEF OpInv
  <2> QED
    BY <1>0, <1>5, <2>1, <2>2, <2>3, BeginStep DEF RevokeRead, AccessOps, Committed
<1>6. ASSUME NEW to \in Changes, AccessSetLifecycle(t, to) PROVE AccessInv'
  <2> DEFINE row == [AccessIdle EXCEPT !.op = "lifecycle", !.life = to, !.step = "served"]
  <2>a. Set(t, row)
    BY <1>6 DEF AccessSetLifecycle
  <2>1. row \in TxRows /\ row.op = "lifecycle" /\ row.step = "served" /\ Fresh(row)
    <3>1. to \in {"DEPRECATED", "RETIRED"}
      BY AccessAssumption
    <3> QED
      BY <3>1, IdleRow DEF TxRows, AccessOps, Steps
  <2> HIDE DEF row
  <2>2. Quiet(t) /\ tx'[t] = row /\ held'[t] = held[t] \cup {Resource}
    BY <1>6, <2>a, <2>1, Setting DEF AccessSetLifecycle
  <2>3. OpInv(t)'
    BY <2>1, <2>2 DEF OpInv
  <2> QED
    BY <1>a, <1>6, <2>1, <2>2, <2>3, BeginStep DEF AccessSetLifecycle, AccessOps
<1>7. ASSUME AccessPublish(t) PROVE AccessInv'
  <2> DEFINE row == [AccessIdle EXCEPT !.op = "publish", !.life = "PUBLISHED", !.step = "gateway"]
  <2>a. Set(t, row)
    BY <1>7 DEF AccessPublish
  <2>1. row \in TxRows /\ row.op = "publish" /\ row.step = "gateway" /\ Fresh(row)
    BY IdleRow DEF TxRows, AccessOps, Steps
  <2> HIDE DEF row
  <2>2. Quiet(t) /\ tx'[t] = row /\ held'[t] = held[t]
    BY <1>7, <2>a, <2>1, Setting DEF AccessPublish
  <2>3. OpInv(t)'
    BY <2>1, <2>2 DEF OpInv
  <2> QED
    BY <1>7, <2>1, <2>2, <2>3, BeginStep DEF AccessPublish, AccessOps
<1>8. ASSUME NEW r \in RequestIds, Cancel(t, r) \/ \E op \in {"approve", "deny"} : AccessDecide(t, r, op)
      PROVE  AccessInv'
  <2>1. CASE Cancel(t, r)
    <3>1. Resolving(r, "cancel")
      BY <2>1
    <3> HIDE DEF Resolving
    <3> QED
      BY <1>4, <3>1
  <2>2. ASSUME NEW op \in {"approve", "deny"}, AccessDecide(t, r, op) PROVE AccessInv'
    <3>1. Resolving(r, op)
      BY <2>2
    <3> HIDE DEF Resolving
    <3> QED
      BY <1>4, <3>1
  <2> QED
    BY <1>8, <2>1, <2>2
<1> QED
  BY <1>1, <1>2, <1>3, <1>5, <1>6, <1>7, <1>8, Zenon

\* What a statement that only moves the transaction on must have found.
Onward(t, next, rows) ==
    /\ \/ next \in {"existing", "pending"} /\ tx[t].op = "request"
       \/ next = "insert" /\ tx[t].op \in {"grant", "auto"}
       \/ next = "find" /\ tx[t].op = "grant"
       \/ next \in {"prior", "current"} /\ tx[t].op = "auto"
       \/ next \in {"gateway", "compile", "read", "commit"}
    /\ tx[t].op = "approve" => Active(t)
    /\ Active(t) => next \in {"gateway", "compile", "read", "commit"}
    /\ tx[t].op = "grant" /\ ~ Active(t) => next \in {"find", "insert"}
    /\ next = "commit" => /\ Active(t) /\ ~ tx[t].released => lifecycle # "PUBLISHED"
                          /\ tx[t].life = "NONE"
    /\ tx[t].op = "auto" =>
         /\ Resource \in held[t] \cup rows
         /\ next \in {"current", "insert"} => KeyedBy(tx[t].key) = {}
         /\ next = "insert" => EffectiveFor(tx[t].subject) = {}
         /\ next \in {"gateway", "compile", "read"} => Active(t)
         /\ next = "commit" => tx[t].step = "audit" /\ audit[tx[t].key].ent \in {0, tx[t].ent}
    /\ next = "read" => Resource \in held[t] \cup rows
    /\ tx[t].released => next = "commit"
    /\ Resource \in rows => ResourceFree(t)
    /\ ResourceKey \notin rows

\* A statement that only moves its transaction to the next step, and what that needs.
LEMMA GoStep ==
    ASSUME AccessInv, NEW t \in Transactions, NEW next \in Steps, NEW rows, Go(t, next),
           Hold(t, rows) \/ (rows = {} /\ UNCHANGED held), UNCHANGED Tables, Onward(t, next, rows)
    PROVE  AccessInv'
<1> DEFINE row == [tx[t] EXCEPT !.step = next]
<1>0. tx[t] \in TxRows /\ TxInv(t)
  BY DEF AccessInv, AccessShape
<1>1. /\ row \in TxRows /\ row.op = tx[t].op /\ row.step = next /\ row.subject = tx[t].subject
      /\ row.key = tx[t].key /\ row.req = tx[t].req /\ row.reqState = tx[t].reqState
      /\ row.ent = tx[t].ent /\ row.entState = tx[t].entState /\ row.life = tx[t].life
      /\ row.released = tx[t].released /\ row.snap = tx[t].snap
  BY <1>0 DEF TxRows
<1>2. Set(t, row)
  BY DEF Go
<1> HIDE DEF row
<1>3. Quiet(t) /\ tx'[t] = row /\ held'[t] = held[t] \cup rows
  BY <1>1, <1>2, Setting
<1>4. ApartStep(t)
  <2>1. \A u \in Transactions \ {t} : Apart(t, u) /\ Apart(u, t)
    BY DEF AccessInv
  <2> QED
    BY <1>1, <1>3, <2>1 DEF ApartStep, Apart, Active, Onward
<1>5. /\ KeyedBy(tx[t].key)' = KeyedBy(tx[t].key) /\ PendingFor(tx[t].subject)' = PendingFor(tx[t].subject)
      /\ LifecycleIn(t)' = LifecycleIn(t) /\ \A e \in EntIds : StateIn(t, e)' = StateIn(t, e)
      /\ \A e \in EntIds : Effective(e)' = Effective(e)
  BY <1>1, <1>3 DEF KeyedBy, PendingFor, LifecycleIn, StateIn, Effective, Tables
<1>6. OpInv(t)' /\ RequestInv(t)'
  BY <1>0, <1>1, <1>3, <1>5 DEF TxInv, OpInv, RequestInv, Onward, Active, Tables
<1>7. EntInv(t)'
  BY <1>0, <1>1, <1>3, <1>5 DEF TxInv, EntInv, Onward, Active, Tables
<1>8. AutoInv(t)'
  BY <1>0, <1>1, <1>3, <1>5 DEF TxInv, AutoInv, Onward, Active, Tables, EffectiveFor
<1>9. ReleaseInv(t)'
  BY <1>0, <1>1, <1>3, <1>5 DEF TxInv, ReleaseInv, Onward, Active, Tables
<1> QED
  BY <1>3, <1>4, <1>6, <1>7, <1>8, <1>9, QuietStep DEF TxInv

\* The statements that move a transaction on, or end it.
LEMMA GoSteps ==
    ASSUME AccessInv, NEW t \in Transactions,
           \/ RequestActive(t) \/ RequestExisting(t) \/ LockPublication(t) \/ LockGateway(t)
           \/ LockProjections(t) \/ AutoTarget(t) \/ AutoAudit(t) \/ LockServed(t) \/ Abort(t)
    PROVE  AccessInv'
<1>0. TxInv(t) /\ UNCHANGED Tables
  BY DEF AccessInv, RequestActive, RequestExisting, LockPublication, LockGateway, LockProjections,
     AutoTarget, AutoAudit, LockServed, Abort
<1>e. CASE End(t)
  BY <1>0, <1>e, EndStep
<1>l. Resource # ResourceKey /\ {Gateway, Publication} \cap {Resource, ResourceKey} = {}
  BY DEF Resource, ResourceKey, Gateway, Publication
<1>s. {"existing", "pending", "gateway", "compile", "read", "prior", "commit"} \subseteq Steps
  BY DEF Steps
<1>1. CASE (RequestActive(t) \/ RequestExisting(t)) /\ ~ End(t)
  <2>1. PICK next \in {"existing", "pending"} : Go(t, next) /\ UNCHANGED held
    BY <1>1 DEF RequestActive, RequestExisting
  <2>2. Onward(t, next, {})
    <3>1. tx[t].step \in {"active", "existing"}
      BY <1>1 DEF RequestActive, RequestExisting, At
    <3>2. tx[t].op = "request" /\ ~ Active(t) /\ ~ tx[t].released
      BY <1>0, <3>1 DEF TxInv, OpInv, EntInv, ReleaseInv
    <3> QED
      BY <2>1, <3>2 DEF Onward
  <2> QED
    BY <1>0, <1>s, <2>1, <2>2, GoStep
<1>2. CASE LockPublication(t) /\ lifecycle = "PUBLISHED"
  <2>1. Onward(t, "gateway", {Publication})
    BY <1>0, <1>l, <1>2 DEF LockPublication, Onward, TxInv, OpInv, EntInv, RequestInv, ReleaseInv, At, Active
  <2> QED
    BY <1>0, <1>s, <1>2, <2>1, GoStep DEF LockPublication
<1>3. CASE LockPublication(t) /\ lifecycle # "PUBLISHED"
  <2>1. Onward(t, "commit", {})
    BY <1>0, <1>3 DEF LockPublication, Onward, TxInv, OpInv, EntInv, RequestInv, ReleaseInv, At, Active
  <2> QED
    BY <1>0, <1>s, <1>3, <2>1, GoStep DEF LockPublication
<1>4. CASE LockGateway(t)
  <2>1. Onward(t, "compile", {Gateway})
    BY <1>0, <1>l, <1>4 DEF LockGateway, Onward, TxInv, OpInv, EntInv, RequestInv, ReleaseInv, AutoInv, At, Active
  <2> QED
    BY <1>0, <1>s, <1>4, <2>1, GoStep DEF LockGateway
<1>5. CASE LockProjections(t) /\ ~ End(t)
  <2>1. Onward(t, "read", {Resource, Publication})
    BY <1>0, <1>l, <1>5 DEF LockProjections, Onward, TxInv, OpInv, EntInv, RequestInv, ReleaseInv, AutoInv, At, Active
  <2> QED
    BY <1>0, <1>s, <1>5, <2>1, GoStep DEF LockProjections
<1>6. CASE AutoTarget(t) /\ ~ End(t)
  <2>1. Onward(t, "prior", {Resource})
    BY <1>0, <1>l, <1>6 DEF AutoTarget, Onward, TxInv, OpInv, EntInv, RequestInv, ReleaseInv, AutoInv, At, Active
  <2> QED
    BY <1>0, <1>s, <1>6, <2>1, GoStep DEF AutoTarget
<1>7. CASE AutoAudit(t) /\ ~ End(t)
  <2>1. audit[tx[t].key] \in {NoEvent, Activation(t)}
    BY <1>7 DEF AutoAudit
  <2>2. audit[tx[t].key].ent \in {0, tx[t].ent}
    BY <2>1 DEF NoEvent, Activation
  <2>3. Onward(t, "commit", {})
    BY <1>0, <1>7, <2>2 DEF AutoAudit, Onward, TxInv, OpInv, EntInv, RequestInv, ReleaseInv, AutoInv, At, Active
  <2> QED
    BY <1>0, <1>s, <1>7, <2>3, GoStep DEF AutoAudit
<1>8. CASE LockServed(t)
  <2>1. Onward(t, "gateway", {Publication})
    BY <1>0, <1>l, <1>8 DEF LockServed, Onward, TxInv, OpInv, EntInv, RequestInv, ReleaseInv, AutoInv, At, Active
  <2> QED
    BY <1>0, <1>s, <1>8, <2>1, GoStep DEF LockServed
<1> QED
  BY <1>e, <1>1, <1>2, <1>3, <1>4, <1>5, <1>6, <1>7, <1>8 DEF Abort

\* A request is inserted: its id is free, and its subject has no other pending.
LEMMA RequestInsertStep ==
    ASSUME AccessInv, NEW t \in Transactions, RequestInsert(t)
    PROVE  AccessInv'
<1>0. TxInv(t) /\ UNCHANGED Tables /\ tx[t] \in TxRows
  BY DEF AccessInv, AccessShape, RequestInsert
<1>1. CASE PendingFor(tx[t].subject) # {}
  BY <1>0, <1>1, EndStep DEF RequestInsert
<1>2. CASE PendingFor(tx[t].subject) = {}
  <2> DEFINE row == [tx[t] EXCEPT !.req = NewRequest, !.reqState = "PENDING", !.step = "commit"]
  <2>1. /\ Set(t, row) /\ Hold(t, {ResourceKey}) /\ Free(t, Resource) /\ tx[t].step = "pending"
        /\ NewRequest \in FreeRequests /\ NewRequest \in RequestIds
        /\ \A u \in Transactions \ {t} :
              ~(tx[u].op = "request" /\ tx[u].req # 0 /\ tx[u].subject = tx[t].subject)
    BY <1>2, NewIds DEF RequestInsert, At
  <2>2. /\ tx[t].op = "request" /\ ~ Active(t) /\ ~ tx[t].released /\ tx[t].key = NoKey /\ tx[t].life = "NONE"
        /\ tx[t].entState # "REVOKED" \/ (tx[t].ent \in EntIds /\ ents[tx[t].ent].state # "NONE")
    BY <1>0, <2>1 DEF TxInv, OpInv, EntInv, ReleaseInv
  <2>3. NewRequest \in 0..MaxRequests
    BY <2>1, AccessAssumption DEF RequestIds
  <2>4. /\ row \in TxRows /\ row.op = tx[t].op /\ row.step = "commit" /\ row.subject = tx[t].subject
        /\ row.key = tx[t].key /\ row.req = NewRequest /\ row.reqState = "PENDING"
        /\ row.ent = tx[t].ent /\ row.entState = tx[t].entState /\ row.life = tx[t].life
        /\ row.released = tx[t].released
    BY <1>0, <2>3 DEF TxRows, Steps
  <2> HIDE DEF row
  <2>5. Quiet(t) /\ tx'[t] = row /\ held'[t] = held[t] \cup {ResourceKey}
    BY <1>0, <2>1, <2>4, Setting
  <2>6. /\ Resource # ResourceKey /\ NewRequest # 0 /\ requests[NewRequest].state = "NONE"
        /\ \A u \in Transactions : tx[u].req # NewRequest
    BY <2>1, AccessAssumption DEF Resource, ResourceKey, FreeRequests, RequestIds
  <2>7. ApartStep(t)
    <3>1. \A u \in Transactions \ {t} : Apart(t, u) /\ Apart(u, t)
      BY DEF AccessInv
    <3> QED
      BY <2>1, <2>2, <2>4, <2>5, <2>6, <3>1 DEF ApartStep, Apart, Active
  <2>8. RequestInv(t)'
    <3>1. PendingFor(tx[t].subject)' = {}
      BY <1>0, <1>2, <2>4, <2>5 DEF PendingFor, Tables
    <3> QED
      BY <1>0, <2>2, <2>4, <2>5, <2>6, <3>1 DEF RequestInv, Tables
  <2>9. OpInv(t)' /\ EntInv(t)' /\ AutoInv(t)' /\ ReleaseInv(t)'
    BY <1>0, <2>2, <2>4, <2>5 DEF OpInv, EntInv, AutoInv, ReleaseInv, Active, Tables
  <2> QED
    BY <2>5, <2>7, <2>8, <2>9, QuietStep DEF TxInv
<1> QED
  BY <1>1, <1>2

\* A grant finds the entitlement of its key, an activation one it answers with.
LEMMA FoundSteps ==
    ASSUME AccessInv, NEW t \in Transactions, NEW e \in EntIds, NEW next \in {"commit", "audit"},
           Set(t, [tx[t] EXCEPT !.ent = e, !.step = next]), Hold(t, {EntRow(e)}), UNCHANGED Tables,
           ents[e].state # "NONE",
           \/ next = "commit" /\ tx[t].op = "grant" /\ tx[t].step = "find" /\ e \in KeyedBy(tx[t].key)
           \/ next = "audit" /\ tx[t].op = "auto" /\ tx[t].step \in {"prior", "current"}
    PROVE  AccessInv'
<1>0. TxInv(t) /\ tx[t] \in TxRows
  BY DEF AccessInv, AccessShape
<1> DEFINE row == [tx[t] EXCEPT !.ent = e, !.step = next]
<1>1. Set(t, row) /\ e \in 0..MaxEntitlements /\ e # 0
  BY AccessAssumption DEF EntIds
<1>2. /\ row \in TxRows /\ row.op = tx[t].op /\ row.step = next /\ row.subject = tx[t].subject
      /\ row.key = tx[t].key /\ row.req = tx[t].req /\ row.reqState = tx[t].reqState
      /\ row.ent = e /\ row.entState = tx[t].entState /\ row.life = tx[t].life
      /\ row.released = tx[t].released
  BY <1>0, <1>1 DEF TxRows, Steps
<1> HIDE DEF row
<1>3. ~ Active(t) /\ ~ tx[t].released /\ tx[t].req = 0 /\ tx[t].life = "NONE" /\ tx[t].reqState # "APPROVED"
  BY <1>0 DEF TxInv, OpInv, EntInv, ReleaseInv, RequestInv
<1>4. Quiet(t) /\ tx'[t] = row /\ held'[t] = held[t] \cup {EntRow(e)}
  BY <1>1, <1>2, Setting
<1>5. EntRow(e) # Resource /\ EntRow(e) # ResourceKey
  BY DEF EntRow, Resource, ResourceKey
<1>6. ApartStep(t)
  <2>1. \A u \in Transactions : Active(u) => ents[tx[u].ent].state = "NONE"
    BY DEF AccessInv, TxInv, EntInv
  <2> QED
    BY <1>2, <1>3, <1>4, <1>5, <2>1 DEF ApartStep, Active
<1>7. OpInv(t)' /\ RequestInv(t)' /\ ReleaseInv(t)'
  BY <1>0, <1>2, <1>3, <1>4 DEF TxInv, OpInv, RequestInv, ReleaseInv, Active, Tables
<1>8. EntInv(t)'
  <2>1. KeyedBy(tx[t].key)' = KeyedBy(tx[t].key)
    BY <1>2, <1>4 DEF KeyedBy, Tables
  <2> QED
    BY <1>0, <1>2, <1>3, <1>4, <2>1 DEF EntInv, Active, Tables
<1>9. AutoInv(t)'
  BY <1>0, <1>2, <1>3, <1>4 DEF TxInv, AutoInv, Active
<1> QED
  BY <1>4, <1>6, <1>7, <1>8, <1>9, QuietStep DEF TxInv

\* Looking for a grant that is there already, by key, by correlation or by subject.
LEMMA FindSteps ==
    ASSUME AccessInv, NEW t \in Transactions, FindGrant(t) \/ AutoPrior(t) \/ AutoCurrent(t)
    PROVE  AccessInv'
<1>0. TxInv(t) /\ UNCHANGED Tables /\ KeysInv
  BY DEF AccessInv, CommittedInv, FindGrant, AutoPrior, AutoCurrent
<1>e. CASE End(t)
  BY <1>0, <1>e, EndStep
<1>s. {"insert", "current"} \subseteq Steps
  BY DEF Steps
<1>k. \A e \in EntIds : e \in KeyedBy(tx[t].key) => ents[e].state # "NONE"
  BY <1>0 DEF KeysInv, KeyedBy, NoEnt
<1>1. CASE FindGrant(t) /\ ~ End(t)
  <2>0. tx[t].step = "find" /\ tx[t].op = "grant" /\ ~ Active(t) /\ ~ tx[t].released
    BY <1>0, <1>1 DEF FindGrant, At, TxInv, OpInv, EntInv, ReleaseInv
  <2>1. CASE Go(t, "insert") /\ UNCHANGED held
    <3>1. Onward(t, "insert", {})
      BY <2>0 DEF Onward
    <3> QED
      BY <1>0, <1>s, <2>1, <3>1, GoStep
  <2>2. ASSUME NEW e \in EntIds, e \in KeyedBy(tx[t].key), Hold(t, {EntRow(e)}),
               Set(t, [tx[t] EXCEPT !.ent = e, !.step = "commit"])
        PROVE  AccessInv'
    BY <1>0, <1>k, <2>0, <2>2, FoundSteps
  <2> QED
    BY <1>1, <2>1, <2>2 DEF FindGrant, KeyedBy
<1>2. CASE AutoPrior(t) /\ ~ End(t)
  <2>0. tx[t].step = "prior" /\ tx[t].op = "auto" /\ ~ Active(t) /\ ~ tx[t].released /\ Resource \in held[t]
    BY <1>0, <1>2 DEF AutoPrior, At, TxInv, OpInv, EntInv, ReleaseInv, AutoInv
  <2>1. CASE KeyedBy(tx[t].key) = {} /\ Go(t, "current") /\ UNCHANGED held
    <3>1. Onward(t, "current", {})
      BY <2>0, <2>1 DEF Onward
    <3> QED
      BY <1>0, <1>s, <2>1, <3>1, GoStep
  <2>2. ASSUME NEW e \in EntIds, e \in KeyedBy(tx[t].key), Hold(t, {EntRow(e)}),
               Set(t, [tx[t] EXCEPT !.ent = e, !.step = "audit"])
        PROVE  AccessInv'
    BY <1>0, <1>k, <2>0, <2>2, FoundSteps
  <2> QED
    BY <1>2, <2>1, <2>2 DEF AutoPrior, KeyedBy
<1>3. CASE AutoCurrent(t) /\ ~ End(t)
  <2>0. /\ tx[t].step = "current" /\ tx[t].op = "auto" /\ ~ Active(t) /\ ~ tx[t].released /\ Resource \in held[t]
        /\ KeyedBy(tx[t].key) = {}
    BY <1>0, <1>3 DEF AutoCurrent, At, TxInv, OpInv, EntInv, ReleaseInv, AutoInv
  <2>1. CASE EffectiveFor(tx[t].subject) = {} /\ Go(t, "insert") /\ UNCHANGED held
    <3>1. Onward(t, "insert", {})
      BY <2>0, <2>1 DEF Onward
    <3> QED
      BY <1>0, <1>s, <2>1, <3>1, GoStep
  <2>2. ASSUME NEW e \in EntIds, Effective(e), Hold(t, {EntRow(e)}),
               Set(t, [tx[t] EXCEPT !.ent = e, !.step = "audit"])
        PROVE  AccessInv'
    BY <1>0, <2>0, <2>2, FoundSteps DEF Effective
  <2> QED
    BY <1>3, <2>1, <2>2 DEF AutoCurrent, EffectiveFor
<1> QED
  BY <1>e, <1>1, <1>2, <1>3

\* The insert of an entitlement: its id is free, and no other has its key.
LEMMA InsertStep ==
    ASSUME AccessInv, NEW t \in Transactions, InsertEnt(t)
    PROVE  AccessInv'
<1>0. TxInv(t) /\ UNCHANGED Tables /\ tx[t] \in TxRows /\ lifecycle \in AccessLifecycles
  BY DEF AccessInv, AccessShape, InsertEnt
<1>1. tx[t].step = "insert" /\ tx[t].op \in {"approve", "grant", "auto"} /\ ~ Active(t) /\ ~ tx[t].released
  BY <1>0 DEF InsertEnt, At, TxInv, OpInv, EntInv, ReleaseInv
<1>2. CASE KeyedBy(tx[t].key) # {}
  <2>1. tx[t].op = "grant"
    BY <1>0, <1>1, <1>2 DEF TxInv, OpInv, AutoInv, KeyedBy
  <2>2. Onward(t, "find", {}) /\ "find" \in Steps
    BY <1>1, <2>1 DEF Onward, Steps
  <2> QED
    BY <1>0, <1>2, <2>2, GoStep DEF InsertEnt
<1>3. CASE KeyedBy(tx[t].key) = {}
  <2> DEFINE next == IF tx[t].op = "auto" THEN "gateway" ELSE "publication"
             row == [tx[t] EXCEPT !.ent = NewEnt, !.entState = "ACTIVE", !.born = lifecycle, !.step = next]
  <2>1. /\ Set(t, row) /\ Hold(t, {ResourceKey}) /\ Free(t, Resource)
        /\ NewEnt \in FreeEnts /\ NewEnt \in EntIds
        /\ \A u \in Transactions \ {t} :
              ~(tx[t].key # NoKey /\ tx[u].key = tx[t].key /\ tx[u].entState = "ACTIVE")
    BY <1>3, NewIds DEF InsertEnt, NewGrant
  <2>2. /\ next \in {"gateway", "publication"} /\ next \in Steps /\ (next = "gateway" <=> tx[t].op = "auto")
        /\ NewEnt \in 0..MaxEntitlements
    BY <2>1, AccessAssumption DEF Steps, EntIds
  <2> HIDE DEF next
  <2>3. /\ row \in TxRows /\ row.op = tx[t].op /\ row.step = next /\ row.subject = tx[t].subject
        /\ row.key = tx[t].key /\ row.req = tx[t].req /\ row.reqState = tx[t].reqState
        /\ row.ent = NewEnt /\ row.entState = "ACTIVE" /\ row.life = tx[t].life
        /\ row.released = tx[t].released
    BY <1>0, <2>2 DEF TxRows
  <2> HIDE DEF row
  <2>4. Quiet(t) /\ tx'[t] = row /\ held'[t] = held[t] \cup {ResourceKey}
    BY <1>0, <2>1, <2>3, Setting
  <2>5. /\ Resource # ResourceKey /\ ents[NewEnt].state = "NONE"
        /\ \A u \in Transactions : tx[u].ent # NewEnt
    BY <2>1 DEF Resource, ResourceKey, FreeEnts
  <2>6. ApartStep(t)
    <3>1. \A u \in Transactions \ {t} : Apart(t, u) /\ Apart(u, t)
      BY DEF AccessInv
    <3> QED
      BY <2>1, <2>3, <2>4, <2>5, <3>1 DEF ApartStep, Apart, Active
  <2>7. /\ KeyedBy(tx[t].key)' = KeyedBy(tx[t].key) /\ PendingFor(tx[t].subject)' = PendingFor(tx[t].subject)
        /\ \A e \in EntIds : Effective(e)' = Effective(e)
    BY <1>0, <2>3, <2>4 DEF KeyedBy, PendingFor, Effective, Tables
  <2>8. OpInv(t)' /\ RequestInv(t)'
    BY <1>0, <1>1, <2>2, <2>3, <2>4, <2>7 DEF TxInv, OpInv, RequestInv, Active, Tables
  <2>9. EntInv(t)'
    BY <1>0, <1>1, <1>3, <2>1, <2>2, <2>3, <2>4, <2>5, <2>7 DEF EntInv, Active, Tables
  <2>10. AutoInv(t)' /\ ReleaseInv(t)'
    BY <1>0, <1>1, <2>2, <2>3, <2>4, <2>7 DEF TxInv, AutoInv, ReleaseInv, Active, Tables
  <2> QED
    BY <2>4, <2>6, <2>8, <2>9, <2>10, QuietStep DEF TxInv
<1> QED
  BY <1>2, <1>3

\* The release: what is in force, the transaction's own entitlement included.
LEMMA ReadStep ==
    ASSUME AccessInv, NEW t \in Transactions, ReadEntitlements(t)
    PROVE  AccessInv'
<1>0. TxInv(t) /\ UNCHANGED Tables /\ tx[t] \in TxRows
  BY DEF AccessInv, AccessShape, ReadEntitlements
<1> DEFINE next == IF tx[t].op = "auto" THEN "audit" ELSE "commit"
           force == {e \in EntIds : LifecycleIn(t) \in Served /\ StateIn(t, e) = "ACTIVE" /\ e \notin lapsed}
           rows == {EntRow(e) : e \in Committed} \cup {SubjectRow(ents[e].subject) : e \in Committed}
<1>1. PICK v \in BOOLEAN : v /\ Set(t, [tx[t] EXCEPT !.released = v, !.snap = force, !.step = next])
  BY Zenon DEF ReadEntitlements
<1> DEFINE row == [tx[t] EXCEPT !.released = v, !.snap = force, !.step = next]
<1>2. Set(t, row) /\ Hold(t, rows) /\ tx[t].step = "read"
  BY <1>1 DEF ReadEntitlements, At
<1>3. /\ force \in SUBSET EntIds /\ next \in Steps
      /\ IF LifecycleIn(t) \in Served
         THEN \A e \in EntIds : StateIn(t, e) = "ACTIVE" /\ e \notin lapsed => e \in force
         ELSE force = {}
      /\ \/ next = "audit" /\ tx[t].op = "auto"
         \/ next = "commit" /\ tx[t].op # "auto"
  BY DEF Steps
<1>4. Resource \notin rows /\ ResourceKey \notin rows
  BY DEF Resource, ResourceKey, EntRow, SubjectRow
<1> HIDE DEF next, force, rows
<1>5. /\ row \in TxRows /\ row.op = tx[t].op /\ row.step = next /\ row.subject = tx[t].subject
      /\ row.key = tx[t].key /\ row.req = tx[t].req /\ row.reqState = tx[t].reqState
      /\ row.ent = tx[t].ent /\ row.entState = tx[t].entState /\ row.life = tx[t].life
      /\ row.released = v /\ row.snap = force
  BY <1>0, <1>3 DEF TxRows
<1> HIDE DEF row
<1>6. Quiet(t) /\ tx'[t] = row /\ held'[t] = held[t] \cup rows
  BY <1>0, <1>2, <1>5, Setting
<1>7. ApartStep(t)
  <2>1. \A u \in Transactions \ {t} : Apart(t, u) /\ Apart(u, t)
    BY DEF AccessInv
  <2> QED
    BY <1>4, <1>5, <1>6, <2>1 DEF ApartStep, Apart, Active
<1>8. /\ KeyedBy(tx[t].key)' = KeyedBy(tx[t].key) /\ PendingFor(tx[t].subject)' = PendingFor(tx[t].subject)
      /\ LifecycleIn(t)' = LifecycleIn(t) /\ \A e \in EntIds : StateIn(t, e)' = StateIn(t, e)
      /\ \A e \in EntIds : Effective(e)' = Effective(e)
  BY <1>0, <1>5, <1>6 DEF KeyedBy, PendingFor, LifecycleIn, StateIn, Effective, Tables
<1>9. tx'[t].released
  BY <1>1, <1>5, <1>6
<1>10. OpInv(t)' /\ RequestInv(t)'
  BY <1>0, <1>2, <1>3, <1>5, <1>6, <1>8 DEF TxInv, OpInv, RequestInv, Active, Tables
<1>11. EntInv(t)'
  BY <1>0, <1>2, <1>3, <1>5, <1>6, <1>8, <1>9 DEF TxInv, EntInv, Active, Tables
<1>12. AutoInv(t)'
  BY <1>0, <1>2, <1>3, <1>5, <1>6, <1>8, <1>9 DEF TxInv, AutoInv, EntInv, Active, Tables
<1>13. ReleaseInv(t)'
  BY <1>0, <1>2, <1>3, <1>5, <1>6, <1>8, <1>9 DEF TxInv, ReleaseInv, Tables
<1> QED
  BY <1>6, <1>7, <1>10, <1>11, <1>12, <1>13, QuietStep DEF TxInv

\* Revoking locks an entitlement that is active, or ends.
LEMMA RevokeStep ==
    ASSUME AccessInv, NEW t \in Transactions, RevokeLock(t)
    PROVE  AccessInv'
<1>0. TxInv(t) /\ UNCHANGED Tables /\ tx[t] \in TxRows
  BY DEF AccessInv, AccessShape, RevokeLock
<1>1. CASE ents[tx[t].ent].state # "ACTIVE"
  BY <1>0, <1>1, EndStep DEF RevokeLock
<1>2. CASE ents[tx[t].ent].state = "ACTIVE"
  <2> DEFINE next == IF tx[t].gateway THEN "gateway" ELSE "commit"
             row == [tx[t] EXCEPT !.entState = "REVOKED", !.step = next]
  <2>1. Set(t, row) /\ Hold(t, {EntRow(tx[t].ent)}) /\ tx[t].step = "lock"
    BY <1>2 DEF RevokeLock, At
  <2>2. next \in {"gateway", "commit"} /\ next \in Steps
    BY DEF Steps
  <2> HIDE DEF next
  <2>3. /\ row \in TxRows /\ row.op = tx[t].op /\ row.step = next /\ row.subject = tx[t].subject
        /\ row.key = tx[t].key /\ row.req = tx[t].req /\ row.reqState = tx[t].reqState
        /\ row.ent = tx[t].ent /\ row.entState = "REVOKED" /\ row.life = tx[t].life
        /\ row.released = tx[t].released
    BY <1>0, <2>2 DEF TxRows
  <2> HIDE DEF row
  <2>4. Quiet(t) /\ tx'[t] = row /\ held'[t] = held[t] \cup {EntRow(tx[t].ent)}
    BY <1>0, <2>1, <2>3, Setting
  <2>5. EntRow(tx[t].ent) # Resource /\ EntRow(tx[t].ent) # ResourceKey
    BY DEF EntRow, Resource, ResourceKey
  <2>6. ApartStep(t)
    <3>1. \A u \in Transactions \ {t} : Apart(t, u) /\ Apart(u, t)
      BY DEF AccessInv
    <3> QED
      BY <2>3, <2>4, <2>5, <3>1 DEF ApartStep, Apart, Active
  <2>7. /\ tx[t].op = "revoke" /\ ~ tx[t].released /\ tx[t].ent \in EntIds /\ tx[t].req = 0
        /\ ents[tx[t].ent].state # "NONE"
    BY <1>0, <2>1 DEF TxInv, OpInv, EntInv, ReleaseInv, RequestInv
  <2>8. OpInv(t)' /\ RequestInv(t)' /\ EntInv(t)' /\ AutoInv(t)' /\ ReleaseInv(t)'
    BY <1>0, <2>1, <2>2, <2>3, <2>4, <2>7
    DEF TxInv, OpInv, RequestInv, EntInv, AutoInv, ReleaseInv, Active, Tables
  <2> QED
    BY <2>4, <2>6, <2>8, QuietStep DEF TxInv
<1> QED
  BY <1>1, <1>2

\* A window that closes takes an entitlement out of force, nothing else.
LEMMA LapseStep ==
    ASSUME AccessInv, NEW d \in EntIds, Lapse(d)
    PROVE  AccessInv'
<1>1. /\ lapsed' = lapsed \cup {d}
      /\ UNCHANGED <<lifecycle, visibility, requests, ents, head, audit, answers, tx, held>>
  BY DEF Lapse
<1>2. AccessShape'
  BY <1>1 DEF AccessInv, AccessShape
<1>3. /\ \A e \in EntIds : Effective(e)' => Effective(e)
      /\ \A k : KeyedBy(k)' = KeyedBy(k)
      /\ \A s : PendingFor(s)' = PendingFor(s)
  BY <1>1 DEF Effective, KeyedBy, PendingFor
<1>4. CommittedInv'
  BY <1>1, <1>3 DEF AccessInv, CommittedInv, OnePendingEach, ApprovalsInv, KeysInv, OneAutoEach,
     GrantedIsCarried, RetiredIsWithheld
<1>5. ASSUME NEW t \in Transactions PROVE TxInv(t)'
  <2>1. TxInv(t)
    BY DEF AccessInv
  <2>2. LifecycleIn(t)' = LifecycleIn(t) /\ \A e \in EntIds : StateIn(t, e)' = StateIn(t, e)
    BY <1>1 DEF LifecycleIn, StateIn
  <2>3. OpInv(t)' /\ RequestInv(t)' /\ EntInv(t)'
    BY <1>1, <1>3, <2>1 DEF TxInv, OpInv, RequestInv, EntInv, Active
  <2>4. AutoInv(t)'
    BY <1>1, <1>3, <2>1 DEF TxInv, AutoInv, Active
  <2>5. ReleaseInv(t)'
    BY <1>1, <2>1, <2>2 DEF TxInv, ReleaseInv
  <2> QED
    BY <2>3, <2>4, <2>5 DEF TxInv
<1>6. \A t, u \in Transactions : t # u => Apart(t, u)'
  BY <1>1 DEF AccessInv, Apart, Active
<1> QED
  BY <1>2, <1>4, <1>5, <1>6 DEF AccessInv

-----------------------------------------------------------------------------
(* The commit. *)

\* What a commit leaves in the tables, row by row.
Writes(t) ==
    /\ \A r \in RequestIds : r # tx[t].req => requests'[r] = requests[r]
    /\ tx[t].req # 0 => /\ requests'[tx[t].req].state = tx[t].reqState
                        /\ requests'[tx[t].req].subject = tx[t].subject
                        /\ requests'[tx[t].req].ent = tx[t].ent
    /\ \A e \in EntIds : tx[t].entState = "NONE" \/ e # tx[t].ent => ents'[e] = ents[e]
    /\ Active(t) => /\ ents'[tx[t].ent].state = "ACTIVE" /\ ents'[tx[t].ent].subject = tx[t].subject
                    /\ ents'[tx[t].ent].key = tx[t].key /\ ents'[tx[t].ent].via = tx[t].op
    /\ tx[t].entState = "REVOKED" =>
         /\ ents'[tx[t].ent].state = "REVOKED" /\ ents'[tx[t].ent].subject = ents[tx[t].ent].subject
         /\ ents'[tx[t].ent].key = ents[tx[t].ent].key /\ ents'[tx[t].ent].via = ents[tx[t].ent].via
    /\ \A k \in AutoKeys : tx[t].op # "auto" \/ k # tx[t].key => audit'[k] = audit[k]
    /\ tx[t].op = "auto" => audit'[tx[t].key].ent = tx[t].ent
    /\ \A k \in Keys : k # tx[t].key => answers'[k] = answers[k]
    /\ tx[t].key \in Keys => answers'[tx[t].key] = answers[tx[t].key] \cup {tx[t].ent}
    /\ head' = IF tx[t].released THEN tx[t].snap ELSE head
    /\ lifecycle' = LifecycleIn(t) /\ visibility' = visibility /\ lapsed' = lapsed
    /\ tx'[t] = AccessIdle /\ held'[t] = {}
    /\ \A u \in Transactions \ {t} : tx'[u] = tx[u] /\ held'[u] = held[u]

\* The transaction that commits, and what it names.
LEMMA Committing ==
    ASSUME AccessInv, NEW t \in Transactions, AccessCommit(t)
    PROVE  /\ tx[t].step = "commit" /\ TxInv(t) /\ tx[t] \in TxRows
           /\ tx[t].req # 0 => tx[t].req \in RequestIds
           /\ tx[t].entState # "NONE" => tx[t].ent \in EntIds
           /\ tx[t].key \in Keys => tx[t].ent \in EntIds
           /\ tx[t].op = "auto" => tx[t].key \in AutoKeys /\ tx[t].ent \in EntIds
<1>1. tx[t].step = "commit" /\ TxInv(t) /\ tx[t] \in TxRows
  BY DEF AccessInv, AccessShape, AccessCommit, At
<1>2. tx[t].req # 0 => tx[t].req \in RequestIds
  BY <1>1, AccessAssumption DEF TxRows, RequestIds
<1>3. tx[t].entState # "NONE" => tx[t].ent \in EntIds
  BY <1>1 DEF TxRows, TxInv, EntInv, Active
<1>4. tx[t].op = "auto" => tx[t].key \in AutoKeys /\ tx[t].ent \in EntIds
  BY <1>1 DEF TxInv, OpInv, AutoInv
<1>5. tx[t].key \in Keys => tx[t].ent \in EntIds
  <2>1. CASE tx[t].op = "grant"
    BY <1>1, <1>3, <2>1 DEF TxInv, EntInv, KeyedBy, Active
  <2> QED
    BY <1>1, <1>4, <2>1, AccessAssumption DEF TxInv, OpInv, Keys
<1> QED
  BY <1>1, <1>2, <1>3, <1>4, <1>5

\* A commit writes those rows and no others, and keeps their types.
LEMMA CommitWrites ==
    ASSUME AccessInv, NEW t \in Transactions, AccessCommit(t)
    PROVE  Writes(t) /\ AccessShape'
<1>0. AccessShape
  BY DEF AccessInv
<1>1. /\ tx[t].step = "commit" /\ TxInv(t) /\ tx[t] \in TxRows
      /\ tx[t].req # 0 => tx[t].req \in RequestIds
      /\ tx[t].entState # "NONE" => tx[t].ent \in EntIds
      /\ tx[t].key \in Keys => tx[t].ent \in EntIds
      /\ tx[t].op = "auto" => tx[t].key \in AutoKeys /\ tx[t].ent \in EntIds
  BY Committing
<1>2. /\ tx'[t] = AccessIdle /\ held'[t] = {} /\ tx' \in [Transactions -> TxRows]
      /\ DOMAIN held' = Transactions
      /\ \A u \in Transactions \ {t} : tx'[u] = tx[u] /\ held'[u] = held[u]
  BY <1>0, IdleRow DEF AccessShape, AccessCommit, End, Set
<1>3. /\ \A r \in RequestIds : r # tx[t].req => requests'[r] = requests[r]
      /\ tx[t].req # 0 => requests'[tx[t].req] =
            [state |-> tx[t].reqState, subject |-> tx[t].subject, ent |-> tx[t].ent]
      /\ requests' \in [RequestIds -> [state : Resolved \cup {"NONE", "PENDING"},
                                       subject : Subjects \cup {Nobody}, ent : 0..MaxEntitlements]]
  <2>1. requests' = IF tx[t].req = 0 THEN requests
                    ELSE [requests EXCEPT ![tx[t].req] =
                            [state |-> tx[t].reqState, subject |-> tx[t].subject, ent |-> tx[t].ent]]
    BY DEF AccessCommit
  <2>2. [state |-> tx[t].reqState, subject |-> tx[t].subject, ent |-> tx[t].ent]
          \in [state : Resolved \cup {"NONE", "PENDING"}, subject : Subjects \cup {Nobody}, ent : 0..MaxEntitlements]
    BY <1>1 DEF TxRows
  <2>3. requests \in [RequestIds -> [state : Resolved \cup {"NONE", "PENDING"},
                                     subject : Subjects \cup {Nobody}, ent : 0..MaxEntitlements]]
    BY <1>0 DEF AccessShape
  <2> QED
    BY <1>1, <2>1, <2>2, <2>3
<1>4. /\ Active(t) => /\ Written(t).state = "ACTIVE" /\ Written(t).subject = tx[t].subject
                      /\ Written(t).key = tx[t].key /\ Written(t).via = tx[t].op
      /\ tx[t].entState = "REVOKED" =>
           /\ Written(t).state = "REVOKED" /\ Written(t).subject = ents[tx[t].ent].subject
           /\ Written(t).key = ents[tx[t].ent].key /\ Written(t).via = ents[tx[t].ent].via
      /\ tx[t].entState # "NONE" =>
           Written(t) \in [state : {"NONE", "ACTIVE", "REVOKED"}, subject : Subjects \cup {Nobody},
                           key : Keys \cup {NoKey}, via : {"NONE", "approve", "grant", "auto"},
                           born : AccessLifecycles \cup {"NONE"}]
  <2>1. CASE Active(t)
    <3>1. Written(t) = [state |-> "ACTIVE", subject |-> tx[t].subject, key |-> tx[t].key,
                        via |-> tx[t].op, born |-> tx[t].born]
      BY <2>1 DEF Written, Active
    <3>2. tx[t].op \in {"approve", "grant", "auto"}
      BY <1>1, <2>1 DEF TxInv, EntInv
    <3> QED
      BY <1>1, <2>1, <3>1, <3>2 DEF TxRows, Active
  <2>2. CASE tx[t].entState = "REVOKED"
    <3>1. Written(t) = [ents[tx[t].ent] EXCEPT !.state = tx[t].entState]
      BY <2>2 DEF Written
    <3>2. ents[tx[t].ent] \in [state : {"NONE", "ACTIVE", "REVOKED"}, subject : Subjects \cup {Nobody},
                               key : Keys \cup {NoKey}, via : {"NONE", "approve", "grant", "auto"},
                               born : AccessLifecycles \cup {"NONE"}]
      BY <1>0, <1>1, <2>2 DEF AccessShape
    <3> QED
      BY <2>2, <3>1, <3>2 DEF Active
  <2>3. tx[t].entState \in {"NONE", "ACTIVE", "REVOKED"}
    BY <1>1 DEF TxRows
  <2> QED
    BY <2>1, <2>2, <2>3 DEF Active
<1>5. /\ \A e \in EntIds : tx[t].entState = "NONE" \/ e # tx[t].ent => ents'[e] = ents[e]
      /\ tx[t].entState # "NONE" => ents'[tx[t].ent] = Written(t)
      /\ ents' \in [EntIds ->
           [state : {"NONE", "ACTIVE", "REVOKED"}, subject : Subjects \cup {Nobody},
            key : Keys \cup {NoKey}, via : {"NONE", "approve", "grant", "auto"},
            born : AccessLifecycles \cup {"NONE"}]]
  <2>1. ents' = IF tx[t].entState = "NONE" THEN ents ELSE [ents EXCEPT ![tx[t].ent] = Written(t)]
    BY DEF AccessCommit
  <2>2. ents \in [EntIds ->
           [state : {"NONE", "ACTIVE", "REVOKED"}, subject : Subjects \cup {Nobody},
            key : Keys \cup {NoKey}, via : {"NONE", "approve", "grant", "auto"},
            born : AccessLifecycles \cup {"NONE"}]]
    BY <1>0 DEF AccessShape
  <2> QED
    BY <1>1, <1>4, <2>1, <2>2
<1>6. /\ \A k \in AutoKeys : tx[t].op # "auto" \/ k # tx[t].key => audit'[k] = audit[k]
      /\ tx[t].op = "auto" => audit'[tx[t].key].ent = tx[t].ent
      /\ audit' \in [AutoKeys -> [ent : 0..MaxEntitlements,
                                  activation : {"NONE", "GRANTED", "ALREADY_ENTITLED"}]]
  <2>1. audit' = IF tx[t].op = "auto" THEN [audit EXCEPT ![tx[t].key] = Activation(t)] ELSE audit
    BY DEF AccessCommit
  <2>2. Activation(t).ent = tx[t].ent
        /\ Activation(t) \in [ent : 0..MaxEntitlements, activation : {"NONE", "GRANTED", "ALREADY_ENTITLED"}]
    BY <1>1 DEF Activation, TxRows
  <2>3. audit \in [AutoKeys -> [ent : 0..MaxEntitlements,
                                activation : {"NONE", "GRANTED", "ALREADY_ENTITLED"}]]
    BY <1>0 DEF AccessShape
  <2> QED
    BY <1>1, <2>1, <2>2, <2>3
<1>7. /\ \A k \in Keys : k # tx[t].key => answers'[k] = answers[k]
      /\ tx[t].key \in Keys => answers'[tx[t].key] = answers[tx[t].key] \cup {tx[t].ent}
      /\ answers' \in [Keys -> SUBSET EntIds]
  <2>1. answers' = IF tx[t].key \in Keys THEN [answers EXCEPT ![tx[t].key] = @ \cup {tx[t].ent}] ELSE answers
    BY DEF AccessCommit
  <2>2. answers \in [Keys -> SUBSET EntIds]
    BY <1>0 DEF AccessShape
  <2> QED
    BY <1>1, <2>1, <2>2
<1>8. /\ head' = IF tx[t].released THEN tx[t].snap ELSE head
      /\ lifecycle' = LifecycleIn(t) /\ visibility' = visibility /\ lapsed' = lapsed
  BY DEF AccessCommit
<1>9. lifecycle' \in AccessLifecycles /\ head' \subseteq EntIds
  BY <1>0, <1>1, <1>8 DEF AccessShape, LifecycleIn, TxRows, AccessLifecycles
<1>10. AccessShape'
  BY <1>0, <1>2, <1>3, <1>5, <1>6, <1>7, <1>8, <1>9 DEF AccessShape
<1>11. /\ tx[t].req # 0 => /\ requests'[tx[t].req].state = tx[t].reqState
                           /\ requests'[tx[t].req].subject = tx[t].subject
                           /\ requests'[tx[t].req].ent = tx[t].ent
  BY <1>3
<1>12. /\ Active(t) => /\ ents'[tx[t].ent].state = "ACTIVE" /\ ents'[tx[t].ent].subject = tx[t].subject
                       /\ ents'[tx[t].ent].key = tx[t].key /\ ents'[tx[t].ent].via = tx[t].op
       /\ tx[t].entState = "REVOKED" =>
            /\ ents'[tx[t].ent].state = "REVOKED" /\ ents'[tx[t].ent].subject = ents[tx[t].ent].subject
            /\ ents'[tx[t].ent].key = ents[tx[t].ent].key /\ ents'[tx[t].ent].via = ents[tx[t].ent].via
  BY <1>4, <1>5 DEF Active
<1> QED
  BY <1>2, <1>3, <1>5, <1>6, <1>7, <1>8, <1>10, <1>11, <1>12 DEF Writes

\* The requests and the entitlements of approvals after a commit.
LEMMA CommitRequests ==
    ASSUME AccessInv, NEW t \in Transactions, AccessCommit(t)
    PROVE  OnePendingEach' /\ ApprovalsInv'
<1>1. Writes(t) /\ AccessShape' /\ AccessShape
  BY CommitWrites DEF AccessInv
<1>2. /\ tx[t].step = "commit" /\ TxInv(t) /\ tx[t] \in TxRows
      /\ tx[t].req # 0 => tx[t].req \in RequestIds
      /\ tx[t].entState # "NONE" => tx[t].ent \in EntIds
  BY Committing
<1>3. OnePendingEach /\ ApprovalsInv /\ KeysInv
  BY DEF AccessInv, CommittedInv
<1>4. /\ \A r \in RequestIds : r # tx[t].req => requests'[r] = requests[r]
      /\ tx[t].req # 0 => /\ requests'[tx[t].req].state = tx[t].reqState
                          /\ requests'[tx[t].req].subject = tx[t].subject
                          /\ requests'[tx[t].req].ent = tx[t].ent
  BY <1>1 DEF Writes
<1>5. 0 \notin RequestIds
  BY AccessAssumption DEF RequestIds
<1>6. /\ tx[t].req # 0 /\ tx[t].reqState = "PENDING" => PendingFor(tx[t].subject) = {}
      /\ tx[t].req # 0 => requests[tx[t].req].state \in {"NONE", "PENDING"}
      /\ tx[t].reqState = "APPROVED" <=> tx[t].op = "approve"
      /\ tx[t].op = "approve" => tx[t].req # 0 /\ Active(t)
  BY <1>2 DEF TxInv, RequestInv, Resolved
<1>7. OnePendingEach'
  <2> SUFFICES ASSUME NEW q \in RequestIds, NEW r \in RequestIds, q # r,
                      requests'[q].state = "PENDING", requests'[r].state = "PENDING",
                      requests'[q].subject = requests'[r].subject
               PROVE  FALSE
    BY DEF OnePendingEach
  <2>1. CASE q # tx[t].req /\ r # tx[t].req
    BY <1>3, <1>4, <2>1 DEF OnePendingEach
  <2>2. CASE q = tx[t].req
    BY <1>4, <1>5, <1>6, <2>2 DEF PendingFor
  <2>3. CASE r = tx[t].req
    BY <1>4, <1>5, <1>6, <2>3 DEF PendingFor
  <2> QED
    BY <2>1, <2>2, <2>3
<1>8. /\ \A e \in EntIds : ents[e].state = "NONE" => ents[e].via = "NONE"
      /\ Active(t) => tx[t].ent \in EntIds /\ ents[tx[t].ent].state = "NONE"
  BY <1>2, <1>3 DEF KeysInv, NoEnt, TxInv, EntInv
<1>9. /\ \A e \in EntIds : ~ Active(t) \/ e # tx[t].ent =>
             ents'[e].via = ents[e].via /\ ents'[e].subject = ents[e].subject
      /\ Active(t) => ents'[tx[t].ent].via = tx[t].op /\ ents'[tx[t].ent].subject = tx[t].subject
  <2>1. tx[t].entState \in {"NONE", "ACTIVE", "REVOKED"}
    BY <1>2 DEF TxRows
  <2> QED
    BY <1>1, <2>1 DEF Writes, Active
<1>10. \A r \in RequestIds : requests'[r].state = "APPROVED" =>
          /\ requests'[r].ent \in EntIds /\ ents'[requests'[r].ent].via = "approve"
          /\ ents'[requests'[r].ent].subject = requests'[r].subject
  <2> SUFFICES ASSUME NEW r \in RequestIds, requests'[r].state = "APPROVED"
               PROVE  /\ requests'[r].ent \in EntIds /\ ents'[requests'[r].ent].via = "approve"
                      /\ ents'[requests'[r].ent].subject = requests'[r].subject
    OBVIOUS
  <2>1. CASE r = tx[t].req
    BY <1>4, <1>5, <1>6, <1>8, <1>9, <2>1
  <2>2. CASE r # tx[t].req
    <3>1. /\ requests'[r] = requests[r] /\ requests[r].ent \in EntIds
          /\ ents[requests[r].ent].via = "approve" /\ ents[requests[r].ent].subject = requests[r].subject
      BY <1>3, <1>4, <2>2 DEF ApprovalsInv
    <3> QED
      BY <1>8, <1>9, <3>1
  <2> QED
    BY <2>1, <2>2
<1>11. \A e \in EntIds : ents'[e].via = "approve" =>
          \E r \in RequestIds : requests'[r].state = "APPROVED" /\ requests'[r].ent = e
  <2> SUFFICES ASSUME NEW e \in EntIds, ents'[e].via = "approve"
               PROVE  \E r \in RequestIds : requests'[r].state = "APPROVED" /\ requests'[r].ent = e
    OBVIOUS
  <2>1. CASE Active(t) /\ e = tx[t].ent
    BY <1>2, <1>4, <1>6, <1>9, <2>1
  <2>2. CASE ~ (Active(t) /\ e = tx[t].ent)
    <3>1. PICK r \in RequestIds : requests[r].state = "APPROVED" /\ requests[r].ent = e
      BY <1>3, <1>9, <2>2 DEF ApprovalsInv
    <3>2. r # tx[t].req
      BY <1>5, <1>6, <3>1
    <3> QED
      BY <1>4, <3>1, <3>2
  <2> QED
    BY <2>1, <2>2
<1>12. \A q, r \in RequestIds : /\ requests'[q].state = "APPROVED" /\ requests'[r].state = "APPROVED"
                                /\ requests'[q].ent = requests'[r].ent
                                => q = r
  <2>1. ASSUME NEW q \in RequestIds, NEW r \in RequestIds, q = tx[t].req, r # q,
               requests'[q].state = "APPROVED", requests'[r].state = "APPROVED",
               requests'[q].ent = requests'[r].ent
        PROVE  FALSE
    <3>1. requests[r].state = "APPROVED" /\ requests[r].ent = tx[t].ent /\ Active(t)
      BY <1>4, <1>5, <1>6, <2>1
    <3> QED
      BY <1>3, <1>8, <3>1 DEF ApprovalsInv
  <2> QED
    BY <1>3, <1>4, <2>1 DEF ApprovalsInv
<1> QED
  BY <1>7, <1>10, <1>11, <1>12 DEF ApprovalsInv

\* The keys, their answers and the events of correlations after a commit.
LEMMA CommitKeys ==
    ASSUME AccessInv, NEW t \in Transactions, AccessCommit(t)
    PROVE  KeysInv' /\ OneAutoEach'
<1>1. Writes(t) /\ AccessShape' /\ AccessShape
  BY CommitWrites DEF AccessInv
<1>2. /\ tx[t].step = "commit" /\ TxInv(t) /\ tx[t] \in TxRows
      /\ tx[t].entState # "NONE" => tx[t].ent \in EntIds
      /\ tx[t].key \in Keys => tx[t].ent \in EntIds
      /\ tx[t].op = "auto" => tx[t].key \in AutoKeys /\ tx[t].ent \in EntIds
  BY Committing
<1>3. KeysInv /\ OneAutoEach
  BY DEF AccessInv, CommittedInv
<1>4. tx[t].entState \in {"NONE", "ACTIVE", "REVOKED"}
  BY <1>2 DEF TxRows
<1>5. /\ \A e \in EntIds : ~ Active(t) \/ e # tx[t].ent =>
           /\ ents'[e].via = ents[e].via /\ ents'[e].subject = ents[e].subject /\ ents'[e].key = ents[e].key
           /\ ents'[e].state = "ACTIVE" => ents[e].state = "ACTIVE"
           /\ ents'[e].state = "NONE" => ents'[e] = ents[e]
      /\ Active(t) => /\ ents'[tx[t].ent].via = tx[t].op /\ ents'[tx[t].ent].subject = tx[t].subject
                      /\ ents'[tx[t].ent].key = tx[t].key /\ ents'[tx[t].ent].state = "ACTIVE"
                      /\ KeyedBy(tx[t].key) = {} /\ tx[t].ent \in EntIds
                      /\ ents[tx[t].ent].state = "NONE"
  BY <1>1, <1>2, <1>4 DEF Writes, Active, TxInv, EntInv
<1>6. \A e \in EntIds : ents'[e].state = "NONE" => ents'[e] = NoEnt
  BY <1>3, <1>5 DEF KeysInv
<1>7. \A d, e \in EntIds : ents'[d].key # NoKey /\ ents'[d].key = ents'[e].key => d = e
  <2> SUFFICES ASSUME NEW d \in EntIds, NEW e \in EntIds, d # e, ents'[d].key # NoKey,
                      ents'[d].key = ents'[e].key
               PROVE  FALSE
    OBVIOUS
  <2>1. CASE Active(t) /\ d = tx[t].ent
    BY <1>5, <2>1 DEF KeyedBy
  <2>2. CASE Active(t) /\ e = tx[t].ent
    BY <1>5, <2>2 DEF KeyedBy
  <2> QED
    BY <1>3, <1>5, <2>1, <2>2 DEF KeysInv
<1>8. \A k \in GrantKeys : (answers[k] \subseteq KeyedBy(k))'
  <2> SUFFICES ASSUME NEW k \in GrantKeys PROVE answers'[k] \subseteq KeyedBy(k)'
    OBVIOUS
  <2>1. answers[k] \subseteq KeyedBy(k) /\ k # NoKey /\ k \in Keys /\ k \notin AutoKeys
    BY <1>3, AccessAssumption DEF KeysInv, Keys
  <2>2. \A e \in EntIds : ents[e].state = "NONE" => ents[e].key = NoKey
    BY <1>3 DEF KeysInv, NoEnt
  <2>3. KeyedBy(k) \subseteq KeyedBy(k)'
    BY <1>5, <2>1, <2>2 DEF KeyedBy
  <2>4. CASE k = tx[t].key
    <3>1. tx[t].op = "grant"
      BY <1>2, <2>1, <2>4 DEF TxInv, OpInv
    <3>2. tx[t].ent \in KeyedBy(k)'
      <4>1. CASE Active(t)
        BY <1>5, <2>1, <2>4, <4>1 DEF KeyedBy
      <4>2. CASE ~ Active(t)
        BY <1>2, <2>3, <2>4, <3>1, <4>2 DEF TxInv, EntInv
      <4> QED
        BY <4>1, <4>2
    <3>3. answers'[k] = answers[k] \cup {tx[t].ent}
      BY <1>1, <2>1, <2>4 DEF Writes
    <3> QED
      BY <2>1, <2>3, <3>2, <3>3
  <2>5. CASE k # tx[t].key
    <3>1. answers'[k] = answers[k]
      BY <1>1, <2>1, <2>5 DEF Writes
    <3> QED
      BY <2>1, <2>3, <3>1
  <2> QED
    BY <2>4, <2>5
<1>9. \A k \in AutoKeys : (answers[k] \subseteq {audit[k].ent})'
  <2> SUFFICES ASSUME NEW k \in AutoKeys PROVE answers'[k] \subseteq {audit'[k].ent}
    OBVIOUS
  <2>1. answers[k] \subseteq {audit[k].ent} /\ k # NoKey /\ k \in Keys /\ k \notin GrantKeys
    BY <1>3, AccessAssumption DEF KeysInv, Keys
  <2>2. answers[k] \subseteq EntIds /\ 0 \notin EntIds
    BY <1>1, <2>1 DEF AccessShape, EntIds
  <2>3. CASE k = tx[t].key
    <3>1. tx[t].op = "auto"
      BY <1>2, <2>1, <2>3 DEF TxInv, OpInv
    <3>2. audit[k].ent \in {0, tx[t].ent}
      BY <1>2, <2>3, <3>1 DEF TxInv, AutoInv
    <3>3. answers'[k] = answers[k] \cup {tx[t].ent} /\ audit'[k].ent = tx[t].ent
      BY <1>1, <2>1, <2>3, <3>1 DEF Writes
    <3> QED
      BY <2>1, <2>2, <3>2, <3>3
  <2>4. CASE k # tx[t].key
    BY <1>1, <2>1, <2>4 DEF Writes
  <2> QED
    BY <2>3, <2>4
<1>10. lapsed' = lapsed
  BY <1>1 DEF Writes
<1>11. OneAutoEach'
  <2> SUFFICES ASSUME NEW d \in EntIds, NEW e \in EntIds, d # e, Effective(d)', Effective(e)',
                      ents'[d].via = "auto", ents'[e].via = "auto", ents'[d].subject = ents'[e].subject
               PROVE  FALSE
    BY DEF OneAutoEach
  <2>1. ASSUME NEW f \in EntIds, Active(t), tx[t].op = "auto", f # tx[t].ent, Effective(f)',
               ents'[f].subject = tx[t].subject, ents'[f].via = "auto"
        PROVE  FALSE
    BY <1>2, <1>5, <1>10, <2>1 DEF TxInv, AutoInv, Effective
  <2>2. CASE Active(t) /\ d = tx[t].ent
    BY <1>5, <2>1, <2>2
  <2>3. CASE Active(t) /\ e = tx[t].ent
    BY <1>5, <2>1, <2>3
  <2>4. CASE ~ (Active(t) /\ d = tx[t].ent) /\ ~ (Active(t) /\ e = tx[t].ent)
    BY <1>3, <1>5, <1>10, <2>4 DEF OneAutoEach, Effective
  <2> QED
    BY <2>2, <2>3, <2>4
<1> QED
  BY <1>6, <1>7, <1>8, <1>9, <1>11 DEF KeysInv

\* The release after a commit.
LEMMA CommitRelease ==
    ASSUME AccessInv, NEW t \in Transactions, AccessCommit(t)
    PROVE  GrantedIsCarried' /\ RetiredIsWithheld'
<1>1. Writes(t) /\ AccessShape
  BY CommitWrites DEF AccessInv
<1>2. /\ tx[t].step = "commit" /\ TxInv(t) /\ tx[t] \in TxRows
  BY Committing
<1>3. GrantedIsCarried /\ RetiredIsWithheld
  BY DEF AccessInv, CommittedInv
<1>4. /\ lapsed' = lapsed /\ lifecycle' = LifecycleIn(t)
      /\ head' = IF tx[t].released THEN tx[t].snap ELSE head
  BY <1>1 DEF Writes
<1>5. \A e \in EntIds : ents'[e].state = StateIn(t, e)
  <2>1. tx[t].entState \in {"NONE", "ACTIVE", "REVOKED"}
    BY <1>2 DEF TxRows
  <2> QED
    BY <1>1, <2>1 DEF Writes, StateIn, Active
<1>6. CASE tx[t].released
  <2>1. IF LifecycleIn(t) \in Served
        THEN \A e \in EntIds : StateIn(t, e) = "ACTIVE" /\ e \notin lapsed => e \in tx[t].snap
        ELSE tx[t].snap = {}
    BY <1>2, <1>6 DEF TxInv, ReleaseInv
  <2>2. GrantedIsCarried'
    BY <1>4, <1>5, <1>6, <2>1 DEF GrantedIsCarried, Effective, Served
  <2>3. RetiredIsWithheld'
    BY <1>4, <1>6, <2>1 DEF RetiredIsWithheld, Served
  <2> QED
    BY <2>2, <2>3
<1>7. CASE ~ tx[t].released
  <2>1. tx[t].life = "NONE" /\ lifecycle' = lifecycle /\ head' = head
    BY <1>2, <1>4, <1>7 DEF TxInv, ReleaseInv, LifecycleIn
  <2>2. Active(t) => lifecycle # "PUBLISHED"
    BY <1>2, <1>7 DEF TxInv, EntInv
  <2>3. ~ Active(t) => \A e \in EntIds : ents'[e].state = "ACTIVE" => ents[e].state = "ACTIVE"
    BY <1>5 DEF StateIn, Active
  <2> QED
    BY <1>3, <1>4, <2>1, <2>2, <2>3 DEF GrantedIsCarried, RetiredIsWithheld, Effective
<1> QED
  BY <1>6, <1>7

\* What the others are about to write is still theirs to write.
LEMMA CommitOthers ==
    ASSUME AccessInv, NEW t \in Transactions, AccessCommit(t), NEW u \in Transactions, u # t
    PROVE  TxInv(u)'
<1>1. Writes(t) /\ AccessShape
  BY CommitWrites DEF AccessInv
<1>2. /\ tx[t].step = "commit" /\ TxInv(t) /\ tx[t] \in TxRows
      /\ tx[t].req # 0 => tx[t].req \in RequestIds
      /\ tx[t].entState # "NONE" => tx[t].ent \in EntIds
      /\ tx[t].op = "auto" => tx[t].key \in AutoKeys /\ tx[t].ent \in EntIds
  BY Committing
<1>3. /\ TxInv(u) /\ Apart(t, u) /\ Apart(u, t) /\ tx'[u] = tx[u] /\ held'[u] = held[u]
      /\ tx[u] \in TxRows
  BY <1>1 DEF AccessInv, AccessShape, Writes
<1>4. KeysInv
  BY DEF AccessInv, CommittedInv
<1>5. OpInv(u)'
  BY <1>3 DEF TxInv, OpInv
<1>6. tx[t].entState \in {"NONE", "ACTIVE", "REVOKED"} /\ lapsed' = lapsed
  BY <1>1, <1>2 DEF TxRows, Writes
<1>7. /\ \A e \in EntIds : ~ Active(t) \/ e # tx[t].ent =>
           /\ ents'[e].via = ents[e].via /\ ents'[e].subject = ents[e].subject /\ ents'[e].key = ents[e].key
           /\ ents'[e].state = "ACTIVE" => ents[e].state = "ACTIVE"
           /\ ents'[e].state = "NONE" <=> ents[e].state = "NONE"
      /\ Active(t) => /\ ents'[tx[t].ent].via = tx[t].op /\ ents'[tx[t].ent].subject = tx[t].subject
                      /\ ents'[tx[t].ent].key = tx[t].key /\ ents'[tx[t].ent].state = "ACTIVE"
                      /\ tx[t].ent \in EntIds /\ ResourceKey \in held[t]
  BY <1>1, <1>2, <1>6 DEF Writes, Active, TxInv, EntInv
<1>8. RequestInv(u)'
  <2>1. tx[u].req # 0 => tx[u].req \in RequestIds /\ requests'[tx[u].req] = requests[tx[u].req]
    <3>1. tx[u].req # 0 => tx[u].req \in RequestIds
      BY <1>3, AccessAssumption DEF TxRows, RequestIds
    <3>2. tx[u].req # 0 => tx[u].req # tx[t].req
      BY <1>3 DEF Apart
    <3> QED
      BY <1>1, <3>1, <3>2 DEF Writes
  <2>2. ASSUME tx[u].op = "request", tx[u].req # 0, PendingFor(tx[u].subject) = {}
        PROVE  PendingFor(tx[u].subject)' = {}
    <3> SUFFICES ASSUME NEW r \in RequestIds, requests'[r].state = "PENDING",
                        requests'[r].subject = tx[u].subject
                 PROVE  FALSE
      BY <1>3 DEF PendingFor
    <3>1. CASE r # tx[t].req
      BY <1>1, <2>2, <3>1 DEF Writes, PendingFor
    <3>2. CASE r = tx[t].req
      <4>1. r # 0
        BY AccessAssumption DEF RequestIds
      <4>2. tx[t].reqState = "PENDING" /\ tx[t].subject = tx[u].subject
        BY <1>1, <3>2, <4>1 DEF Writes
      <4>3. tx[t].op = "request"
        BY <1>2, <3>2, <4>1, <4>2 DEF TxInv, RequestInv, Resolved
      <4> QED
        BY <1>3, <2>2, <3>2, <4>1, <4>2, <4>3 DEF Apart
    <3> QED
      BY <3>1, <3>2
  <2>3. RequestInv(u)
    BY <1>3 DEF TxInv
  <2> QED
    BY <1>3, <2>1, <2>2, <2>3 DEF RequestInv, Active
<1>9. /\ Active(u) => tx[u].ent # tx[t].ent
      /\ tx[u].ent \in EntIds => (ents'[tx[u].ent].state = "NONE" => ents[tx[u].ent].state = "NONE")
      /\ Active(u) => ents'[tx[u].ent].state = "NONE"
  <2>1. Active(u) => tx[u].ent # tx[t].ent
    BY <1>3 DEF Apart
  <2>2. Active(u) => tx[u].ent \in EntIds /\ ents[tx[u].ent].state = "NONE"
    BY <1>3 DEF TxInv, EntInv
  <2> QED
    BY <1>7, <2>1, <2>2
<1>10. \A k : KeyedBy(k) \subseteq KeyedBy(k)'
  <2>1. Active(t) => ents[tx[t].ent].key = NoKey
    BY <1>2, <1>4 DEF KeysInv, NoEnt, TxInv, EntInv
  <2> QED
    BY <1>7, <2>1 DEF KeyedBy
<1>11. \A k : k # NoKey /\ (Active(t) => tx[t].key # k) => KeyedBy(k)' = KeyedBy(k)
  <2>1. Active(t) => ents[tx[t].ent].key = NoKey
    BY <1>2, <1>4 DEF KeysInv, NoEnt, TxInv, EntInv
  <2> QED
    BY <1>7, <2>1 DEF KeyedBy
<1>12. KeyedBy(NoKey)' = {} /\ KeyedBy(NoKey) = {}
  BY DEF KeyedBy
<1>13. tx[t].life # "NONE" => Resource \in held[t]
  BY <1>2 DEF TxInv, ReleaseInv
<1>14. ResourceKey \in held[u] \/ Resource \in held[u] => lifecycle' = lifecycle
  BY <1>1, <1>3, <1>13 DEF Writes, LifecycleIn, Apart
<1>15. EntInv(u)'
  <2>1. EntInv(u)
    BY <1>3 DEF TxInv
  <2>2. Active(u) => KeyedBy(tx[u].key)' = {}
    <3>1. CASE Active(u) /\ tx[u].key = NoKey
      BY <1>12, <1>3, <3>1 DEF KeyedBy
    <3>2. CASE Active(u) /\ tx[u].key # NoKey
      <4>1. Active(t) => tx[t].key # tx[u].key
        BY <1>3, <3>2 DEF Apart
      <4>2. KeyedBy(tx[u].key) = {}
        BY <2>1, <3>2 DEF EntInv
      <4>3. \A k : k = tx[u].key => KeyedBy(k)' = {}
        BY <1>11, <3>2, <4>1, <4>2
      <4> QED
        BY <1>3, <4>3 DEF KeyedBy
    <3> QED
      BY <3>1, <3>2
  <2>3. tx[u].ent \in KeyedBy(tx[u].key) => tx[u].ent \in KeyedBy(tx[u].key)'
    <3>1. \A k : k = tx[u].key => KeyedBy(k) \subseteq KeyedBy(k)'
      BY <1>10
    <3> QED
      BY <1>3, <3>1 DEF KeyedBy
  <2>4. /\ Active(u) => lifecycle' = lifecycle
    BY <1>14, <2>1 DEF EntInv
  <2> QED
    BY <1>3, <1>9, <2>1, <2>2, <2>3, <2>4 DEF EntInv, Active
<1>16. AutoInv(u)'
  <2> SUFFICES ASSUME tx[u].op = "auto" PROVE AutoInv(u)'
    BY <1>3 DEF AutoInv
  <2>1. AutoInv(u) /\ EntInv(u) /\ tx[u].key \in AutoKeys
    BY <1>3 DEF TxInv, OpInv
  <2>2. Resource \in held[u] => tx[t].op # "auto" /\ ~ Active(t)
    <3>1. Active(t) => ResourceKey \in held[t]
      BY <1>7
    <3>2. tx[t].op = "auto" => Resource \in held[t]
      BY <1>2 DEF TxInv, AutoInv
    <3> QED
      BY <1>3, <3>1, <3>2 DEF Apart
  <2>3. tx[u].step \in {"insert", "gateway", "compile", "read"} \/ Active(u) => Resource \in held[u]
    BY <2>1 DEF AutoInv, EntInv
  <2>4. ASSUME Resource \in held[u]
        PROVE  /\ \A e \in EntIds : Effective(e)' => Effective(e) /\ ents'[e].via = ents[e].via
                                                     /\ ents'[e].subject = ents[e].subject
               /\ KeyedBy(tx[u].key)' = KeyedBy(tx[u].key)
               /\ audit'[tx[u].key] = audit[tx[u].key]
    <3>1. tx[t].op # "auto" /\ ~ Active(t)
      BY <2>2, <2>4
    <3>2. \A e \in EntIds : Effective(e)' => Effective(e) /\ ents'[e].via = ents[e].via
                                             /\ ents'[e].subject = ents[e].subject
      BY <1>6, <1>7, <3>1 DEF Effective
    <3>3. \A k : k = tx[u].key => KeyedBy(k)' = KeyedBy(k)
      BY <1>11, <2>1, <3>1, AccessAssumption
    <3>4. KeyedBy(tx[u].key)' = KeyedBy(tx[u].key)
      BY <1>3, <3>3 DEF KeyedBy
    <3>5. audit'[tx[u].key] = audit[tx[u].key]
      BY <1>1, <2>1, <3>1 DEF Writes
    <3> QED
      BY <3>2, <3>4, <3>5
  <2>5. tx[u].step \in {"current", "insert", "commit"} => Resource \in held[u]
    BY <2>1 DEF AutoInv
  <2> QED
    BY <1>3, <2>1, <2>3, <2>4, <2>5 DEF AutoInv, Active
<1>17. ReleaseInv(u)'
  <2>1. ReleaseInv(u)
    BY <1>3 DEF TxInv
  <2>2. ASSUME Resource \in held[u]
        PROVE  /\ LifecycleIn(u)' = LifecycleIn(u)
               /\ \A e \in EntIds : StateIn(u, e)' = "ACTIVE" => StateIn(u, e) = "ACTIVE"
    <3>1. lifecycle' = lifecycle
      BY <1>14, <2>2
    <3>2. ~ Active(t)
      BY <1>3, <1>7, <2>2 DEF Apart
    <3>3. \A e \in EntIds : ents'[e].state = "ACTIVE" => ents[e].state = "ACTIVE"
      BY <1>7, <3>2
    <3> QED
      BY <1>3, <3>1, <3>3 DEF LifecycleIn, StateIn
  <2> QED
    BY <1>3, <1>6, <2>1, <2>2 DEF ReleaseInv
<1> QED
  BY <1>5, <1>8, <1>15, <1>16, <1>17 DEF TxInv

\* A commit keeps the invariant: of the tables, of the others, and between them.
LEMMA CommitStep ==
    ASSUME AccessInv, NEW t \in Transactions, AccessCommit(t)
    PROVE  AccessInv'
<1>1. Writes(t) /\ AccessShape'
  BY CommitWrites
<1>2. CommittedInv'
  BY CommitRequests, CommitKeys, CommitRelease DEF CommittedInv
<1>3. /\ tx'[t] = AccessIdle /\ held'[t] = {}
      /\ \A u \in Transactions \ {t} : tx'[u] = tx[u] /\ held'[u] = held[u]
  BY <1>1 DEF Writes
<1>4. TxInv(t)'
  BY <1>3, IdleRow DEF TxInv, OpInv, RequestInv, EntInv, AutoInv, ReleaseInv, Active
<1>5. \A u \in Transactions : TxInv(u)'
  BY <1>4, CommitOthers
<1>6. ApartStep(t)
  <2>1. \A u \in Transactions : Active(u) => tx[u].ent # 0
    BY AccessAssumption DEF AccessInv, TxInv, EntInv, EntIds
  <2> QED
    BY <1>3, <2>1, IdleRow DEF ApartStep
<1>7. \A u, v \in Transactions : u # v => Apart(u, v)'
  BY <1>3, <1>6, ApartKeeps
<1> QED
  BY <1>1, <1>2, <1>5, <1>7 DEF AccessInv

-----------------------------------------------------------------------------
\* Nothing is requested, granted or open to begin with.
LEMMA AccessInvInit == AccessInit => AccessInv
<1> SUFFICES ASSUME AccessInit PROVE AccessInv
  OBVIOUS
<1>1. /\ lifecycle = AccessStart /\ visibility \in Visibilities /\ lapsed = {} /\ head = {}
      /\ requests = [r \in RequestIds |-> NoRequest] /\ ents = [e \in EntIds |-> NoEnt]
      /\ audit = [k \in AutoKeys |-> NoEvent] /\ answers = [k \in Keys |-> {}]
      /\ tx = [t \in Transactions |-> AccessIdle] /\ held = [t \in Transactions |-> {}]
  BY DEF AccessInit
<1>2. /\ NoRequest \in [state : Resolved \cup {"NONE", "PENDING"},
                        subject : Subjects \cup {Nobody}, ent : 0..MaxEntitlements]
      /\ NoEnt \in [state : {"NONE", "ACTIVE", "REVOKED"}, subject : Subjects \cup {Nobody},
                    key : Keys \cup {NoKey}, via : {"NONE", "approve", "grant", "auto"},
                    born : AccessLifecycles \cup {"NONE"}]
      /\ NoEvent \in [ent : 0..MaxEntitlements, activation : {"NONE", "GRANTED", "ALREADY_ENTITLED"}]
      /\ NoRequest.state = "NONE" /\ NoEnt.state = "NONE" /\ NoEnt.key = NoKey /\ NoEnt.via = "NONE"
  BY AccessAssumption DEF NoRequest, NoEnt, NoEvent
<1>3. AccessShape
  BY <1>1, <1>2, IdleRow, AccessAssumption DEF AccessShape, AccessLifecycles
<1>4. OnePendingEach /\ ApprovalsInv /\ OneAutoEach /\ GrantedIsCarried /\ RetiredIsWithheld
  BY <1>1, <1>2 DEF OnePendingEach, ApprovalsInv, OneAutoEach, GrantedIsCarried, RetiredIsWithheld, Effective
<1>5. KeysInv
  BY <1>1, <1>2, AccessAssumption DEF KeysInv, Keys
<1>6. ASSUME NEW t \in Transactions PROVE TxInv(t) /\ \A u \in Transactions : t # u => Apart(t, u)
  <2>1. \A u \in Transactions : tx[u] = AccessIdle /\ held[u] = {}
    BY <1>1
  <2> QED
    BY <2>1, IdleRow DEF TxInv, OpInv, RequestInv, EntInv, AutoInv, ReleaseInv, Apart, Active
<1> QED
  BY <1>3, <1>4, <1>5, <1>6 DEF AccessInv, CommittedInv

\* Every step keeps the invariant.
LEMMA AccessInvStep == AccessInv /\ [AccessNext]_accessVars => AccessInv'
<1> SUFFICES ASSUME AccessInv, [AccessNext]_accessVars PROVE AccessInv'
  OBVIOUS
<1>1. ASSUME NEW t \in Transactions,
             \/ \E s \in Subjects : \/ RequestAccess(t, s)
                                    \/ \E k \in GrantKeys \cup {NoKey} : AccessGrant(t, s, k)
                                    \/ \E k \in AutoKeys : AutoSubject(t, s, k)
             \/ \E r \in RequestIds : Cancel(t, r) \/ \E op \in {"approve", "deny"} : AccessDecide(t, r, op)
             \/ \E e \in EntIds : RevokeRead(t, e)
             \/ \E to \in Changes : AccessSetLifecycle(t, to)
             \/ AccessPublish(t)
      PROVE  AccessInv'
  BY <1>1, Begins
<1>2. ASSUME NEW t \in Transactions,
             \/ RequestActive(t) \/ RequestExisting(t) \/ LockPublication(t) \/ LockGateway(t)
             \/ LockProjections(t) \/ AutoTarget(t) \/ AutoAudit(t) \/ LockServed(t) \/ Abort(t)
      PROVE  AccessInv'
  BY <1>2, GoSteps
<1>3. ASSUME NEW t \in Transactions,
             \/ RequestInsert(t) \/ FindGrant(t) \/ AutoPrior(t) \/ AutoCurrent(t) \/ InsertEnt(t)
             \/ ReadEntitlements(t) \/ RevokeLock(t) \/ AccessCommit(t)
      PROVE  AccessInv'
  BY <1>3, RequestInsertStep, FindSteps, InsertStep, ReadStep, RevokeStep, CommitStep
<1>4. ASSUME NEW e \in EntIds, Lapse(e) PROVE AccessInv'
  BY <1>4, LapseStep
<1>5. CASE UNCHANGED accessVars
  <2>1. UNCHANGED <<lifecycle, visibility, requests, ents, lapsed, head, audit, answers, tx, held>>
    BY <1>5 DEF accessVars
  <2>2. AccessShape' /\ CommittedInv'
    BY <2>1 DEF AccessInv, AccessShape, CommittedInv, OnePendingEach, ApprovalsInv, KeysInv, OneAutoEach,
       GrantedIsCarried, RetiredIsWithheld, KeyedBy, Effective
  <2>3. \A t, u \in Transactions : t # u => Apart(t, u)'
    BY <2>1 DEF AccessInv, Apart, Active
  <2>4. ASSUME NEW t \in Transactions PROVE TxInv(t)'
    <3>1. TxInv(t)
      BY DEF AccessInv
    <3>2. LifecycleIn(t)' = LifecycleIn(t) /\ \A e \in EntIds : StateIn(t, e)' = StateIn(t, e)
      BY <2>1 DEF LifecycleIn, StateIn
    <3>3. /\ PendingFor(tx[t].subject)' = PendingFor(tx[t].subject) /\ KeyedBy(tx[t].key)' = KeyedBy(tx[t].key)
          /\ \A e \in EntIds : Effective(e)' = Effective(e)
      BY <2>1 DEF PendingFor, KeyedBy, Effective
    <3> QED
      BY <2>1, <3>1, <3>2, <3>3 DEF TxInv, OpInv, RequestInv, EntInv, AutoInv, ReleaseInv, Active
  <2> QED
    BY <2>2, <2>3, <2>4 DEF AccessInv
<1> QED
  BY <1>1, <1>2, <1>3, <1>4, <1>5 DEF AccessNext

\* A set whose elements are all the same has at most one.
LEMMA AtMostOne ==
    ASSUME NEW S, \A x, y \in S : x = y
    PROVE  Cardinality(S) <= 1 /\ (S # {} => Cardinality(S) = 1)
<1>1. CASE S = {}
  BY <1>1, FS_EmptySet
<1>2. CASE S # {}
  <2>1. PICK x \in S : TRUE
    BY <1>2
  <2>2. S = {x}
    BY <2>1
  <2> QED
    BY <2>2, FS_Singleton
<1> QED
  BY <1>1, <1>2

\* The invariant is what must hold: one each, counted.
LEMMA AccessInvSafe == AccessInv => AccessSafe
<1> SUFFICES ASSUME AccessInv PROVE AccessSafe
  OBVIOUS
<1>1. AccessShape /\ OnePendingEach /\ ApprovalsInv /\ KeysInv /\ OneAutoEach
      /\ GrantedIsCarried /\ RetiredIsWithheld
  BY DEF AccessInv, CommittedInv
<1>2. AccessTypeOK
  <2>1. \A t \in Transactions : tx[t].step \in Steps /\ tx[t].ent \in 0..MaxEntitlements
                                /\ tx[t].req \in 0..MaxRequests /\ tx[t].snap \subseteq EntIds
    BY <1>1 DEF AccessShape, TxRows
  <2>2. requests \in [RequestIds ->
          [state : {"NONE", "PENDING", "APPROVED", "DENIED", "CANCELLED"},
           subject : Subjects \cup {Nobody}, ent : 0..MaxEntitlements]]
    <3>1. Resolved \cup {"NONE", "PENDING"} = {"NONE", "PENDING", "APPROVED", "DENIED", "CANCELLED"}
      BY DEF Resolved
    <3> QED
      BY <1>1, <3>1 DEF AccessShape
  <2> QED
    BY <1>1, <2>1, <2>2 DEF AccessTypeOK, AccessShape
<1>3. OnePending
  <2>1. \A s \in Subjects : \A q, r \in PendingFor(s) : q = r
    BY <1>1 DEF OnePendingEach, PendingFor
  <2> QED
    BY <2>1, AtMostOne DEF OnePending
<1>4. ApprovalsGrant
  <2>1. ASSUME NEW e \in EntIds, ents[e].via = "approve"
        PROVE  Cardinality({r \in RequestIds : requests[r].state = "APPROVED" /\ requests[r].ent = e}) = 1
    <3> DEFINE R == {r \in RequestIds : requests[r].state = "APPROVED" /\ requests[r].ent = e}
    <3>1. R # {} /\ \A q, r \in R : q = r
      BY <1>1, <2>1 DEF ApprovalsInv
    <3> HIDE DEF R
    <3>2. Cardinality(R) = 1
      BY <3>1, AtMostOne
    <3> QED
      BY <3>2 DEF R
  <2> QED
    BY <1>1, <2>1 DEF ApprovalsGrant, ApprovalsInv
<1>5. OneAnswerPerKey
  <2>1. \A k \in Keys : \A d, e \in answers[k] : d = e
    BY <1>1, AccessAssumption DEF KeysInv, KeyedBy, Keys
  <2> QED
    BY <2>1, AtMostOne DEF OneAnswerPerKey
<1>6. AutoGrantNotDoubled
  <2>1. ASSUME NEW s \in Subjects
        PROVE  Cardinality({e \in EffectiveFor(s) : ents[e].via = "auto"}) <= 1
    <3> DEFINE A == {e \in EffectiveFor(s) : ents[e].via = "auto"}
    <3>1. \A d, e \in A : d = e
      BY <1>1 DEF OneAutoEach, EffectiveFor
    <3> HIDE DEF A
    <3>2. Cardinality(A) <= 1
      BY <3>1, AtMostOne
    <3> QED
      BY <3>2 DEF A
  <2> QED
    BY <2>1 DEF AutoGrantNotDoubled
<1> QED
  BY <1>1, <1>2, <1>3, <1>4, <1>5, <1>6 DEF AccessSafe

\* For every number of transactions at READ COMMITTED, of requests, entitlements,
\* subjects and keys: one open request per subject, approvals and their entitlements
\* one to one, one answer per key, no automatic grant doubled, and a release that
\* carries what is granted and nothing of a retired Resource (access/postgres.ts,
\* entitlement grants, revocations and the releases they compile).
THEOREM AccessIsSafe == AccessSpec => []AccessSafe
<1>1. AccessInit => AccessInv
  BY AccessInvInit
<1>2. AccessInv /\ [AccessNext]_accessVars => AccessInv'
  BY AccessInvStep
<1>3. AccessInv => AccessSafe
  BY AccessInvSafe
<1> QED
  BY <1>1, <1>2, <1>3, PTL DEF AccessSpec

\* No request that was approved, denied or cancelled changes again, however decisions
\* and cancellations interleave (access/postgres.ts decide, cancel).
THEOREM RequestsResolvedOnce == AccessSpec => ResolvedOnce
<1> DEFINE Kept == \A r \in RequestIds : requests[r].state \in {"APPROVED", "DENIED", "CANCELLED"} =>
                        requests'[r] = requests[r]
<1>1. AccessInit => AccessInv
  BY AccessInvInit
<1>2. AccessInv /\ [AccessNext]_accessVars => AccessInv'
  BY AccessInvStep
<1>3. AccessInv /\ [AccessNext]_accessVars => [Kept]_accessVars
  <2> SUFFICES ASSUME AccessInv, AccessNext, requests' # requests PROVE Kept
    BY DEF accessVars
  <2>0. ASSUME NEW t \in Transactions,
               \/ \E s \in Subjects : \/ RequestAccess(t, s)
                                      \/ \E k \in GrantKeys \cup {NoKey} : AccessGrant(t, s, k)
                                      \/ \E k \in AutoKeys : AutoSubject(t, s, k)
               \/ \E r \in RequestIds : Cancel(t, r) \/ \E op \in {"approve", "deny"} : AccessDecide(t, r, op)
               \/ \E e \in EntIds : RevokeRead(t, e)
               \/ \E to \in Changes : AccessSetLifecycle(t, to)
               \/ RequestActive(t) \/ RequestExisting(t) \/ RequestInsert(t)
               \/ FindGrant(t) \/ InsertEnt(t) \/ LockPublication(t)
               \/ LockGateway(t) \/ LockProjections(t) \/ ReadEntitlements(t)
               \/ AutoTarget(t) \/ AutoPrior(t) \/ AutoCurrent(t) \/ AutoAudit(t)
               \/ RevokeLock(t) \/ AccessPublish(t) \/ LockServed(t) \/ Abort(t)
        PROVE  requests' = requests
    <3> SUFFICES UNCHANGED Tables
      BY DEF Tables
    <3>1. CASE \E s \in Subjects : \/ RequestAccess(t, s)
                                   \/ \E k \in GrantKeys \cup {NoKey} : AccessGrant(t, s, k)
                                   \/ \E k \in AutoKeys : AutoSubject(t, s, k)
      BY <3>1 DEF RequestAccess, AccessGrant, AutoSubject
    <3>2. CASE \/ \E r \in RequestIds : Cancel(t, r) \/ \E op \in {"approve", "deny"} : AccessDecide(t, r, op)
               \/ \E e \in EntIds : RevokeRead(t, e)
               \/ \E to \in Changes : AccessSetLifecycle(t, to)
      BY <3>2 DEF Cancel, AccessDecide, RevokeRead, AccessSetLifecycle
    <3>3. CASE \/ RequestActive(t) \/ RequestExisting(t) \/ RequestInsert(t)
               \/ FindGrant(t) \/ InsertEnt(t) \/ LockPublication(t)
               \/ LockGateway(t) \/ LockProjections(t) \/ ReadEntitlements(t)
      BY <3>3 DEF RequestActive, RequestExisting, RequestInsert, FindGrant, InsertEnt, LockPublication,
         LockGateway, LockProjections, ReadEntitlements
    <3>4. CASE \/ AutoTarget(t) \/ AutoPrior(t) \/ AutoCurrent(t) \/ AutoAudit(t)
               \/ RevokeLock(t) \/ AccessPublish(t) \/ LockServed(t) \/ Abort(t)
      BY <3>4 DEF AutoTarget, AutoPrior, AutoCurrent, AutoAudit, RevokeLock, AccessPublish, LockServed, Abort
    <3> QED
      BY <2>0, <3>1, <3>2, <3>3, <3>4
  <2>1. PICK t \in Transactions : AccessCommit(t)
    <3>1. ASSUME NEW e \in EntIds, Lapse(e) PROVE requests' = requests
      BY <3>1 DEF Lapse
    <3> QED
      BY <2>0, <3>1 DEF AccessNext
  <2>2. /\ Writes(t) /\ TxInv(t)
    BY <2>1, CommitWrites DEF AccessInv
  <2>3. tx[t].req # 0 => requests[tx[t].req].state \in {"NONE", "PENDING"}
    BY <2>2 DEF TxInv, RequestInv
  <2>4. 0 \notin RequestIds
    BY AccessAssumption DEF RequestIds
  <2> QED
    BY <2>2, <2>3, <2>4 DEF Writes
<1> QED
  BY <1>1, <1>2, <1>3, PTL DEF AccessSpec, ResolvedOnce

-----------------------------------------------------------------------------
(* Publishing a Resource *)

Live == {"PUBLISHED", "DEPRECATED"}
Building == {"claimed", "compiled", "failed"}

\* The Resource's revision counts its edits and its lifecycle changes.
RevisionCounts ==
    /\ resource.content >= 1 /\ inputs.config + resource.content <= MaxEdits + 1
    /\ resource.lifecycle = "DRAFT" => resource.rev = resource.content
    /\ resource.lifecycle = "PUBLISHED" => resource.rev = resource.content + 1
    /\ resource.lifecycle = "DEPRECATED" => resource.rev = resource.content + 2
    /\ resource.lifecycle = "RETIRED" => resource.rev = resource.content + 3

\* What is asked for, or reviewed, exists.
InUse ==
    /\ \A q \in Requesters : /\ asking[q].step # "idle" => Len(pubs) > 0
                             /\ asking[q].step = "prepared" => asking[q].pub \in 1 .. Len(pubs)
    /\ \A v \in Reviewers : reviews[v].step # "idle" => Len(pubs) > 0

\* A publication is under review exactly while its request is pending, and is
\* built only then.
UnderReview ==
    \A i \in 1 .. Len(pubs) :
        /\ pubs[i].answer = "PENDING" <=> pubs[i].state = "PENDING_REVIEW"
        /\ pubs[i].build = "BUILDING" => pubs[i].state = "PENDING_REVIEW"

\* OnePublication, without counting.
OneLive ==
    /\ resource.lifecycle \in Live =>
         \E i \in 1 .. Len(pubs) : /\ pubs[i].state = resource.lifecycle
                                   /\ \A j \in 1 .. Len(pubs) : pubs[j].state \in Live => j = i
    /\ resource.lifecycle \notin Live => \A j \in 1 .. Len(pubs) : pubs[j].state \notin Live

\* No two reviews have the same attempt.
OwnAttempts ==
    \A v \in Reviewers : reviews[v].step \in Building =>
        /\ reviews[v].attempt <= ids
        /\ \A w \in Reviewers : reviews[w].step \in Building /\ reviews[w].attempt = reviews[v].attempt => w = v

PublicationInv ==
    /\ PublicationTypeOK /\ RevisionCounts /\ InUse /\ UnderReview /\ OneLive /\ OwnAttempts
    /\ ClaimIsKept /\ PublishedRevisionFixed

\* The parts of the type invariant.
LEMMA PublicationTypes ==
    ASSUME PublicationTypeOK
    PROVE  /\ Len(pubs) \in Nat /\ DOMAIN pubs = 1 .. Len(pubs) /\ pubs \in [1 .. Len(pubs) -> Publications]
           /\ \A i \in 1 .. Len(pubs) : pubs[i] \in Publications
           /\ resource.rev \in Nat /\ resource.content \in Nat /\ inputs.config \in Nat /\ inputs.health \in Nat
           /\ ids \in Nat /\ MaxEdits \in Nat /\ MaxScans \in Nat /\ MaxIds \in Nat /\ MaxPublications \in Nat
           /\ \A v \in Reviewers : reviews[v].attempt \in Nat
  BY PublicationAssumption DEF PublicationTypeOK, Revisions

LEMMA PublicationNumbers ==
    ASSUME PublicationTypeOK
    PROVE  /\ Len(pubs) \in Nat /\ resource.rev \in Nat /\ resource.content \in Nat
           /\ inputs.config \in Nat /\ inputs.health \in Nat /\ ids \in Nat
           /\ MaxEdits \in Nat /\ MaxScans \in Nat /\ MaxIds \in Nat /\ MaxPublications \in Nat
  BY PublicationTypes

\* What a request has read.
LEMMA AskingFields ==
    ASSUME PublicationTypeOK, NEW q \in Requesters
    PROVE  asking[q].read \in Snapshots /\ asking[q].rev \in Revisions /\ asking[q].pub \in 0 .. MaxPublications
  BY DEF PublicationTypeOK

\* A row's fields.
LEMMA PublicationFields ==
    ASSUME NEW p \in Publications
    PROVE  /\ p.state \in PublicationLifecycles \cup {"PENDING_REVIEW"}
           /\ p.build \in {"IDLE", "PENDING_REVIEW", "BUILDING", "FAILED", "READY"}
           /\ p.rev \in Revisions /\ p.snap \in Snapshots /\ p.request \in 0..MaxIds /\ p.attempt \in 0..MaxIds
           /\ p.answer \in {"NONE", "PENDING", "APPROVED", "REJECTED"} /\ p.failure \in Failures
  BY DEF Publications

LEMMA NoSnapshotType == NoSnapshot \in Snapshots
  BY PublicationAssumption DEF NoSnapshot, Snapshots, Revisions, PublicationLifecycles

LEMMA FunctionIsSeq ==
    ASSUME NEW S, NEW n \in Nat, NEW f \in [1 .. n -> S]
    PROVE  f \in Seq(S) /\ Len(f) = n
  OBVIOUS

\* A row is put in the place of another.
LEMMA ReplaceRow ==
    ASSUME PublicationTypeOK, NEW i \in 1 .. Len(pubs), NEW row \in Publications, pubs' = [pubs EXCEPT ![i] = row]
    PROVE  /\ pubs' \in Seq(Publications) /\ Len(pubs') = Len(pubs) /\ pubs'[i] = row
           /\ \A j \in 1 .. Len(pubs) : j # i => pubs'[j] = pubs[j]
<1>1. pubs' \in [1 .. Len(pubs) -> Publications]
  BY PublicationTypes
<1> QED
  BY <1>1, PublicationTypes, FunctionIsSeq

\* A draft is appended.
LEMMA DraftType ==
    ASSUME PublicationTypeOK
    PROVE  Draft \in Publications
  BY PublicationAssumption, NoSnapshotType DEF Draft, Publications, PublicationTypeOK, PublicationLifecycles, Failures

LEMMA AppendDraft ==
    ASSUME PublicationTypeOK, pubs' = Append(pubs, Draft)
    PROVE  /\ pubs' \in Seq(Publications) /\ Len(pubs') = Len(pubs) + 1
           /\ \A j \in 1 .. Len(pubs) : pubs'[j] = pubs[j]
           /\ pubs'[Len(pubs) + 1] = Draft
<1> HIDE DEF Draft
<1> QED
  BY DraftType DEF PublicationTypeOK

\* Before anything is published.
LEMMA PublicationInvInit == PublicationInit => PublicationInv
<1> SUFFICES ASSUME PublicationInit PROVE PublicationInv
  OBVIOUS
<1>1. PICK no \in BOOLEAN : 
        asking = [q \in Requesters |-> [step |-> "idle", read |-> NoSnapshot, pending |-> no, pub |-> 0, rev |-> 0]]
  BY Zenon DEF PublicationInit, Unasked
<1>2. asking \in [Requesters -> [step : {"idle", "read", "prepared"}, read : Snapshots,
                                 pending : BOOLEAN, pub : 0..MaxPublications, rev : Revisions]]
  BY <1>1, NoSnapshotType, PublicationAssumption DEF Revisions
<1>3. /\ resource = [lifecycle |-> "DRAFT", rev |-> 1, content |-> 1]
      /\ inputs = [config |-> 0, health |-> 0] /\ pubs = <<>>
      /\ reviews = [v \in Reviewers |-> Unreviewed] /\ ids = 0 /\ setbacks = 0
  BY Zenon DEF PublicationInit
<1>4. PublicationTypeOK
  BY <1>2, <1>3, NoSnapshotType, PublicationAssumption DEF PublicationTypeOK, Revisions, Unreviewed, PublicationLifecycles, Failures
<1>5. \A q \in Requesters : asking[q].step = "idle"
  BY <1>1
<1>6. \A v \in Reviewers : reviews[v].step = "idle"
  BY <1>3 DEF Unreviewed
<1>7. RevisionCounts /\ InUse /\ UnderReview /\ OneLive 
  BY <1>3, <1>5, <1>6, PublicationAssumption DEF RevisionCounts, InUse, UnderReview, OneLive, Live
<1>8. OwnAttempts /\ ClaimIsKept /\ PublishedRevisionFixed
  BY <1>3, <1>6 DEF OwnAttempts, ClaimIsKept, PublishedRevisionFixed, With, Building
<1> QED
  BY <1>4, <1>7, <1>8 DEF PublicationInv

Askings == [step : {"idle", "read", "prepared"}, read : Snapshots,
            pending : BOOLEAN, pub : 0..MaxPublications, rev : Revisions]
ReviewRows == [step : {"idle", "read", "claimed", "compiled", "failed"},
               request : 0..MaxIds, attempt : 0..MaxIds, snap : Snapshots, why : Failures]

\* The lifecycle changes that are left have a revision left.
LEMMA NextRevision ==
    ASSUME PublicationInv
    PROVE  /\ resource.content <= MaxEdits + 1 /\ resource.content + 1 \in Revisions
           /\ resource.lifecycle # "RETIRED" => resource.rev + 1 \in Revisions
<1>1. resource.content <= MaxEdits + 1
  BY PublicationNumbers DEF PublicationInv, RevisionCounts
<1>2. resource.lifecycle # "RETIRED" => resource.rev <= resource.content + 2
  <2>1. resource.lifecycle \in PublicationLifecycles
    BY DEF PublicationInv, PublicationTypeOK
  <2>2. /\ resource.lifecycle = "DRAFT" => resource.rev = resource.content
        /\ resource.lifecycle = "PUBLISHED" => resource.rev = resource.content + 1
        /\ resource.lifecycle = "DEPRECATED" => resource.rev = resource.content + 2
    BY DEF PublicationInv, RevisionCounts
  <2>3. resource.content \in Nat
    BY PublicationNumbers DEF PublicationInv
  <2> QED
    BY <2>1, <2>2, <2>3 DEF PublicationLifecycles
<1>3. MaxEdits \in Nat /\ resource.content \in Nat /\ resource.rev \in Nat
  BY PublicationNumbers DEF PublicationInv
<1> QED
  BY <1>1, <1>2, <1>3 DEF Revisions

\* While the Resource and its publications stay, so does what is known of them.
LEMMA StillPublications ==
    ASSUME PublicationInv, UNCHANGED <<resource, pubs>>
    PROVE  UnderReview' /\ OneLive' /\ PublishedRevisionFixed'
  BY DEF PublicationInv, UnderReview, OneLive, PublishedRevisionFixed, With

\* A review that goes on, or ends, keeps its attempt and its snapshot, and what
\* it builds stays as it was.
LEMMA ReviewsFollow ==
    ASSUME PublicationInv, Len(pubs') \in Nat, Len(pubs') >= Len(pubs), DOMAIN pubs' = 1 .. Len(pubs'),
           ids' \in {ids, ids + 1},
           \A v \in Reviewers :
             /\ reviews'[v].step \in Building =>
                  reviews[v].step \in Building /\ reviews'[v].attempt = reviews[v].attempt
             /\ reviews'[v].step \in {"claimed", "compiled"} =>
                  reviews[v].step \in {"claimed", "compiled"} /\ reviews'[v].snap = reviews[v].snap,
           \A i \in 1 .. Len(pubs), v \in Reviewers :
             /\ pubs[i].build = "BUILDING" /\ reviews'[v].step \in {"claimed", "compiled"}
             /\ pubs[i].attempt = reviews[v].attempt
             => pubs'[i].build = "BUILDING" /\ pubs'[i].attempt = pubs[i].attempt /\ pubs'[i].snap = pubs[i].snap
    PROVE  OwnAttempts' /\ ClaimIsKept'
<1>1. OwnAttempts'
  BY PublicationTypes DEF PublicationInv, OwnAttempts
<1>2. ClaimIsKept'
  <2> SUFFICES ASSUME NEW v \in Reviewers, reviews'[v].step \in {"claimed", "compiled"}
               PROVE  \E i \in DOMAIN pubs' :
                        /\ pubs'[i].attempt = reviews'[v].attempt /\ pubs'[i].build = "BUILDING"
                        /\ pubs'[i].snap = reviews'[v].snap
    BY DEF ClaimIsKept
  <2>1. PICK i \in 1 .. Len(pubs) : /\ pubs[i].attempt = reviews[v].attempt /\ pubs[i].build = "BUILDING"
                                    /\ pubs[i].snap = reviews[v].snap
    BY PublicationTypes DEF PublicationInv, ClaimIsKept
  <2>2. i \in DOMAIN pubs'
    BY PublicationTypes DEF PublicationInv
  <2> QED
    BY <2>1, <2>2 DEF Building
<1> QED
  BY <1>1, <1>2

LEMMA StillReviews ==
    ASSUME PublicationInv, UNCHANGED <<pubs, reviews>>, ids' \in {ids, ids + 1}
    PROVE  OwnAttempts' /\ ClaimIsKept'
  BY ReviewsFollow, PublicationTypes DEF PublicationInv

\* A draft Resource is edited.
LEMMA UpdateKeeps ==
    ASSUME PublicationInv, UpdateResource
    PROVE  PublicationInv'
<1>1. /\ resource.lifecycle = "DRAFT" /\ inputs.config + resource.content <= MaxEdits
      /\ resource' = [resource EXCEPT !.rev = @ + 1, !.content = @ + 1]
      /\ UNCHANGED <<inputs, asking, reviews, ids, setbacks>>
  BY DEF UpdateResource, Edits
<1>2. resource' \in [lifecycle : PublicationLifecycles, rev : Revisions, content : Revisions] /\ RevisionCounts'
  <2>1. resource'.lifecycle = "DRAFT" /\ resource'.rev = resource.rev + 1 /\ resource'.content = resource.content + 1
    BY <1>1 DEF PublicationInv, PublicationTypeOK
  <2>2. RevisionCounts'
    BY <1>1, <2>1, PublicationTypes DEF PublicationInv, RevisionCounts
  <2>3. resource.rev + 1 \in Revisions /\ resource.content + 1 \in Revisions
    BY <1>1, NextRevision
  <2> QED
    BY <1>1, <2>2, <2>3 DEF PublicationInv, PublicationTypeOK
<1>3. resource.rev + 1 \in Revisions
  BY <1>1, <1>2 DEF PublicationInv, PublicationTypeOK
<1>4. pubs' \in [1 .. Len(pubs) -> Publications]
  <2>1. \A p \in Publications : [p EXCEPT !.rev = resource.rev + 1] \in Publications
    BY <1>3 DEF Publications
  <2> QED
    BY <2>1, PublicationTypes DEF PublicationInv, UpdateResource, AdvanceDrafts
<1>5. pubs' \in Seq(Publications) /\ Len(pubs') = Len(pubs)
  BY <1>4, PublicationTypes, FunctionIsSeq DEF PublicationInv
<1>6. \A i \in 1 .. Len(pubs) : /\ pubs'[i].state = pubs[i].state /\ pubs'[i].build = pubs[i].build
                                /\ pubs'[i].attempt = pubs[i].attempt /\ pubs'[i].snap = pubs[i].snap
                                /\ pubs'[i].answer = pubs[i].answer
  BY PublicationTypes DEF PublicationInv, UpdateResource, AdvanceDrafts, Publications
<1>7. PublicationTypeOK'
  BY <1>1, <1>2, <1>5 DEF PublicationInv, PublicationTypeOK
<1>8. InUse' /\ UnderReview' /\ OneLive'
  BY <1>1, <1>5, <1>6 DEF PublicationInv, InUse, UnderReview, OneLive, Live
<1>9. OwnAttempts' /\ ClaimIsKept'
  BY <1>1, <1>5, <1>6, PublicationTypes, ReviewsFollow DEF PublicationInv
<1>10. PublishedRevisionFixed'
  <2>1. \A i \in 1 .. Len(pubs) : pubs[i].state # "PUBLISHED"
    BY <1>1 DEF PublicationInv, OneLive, Live
  <2> QED
    BY <1>5, <1>6, <2>1 DEF PublishedRevisionFixed, With
<1> QED
  BY <1>2, <1>7, <1>8, <1>9, <1>10 DEF PublicationInv

\* A publication is appended for a new endpoint.
LEMMA AppendKeeps ==
    ASSUME PublicationInv, pubs' = Append(pubs, Draft), Len(pubs) < MaxPublications,
           UNCHANGED <<resource, inputs, reviews, ids, setbacks>>
    PROVE  /\ pubs' \in Seq(Publications) /\ Len(pubs') = Len(pubs) + 1 /\ Len(pubs') <= MaxPublications
           /\ RevisionCounts' /\ UnderReview' /\ OneLive' /\ OwnAttempts' /\ ClaimIsKept' /\ PublishedRevisionFixed'
<1>1. /\ pubs' \in Seq(Publications) /\ Len(pubs') = Len(pubs) + 1
      /\ \A j \in 1 .. Len(pubs) : pubs'[j] = pubs[j]
      /\ pubs'[Len(pubs) + 1].state = "DRAFT" /\ pubs'[Len(pubs) + 1].answer = "NONE"
      /\ pubs'[Len(pubs) + 1].build = "IDLE"
  BY AppendDraft DEF PublicationInv, Draft
<1>2. 1 .. Len(pubs') = (1 .. Len(pubs)) \cup {Len(pubs) + 1} /\ DOMAIN pubs' = 1 .. Len(pubs')
  BY <1>1, PublicationTypes DEF PublicationInv
<1>3. UnderReview' 
  BY <1>1, <1>2 DEF PublicationInv, UnderReview
<1>4. OneLive'
  BY <1>1, <1>2 DEF PublicationInv, OneLive, Live
<1>5. OwnAttempts' /\ ClaimIsKept'
  BY <1>1, <1>2, PublicationTypes, ReviewsFollow DEF PublicationInv
<1>6. PublishedRevisionFixed'
  BY <1>1, <1>2, PublicationTypes DEF PublicationInv, PublishedRevisionFixed, With
<1>7. RevisionCounts' /\ Len(pubs') <= MaxPublications
  BY <1>1, PublicationTypes DEF PublicationInv, RevisionCounts
<1> QED
  BY <1>1, <1>3, <1>4, <1>5, <1>6, <1>7

LEMMA EndpointKeeps ==
    ASSUME PublicationInv, SetPublicationEndpoint
    PROVE  PublicationInv'
<1>1. /\ pubs' = Append(pubs, Draft) /\ Len(pubs) < MaxPublications
      /\ UNCHANGED <<resource, inputs, asking, reviews, ids, setbacks>>
  <2>1. /\ pubs' = Append(pubs, Draft) /\ Len(pubs) < MaxEndpoints
        /\ UNCHANGED <<resource, inputs, asking, reviews, ids, setbacks>>
    BY DEF SetPublicationEndpoint, Newest
  <2>2. Len(pubs) \in Nat
    BY PublicationTypes DEF PublicationInv
  <2> QED
    BY <2>1, <2>2, PublicationAssumption
<1>2. PublicationTypeOK' /\ InUse'
  BY <1>1, AppendKeeps, PublicationTypes DEF PublicationInv, PublicationTypeOK, InUse
<1> QED
  BY <1>1, <1>2, AppendKeeps DEF PublicationInv

\* A Resource is deprecated or retired, and what is published with it.
LEMMA LifecycleKeeps ==
    ASSUME PublicationInv, NEW next \in PublicationLifecycles, PublicationSetLifecycle(next)
    PROVE  PublicationInv'
<1>1. /\ (resource.lifecycle = "PUBLISHED" /\ next = "DEPRECATED") \/ (resource.lifecycle = "DEPRECATED" /\ next = "RETIRED")
      /\ resource' = [resource EXCEPT !.lifecycle = next, !.rev = @ + 1]
      /\ UNCHANGED <<inputs, asking, reviews, ids, setbacks>>
  BY DEF PublicationSetLifecycle
<1>2. resource' \in [lifecycle : PublicationLifecycles, rev : Revisions, content : Revisions] /\ RevisionCounts'
  <2>1. resource'.lifecycle = next /\ resource'.rev = resource.rev + 1 /\ resource'.content = resource.content
    BY <1>1 DEF PublicationInv, PublicationTypeOK
  <2>2. inputs' = inputs
    BY <1>1
  <2>3. RevisionCounts'
    <3>1. CASE resource.lifecycle = "PUBLISHED" /\ next = "DEPRECATED"
      BY <2>1, <2>2, <3>1, PublicationNumbers DEF PublicationInv, RevisionCounts
    <3>2. CASE resource.lifecycle = "DEPRECATED" /\ next = "RETIRED"
      BY <2>1, <2>2, <3>2, PublicationNumbers DEF PublicationInv, RevisionCounts
    <3> QED
      BY <1>1, <3>1, <3>2
  <2>4. resource.rev + 1 \in Revisions
    BY <1>1, NextRevision
  <2> QED
    BY <1>1, <2>3, <2>4 DEF PublicationInv, PublicationTypeOK
<1>3. pubs' \in [1 .. Len(pubs) -> Publications]
  <2>1. \A p \in Publications : [p EXCEPT !.state = next] \in Publications
    BY DEF Publications
  <2> QED
    BY <2>1, PublicationTypes DEF PublicationInv, PublicationSetLifecycle, Follow
<1>4. pubs' \in Seq(Publications) /\ Len(pubs') = Len(pubs)
  BY <1>3, PublicationTypes, FunctionIsSeq DEF PublicationInv
<1>5. \A i \in 1 .. Len(pubs) : /\ pubs'[i].state = IF pubs[i].state \in Live THEN next ELSE pubs[i].state
                                /\ pubs'[i].build = pubs[i].build
                                /\ pubs'[i].attempt = pubs[i].attempt /\ pubs'[i].snap = pubs[i].snap
                                /\ pubs'[i].answer = pubs[i].answer
  BY PublicationTypes DEF PublicationInv, PublicationSetLifecycle, Follow, Publications, Live
<1>6. PublicationTypeOK' /\ InUse'
  BY <1>1, <1>2, <1>4 DEF PublicationInv, PublicationTypeOK, InUse
<1>7. UnderReview'
  BY <1>1, <1>4, <1>5 DEF PublicationInv, UnderReview, Live
<1>8. OneLive'
  BY <1>1, <1>2, <1>4, <1>5 DEF PublicationInv, PublicationTypeOK, OneLive, Live
<1>9. OwnAttempts' /\ ClaimIsKept'
  BY <1>1, <1>4, <1>5, PublicationTypes, ReviewsFollow DEF PublicationInv
<1>10. PublishedRevisionFixed'
  <2>1. \A i \in 1 .. Len(pubs) : pubs[i].state # "PUBLISHED" \/ pubs[i].state \in Live
    BY DEF Live
  <2>2. \A i \in 1 .. Len(pubs) : pubs'[i].state # "PUBLISHED"
    BY <1>1, <1>5, <2>1 DEF Live
  <2> QED
    BY <1>4, <2>2 DEF PublishedRevisionFixed, With
<1> QED
  BY <1>2, <1>6, <1>7, <1>8, <1>9, <1>10 DEF PublicationInv

\* The inputs change, or are observed.
LEMMA InputsKeep ==
    ASSUME PublicationInv, Reconfigure \/ HealthScan
    PROVE  PublicationInv'
<1>1. UNCHANGED <<resource, pubs, asking, reviews, ids, setbacks>>
  BY DEF Reconfigure, HealthScan
<1>2. inputs' \in [config : 0..MaxEdits, health : 0..MaxScans] /\ RevisionCounts'
  <2>1. CASE Reconfigure
    <3>1. inputs' = [inputs EXCEPT !.config = @ + 1] /\ inputs.config + resource.content <= MaxEdits
      BY <2>1 DEF Reconfigure, Edits
    <3>2. inputs'.config = inputs.config + 1
      BY <3>1 DEF PublicationInv, PublicationTypeOK
    <3>3. inputs.config + 1 \in 0 .. MaxEdits
      <4>1. resource.content >= 1 /\ inputs.config \in Nat /\ resource.content \in Nat /\ MaxEdits \in Nat
        BY PublicationNumbers DEF PublicationInv, RevisionCounts
      <4> QED
        BY <3>1, <4>1
    <3>4. RevisionCounts'
      BY <1>1, <3>1, <3>2, PublicationTypes DEF PublicationInv, RevisionCounts
    <3> QED
      BY <3>1, <3>4, <3>3 DEF PublicationInv, PublicationTypeOK
  <2>2. CASE HealthScan
    <3>1. inputs' = [inputs EXCEPT !.health = @ + 1] /\ inputs.health < MaxScans
      BY <2>2 DEF HealthScan
    <3>2. inputs'.config = inputs.config /\ inputs.health + 1 \in 0 .. MaxScans
      BY <3>1, PublicationTypes DEF PublicationInv, PublicationTypeOK
    <3> QED
      BY <1>1, <3>1, <3>2 DEF PublicationInv, PublicationTypeOK, RevisionCounts
  <2> QED
    BY <2>1, <2>2
<1>3. PublicationTypeOK' /\ InUse'
  BY <1>1, <1>2 DEF PublicationInv, PublicationTypeOK, InUse
<1> QED
  BY <1>1, <1>2, <1>3, StillPublications, StillReviews DEF PublicationInv

\* A request reads.
LEMMA ReadInputsKeeps ==
    ASSUME PublicationInv, NEW q \in Requesters, ReadInputs(q)
    PROVE  PublicationInv'
<1>1. /\ pubs # <<>> /\ UNCHANGED <<resource, inputs, pubs, reviews, ids, setbacks>>
  BY DEF ReadInputs
<1> DEFINE read == [NoSnapshot EXCEPT !.content = resource.content, !.lifecycle = resource.lifecycle,
                                      !.config = inputs.config, !.health = inputs.health]
<1>2. PICK no \in BOOLEAN :
        asking' = [asking EXCEPT ![q] = [step |-> "read", read |-> read, pending |-> no, pub |-> 0, rev |-> 0]]
  <2>1. asking' = [asking EXCEPT ![q] =
                    [Unasked EXCEPT
                        !.step = "read", !.read = read,
                        !.pending = pubs[Newest].answer = "PENDING" /\ pubs[Newest].failure = "NONE"]]
    BY DEF ReadInputs
  <2> HIDE DEF read
  <2>2. PICK row : /\ \E asked \in BOOLEAN : row = [Unasked EXCEPT !.step = "read", !.read = read, !.pending = asked]
                   /\ asking' = [asking EXCEPT ![q] = row]
    BY <2>1, Zenon
  <2>3. PICK no \in BOOLEAN : Unasked = [step |-> "idle", read |-> NoSnapshot, pending |-> no, pub |-> 0, rev |-> 0]
    BY Zenon DEF Unasked
  <2>4. PICK asked \in BOOLEAN : row = [step |-> "read", read |-> read, pending |-> asked, pub |-> 0, rev |-> 0]
    BY <2>2, <2>3
  <2> QED
    BY <2>2, <2>4
<1>3. read \in Snapshots
  BY NoSnapshotType DEF PublicationInv, PublicationTypeOK, Snapshots
<1> HIDE DEF read
<1>4. asking' \in [Requesters -> Askings]
  BY <1>2, <1>3, PublicationAssumption DEF PublicationInv, PublicationTypeOK, Askings, Revisions
<1>5. asking'[q].step = "read" /\ \A r \in Requesters : r # q => asking'[r] = asking[r]
  BY <1>2 DEF PublicationInv, PublicationTypeOK
<1>6. Len(pubs) > 0
  BY <1>1 DEF PublicationInv, PublicationTypeOK
<1>7. PublicationTypeOK' /\ InUse' /\ RevisionCounts'
  BY <1>1, <1>4, <1>5, <1>6 DEF PublicationInv, PublicationTypeOK, InUse, Askings, RevisionCounts
<1> QED
  BY <1>1, <1>7, StillPublications, StillReviews DEF PublicationInv

\* A request ends, or is given a publication.
LEMMA EndAskingTypes ==
    ASSUME PublicationTypeOK, NEW q \in Requesters, EndAsking(q)
    PROVE  /\ asking' \in [Requesters -> Askings] /\ asking'[q].step = "idle"
           /\ \A r \in Requesters : r # q => asking'[r] = asking[r]
<1>1. PICK no \in BOOLEAN :
        asking' = [asking EXCEPT ![q] = [step |-> "idle", read |-> NoSnapshot, pending |-> no, pub |-> 0, rev |-> 0]]
  BY Zenon DEF EndAsking, Unasked
<1> QED
  BY <1>1, NoSnapshotType, PublicationAssumption DEF PublicationTypeOK, Askings, Revisions

LEMMA GiveTypes ==
    ASSUME PublicationTypeOK, NEW q \in Requesters, NEW i \in 0 .. MaxPublications, NEW rev \in Revisions,
           PublicationGive(q, i, rev)
    PROVE  /\ asking' \in [Requesters -> Askings]
           /\ asking'[q].step = "idle" \/ (asking'[q].step = "prepared" /\ asking'[q].pub = i)
           /\ \A r \in Requesters : r # q => asking'[r] = asking[r]
<1>1. CASE asking[q].pending
  BY <1>1, EndAskingTypes, Zenon DEF PublicationGive, EndAsking
<1>2. CASE ~ asking[q].pending
  <2>1. asking' = [asking EXCEPT ![q] = [asking[q] EXCEPT !.step = "prepared", !.pub = i, !.rev = rev]]
    BY <1>2, Zenon DEF PublicationGive
  <2>2. asking \in [Requesters -> Askings]
    BY DEF PublicationTypeOK, Askings
  <2>3. \A p \in Askings : /\ [p EXCEPT !.step = "prepared", !.pub = i, !.rev = rev] \in Askings
                           /\ [p EXCEPT !.step = "prepared", !.pub = i, !.rev = rev].step = "prepared"
                           /\ [p EXCEPT !.step = "prepared", !.pub = i, !.rev = rev].pub = i
    BY DEF Askings
  <2> QED
    BY <2>1, <2>2, <2>3
<1> QED
  BY <1>1, <1>2

\* preparePublicationReference.
LEMMA PrepareKeeps ==
    ASSUME PublicationInv, NEW q \in Requesters, Prepare(q)
    PROVE  PublicationInv'
<1> DEFINE n == Len(pubs)
<1>1. /\ n \in 1 .. MaxPublications /\ n \in 1 .. Len(pubs) /\ MaxPublications \in Nat
      /\ pubs[n] \in Publications /\ resource.rev \in Revisions
  <2>1. n > 0 /\ n <= MaxPublications /\ resource.rev \in Revisions
    BY DEF Prepare, Asking, PublicationInv, PublicationTypeOK, InUse
  <2> QED
    BY <2>1, PublicationTypes DEF PublicationInv
<1>2. UNCHANGED <<resource, inputs, reviews, ids, setbacks>>
  BY DEF Prepare
<1>3. CASE /\ pubs' = IF Pristine(pubs[n]) THEN [pubs EXCEPT ![n].rev = resource.rev] ELSE pubs
           /\ PublicationGive(q, n, pubs'[n].rev)
  <2>1. PICK row \in Publications : 
          /\ pubs' = [pubs EXCEPT ![n] = row]
          /\ row.state = pubs[n].state /\ row.build = pubs[n].build /\ row.attempt = pubs[n].attempt
          /\ row.snap = pubs[n].snap /\ row.answer = pubs[n].answer
          /\ row.state = "PUBLISHED" => row.rev = pubs[n].rev
    <3>1. CASE Pristine(pubs[n])
      <4>1. [pubs[n] EXCEPT !.rev = resource.rev] \in Publications
        BY <1>1 DEF Publications
      <4> QED
        BY <1>1, <1>3, <3>1, <4>1 DEF Pristine, Publications
    <3>2. CASE ~ Pristine(pubs[n])
      <4>1. pubs' = [pubs EXCEPT ![n] = pubs[n]]
        BY <1>1, <1>3, <3>2, PublicationTypes DEF PublicationInv
      <4> QED
        BY <1>1, <4>1
    <3> QED
      BY <3>1, <3>2
  <2>2. /\ pubs' \in Seq(Publications) /\ Len(pubs') = Len(pubs) /\ pubs'[n] = row
        /\ \A j \in 1 .. Len(pubs) : j # n => pubs'[j] = pubs[j]
    BY <1>1, <2>1, ReplaceRow DEF PublicationInv
  <2>3. \A j \in 1 .. Len(pubs) : 
          /\ pubs'[j].state = pubs[j].state /\ pubs'[j].build = pubs[j].build /\ pubs'[j].attempt = pubs[j].attempt
          /\ pubs'[j].snap = pubs[j].snap /\ pubs'[j].answer = pubs[j].answer
          /\ pubs[j].state = "PUBLISHED" => pubs'[j].rev = pubs[j].rev
    BY <1>1, <2>1, <2>2
  <2>4. /\ asking' \in [Requesters -> Askings]
        /\ asking'[q].step = "idle" \/ (asking'[q].step = "prepared" /\ asking'[q].pub = n)
        /\ \A r \in Requesters : r # q => asking'[r] = asking[r]
    BY <1>1, <1>3, <2>1, <2>2, GiveTypes, PublicationFields DEF PublicationInv
  <2>5. PublicationTypeOK' /\ InUse' /\ RevisionCounts'
    <3>1. PublicationTypeOK'
      BY <1>1, <1>2, <2>2, <2>4 DEF PublicationInv, PublicationTypeOK, Askings
    <3>2. InUse'
      BY <1>1, <1>2, <2>2, <2>4, PublicationNumbers DEF PublicationInv, InUse
    <3>3. RevisionCounts'
      BY <1>2 DEF PublicationInv, RevisionCounts
    <3> QED
      BY <3>1, <3>2, <3>3
  <2>6. UnderReview' /\ OneLive'
    BY <1>2, <2>2, <2>3 DEF PublicationInv, UnderReview, OneLive, Live
  <2>7. OwnAttempts' /\ ClaimIsKept'
    BY <1>2, <2>2, <2>3, PublicationTypes, ReviewsFollow DEF PublicationInv
  <2>8. PublishedRevisionFixed'
    <3>1. DOMAIN pubs = 1 .. Len(pubs) /\ DOMAIN pubs' = 1 .. Len(pubs)
      BY <2>2, PublicationTypes DEF PublicationInv
    <3> HIDE DEF n
    <3> QED
      BY <1>2, <2>3, <3>1 DEF PublicationInv, PublishedRevisionFixed, With
  <2> QED
    BY <2>5, <2>6, <2>7, <2>8 DEF PublicationInv
<1>4. CASE /\ n < MaxPublications /\ pubs' = Append(pubs, Draft)
           /\ PublicationGive(q, n + 1, resource.rev)
  <2>1. /\ asking' \in [Requesters -> Askings]
        /\ asking'[q].step = "idle" \/ (asking'[q].step = "prepared" /\ asking'[q].pub = n + 1)
        /\ \A r \in Requesters : r # q => asking'[r] = asking[r]
    <3>1. n + 1 \in 0 .. MaxPublications /\ PublicationTypeOK
      BY <1>1, <1>4 DEF PublicationInv
    <3>2. PublicationGive(q, n + 1, resource.rev)
      BY <1>4
    <3> HIDE DEF n
    <3> QED
      BY <1>1, <3>1, <3>2, GiveTypes
  <2>2. PublicationTypeOK' /\ InUse'
    <3>1. PublicationTypeOK'
      BY <1>2, <1>4, <2>1, AppendKeeps DEF PublicationInv, PublicationTypeOK, Askings
    <3>2. InUse'
      <4>1. Len(pubs') = n + 1 /\ reviews' = reviews
        BY <1>2, <1>4, AppendKeeps
      <4>2. n \in Nat /\ n > 0 /\ Len(pubs) = n
        BY <1>1
      <4> HIDE DEF n
      <4> QED
        BY <2>1, <4>1, <4>2 DEF PublicationInv, InUse
    <3> QED
      BY <3>1, <3>2
  <2> QED
    BY <1>2, <1>4, <2>2, AppendKeeps DEF PublicationInv
<1>5. CASE PublicationGive(q, n, pubs[n].rev) /\ UNCHANGED pubs
  <2>1. /\ asking' \in [Requesters -> Askings]
        /\ asking'[q].step = "idle" \/ (asking'[q].step = "prepared" /\ asking'[q].pub = n)
        /\ \A r \in Requesters : r # q => asking'[r] = asking[r]
    BY <1>1, <1>5, GiveTypes, PublicationFields DEF PublicationInv
  <2>2. PublicationTypeOK' /\ InUse' /\ RevisionCounts'
    <3>1. PublicationTypeOK'
      BY <1>1, <1>2, <1>5, <2>1 DEF PublicationInv, PublicationTypeOK, Askings
    <3>2. InUse'
      BY <1>1, <1>2, <1>5, <2>1, PublicationNumbers DEF PublicationInv, InUse
    <3>3. RevisionCounts'
      BY <1>2 DEF PublicationInv, RevisionCounts
    <3> QED
      BY <3>1, <3>2, <3>3
  <2> QED
    BY <1>2, <1>5, <2>2, StillPublications, StillReviews DEF PublicationInv
<1> QED
  BY <1>3, <1>4, <1>5 DEF Prepare, Newest

\* saveReviewSnapshot.
LEMMA SaveKeeps ==
    ASSUME PublicationInv, NEW q \in Requesters, PublicationSave(q)
    PROVE  PublicationInv'
<1> DEFINE i == asking[q].pub
           row == [pubs[i] EXCEPT !.state = "PENDING_REVIEW", !.build = "PENDING_REVIEW", !.snap = Snapshot(q),
                                  !.request = ids + 1, !.answer = "PENDING", !.attempt = 0, !.failure = "NONE"]
<1>1. i \in 1 .. Len(pubs) /\ pubs[i] \in Publications
  BY PublicationTypes DEF PublicationSave, Asking, PublicationInv, PublicationTypeOK, InUse
<1>2. /\ asking' \in [Requesters -> Askings] /\ asking'[q].step = "idle"
      /\ \A r \in Requesters : r # q => asking'[r] = asking[r]
  BY EndAskingTypes DEF PublicationSave, PublicationInv
<1>3. UNCHANGED <<resource, inputs, reviews, setbacks>>
  BY DEF PublicationSave
<1>4. CASE UNCHANGED <<pubs, ids>>
  <2>1. PublicationTypeOK' /\ InUse' /\ RevisionCounts'
    <3>1. PublicationTypeOK'
      BY <1>2, <1>3, <1>4 DEF PublicationInv, PublicationTypeOK, Askings
    <3>2. InUse'
      BY <1>2, <1>3, <1>4, PublicationNumbers DEF PublicationInv, InUse
    <3>3. RevisionCounts'
      BY <1>2, <1>3 DEF PublicationInv, RevisionCounts
    <3> QED
      BY <3>1, <3>2, <3>3
  <2> QED
    BY <1>3, <1>4, <2>1, StillPublications, StillReviews DEF PublicationInv
<1>5. CASE pubs[i].state = "DRAFT" /\ ids < MaxIds /\ ids' = ids + 1 /\ pubs' = [pubs EXCEPT ![i] = row]
  <2>1. Snapshot(q) \in Snapshots
    BY AskingFields DEF Snapshot, PublicationInv, Snapshots
  <2>2. row \in Publications
    <3>1. ids + 1 \in 0 .. MaxIds /\ 0 \in 0 .. MaxIds
      BY <1>5, PublicationNumbers DEF PublicationInv
    <3> HIDE DEF i
    <3> QED
      BY <1>1, <2>1, <3>1 DEF Publications, Failures
  <2>3. row.state = "PENDING_REVIEW" /\ row.answer = "PENDING" /\ row.build = "PENDING_REVIEW"
    BY <1>1 DEF Publications
  <2> HIDE DEF row
  <2>4. /\ pubs' \in Seq(Publications) /\ Len(pubs') = Len(pubs) /\ pubs'[i] = row
        /\ \A j \in 1 .. Len(pubs) : j # i => pubs'[j] = pubs[j]
    BY <1>1, <1>5, <2>2, ReplaceRow DEF PublicationInv
  <2> HIDE DEF i
  <2>5. PublicationTypeOK' /\ InUse' /\ RevisionCounts'
    <3>1. PublicationTypeOK'
      <4>1. ids' \in 0 .. MaxIds
        BY <1>5, PublicationNumbers DEF PublicationInv
      <4> QED
        BY <1>2, <1>3, <2>4, <4>1 DEF PublicationInv, PublicationTypeOK, Askings
    <3>2. InUse'
      BY <1>2, <1>3, <2>4 DEF PublicationInv, InUse
    <3>3. RevisionCounts'
      BY <1>2, <1>3 DEF PublicationInv, RevisionCounts
    <3> QED
      BY <3>1, <3>2, <3>3
  <2>6. UnderReview'
    BY <2>3, <2>4 DEF PublicationInv, UnderReview
  <2>7. OneLive'
    BY <1>3, <1>5, <2>3, <2>4 DEF PublicationInv, OneLive, Live
  <2>8. OwnAttempts' /\ ClaimIsKept'
    <3>1. pubs[i].build # "BUILDING"
      BY <1>1, <1>5 DEF PublicationInv, UnderReview
    <3> QED
      BY <1>3, <1>5, <2>4, <3>1, PublicationTypes, ReviewsFollow DEF PublicationInv
  <2>9. PublishedRevisionFixed'
    BY <1>3, <1>5, <2>3, <2>4, PublicationTypes DEF PublicationInv, PublishedRevisionFixed, With
  <2> QED
    BY <2>5, <2>6, <2>7, <2>8, <2>9 DEF PublicationInv
<1> QED
  <2>1. pubs' = [pubs EXCEPT ![i].state = "PENDING_REVIEW", ![i].build = "PENDING_REVIEW",
                             ![i].snap = Snapshot(q), ![i].request = ids + 1,
                             ![i].answer = "PENDING", ![i].attempt = 0, ![i].failure = "NONE"]
        => pubs' = [pubs EXCEPT ![i] = row]
    BY <1>1, PublicationTypes DEF PublicationInv, Publications
  <2> HIDE DEF row
  <2> QED
    BY <1>4, <1>5, <2>1 DEF PublicationSave

\* A review that changes no publication: it reads, is refused, compiles, fails
\* or dies.
ReviewGoesOn(v) ==
    \/ ReadRequest(v) \/ Refused(v) \/ Compile(v) \/ BuildErrors(v) \/ CommitFails(v) \/ PublicationCrash(v)

\* The fields of a review.
LEMMA ReviewFields ==
    ASSUME PublicationTypeOK, NEW v \in Reviewers
    PROVE  /\ reviews[v] \in ReviewRows
           /\ reviews[v].request \in 0 .. MaxIds /\ reviews[v].attempt \in 0 .. MaxIds
           /\ reviews[v].snap \in Snapshots /\ reviews[v].why \in Failures
  BY DEF PublicationTypeOK, ReviewRows

LEMMA UnreviewedType == Unreviewed \in ReviewRows /\ Unreviewed.step = "idle"
  BY PublicationAssumption, NoSnapshotType DEF Unreviewed, ReviewRows, Failures

\* A review's row is replaced.
LEMMA ReplaceReview ==
    ASSUME PublicationTypeOK, NEW v \in Reviewers, NEW row \in ReviewRows, reviews' = [reviews EXCEPT ![v] = row]
    PROVE  /\ reviews' \in [Reviewers -> ReviewRows] /\ reviews'[v] = row
           /\ \A w \in Reviewers : w # v => reviews'[w] = reviews[w]
  BY DEF PublicationTypeOK, ReviewRows

LEMMA ReviewGoesOnKeeps ==
    ASSUME PublicationInv, NEW v \in Reviewers, ReviewGoesOn(v)
    PROVE  PublicationInv'
<1>1. UNCHANGED <<resource, inputs, pubs, asking, ids>> /\ setbacks' \in 0 .. MaxSetbacks
  BY PublicationAssumption DEF ReviewGoesOn, ReadRequest, Refused, Compile, BuildErrors, BuildFails, CommitFails, PublicationCrash, SetBack,
     PublicationInv, PublicationTypeOK
<1>2. PICK row \in ReviewRows :
        /\ reviews' = [reviews EXCEPT ![v] = row]
        /\ row.step \in Building => reviews[v].step \in Building /\ row.attempt = reviews[v].attempt
        /\ row.step \in {"claimed", "compiled"} => 
             reviews[v].step \in {"claimed", "compiled"} /\ row.snap = reviews[v].snap
        /\ row.step # "idle" => Len(pubs) > 0
  <2>1. CASE ReadRequest(v)
    <3> DEFINE row == [reviews[v] EXCEPT !.step = "read", !.request = pubs[Newest].request]
    <3>1. Len(pubs) > 0 /\ pubs[Newest].request \in 0 .. MaxIds
      BY <2>1, PublicationTypes, PublicationFields DEF ReadRequest, Newest, PublicationInv, PublicationTypeOK
    <3>2. row \in ReviewRows /\ row.step = "read" /\ reviews' = [reviews EXCEPT ![v] = row]
      BY <2>1, <3>1, ReviewFields DEF ReadRequest, PublicationInv, PublicationTypeOK, ReviewRows
    <3> QED
      BY <3>1, <3>2 DEF Building
  <2>2. CASE PublicationEndReview(v)
    BY <2>2, UnreviewedType DEF PublicationEndReview, Building
  <2>3. CASE Compile(v)
    <3> DEFINE row == [reviews[v] EXCEPT !.step = "compiled"]
    <3>1. row \in ReviewRows /\ row.step = "compiled" /\ row.attempt = reviews[v].attempt /\ row.snap = reviews[v].snap
      BY ReviewFields DEF PublicationInv, ReviewRows
    <3>2. reviews' = [reviews EXCEPT ![v] = row] /\ reviews[v].step = "claimed"
      BY <2>3 DEF Compile, Reviewing, PublicationInv, PublicationTypeOK
    <3> QED
      BY <3>1, <3>2 DEF Building, PublicationInv, InUse
  <2>4. CASE \E why \in Failures : BuildFails(v, why) /\ reviews[v].step \in {"claimed", "compiled"}
    <3>1. PICK why \in Failures : BuildFails(v, why) /\ reviews[v].step \in {"claimed", "compiled"}
      BY <2>4
    <3> DEFINE row == [reviews[v] EXCEPT !.step = "failed", !.why = why]
    <3>2. row \in ReviewRows /\ row.step = "failed" /\ row.attempt = reviews[v].attempt
      BY ReviewFields DEF PublicationInv, ReviewRows
    <3>3. reviews' = [reviews EXCEPT ![v] = row]
      BY <3>1 DEF BuildFails, PublicationInv, PublicationTypeOK
    <3> QED
      BY <3>1, <3>2, <3>3 DEF Building, PublicationInv, InUse
  <2> QED
    BY <2>1, <2>2, <2>3, <2>4 DEF ReviewGoesOn, Refused, BuildErrors, CommitFails, PublicationCrash, Failures, Reviewing
<1>3. /\ reviews' \in [Reviewers -> ReviewRows] /\ reviews'[v] = row
      /\ \A w \in Reviewers : w # v => reviews'[w] = reviews[w]
  BY <1>2, ReplaceReview DEF PublicationInv
<1>4. PublicationTypeOK'
  BY <1>1, <1>3 DEF PublicationInv, PublicationTypeOK, ReviewRows
<1>5. InUse' /\ RevisionCounts'
  BY <1>1, <1>2, <1>3 DEF PublicationInv, InUse, RevisionCounts
<1>6. OwnAttempts' /\ ClaimIsKept'
  BY <1>1, <1>2, <1>3, PublicationTypes, ReviewsFollow DEF PublicationInv
<1> QED
  BY <1>1, <1>4, <1>5, <1>6, StillPublications DEF PublicationInv

\* The newest publication's row is replaced while its request is pending, and
\* the Resource stays: nothing that is published changes.
LEMMA NewestReplaced ==
    ASSUME PublicationInv, NEW v \in Reviewers, IsAsked(v), Len(pubs) > 0, NEW row \in Publications,
           pubs' = [pubs EXCEPT ![Newest] = row], row.state \notin Live,
           row.answer = "PENDING" <=> row.state = "PENDING_REVIEW",
           row.build = "BUILDING" => row.state = "PENDING_REVIEW",
           UNCHANGED <<resource, inputs, asking>>
    PROVE  /\ pubs' \in Seq(Publications) /\ Len(pubs') = Len(pubs) /\ DOMAIN pubs' = 1 .. Len(pubs)
           /\ pubs'[Newest] = row /\ Newest \in 1 .. Len(pubs)
           /\ \A j \in 1 .. Len(pubs) : j # Newest => pubs'[j] = pubs[j]
           /\ RevisionCounts' /\ UnderReview' /\ OneLive' /\ PublishedRevisionFixed'
<1>1. Newest \in 1 .. Len(pubs) /\ DOMAIN pubs = 1 .. Len(pubs)
  BY PublicationTypes DEF PublicationInv, Newest
<1>2. pubs[Newest].state = "PENDING_REVIEW"
  BY <1>1 DEF IsAsked, PublicationInv, UnderReview
<1>3. /\ pubs' \in Seq(Publications) /\ Len(pubs') = Len(pubs) /\ pubs'[Newest] = row
      /\ \A j \in 1 .. Len(pubs) : j # Newest => pubs'[j] = pubs[j]
  BY <1>1, ReplaceRow DEF PublicationInv
<1>4. DOMAIN pubs' = 1 .. Len(pubs)
  BY <1>3
<1> HIDE DEF Newest
<1>5. UnderReview'
  BY <1>3 DEF PublicationInv, UnderReview
<1>6. OneLive'
  BY <1>1, <1>2, <1>3 DEF PublicationInv, OneLive, Live
<1>7. PublishedRevisionFixed'
  BY <1>1, <1>3, <1>4 DEF PublicationInv, PublishedRevisionFixed, With, Live
<1>8. RevisionCounts'
  BY DEF PublicationInv, RevisionCounts
<1> QED
  BY <1>1, <1>3, <1>4, <1>5, <1>6, <1>7, <1>8

\* A review is rejected.
LEMMA RejectKeeps ==
    ASSUME PublicationInv, NEW v \in Reviewers, PublicationReject(v)
    PROVE  PublicationInv'
<1> DEFINE row == [pubs[Newest] EXCEPT !.state = "DRAFT", !.build = "IDLE", !.snap = NoSnapshot,
                                       !.answer = "REJECTED", !.attempt = 0, !.failure = "NONE"]
<1>1. /\ IsAsked(v) /\ pubs[Newest].build # "BUILDING" /\ PublicationEndReview(v)
      /\ setbacks' \in 0 .. MaxSetbacks /\ UNCHANGED <<resource, inputs, asking, ids>>
  <2>1. /\ IsAsked(v) /\ pubs[Newest].build # "BUILDING" /\ PublicationEndReview(v)
        /\ setbacks < MaxSetbacks /\ setbacks' = setbacks + 1 /\ UNCHANGED <<resource, inputs, asking, ids>>
    BY DEF PublicationReject, PublicationClaimable, SetBack
  <2>2. setbacks \in 0 .. MaxSetbacks /\ MaxSetbacks \in Nat
    BY PublicationAssumption DEF PublicationInv, PublicationTypeOK
  <2> QED
    BY <2>1, <2>2
<1>2. Len(pubs) > 0 /\ Newest \in 1 .. Len(pubs) /\ pubs[Newest] \in Publications
  BY PublicationTypes DEF PublicationReject, Reviewing, PublicationInv, InUse, Newest
<1>3. /\ row \in Publications /\ row.state = "DRAFT" /\ row.answer = "REJECTED" /\ row.build = "IDLE"
      /\ pubs' = [pubs EXCEPT ![Newest] = row]
  <2>1. 0 \in 0 .. MaxIds
    BY PublicationAssumption
  <2>2. row \in Publications /\ row.state = "DRAFT" /\ row.answer = "REJECTED" /\ row.build = "IDLE"
    BY <1>2, <2>1, NoSnapshotType DEF Publications, PublicationLifecycles, Failures
  <2>3. pubs' = [pubs EXCEPT ![Newest] = row]
    BY <1>2, PublicationTypes DEF PublicationReject, PublicationInv, Publications
  <2> QED
    BY <2>2, <2>3
<1> HIDE DEF row
<1>4. /\ pubs' \in Seq(Publications) /\ Len(pubs') = Len(pubs) /\ DOMAIN pubs' = 1 .. Len(pubs)
      /\ \A j \in 1 .. Len(pubs) : j # Newest => pubs'[j] = pubs[j]
      /\ RevisionCounts' /\ UnderReview' /\ OneLive' /\ PublishedRevisionFixed'
  BY <1>1, <1>2, <1>3, NewestReplaced DEF Live
<1>5. /\ reviews' \in [Reviewers -> ReviewRows] /\ reviews'[v].step = "idle"
      /\ \A w \in Reviewers : w # v => reviews'[w] = reviews[w]
  BY <1>1, UnreviewedType, ReplaceReview DEF PublicationEndReview, PublicationInv
<1>6. PublicationTypeOK'
  BY <1>1, <1>4, <1>5 DEF PublicationInv, PublicationTypeOK, ReviewRows
<1>7. InUse'
  BY <1>1, <1>4, <1>5 DEF PublicationInv, InUse
<1>8. OwnAttempts' /\ ClaimIsKept'
  <2>1. \A i \in 1 .. Len(pubs) : pubs[i].build = "BUILDING" => pubs'[i] = pubs[i]
    BY <1>1, <1>4
  <2>2. \A w \in Reviewers : reviews'[w].step # "idle" => reviews'[w] = reviews[w]
    BY <1>5
  <2>3. ids' = ids /\ Len(pubs') = Len(pubs) /\ DOMAIN pubs' = 1 .. Len(pubs)
    BY <1>1, <1>4
  <2> QED
    BY <2>1, <2>2, <2>3, PublicationNumbers, ReviewsFollow DEF PublicationInv, Building
<1> QED
  BY <1>4, <1>6, <1>7, <1>8 DEF PublicationInv

\* A build that failed is marked, if it is still the review's.
LEMMA MarkFailedKeeps ==
    ASSUME PublicationInv, NEW v \in Reviewers, MarkBuildFailed(v)
    PROVE  PublicationInv'
<1> DEFINE row == [pubs[Newest] EXCEPT !.build = "FAILED", !.failure = reviews[v].why]
<1>1. /\ reviews[v].step = "failed" /\ PublicationEndReview(v)
      /\ UNCHANGED <<resource, inputs, asking, ids, setbacks>>
  BY DEF MarkBuildFailed, Reviewing
<1>2. Len(pubs) > 0 /\ Newest \in 1 .. Len(pubs) /\ pubs[Newest] \in Publications
  BY <1>1, PublicationTypes DEF PublicationInv, InUse, Newest
<1>3. /\ reviews' \in [Reviewers -> ReviewRows] /\ reviews'[v].step = "idle"
      /\ \A w \in Reviewers : w # v => reviews'[w] = reviews[w]
  BY <1>1, UnreviewedType, ReplaceReview DEF PublicationEndReview, PublicationInv
<1>4. CASE ~ Marked(v)
  <2>1. UNCHANGED pubs
    BY <1>4 DEF MarkBuildFailed
  <2>2. PublicationTypeOK'
    BY <1>1, <1>3, <2>1 DEF PublicationInv, PublicationTypeOK, ReviewRows
  <2>3. InUse' /\ RevisionCounts'
    BY <1>1, <1>3, <2>1 DEF PublicationInv, InUse, RevisionCounts
  <2>4. OwnAttempts' /\ ClaimIsKept'
    BY <1>1, <1>3, <2>1, PublicationTypes, ReviewsFollow DEF PublicationInv, Building
  <2> QED
    BY <1>1, <2>1, <2>2, <2>3, <2>4, StillPublications DEF PublicationInv
<1>5. CASE Marked(v)
  <2>1. IsAsked(v) /\ pubs[Newest].attempt = reviews[v].attempt
    BY <1>5 DEF Marked, PublicationActive
  <2>2. pubs[Newest].state = "PENDING_REVIEW" /\ pubs[Newest].answer = "PENDING"
    BY <1>2, <2>1 DEF IsAsked, PublicationInv, UnderReview
  <2>3. /\ row \in Publications /\ row.state = "PENDING_REVIEW" /\ row.answer = "PENDING" /\ row.build = "FAILED"
        /\ pubs' = [pubs EXCEPT ![Newest] = row]
    BY <1>2, <1>5, <2>2, ReviewFields, PublicationTypes DEF MarkBuildFailed, PublicationInv, Publications
  <2> HIDE DEF row
  <2>4. /\ pubs' \in Seq(Publications) /\ Len(pubs') = Len(pubs) /\ DOMAIN pubs' = 1 .. Len(pubs)
        /\ \A j \in 1 .. Len(pubs) : j # Newest => pubs'[j] = pubs[j]
        /\ RevisionCounts' /\ UnderReview' /\ OneLive' /\ PublishedRevisionFixed'
    BY <1>1, <1>2, <2>1, <2>3, NewestReplaced DEF Live
  <2>5. PublicationTypeOK'
    BY <1>1, <1>3, <2>4 DEF PublicationInv, PublicationTypeOK, ReviewRows
  <2>6. InUse'
    BY <1>1, <1>3, <2>4 DEF PublicationInv, InUse
  <2>7. \A w \in Reviewers : reviews'[w].step \in {"claimed", "compiled"} => reviews[w].attempt # pubs[Newest].attempt
    BY <1>1, <1>3, <2>1 DEF PublicationInv, OwnAttempts, Building
  <2>8. OwnAttempts' /\ ClaimIsKept'
    <3>1. \A w \in Reviewers :
            /\ reviews'[w].step \in Building =>
                 reviews[w].step \in Building /\ reviews'[w].attempt = reviews[w].attempt
            /\ reviews'[w].step \in {"claimed", "compiled"} =>
                 reviews[w].step \in {"claimed", "compiled"} /\ reviews'[w].snap = reviews[w].snap
      BY <1>3 DEF Building
    <3>2. \A i \in 1 .. Len(pubs), w \in Reviewers :
            /\ pubs[i].build = "BUILDING" /\ reviews'[w].step \in {"claimed", "compiled"}
            /\ pubs[i].attempt = reviews[w].attempt
            => pubs'[i].build = "BUILDING" /\ pubs'[i].attempt = pubs[i].attempt /\ pubs'[i].snap = pubs[i].snap
      BY <2>4, <2>7
    <3>3. /\ Len(pubs') \in Nat /\ Len(pubs') >= Len(pubs) /\ DOMAIN pubs' = 1 .. Len(pubs')
          /\ ids' \in {ids, ids + 1}
      BY <1>1, <2>4, PublicationNumbers DEF PublicationInv
    <3> QED
      BY <3>1, <3>2, <3>3, ReviewsFollow
  <2> QED
    BY <2>4, <2>5, <2>6, <2>8 DEF PublicationInv
<1> QED
  BY <1>4, <1>5

\* A build is claimed: a new attempt.
LEMMA ClaimKeeps ==
    ASSUME PublicationInv, NEW v \in Reviewers, PublicationClaim(v)
    PROVE  PublicationInv'
<1> DEFINE row == [pubs[Newest] EXCEPT !.build = "BUILDING", !.attempt = ids + 1, !.failure = "NONE"]
           claim == [reviews[v] EXCEPT !.step = "claimed", !.attempt = ids + 1, !.snap = pubs[Newest].snap]
<1>1. /\ IsAsked(v) /\ pubs[Newest].build # "BUILDING" /\ ids < MaxIds /\ ids' = ids + 1
      /\ UNCHANGED <<resource, inputs, asking>>
  BY DEF PublicationClaim, PublicationClaimable
<1>2. Len(pubs) > 0 /\ Newest \in 1 .. Len(pubs) /\ pubs[Newest] \in Publications /\ pubs[Newest].snap \in Snapshots
  BY PublicationTypes, PublicationFields DEF PublicationClaim, Reviewing, PublicationInv, InUse, Newest
<1>3. setbacks' \in 0 .. MaxSetbacks /\ ids + 1 \in 0 .. MaxIds /\ ids \in Nat
  <2>1. setbacks' \in {setbacks, setbacks + 1} /\ setbacks \in 0 .. MaxSetbacks
        /\ (setbacks' = setbacks \/ setbacks < MaxSetbacks)
    BY DEF PublicationClaim, SetBack, PublicationInv, PublicationTypeOK
  <2> QED
    BY <1>1, <2>1, PublicationAssumption, PublicationNumbers DEF PublicationInv
<1>4. pubs[Newest].state = "PENDING_REVIEW" /\ pubs[Newest].answer = "PENDING"
  BY <1>1, <1>2 DEF IsAsked, PublicationInv, UnderReview
<1>5. /\ row \in Publications /\ row.state = "PENDING_REVIEW" /\ row.answer = "PENDING" /\ row.build = "BUILDING"
      /\ row.attempt = ids + 1 /\ row.snap = pubs[Newest].snap
  BY <1>2, <1>3, <1>4 DEF Publications, Failures
<1>6. pubs' = [pubs EXCEPT ![Newest] = row]
  BY <1>2, PublicationTypes DEF PublicationClaim, PublicationInv, Publications
<1>7. claim \in ReviewRows /\ claim.step = "claimed" /\ claim.attempt = ids + 1 /\ claim.snap = pubs[Newest].snap
  BY <1>2, <1>3, ReviewFields DEF PublicationInv, ReviewRows
<1>8. reviews' = [reviews EXCEPT ![v] = claim]
  BY DEF PublicationClaim, PublicationInv, PublicationTypeOK
<1> HIDE DEF row, claim
<1>9. /\ pubs' \in Seq(Publications) /\ Len(pubs') = Len(pubs) /\ DOMAIN pubs' = 1 .. Len(pubs)
      /\ \A j \in 1 .. Len(pubs) : j # Newest => pubs'[j] = pubs[j]
      /\ pubs'[Newest] = row
      /\ RevisionCounts' /\ UnderReview' /\ OneLive' /\ PublishedRevisionFixed'
  BY <1>1, <1>2, <1>5, <1>6, NewestReplaced DEF Live
<1>10. /\ reviews' \in [Reviewers -> ReviewRows] /\ reviews'[v] = claim
       /\ \A w \in Reviewers : w # v => reviews'[w] = reviews[w]
  BY <1>7, <1>8, ReplaceReview DEF PublicationInv
<1>11. PublicationTypeOK'
  BY <1>1, <1>3, <1>9, <1>10 DEF PublicationInv, PublicationTypeOK, ReviewRows
<1>12. InUse'
  BY <1>1, <1>2, <1>9, <1>10 DEF PublicationInv, InUse
<1>13. OwnAttempts'
  <2>1. \A w \in Reviewers : w # v /\ reviews'[w].step \in Building =>
           reviews'[w].attempt \in Nat /\ reviews'[w].attempt <= ids
    BY <1>10, PublicationTypes DEF PublicationInv, OwnAttempts
  <2>2. reviews'[v].attempt = ids + 1
    BY <1>7, <1>10
  <2>3. \A w \in Reviewers, x \in Reviewers : w # v /\ x # v /\ reviews'[w].step \in Building
          /\ reviews'[x].step \in Building /\ reviews'[w].attempt = reviews'[x].attempt => w = x
    BY <1>10 DEF PublicationInv, OwnAttempts
  <2> QED
    BY <1>1, <1>3, <2>1, <2>2, <2>3 DEF OwnAttempts
<1>14. ClaimIsKept'
  <2> SUFFICES ASSUME NEW w \in Reviewers, reviews'[w].step \in {"claimed", "compiled"}
               PROVE  \E i \in 1 .. Len(pubs) :
                        /\ pubs'[i].attempt = reviews'[w].attempt /\ pubs'[i].build = "BUILDING"
                        /\ pubs'[i].snap = reviews'[w].snap
    BY <1>9 DEF ClaimIsKept
  <2>1. CASE w = v
    BY <1>2, <1>5, <1>7, <1>9, <1>10, <2>1
  <2>2. CASE w # v
    <3>1. PICK i \in 1 .. Len(pubs) : /\ pubs[i].attempt = reviews[w].attempt /\ pubs[i].build = "BUILDING"
                                      /\ pubs[i].snap = reviews[w].snap
      BY <1>10, <2>2, PublicationTypes DEF PublicationInv, ClaimIsKept
    <3> QED
      BY <1>1, <1>9, <1>10, <2>2, <3>1
  <2> QED
    BY <2>1, <2>2
<1> QED
  BY <1>9, <1>11, <1>12, <1>13, <1>14 DEF PublicationInv

\* A build is committed: the snapshot is published, its predecessor retired.
LEMMA CommitKeeps ==
    ASSUME PublicationInv, NEW v \in Reviewers, PublicationCommit(v)
    PROVE  PublicationInv'
<1> DEFINE snap == pubs[Newest].snap
<1>1. /\ IsAsked(v) /\ pubs[Newest].build = "BUILDING" /\ pubs[Newest].attempt = reviews[v].attempt
      /\ reviews[v].step = "compiled" /\ resource.lifecycle \in {"DRAFT", "PUBLISHED"}
      /\ resource.rev = snap.rev /\ pubs[Newest].rev = snap.rev /\ resource.lifecycle = snap.lifecycle
      /\ pubs' = PublicationPublish(Newest) /\ PublicationEndReview(v)
      /\ UNCHANGED <<inputs, asking, ids, setbacks>>
  BY DEF PublicationCommit, Reviewing, Committable, PublicationActive, PublicationFrozen
<1>2. Len(pubs) > 0 /\ Newest \in 1 .. Len(pubs) /\ DOMAIN pubs = 1 .. Len(pubs)
  BY <1>1, PublicationTypes DEF PublicationInv, InUse, Newest
<1>3. pubs' \in [1 .. Len(pubs) -> Publications]
  <2>1. \A p \in Publications :
          /\ [p EXCEPT !.state = "PUBLISHED", !.build = "READY", !.answer = "APPROVED"] \in Publications
          /\ [p EXCEPT !.state = "RETIRED"] \in Publications
    BY DEF Publications, PublicationLifecycles
  <2> QED
    BY <1>1, <1>2, <2>1, PublicationTypes DEF PublicationInv, PublicationPublish
<1>4. pubs' \in Seq(Publications) /\ Len(pubs') = Len(pubs) /\ DOMAIN pubs' = 1 .. Len(pubs)
  BY <1>3, PublicationNumbers, FunctionIsSeq DEF PublicationInv
<1>5. /\ pubs'[Newest].state = "PUBLISHED" /\ pubs'[Newest].build = "READY" /\ pubs'[Newest].answer = "APPROVED"
      /\ pubs'[Newest].rev = pubs[Newest].rev /\ pubs'[Newest].snap = snap
  BY <1>1, <1>2, PublicationTypes DEF PublicationInv, PublicationPublish, Publications
<1>6. \A j \in 1 .. Len(pubs) : j # Newest =>
        /\ pubs'[j].state = IF snap.lifecycle # "DRAFT" /\ pubs[j].state = "PUBLISHED" THEN "RETIRED" ELSE pubs[j].state
        /\ pubs'[j].build = pubs[j].build /\ pubs'[j].answer = pubs[j].answer
        /\ pubs'[j].attempt = pubs[j].attempt /\ pubs'[j].snap = pubs[j].snap
  BY <1>1, <1>2, PublicationTypes DEF PublicationInv, PublicationPublish, Publications
<1>7. pubs[Newest].state = "PENDING_REVIEW"
  BY <1>1, <1>2 DEF IsAsked, PublicationInv, UnderReview
<1>8. /\ reviews' \in [Reviewers -> ReviewRows] /\ reviews'[v].step = "idle"
      /\ \A w \in Reviewers : w # v => reviews'[w] = reviews[w]
  BY <1>1, UnreviewedType, ReplaceReview DEF PublicationEndReview, PublicationInv
<1>9. /\ resource' \in [lifecycle : PublicationLifecycles, rev : Revisions, content : Revisions] /\ RevisionCounts'
      /\ resource'.lifecycle = "PUBLISHED" /\ resource'.rev = resource.rev + (IF snap.lifecycle = "DRAFT" THEN 1 ELSE 0)
  <2>1. CASE snap.lifecycle = "DRAFT"
    <3>1. resource' = [resource EXCEPT !.lifecycle = "PUBLISHED", !.rev = @ + 1] /\ inputs' = inputs
      BY <1>1, <2>1 DEF PublicationCommit
    <3>2. resource'.lifecycle = "PUBLISHED" /\ resource'.rev = resource.rev + 1 /\ resource'.content = resource.content
      BY <3>1 DEF PublicationInv, PublicationTypeOK
    <3>3. RevisionCounts' /\ resource.rev + 1 \in Revisions
      <4>1. resource.rev = resource.content /\ inputs' = inputs
        BY <1>1, <2>1 DEF PublicationInv, RevisionCounts
      <4>2. RevisionCounts'
        BY <3>2, <4>1, PublicationNumbers DEF PublicationInv, RevisionCounts
      <4>3. resource.rev + 1 \in Revisions
        BY <1>1, NextRevision
      <4> QED
        BY <4>2, <4>3
    <3> QED
      BY <2>1, <3>1, <3>2, <3>3 DEF PublicationInv, PublicationTypeOK, PublicationLifecycles
  <2>2. CASE snap.lifecycle # "DRAFT"
    <3>1. resource' = resource /\ inputs' = inputs /\ resource.lifecycle = "PUBLISHED"
      BY <1>1, <2>2 DEF PublicationCommit
    <3> QED
      BY <2>2, <3>1, PublicationNumbers DEF PublicationInv, PublicationTypeOK, RevisionCounts
  <2> QED
    BY <2>1, <2>2
<1>10. PublicationTypeOK'
  BY <1>1, <1>4, <1>8, <1>9 DEF PublicationInv, PublicationTypeOK, ReviewRows
<1>11. InUse'
  BY <1>1, <1>4, <1>8 DEF PublicationInv, InUse
<1>12. UnderReview'
  BY <1>4, <1>5, <1>6 DEF PublicationInv, UnderReview
<1>13. \A j \in 1 .. Len(pubs) : j # Newest => pubs'[j].state \notin Live
  <2>1. CASE snap.lifecycle = "DRAFT"
    BY <1>1, <1>6, <2>1 DEF PublicationInv, OneLive, Live
  <2>2. CASE snap.lifecycle # "DRAFT"
    <3>1. \A j \in 1 .. Len(pubs) : pubs[j].state # "DEPRECATED"
      BY <1>1, <2>2 DEF PublicationInv, OneLive, Live
    <3> QED
      BY <1>6, <2>2, <3>1 DEF Live
  <2> QED
    BY <2>1, <2>2
<1>14. OneLive'
  BY <1>2, <1>4, <1>5, <1>9, <1>13 DEF OneLive, Live
<1>15. OwnAttempts' /\ ClaimIsKept'
  <2>1. \A w \in Reviewers : reviews'[w].step \in {"claimed", "compiled"} => reviews[w].attempt # pubs[Newest].attempt
    BY <1>1, <1>8 DEF PublicationInv, OwnAttempts, Building
  <2>2. \A w \in Reviewers : reviews'[w].step # "idle" => reviews'[w] = reviews[w]
    BY <1>8
  <2>3. ids' = ids
    BY <1>1
  <2>4. \A i \in 1 .. Len(pubs), w \in Reviewers :
          /\ pubs[i].build = "BUILDING" /\ reviews'[w].step \in {"claimed", "compiled"}
          /\ pubs[i].attempt = reviews[w].attempt
          => pubs'[i].build = "BUILDING" /\ pubs'[i].attempt = pubs[i].attempt /\ pubs'[i].snap = pubs[i].snap
    BY <1>6, <2>1
  <2>5. Len(pubs') \in Nat /\ Len(pubs') >= Len(pubs) /\ DOMAIN pubs' = 1 .. Len(pubs')
    BY <1>4, PublicationNumbers DEF PublicationInv
  <2> QED
    BY <2>2, <2>3, <2>4, <2>5, ReviewsFollow DEF Building
<1>16. PublishedRevisionFixed'
  <2>1. \A j \in 1 .. Len(pubs) : pubs'[j].state = "PUBLISHED" => j = Newest
    BY <1>13 DEF Live
  <2>2. resource'.rev = snap.rev + (IF snap.lifecycle = "DRAFT" THEN 1 ELSE 0) /\ pubs'[Newest].rev = snap.rev
    BY <1>1, <1>5, <1>9
  <2>3. \A j \in DOMAIN pubs' : pubs'[j].state \in {"PUBLISHED"} => j = Newest
    BY <1>4, <2>1
  <2> HIDE DEF snap, Newest
  <2>4. /\ pubs'[Newest].answer = "APPROVED" /\ pubs'[Newest].snap.rev = pubs'[Newest].rev
        /\ resource'.rev = pubs'[Newest].snap.rev + (IF pubs'[Newest].snap.lifecycle = "DRAFT" THEN 1 ELSE 0)
    BY <1>5, <2>2
  <2> QED
    BY <2>3, <2>4, Zenon DEF PublishedRevisionFixed, With
<1> QED
  BY <1>9, <1>10, <1>11, <1>12, <1>14, <1>15, <1>16 DEF PublicationInv

\* Every step keeps the invariant.
LEMMA PublicationInvStep == PublicationInv /\ [PublicationNext]_publicationVars => PublicationInv'
<1> SUFFICES ASSUME PublicationInv, [PublicationNext]_publicationVars PROVE PublicationInv'
  OBVIOUS
<1>1. CASE UpdateResource \/ SetPublicationEndpoint \/ Reconfigure \/ HealthScan
  BY <1>1, UpdateKeeps, EndpointKeeps, InputsKeep
<1>2. CASE \E next \in PublicationLifecycles : PublicationSetLifecycle(next)
  BY <1>2, LifecycleKeeps
<1>3. CASE \E q \in Requesters : Ask(q)
  BY <1>3, ReadInputsKeeps, PrepareKeeps, SaveKeeps DEF Ask
<1>4. CASE \E v \in Reviewers : PublicationApprove(v) \/ PublicationReject(v) \/ BuildErrors(v) \/ PublicationCrash(v)
  BY <1>4, ReviewGoesOnKeeps, RejectKeeps, ClaimKeeps, CommitKeeps, MarkFailedKeeps
  DEF PublicationApprove, ReviewGoesOn
<1>5. CASE UNCHANGED publicationVars
  <2>1. PublicationTypeOK'
    BY <1>5 DEF publicationVars, PublicationInv, PublicationTypeOK
  <2>2. InUse' /\ RevisionCounts'
    BY <1>5 DEF publicationVars, PublicationInv, InUse, RevisionCounts
  <2> QED
    BY <1>5, <2>1, <2>2, StillPublications, StillReviews DEF PublicationInv, publicationVars
<1> QED
  BY <1>1, <1>2, <1>3, <1>4, <1>5 DEF PublicationNext

\* OneLive counts.
LEMMA OneLiveCounts ==
    ASSUME PublicationInv
    PROVE  OnePublication
<1>1. DOMAIN pubs = 1 .. Len(pubs)
  BY PublicationTypes DEF PublicationInv
<1>2. CASE resource.lifecycle \in Live
  <2>1. PICK i \in 1 .. Len(pubs) : /\ pubs[i].state = resource.lifecycle
                                    /\ \A j \in 1 .. Len(pubs) : pubs[j].state \in Live => j = i
    BY <1>2 DEF PublicationInv, OneLive
  <2>2. With({"PUBLISHED", "DEPRECATED"}) = {i}
    BY <1>1, <1>2, <2>1 DEF With, Live
  <2>3. With({resource.lifecycle}) # {}
    BY <1>1, <2>1 DEF With
  <2>4. Cardinality({i}) = 1
    BY FS_Singleton
  <2> QED
    BY <1>2, <2>2, <2>3, <2>4 DEF OnePublication, Live
<1>3. CASE resource.lifecycle \notin Live
  <2>1. With({"PUBLISHED", "DEPRECATED"}) = {}
    BY <1>1, <1>3 DEF PublicationInv, OneLive, With, Live
  <2> QED
    BY <1>3, <2>1 DEF OnePublication, Live
<1> QED
  BY <1>2, <1>3

\* Requests and reviews that read, build and write in separate transactions
\* publish one revision at a time, each as it was reviewed, and no two reviews
\* build the same publication, for any number of both.
THEOREM PublicationIsSafe == PublicationSpec => []PublicationSafe
<1>1. PublicationSpec => []PublicationInv
  BY PublicationInvInit, PublicationInvStep, PTL DEF PublicationSpec
<1>2. PublicationInv => PublicationSafe
  BY OneLiveCounts DEF PublicationInv, PublicationSafe
<1> QED
  BY <1>1, <1>2, PTL

=============================================================================
