------------------------- MODULE AccessEntitlements -------------------------
(***************************************************************************)
(* Access to one capability of one Resource: the requests for it and their *)
(* decisions, the entitlements that approvals, direct grants and automatic *)
(* grants create, their revocation, and the gateway release each of these  *)
(* transactions compiles before it commits.                                *)
(*                                                                         *)
(* The transactions run at PostgreSQL's READ COMMITTED: a statement sees   *)
(* what was committed when it began, waits for the rows it locks, and then *)
(* sees their newest version.  One statement is one step.  What a          *)
(* transaction writes is kept in its own record until it commits, and its  *)
(* locks are held until it ends.  It may end without committing at any     *)
(* step: an error, a lost connection, or as the victim of a deadlock.      *)
(***************************************************************************)
EXTENDS Naturals, FiniteSets, FiniteSetsExt

CONSTANTS
    Transactions,     \* transactions open at once
    Subjects,         \* who is entitled
    GrantKeys,        \* idempotency keys of direct grants
    AutoKeys,         \* correlations of automatic grants
    NoKey,            \* a grant without a key
    Nobody,           \* no subject
    MaxRequests,      \* bound on access requests
    MaxEntitlements,  \* bound on entitlements
    Visibilities,     \* what the publication's visibility may be
    AccessStart,      \* the Resource's lifecycle to begin with
    Changes           \* the lifecycles the Resource may be moved to

ASSUME AccessAssumption ==
    /\ MaxRequests \in Nat /\ MaxEntitlements \in Nat \ {0}
    /\ Nobody \notin Subjects /\ NoKey \notin GrantKeys \cup AutoKeys /\ GrantKeys \cap AutoKeys = {}
    /\ Visibilities \subseteq {"PUBLIC", "REQUEST", "PRIVATE"}
    /\ AccessStart \in {"DRAFT", "PUBLISHED"} /\ Changes \subseteq {"DEPRECATED", "RETIRED"}

VARIABLES
    lifecycle,   \* of the Resource, and with it of its publication
    visibility,  \* of the publication
    requests,    \* access requests by id
    ents,        \* entitlements by id
    lapsed,      \* entitlements whose window has closed
    head,        \* the entitlements the newest gateway release carries
    audit,       \* the activation event recorded for a correlation
    answers,     \* history: the entitlements a key was answered with
    tx,          \* what each transaction is doing and will write
    held         \* the locks each transaction holds

accessVars == <<lifecycle, visibility, requests, ents, lapsed, head, audit, answers, tx, held>>

AccessLifecycles == {"DRAFT", "PUBLISHED", "DEPRECATED", "RETIRED"}
Served == {"PUBLISHED", "DEPRECATED"}
RequestIds == 1..MaxRequests
EntIds == 1..MaxEntitlements
Keys == GrantKeys \cup AutoKeys

NoRequest == [state |-> "NONE", subject |-> Nobody, ent |-> 0]
NoEnt == [state |-> "NONE", subject |-> Nobody, key |-> NoKey, via |-> "NONE", born |-> "NONE"]
NoEvent == [ent |-> 0, activation |-> "NONE"]
AccessIdle == [op |-> "NONE", step |-> "idle", subject |-> Nobody, key |-> NoKey,
         req |-> 0, reqState |-> "NONE", ent |-> 0, entState |-> "NONE",
         born |-> "NONE", gateway |-> FALSE, life |-> "NONE", released |-> FALSE, snap |-> {}]

Steps == {"idle", "active", "existing", "pending", "find", "insert", "publication", "gateway",
          "compile", "read", "target", "prior", "current", "audit", "lock", "served", "commit"}

AccessTypeOK ==
    /\ lifecycle \in AccessLifecycles /\ visibility \in Visibilities
    /\ requests \in [RequestIds ->
          [state : {"NONE", "PENDING", "APPROVED", "DENIED", "CANCELLED"},
           subject : Subjects \cup {Nobody}, ent : 0..MaxEntitlements]]
    /\ ents \in [EntIds ->
          [state : {"NONE", "ACTIVE", "REVOKED"}, subject : Subjects \cup {Nobody},
           key : Keys \cup {NoKey}, via : {"NONE", "approve", "grant", "auto"},
           born : AccessLifecycles \cup {"NONE"}]]
    /\ lapsed \subseteq EntIds /\ head \subseteq EntIds
    /\ audit \in [AutoKeys -> [ent : 0..MaxEntitlements,
                               activation : {"NONE", "GRANTED", "ALREADY_ENTITLED"}]]
    /\ answers \in [Keys -> SUBSET EntIds]
    /\ \A t \in Transactions : tx[t].step \in Steps /\ tx[t].ent \in 0..MaxEntitlements
                               /\ tx[t].req \in 0..MaxRequests /\ tx[t].snap \subseteq EntIds

AccessInit ==
    /\ lifecycle = AccessStart /\ visibility \in Visibilities
    /\ requests = [r \in RequestIds |-> NoRequest]
    /\ ents = [e \in EntIds |-> NoEnt]
    /\ lapsed = {} /\ head = {}
    /\ audit = [k \in AutoKeys |-> NoEvent]
    /\ answers = [k \in Keys |-> {}]
    /\ tx = [t \in Transactions |-> AccessIdle]
    /\ held = [t \in Transactions |-> {}]

-----------------------------------------------------------------------------
(* Locks, ids and steps                                                    *)

Gateway == <<"row", "gateway">>          \* the advisory lock of the release
Resource == <<"row", "resource">>        \* the Resource's row, FOR UPDATE
ResourceKey == <<"key", "resource">>     \* the same row as a foreign key's target
Publication == <<"row", "publication">>
RequestRow(r) == <<"request", r>>
EntRow(e) == <<"ent", e>>
SubjectRow(s) == <<"subject", s>>

Free(t, row) == \A u \in Transactions \ {t} : row \notin held[u]
ResourceFree(t) == Free(t, Resource) /\ Free(t, ResourceKey)
Hold(t, rows) == held' = [held EXCEPT ![t] = @ \cup rows]
At(t, step) == tx[t].step = step
Set(t, record) == tx' = [tx EXCEPT ![t] = record]
Go(t, step) == Set(t, [tx[t] EXCEPT !.step = step])
End(t) == Set(t, AccessIdle) /\ held' = [held EXCEPT ![t] = {}]

Tables == <<lifecycle, visibility, requests, ents, lapsed, head, audit, answers>>

Committed == {e \in EntIds : ents[e].state # "NONE"}
Effective(e) == ents[e].state = "ACTIVE" /\ e \notin lapsed
EffectiveFor(s) == {e \in EntIds : Effective(e) /\ ents[e].subject = s}
PendingFor(s) == {r \in RequestIds : requests[r].state = "PENDING" /\ requests[r].subject = s}
KeyedBy(k) == {e \in EntIds : k # NoKey /\ ents[e].key = k}

FreeRequests == {r \in RequestIds : requests[r].state = "NONE"
                                    /\ \A t \in Transactions : tx[t].req # r}
FreeEnts == {e \in EntIds : ents[e].state = "NONE" /\ \A t \in Transactions : tx[t].ent # e}
NewRequest == Min(FreeRequests)
NewEnt == Min(FreeEnts)

-----------------------------------------------------------------------------
(* Requesting access                                                       *)

\* The publication must be published and open to requests.
RequestAccess(t, s) ==
    /\ At(t, "idle")
    /\ lifecycle = "PUBLISHED" /\ visibility = "REQUEST"
    /\ Set(t, [AccessIdle EXCEPT !.op = "request", !.step = "active", !.subject = s])
    /\ UNCHANGED <<Tables, held>>

\* Nobody requests what is already granted: ALREADY_ENTITLED.
RequestActive(t) ==
    /\ At(t, "active")
    /\ IF EffectiveFor(tx[t].subject) # {} THEN End(t) ELSE Go(t, "existing") /\ UNCHANGED held
    /\ UNCHANGED Tables

\* Nor what is already requested: EXISTING.
RequestExisting(t) ==
    /\ At(t, "existing")
    /\ IF PendingFor(tx[t].subject) # {} THEN End(t) ELSE Go(t, "pending") /\ UNCHANGED held
    /\ UNCHANGED Tables

\* The insert.  A partial unique index allows one pending request a subject: the
\* insert waits for another that is not committed, and fails on one that is.  It
\* locks the Resource as a foreign key's target.
RequestInsert(t) ==
    /\ At(t, "pending") /\ FreeRequests # {}
    /\ \A u \in Transactions \ {t} :
          ~(tx[u].op = "request" /\ tx[u].req # 0 /\ tx[u].subject = tx[t].subject)
    /\ \A r \in PendingFor(tx[t].subject) : Free(t, RequestRow(r))
    /\ Free(t, Resource)
    /\ IF PendingFor(tx[t].subject) # {} THEN End(t)
       ELSE Set(t, [tx[t] EXCEPT !.req = NewRequest, !.reqState = "PENDING", !.step = "commit"])
            /\ Hold(t, {ResourceKey})
    /\ UNCHANGED Tables

-----------------------------------------------------------------------------
(* Resolving a request                                                     *)

\* Mutation of Decide: the request is read, but not for update.
DecideUnlocked(t, r, op) ==
    /\ At(t, "idle")
    /\ requests[r].state = "PENDING"
    /\ Set(t, [AccessIdle EXCEPT !.op = op, !.subject = requests[r].subject, !.req = r,
                           !.reqState = IF op = "approve" THEN "APPROVED" ELSE "DENIED",
                           !.step = IF op = "approve" THEN "insert" ELSE "commit"])
    /\ UNCHANGED <<Tables, held>>

\* An approver locks the request; only a pending one can be decided.  An
\* approval goes on to grant the entitlement in the same transaction.
AccessDecide(t, r, op) ==
    /\ At(t, "idle")
    /\ Free(t, RequestRow(r)) /\ requests[r].state = "PENDING"
    /\ Hold(t, {RequestRow(r)})
    /\ Set(t, [AccessIdle EXCEPT !.op = op, !.subject = requests[r].subject, !.req = r,
                           !.reqState = IF op = "approve" THEN "APPROVED" ELSE "DENIED",
                           !.step = IF op = "approve" THEN "insert" ELSE "commit"])
    /\ UNCHANGED Tables

\* The requester's update names the state it expects.
Cancel(t, r) ==
    /\ At(t, "idle")
    /\ Free(t, RequestRow(r)) /\ requests[r].state = "PENDING"
    /\ Hold(t, {RequestRow(r)})
    /\ Set(t, [AccessIdle EXCEPT !.op = "cancel", !.subject = requests[r].subject, !.req = r,
                           !.reqState = "CANCELLED", !.step = "commit"])
    /\ UNCHANGED Tables

-----------------------------------------------------------------------------
(* Granting an entitlement                                                 *)

\* A direct grant, with an idempotency key or without.
AccessGrant(t, s, k) ==
    /\ At(t, "idle")
    /\ Set(t, [AccessIdle EXCEPT !.op = "grant", !.subject = s, !.key = k,
                           !.step = IF k = NoKey THEN "insert" ELSE "find"])
    /\ UNCHANGED <<Tables, held>>

\* The grant a key has already made is locked and returned, whatever its state;
\* another request under the same key is refused.
FindGrant(t) ==
    /\ At(t, "find")
    /\ \/ /\ KeyedBy(tx[t].key) = {}
          /\ Go(t, "insert") /\ UNCHANGED held
       \/ \E e \in KeyedBy(tx[t].key) :
             /\ Free(t, EntRow(e))
             /\ IF ents[e].subject # tx[t].subject THEN End(t)
                ELSE Hold(t, {EntRow(e)}) /\ Set(t, [tx[t] EXCEPT !.ent = e, !.step = "commit"])
    /\ UNCHANGED Tables

NewGrant(t) ==
    [tx[t] EXCEPT !.ent = NewEnt, !.entState = "ACTIVE", !.born = lifecycle,
                  !.step = IF tx[t].op = "auto" THEN "gateway" ELSE "publication"]

\* Mutation of InsertEnt: no foreign key holds the Resource.
InsertEntUnheld(t) ==
    /\ At(t, "insert") /\ FreeEnts # {}
    /\ \A u \in Transactions \ {t} :
          ~(tx[t].key # NoKey /\ tx[u].key = tx[t].key /\ tx[u].entState = "ACTIVE")
    /\ IF KeyedBy(tx[t].key) # {} THEN Go(t, "find") ELSE Set(t, NewGrant(t))
    /\ UNCHANGED <<Tables, held>>

\* The insert locks the Resource as a foreign key's target.  Under a key it waits
\* for another insert of that key and, when there is one, does nothing: the grant
\* is looked for again.
InsertEnt(t) ==
    /\ At(t, "insert") /\ FreeEnts # {}
    /\ \A u \in Transactions \ {t} :
          ~(tx[t].key # NoKey /\ tx[u].key = tx[t].key /\ tx[u].entState = "ACTIVE")
    /\ Free(t, Resource)
    /\ IF KeyedBy(tx[t].key) # {} THEN Go(t, "find") /\ UNCHANGED held
       ELSE Set(t, NewGrant(t)) /\ Hold(t, {ResourceKey})
    /\ UNCHANGED Tables

\* The gateway to reconcile is that of the published publication, if any.
LockPublication(t) ==
    /\ At(t, "publication")
    /\ IF lifecycle = "PUBLISHED"
       THEN Free(t, Publication) /\ Hold(t, {Publication}) /\ Go(t, "gateway")
       ELSE Go(t, "commit") /\ UNCHANGED held
    /\ UNCHANGED Tables

-----------------------------------------------------------------------------
(* Compiling the release                                                   *)

\* The advisory lock of the gateway's release comes first.
LockGateway(t) ==
    /\ At(t, "gateway")
    /\ Free(t, Gateway) /\ Hold(t, {Gateway})
    /\ Go(t, "compile")
    /\ UNCHANGED Tables

\* The Resource's row, then its publication's.  A publication that another
\* transaction has committed meanwhile is not built again.
LockProjections(t) ==
    /\ At(t, "compile")
    /\ ResourceFree(t) /\ Free(t, Publication)
    /\ IF tx[t].op = "publish" /\ lifecycle # "DRAFT" THEN End(t)
       ELSE Hold(t, {Resource, Publication}) /\ Go(t, "read")
    /\ UNCHANGED Tables

\* What the transaction itself has written is part of what it reads.
StateIn(t, e) ==
    IF tx[t].ent = e /\ tx[t].entState # "NONE" THEN tx[t].entState ELSE ents[e].state
LifecycleIn(t) == IF tx[t].life # "NONE" THEN tx[t].life ELSE lifecycle

\* The entitlements and their subjects are locked and read.  A Resource that is
\* served is compiled with those in force.
ReadEntitlements(t) ==
    /\ At(t, "read")
    /\ \A e \in Committed : Free(t, EntRow(e)) /\ Free(t, SubjectRow(ents[e].subject))
    /\ Hold(t, {EntRow(e) : e \in Committed} \cup {SubjectRow(ents[e].subject) : e \in Committed})
    /\ Set(t, [tx[t] EXCEPT
                 !.released = TRUE,
                 !.snap = {e \in EntIds : /\ LifecycleIn(t) \in Served
                                          /\ StateIn(t, e) = "ACTIVE" /\ e \notin lapsed},
                 !.step = IF tx[t].op = "auto" THEN "audit" ELSE "commit"])
    /\ UNCHANGED Tables

-----------------------------------------------------------------------------
(* Activating an automatic grant                                           *)

\* The subject's row serialises its activations.
AutoSubject(t, s, k) ==
    /\ At(t, "idle")
    /\ Free(t, SubjectRow(s)) /\ Hold(t, {SubjectRow(s)})
    /\ Set(t, [AccessIdle EXCEPT !.op = "auto", !.subject = s, !.key = k, !.step = "target"])
    /\ UNCHANGED Tables

\* Only what is published to everyone is granted without being asked for.
AutoTarget(t) ==
    /\ At(t, "target")
    /\ ResourceFree(t)
    /\ IF lifecycle = "PUBLISHED" /\ visibility = "PUBLIC"
       THEN Hold(t, {Resource}) /\ Go(t, "prior") ELSE End(t)
    /\ UNCHANGED Tables

\* What this correlation was granted before is returned while it is in force.
AutoPrior(t) ==
    /\ At(t, "prior")
    /\ \/ KeyedBy(tx[t].key) = {} /\ Go(t, "current") /\ UNCHANGED held
       \/ \E e \in KeyedBy(tx[t].key) :
             /\ Free(t, EntRow(e))
             /\ IF Effective(e)
                THEN Hold(t, {EntRow(e)}) /\ Set(t, [tx[t] EXCEPT !.ent = e, !.step = "audit"])
                ELSE End(t)
    /\ UNCHANGED Tables

\* So is what the subject has from elsewhere; otherwise the grant is made.
AutoCurrent(t) ==
    /\ At(t, "current")
    /\ \/ EffectiveFor(tx[t].subject) = {} /\ Go(t, "insert") /\ UNCHANGED held
       \/ \E e \in EffectiveFor(tx[t].subject) :
             /\ Free(t, EntRow(e)) /\ Hold(t, {EntRow(e)})
             /\ Set(t, [tx[t] EXCEPT !.ent = e, !.step = "audit"])
    /\ UNCHANGED Tables

\* The event of an activation: one made, now or before, under its key is GRANTED.
Activation(t) ==
    [ent |-> tx[t].ent,
     activation |-> IF tx[t].entState = "ACTIVE" \/ ents[tx[t].ent].key = tx[t].key
                    THEN "GRANTED" ELSE "ALREADY_ENTITLED"]

\* One event a correlation: a retry must find the one it would write.
AutoAudit(t) ==
    /\ At(t, "audit")
    /\ IF audit[tx[t].key] \in {NoEvent, Activation(t)} THEN Go(t, "commit") /\ UNCHANGED held
       ELSE End(t)
    /\ UNCHANGED Tables

-----------------------------------------------------------------------------
(* Revoking an entitlement                                                 *)

\* The statement that will lock the entitlement sees the publication as it is
\* when the statement begins.
RevokeRead(t, e) ==
    /\ At(t, "idle") /\ e \in Committed
    /\ Set(t, [AccessIdle EXCEPT !.op = "revoke", !.ent = e, !.subject = ents[e].subject,
                           !.gateway = (lifecycle = "PUBLISHED"), !.step = "lock"])
    /\ UNCHANGED <<Tables, held>>

\* It waits for the row.  Only an active entitlement is revoked, and the gateway
\* is reconciled when the publication had one.
RevokeLock(t) ==
    /\ At(t, "lock") /\ Free(t, EntRow(tx[t].ent))
    /\ IF ents[tx[t].ent].state # "ACTIVE" THEN End(t)
       ELSE /\ Hold(t, {EntRow(tx[t].ent)})
            /\ Set(t, [tx[t] EXCEPT !.entState = "REVOKED",
                                    !.step = IF tx[t].gateway THEN "gateway" ELSE "commit"])
    /\ UNCHANGED Tables

-----------------------------------------------------------------------------
(* The Resource                                                            *)

\* A draft's publication is committed; the gateway's lock comes first.
AccessPublish(t) ==
    /\ At(t, "idle") /\ lifecycle = "DRAFT"
    /\ Set(t, [AccessIdle EXCEPT !.op = "publish", !.life = "PUBLISHED", !.step = "gateway"])
    /\ UNCHANGED <<Tables, held>>

\* A published Resource is deprecated, a deprecated one retired.
AccessSetLifecycle(t, to) ==
    /\ At(t, "idle") /\ to \in Changes
    /\ ResourceFree(t) /\ <<lifecycle, to>> \in {<<"PUBLISHED", "DEPRECATED">>, <<"DEPRECATED", "RETIRED">>}
    /\ Hold(t, {Resource})
    /\ Set(t, [AccessIdle EXCEPT !.op = "lifecycle", !.life = to, !.step = "served"])
    /\ UNCHANGED Tables

\* Whatever serves the Resource is reconciled.
LockServed(t) ==
    /\ At(t, "served")
    /\ Free(t, Publication) /\ Hold(t, {Publication})
    /\ Go(t, "gateway")
    /\ UNCHANGED Tables

\* An approved or granted entitlement's window closes; an automatic one has none.
Lapse(e) ==
    /\ ents[e].via \in {"approve", "grant"} /\ e \notin lapsed
    /\ lapsed' = lapsed \cup {e}
    /\ UNCHANGED <<lifecycle, visibility, requests, ents, head, audit, answers, tx, held>>

-----------------------------------------------------------------------------
(* The end of a transaction                                                *)

Written(t) ==
    IF tx[t].entState = "ACTIVE"
    THEN [state |-> "ACTIVE", subject |-> tx[t].subject, key |-> tx[t].key,
          via |-> tx[t].op, born |-> tx[t].born]
    ELSE [ents[tx[t].ent] EXCEPT !.state = tx[t].entState]

AccessCommit(t) ==
    /\ At(t, "commit")
    /\ lifecycle' = LifecycleIn(t)
    /\ requests' = IF tx[t].req = 0 THEN requests
                   ELSE [requests EXCEPT ![tx[t].req] =
                            [state |-> tx[t].reqState, subject |-> tx[t].subject, ent |-> tx[t].ent]]
    /\ ents' = IF tx[t].entState = "NONE" THEN ents ELSE [ents EXCEPT ![tx[t].ent] = Written(t)]
    /\ head' = IF tx[t].released THEN tx[t].snap ELSE head
    /\ audit' = IF tx[t].op = "auto" THEN [audit EXCEPT ![tx[t].key] = Activation(t)] ELSE audit
    /\ answers' = IF tx[t].key \in Keys THEN [answers EXCEPT ![tx[t].key] = @ \cup {tx[t].ent}]
                  ELSE answers
    /\ End(t)
    /\ UNCHANGED <<visibility, lapsed>>

\* Anything rolls back: an error, a lost connection, the victim of a deadlock.
Abort(t) ==
    /\ ~At(t, "idle")
    /\ End(t)
    /\ UNCHANGED Tables

AccessNext ==
    \/ \E t \in Transactions :
         \/ \E s \in Subjects :
              \/ RequestAccess(t, s)
              \/ \E k \in GrantKeys \cup {NoKey} : AccessGrant(t, s, k)
              \/ \E k \in AutoKeys : AutoSubject(t, s, k)
         \/ \E r \in RequestIds : Cancel(t, r) \/ \E op \in {"approve", "deny"} : AccessDecide(t, r, op)
         \/ \E e \in EntIds : RevokeRead(t, e)
         \/ \E to \in Changes : AccessSetLifecycle(t, to)
         \/ RequestActive(t) \/ RequestExisting(t) \/ RequestInsert(t)
         \/ FindGrant(t) \/ InsertEnt(t) \/ LockPublication(t)
         \/ LockGateway(t) \/ LockProjections(t) \/ ReadEntitlements(t)
         \/ AutoTarget(t) \/ AutoPrior(t) \/ AutoCurrent(t) \/ AutoAudit(t)
         \/ RevokeLock(t) \/ AccessPublish(t) \/ LockServed(t)
         \/ AccessCommit(t) \/ Abort(t)
    \/ \E e \in EntIds : Lapse(e)

AccessSpec == AccessInit /\ [][AccessNext]_accessVars

-----------------------------------------------------------------------------
(* What must hold                                                          *)

\* One subject has at most one pending request: the checks before the insert see
\* only what is committed, the index sees the rest (access/postgres.ts request).
OnePending == \A s \in Subjects : Cardinality(PendingFor(s)) <= 1

\* A request is resolved once: a cancellation and a decision, or two decisions,
\* that both saw it pending do not both commit (decide, cancel).
ResolvedOnce ==
    [][\A r \in RequestIds :
          requests[r].state \in {"APPROVED", "DENIED", "CANCELLED"} => requests'[r] = requests[r]]_accessVars

\* Approvals and the entitlements they made are one to one: no decision that was
\* lost to another leaves an entitlement behind, none is made twice (decide).
ApprovalsGrant ==
    /\ \A r \in RequestIds : requests[r].state = "APPROVED" =>
          /\ ents[requests[r].ent].via = "approve" /\ ents[requests[r].ent].subject = requests[r].subject
    /\ \A e \in EntIds : ents[e].via = "approve" =>
          Cardinality({r \in RequestIds : requests[r].state = "APPROVED" /\ requests[r].ent = e}) = 1

\* A key or a correlation is answered with one entitlement, however often it is
\* retried and whatever happened to the entitlement meanwhile (grant,
\* activateAutoGrant, recordAutoGrantActivationOnce).
OneAnswerPerKey == \A k \in Keys : Cardinality(answers[k]) <= 1

\* Activations under different correlations at the same time do not each grant:
\* one automatic grant of a subject is in force at a time (activateAutoGrant).
AutoGrantNotDoubled ==
    \A s \in Subjects :
       Cardinality({e \in EffectiveFor(s) : ents[e].via = "auto"}) <= 1

\* What is granted while a Resource is being published for the first time, when
\* the grant finds no publication yet, is carried all the same: the foreign key
\* keeps the two transactions apart (grantInTransaction, commitBuild).
GrantedIsCarried ==
    lifecycle = "PUBLISHED" => \A e \in EntIds : Effective(e) => e \in head

\* A retired Resource's entitlements are in no release, whatever was granted or
\* revoked while it was being retired (setLifecycle).
RetiredIsWithheld == lifecycle = "RETIRED" => head = {}

(* Grants, decisions, automatic grants and revocations that hold their     *)
(* locks in steps leave one open request per subject, one entitlement per  *)
(* approval and per key, and a release that carries what is granted and    *)
(* nothing of a retired Resource.                                          *)
AccessSafe ==
    /\ AccessTypeOK /\ OnePending /\ ApprovalsGrant /\ OneAnswerPerKey
    /\ AutoGrantNotDoubled /\ GrantedIsCarried /\ RetiredIsWithheld

=============================================================================
