----------------------------- MODULE HandsLeases -----------------------------
(***************************************************************************)
(* The Bot server's leases on remote Hands workspaces (provider            *)
(* cloudflare-hands): RuntimeBroker, which keeps one runtime session per   *)
(* client and serialises provisioning and stopping in it; the              *)
(* BotWorkspaceStore, whose SQLite rows outlive the process; the HTTP      *)
(* client of the Hands service; and the service itself, which is not in    *)
(* this repository and is modelled from how the client uses it.            *)
(*                                                                         *)
(* A lease is asked for under a request key. The store writes the key down *)
(* before the request leaves (PENDING), so that a broker that never saw    *)
(* the answer, or was restarted, asks again under the same key and is      *)
(* given the same lease instead of being locked out by it.                 *)
(***************************************************************************)
EXTENDS Integers, FiniteSets

CONSTANTS Clients,         \* the acting clients; one runtime session each
          HandsBots,
          Workspaces,
          BotOf,           \* the bot each workspace belongs to
          FirstActive,     \* the workspace each bot starts with
          Tiers,           \* headless, desktop
          None,
          MaxKeys,         \* bound on request keys
          MaxSessions,     \* bound on runtime sessions
          HandsMaxFaults,  \* bound on lost answers, lost leases and restarts
          MaxChanges       \* bound on revision changes and activations

ASSUME HandsAssumption ==
    /\ BotOf \in [Workspaces -> HandsBots]
    /\ FirstActive \in [HandsBots -> Workspaces]
    /\ \A b \in HandsBots : BotOf[FirstActive[b]] = b
    /\ {MaxKeys, MaxSessions, HandsMaxFaults, MaxChanges} \subseteq Nat

VARIABLES
    \* bot_workspaces and bot_workspace_lease_attempts (durable)
    active, rev, attempt,
    \* the Hands service: the lease of each workspace and its revision
    remote, remoteRev,
    \* requests the client gave up on that may still reach the service
    handsLate,
    \* the broker's memory
    sess, lease, prov, isolate, activating, shutdown,
    \* fresh identifiers, the client each key was made for, the keys whose
    \* lease saw its workspace's revision move, the keys given up because their
    \* lease was lost, the keys whose release was confirmed, and the faults and
    \* revision changes used up
    nextKey, nextSid, issuedTo, drifted, rotated, released, handsFaults, changes

store  == <<active, rev, attempt>>
hands  == <<remote, remoteRev, handsLate>>
broker == <<sess, lease, prov, isolate, activating, shutdown>>
ghosts == <<nextKey, nextSid, issuedTo, drifted, rotated, released, handsFaults, changes>>
handsVars   == <<store, hands, broker, ghosts>>

Keys == 1 .. MaxKeys
NoAttempt == [state |-> "NONE", rev |-> 0, key |-> 0, sid |-> 0, client |-> None]
NoLeaseAtAll == [key |-> 0, lost |-> FALSE]
NoSession == [id |-> 0, attached |-> FALSE, timer |-> FALSE, stopping |-> "no"]
NoLease == [w |-> None, key |-> 0, ready |-> FALSE, close |-> "no", rev |-> 0]
NoProv == [stage |-> "no", tier |-> None, bot |-> None, w |-> None,
           rev |-> 0, key |-> 0, answer |-> "none"]

HandsInit ==
    /\ active = FirstActive
    /\ rev = [w \in Workspaces |-> 0]
    /\ attempt = [w \in Workspaces |-> [t \in Tiers |-> NoAttempt]]
    /\ remote = [w \in Workspaces |-> NoLeaseAtAll]
    /\ remoteRev = [w \in Workspaces |-> 0]
    /\ handsLate = {}
    /\ sess = [c \in Clients |-> NoSession]
    /\ lease = [c \in Clients |-> [t \in Tiers |-> NoLease]]
    /\ prov = [c \in Clients |-> NoProv]
    /\ isolate = [w \in Workspaces |-> [on |-> FALSE, rev |-> 0]]
    /\ activating = [b \in HandsBots |-> None]
    /\ shutdown = "no"
    /\ nextKey = 1 /\ nextSid = 1
    /\ issuedTo = [k \in Keys |-> None]
    /\ drifted = {} /\ rotated = {} /\ released = {}
    /\ handsFaults = 0 /\ changes = 0

----------------------------------------------------------------------------
(* Queries. *)

Open(c) == sess[c].id # 0
Provisioning(c) == prov[c].stage # "no"
Leased(c, t) == lease[c][t].key # 0
LeaseBot(c, t) == BotOf[lease[c][t].w]

\* unresolvedLeaseAttempt: the attempts this session started and never saw
\* confirmed; the query's LIMIT 1 is harmless while there is at most one.
Unresolved(c) ==
    {a \in Workspaces \X Tiers :
        LET r == attempt[a[1]][a[2]]
        IN  r.state = "PENDING" /\ r.client = c /\ r.sid = sess[c].id}

\* hasActiveWorkspaceLease and hasActiveBotLease look through the sessions.
HasActiveWorkspaceLease(w) ==
    \E c \in Clients : \/ Provisioning(c) /\ prov[c].w = w
                       \/ \E t \in Tiers : Leased(c, t) /\ lease[c][t].w = w

HasActiveBotLease(b) ==
    \E c \in Clients : \/ Provisioning(c) /\ prov[c].bot = b
                       \/ \E t \in Tiers : Leased(c, t) /\ LeaseBot(c, t) = b

\* updateRevision throws WORKSPACE_REVISION_STALE on a smaller revision.
Current(w, r) == r >= rev[w]

----------------------------------------------------------------------------
(* Sessions. *)

\* start: a new session, or the existing one, whose grace timer is cleared.
\* A start that meets a stopping session waits for the stop and begins anew.
Start(c) ==
    /\ shutdown = "no" /\ ~sess[c].attached
    /\ \/ /\ ~Open(c) /\ nextSid <= MaxSessions
          /\ sess' = [sess EXCEPT ![c] = [id |-> nextSid, attached |-> TRUE,
                                          timer |-> FALSE, stopping |-> "no"]]
          /\ nextSid' = nextSid + 1
       \/ /\ Open(c) /\ sess[c].stopping = "no"
          /\ sess' = [sess EXCEPT ![c].attached = TRUE, ![c].timer = FALSE]
          /\ UNCHANGED nextSid
    /\ UNCHANGED <<store, hands, lease, prov, isolate, activating, shutdown,
                   nextKey, issuedTo, drifted, rotated, released, handsFaults, changes>>

\* detach: the last listener leaves and the grace timer is armed.
Detach(c) ==
    /\ Open(c) /\ sess[c].attached
    /\ sess' = [sess EXCEPT ![c].attached = FALSE, ![c].timer = TRUE]
    /\ UNCHANGED <<store, hands, lease, prov, isolate, activating, shutdown, ghosts>>

\* The grace timer fires: it is gone, and stop(id) begins unless one runs.
GraceEnds(c) ==
    /\ Open(c) /\ sess[c].timer
    /\ sess' = [sess EXCEPT ![c].timer = FALSE,
                            ![c].stopping = IF @ = "no" THEN "check" ELSE @]
    /\ UNCHANGED <<store, hands, lease, prov, isolate, activating, shutdown, ghosts>>

\* stop(id) asked for by the client.
StopAsked(c) ==
    /\ Open(c) /\ sess[c].attached /\ sess[c].stopping = "no"
    /\ sess' = [sess EXCEPT ![c].stopping = "check"]
    /\ UNCHANGED <<store, hands, lease, prov, isolate, activating, shutdown, ghosts>>

\* stopSession: waits for provisioning to end, whatever its outcome; gives up
\* with HANDS_PROVISION_UNCONFIRMED when an attempt is unresolved.
StopSession(c) ==
    /\ sess[c].stopping = "check" /\ ~Provisioning(c)
    /\ sess' = [sess EXCEPT ![c].stopping =
                    IF Unresolved(c) = {} THEN "leases" ELSE "no"]
    /\ UNCHANGED <<store, hands, lease, prov, isolate, activating, shutdown, ghosts>>

\* The end of stopSession: every lease is closed, the session is forgotten.
SessionStopped(c) ==
    /\ sess[c].stopping = "leases"
    /\ \A t \in Tiers : ~Leased(c, t)
    /\ sess' = [sess EXCEPT ![c] = NoSession]
    /\ UNCHANGED <<store, hands, lease, prov, isolate, activating, shutdown, ghosts>>

\* stopTier up to its await: the lease is no longer handed out and its DELETE
\* leaves; a close already under way is joined.
BeginClose(c, t) ==
    lease' = [lease EXCEPT ![c][t].ready = FALSE, ![c][t].close = "sent"]

\* stop(id, tier), and the loop of stopSession over the tiers.
StopTier(c, t) ==
    /\ Leased(c, t) /\ lease[c][t].close = "no"
    /\ \/ sess[c].stopping = "leases"
       \/ sess[c].attached
    /\ ~Provisioning(c)
    /\ BeginClose(c, t)
    /\ UNCHANGED <<store, hands, sess, prov, isolate, activating, shutdown, ghosts>>

----------------------------------------------------------------------------
(* Provisioning: ensure, acquireTier, provisionTier. *)

\* The workspace is read before the placement policy is asked.
Snapshot(p) == [p EXCEPT !.stage = "workspace", !.w = active[p.bot],
                         !.rev = rev[active[p.bot]]]

RetryElsewhere(c, t, b) == \E a \in Unresolved(c) : a[2] # t \/ BotOf[a[1]] # b

\* ensure: refused while the broker or the session is stopping, while an
\* unresolved attempt is of another bot or tier, and while another tier is
\* leased. A lease of another bot is stopped first.
Ensure(c, t, b) ==
    /\ shutdown = "no" /\ Open(c) /\ sess[c].attached
    /\ sess[c].stopping = "no" /\ ~Provisioning(c)
    /\ nextKey < MaxKeys \* the bound: an attempt may take a key and its rotation another
    /\ ~RetryElsewhere(c, t, b)
    /\ \A u \in Tiers \ {t} : ~Leased(c, u)
    /\ LET p == [NoProv EXCEPT !.tier = t, !.bot = b, !.w = active[b]]
       IN  IF Leased(c, t) /\ LeaseBot(c, t) # b
           THEN prov' = [prov EXCEPT ![c] = [p EXCEPT !.stage = "replace"]]
           ELSE prov' = [prov EXCEPT ![c] = Snapshot(p)]
    /\ UNCHANGED <<store, hands, sess, lease, isolate, activating, shutdown, ghosts>>

ReplaceByStop(c) ==
    \E t \in Tiers : prov[c].stage = "replace" /\ prov[c].tier = t /\ StopTier(c, t)

\* stopTier of the lease that is replaced, called from within provisioning.
Replace(c) ==
    LET t == prov[c].tier IN
    /\ prov[c].stage = "replace"
    /\ Leased(c, t) /\ lease[c][t].close = "no"
    /\ BeginClose(c, t)
    /\ UNCHANGED <<store, hands, sess, prov, isolate, activating, shutdown, ghosts>>

ReusedIfPending(w, t, r) == attempt[w][t].state = "PENDING"

\* reserveLeaseAttempt: the attempt's key is used again while it is PENDING,
\* and while it is READY at the workspace's revision.
ReusedKey(w, t, r) ==
    \/ attempt[w][t].state = "PENDING"
    \/ attempt[w][t].state = "READY" /\ attempt[w][t].rev = r

\* acquireTier makes no attempt: the session's lease is handed out, or in the
\* way; the workspace or its revision changed since it was read.
NoAttemptInTheWay(c) ==
    LET p == prov[c] IN
    \/ \E a \in Unresolved(c) : a[1] # p.w
    \/ lease[c][p.tier].key # 0
    \/ active[p.bot] # p.w
    \/ rev[p.w] # p.rev

\* reserveLeaseAttempt refuses as well when the attempt is another client's.
NoAttemptMade(c) ==
    LET p == prov[c]
    IN  \/ NoAttemptInTheWay(c)
        \/ ReusedKey(p.w, p.tier, p.rev) /\ attempt[p.w][p.tier].client # c

\* After the policy's answer acquireTier hands out the lease that is there,
\* refuses, or reserves the attempt: one stretch without an await.
Acquire(c) ==
    LET p == prov[c]
        old == attempt[p.w][p.tier]
        same == ReusedKey(p.w, p.tier, p.rev)
    IN
    /\ p.stage = "workspace"
    /\ \/ /\ NoAttemptMade(c)
          /\ prov' = [prov EXCEPT ![c] = NoProv]
          /\ UNCHANGED <<attempt, nextKey, issuedTo>>
       \/ /\ ~NoAttemptMade(c)
          /\ same \/ nextKey <= MaxKeys
          /\ LET key == IF same THEN old.key ELSE nextKey IN
             /\ attempt' = [attempt EXCEPT ![p.w][p.tier] =
                    [state |-> "PENDING", rev |-> IF same THEN old.rev ELSE p.rev,
                     key |-> key, sid |-> sess[c].id, client |-> c]]
             /\ prov' = [prov EXCEPT ![c].stage = "put", ![c].key = key]
             /\ nextKey' = IF same THEN nextKey ELSE nextKey + 1
             /\ issuedTo' = IF same THEN issuedTo ELSE [issuedTo EXCEPT ![key] = c]
    /\ UNCHANGED <<active, rev, hands, sess, lease, isolate, activating, shutdown,
                   nextSid, drifted, rotated, released, handsFaults, changes>>

\* PUT of the workspace: its answer's revision goes to the store, and is the
\* revision the lease is asked for.
PutWorkspace(c) ==
    LET w == prov[c].w IN
    /\ prov[c].stage = "put"
    /\ IF Current(w, remoteRev[w])
       THEN /\ rev' = [rev EXCEPT ![w] = remoteRev[w]]
            /\ prov' = [prov EXCEPT ![c].stage = "post", ![c].rev = remoteRev[w]]
       ELSE /\ prov' = [prov EXCEPT ![c] = NoProv]
            /\ UNCHANGED rev
    /\ UNCHANGED <<active, attempt, hands, sess, lease, isolate, activating, shutdown, ghosts>>

----------------------------------------------------------------------------
(* The Hands service (external). *)

\* A lease is asked for: the key's own lease is given again, a lost one is
\* reported; another key is busy while a lease lives; a new lease needs the
\* expected revision.
LeaseAnswer(w, key, expected) ==
    CASE remote[w].key = key /\ ~remote[w].lost -> "granted"
      [] remote[w].key = key /\ remote[w].lost -> "lost"
      [] remote[w].key \notin {0, key} /\ ~remote[w].lost -> "busy"
      [] OTHER -> IF expected = remoteRev[w] THEN "granted" ELSE "conflict"

Granted(w, key, expected) ==
    remote' = IF LeaseAnswer(w, key, expected) = "granted"
              THEN [remote EXCEPT ![w] = [key |-> key, lost |-> FALSE]]
              ELSE remote

\* A lease is released: the workspace's changes are committed. Releasing a
\* lease that is not there changes nothing.
Released(w, key) ==
    IF remote[w].key = key
    THEN /\ remote' = [remote EXCEPT ![w] = NoLeaseAtAll]
         /\ remoteRev' = [remoteRev EXCEPT ![w] = @ + 1]
    ELSE UNCHANGED <<remote, remoteRev>>

HandsLease(c) ==
    LET p == prov[c] IN
    /\ p.stage = "post"
    /\ Granted(p.w, p.key, p.rev)
    /\ prov' = [prov EXCEPT ![c].stage = "answer", ![c].rev = remoteRev[p.w],
                            ![c].answer = LeaseAnswer(p.w, p.key, p.rev)]
    /\ UNCHANGED <<store, remoteRev, handsLate, sess, lease, isolate, activating, shutdown, ghosts>>

HandsRelease(c, t) ==
    LET l == lease[c][t] IN
    /\ l.close = "sent"
    /\ Released(l.w, l.key)
    /\ lease' = [lease EXCEPT ![c][t].close = IF remote[l.w].key = l.key THEN "done" ELSE "absent",
                              ![c][t].rev = remoteRev'[l.w]]
    /\ UNCHANGED <<store, handsLate, sess, prov, isolate, activating, shutdown, ghosts>>

\* The container of a lease dies.
HandsLoses(w) ==
    /\ remote[w].key # 0 /\ ~remote[w].lost
    /\ handsFaults < HandsMaxFaults /\ handsFaults' = handsFaults + 1
    /\ remote' = [remote EXCEPT ![w].lost = TRUE]
    /\ UNCHANGED <<store, remoteRev, handsLate, broker, nextKey, nextSid, issuedTo, drifted,
                   rotated, released, changes>>

\* A request its sender gave up on arrives after all.
LateArrives(m) ==
    /\ handsLate' = handsLate \ {m}
    /\ \/ m.kind = "post" /\ Granted(m.w, m.key, m.rev) /\ UNCHANGED remoteRev
       \/ m.kind = "delete" /\ Released(m.w, m.key)
    /\ UNCHANGED <<store, broker, ghosts>>

----------------------------------------------------------------------------
(* Answers. *)

\* A fault, of the bounded number of them.
HandsFault == handsFaults < HandsMaxFaults /\ handsFaults' = handsFaults + 1

\* A granted lease: its revision is stored, the attempt is marked READY at the
\* store's revision, and the session has the lease. acquireTier then looks at
\* the active workspace again: when it changed, the lease is closed.
LeaseGranted(c) ==
    LET p == prov[c]
        changed == active[p.bot] # p.w
    IN
    /\ p.stage = "answer" /\ p.answer = "granted"
    /\ IF Current(p.w, p.rev) /\ attempt[p.w][p.tier].key = p.key
       THEN /\ rev' = [rev EXCEPT ![p.w] = p.rev]
            /\ attempt' = [attempt EXCEPT ![p.w][p.tier].state = "READY",
                                          ![p.w][p.tier].rev = p.rev]
            /\ lease' = [lease EXCEPT ![c][p.tier] =
                   [w |-> p.w, key |-> p.key, ready |-> ~changed,
                    close |-> IF changed THEN "sent" ELSE "no", rev |-> 0]]
            /\ prov' = [prov EXCEPT ![c] = IF changed THEN [p EXCEPT !.stage = "undo"] ELSE NoProv]
       ELSE /\ prov' = [prov EXCEPT ![c] = NoProv]
            /\ UNCHANGED <<rev, attempt, lease>>
    /\ UNCHANGED <<active, hands, sess, isolate, activating, shutdown, ghosts>>

\* HANDS_LEASE_LOST gives the attempt a new key; any other refusal leaves the
\* attempt PENDING.
LeaseNotGranted(c) ==
    LET p == prov[c]
        rotate == p.answer = "lost" /\ attempt[p.w][p.tier].key = p.key
    IN
    /\ p.stage = "answer" /\ p.answer # "granted"
    /\ prov' = [prov EXCEPT ![c] = NoProv]
    /\ IF rotate
       THEN /\ nextKey <= MaxKeys /\ nextKey' = nextKey + 1
            /\ issuedTo' = [issuedTo EXCEPT ![nextKey] = c]
            /\ attempt' = [attempt EXCEPT ![p.w][p.tier].state = "PENDING",
                                          ![p.w][p.tier].key = nextKey]
            /\ rotated' = rotated \cup {p.key}
       ELSE UNCHANGED <<nextKey, issuedTo, attempt, rotated>>
    /\ UNCHANGED <<active, rev, hands, sess, lease, isolate, activating, shutdown,
                   nextSid, drifted, released, handsFaults, changes>>

PostOf(c) == [kind |-> "post", w |-> prov[c].w, key |-> prov[c].key, rev |-> prov[c].rev]
DeleteOf(c, t) == [kind |-> "delete", w |-> lease[c][t].w, key |-> lease[c][t].key, rev |-> 0]

\* The policy refuses, or a request of the client fails: the caller gets the
\* error, the attempt stays as it is. A request may still arrive later.
ProvisionFails(c) ==
    /\ prov[c].stage \in {"workspace", "put", "post", "answer"}
    /\ HandsFault
    /\ prov' = [prov EXCEPT ![c] = NoProv]
    /\ \/ UNCHANGED handsLate
       \/ prov[c].stage = "post" /\ handsLate' = handsLate \cup {PostOf(c)}
    /\ UNCHANGED <<store, remote, remoteRev, sess, lease, isolate, activating, shutdown,
                   nextKey, nextSid, issuedTo, drifted, rotated, released, changes>>

\* The release is confirmed: the revision is stored and the lease forgotten.
\* A provisioning that replaces the lease goes on, one that undoes it fails.
LeaseReleased(c, t) ==
    LET l == lease[c][t]
        p == prov[c]
        next == active[p.bot]
    IN
    /\ l.close \in {"done", "absent"} /\ Current(l.w, l.rev)
    /\ rev' = [rev EXCEPT ![l.w] = l.rev]
    /\ lease' = [lease EXCEPT ![c][t] = NoLease]
    /\ released' = IF l.close = "done" THEN released \cup {l.key} ELSE released
    /\ prov' = [prov EXCEPT ![c] =
           CASE p.stage = "replace" -> [p EXCEPT !.stage = "workspace", !.w = next, !.rev = rev'[next]]
             [] p.stage = "undo" -> NoProv
             [] OTHER -> p]
    /\ UNCHANGED <<active, attempt, hands, sess, isolate, activating, shutdown,
                   nextKey, nextSid, issuedTo, drifted, rotated, handsFaults, changes>>

\* The release fails, on the way or because a newer revision is stored: the
\* lease is handed out again, except by acquireTier's own close, and whoever
\* waited for it fails.
ReleaseFails(c, t) ==
    LET l == lease[c][t] IN
    /\ l.close # "no"
    /\ \/ l.close # "sent" /\ ~Current(l.w, l.rev) /\ UNCHANGED <<handsLate, handsFaults>>
       \/ HandsFault /\ UNCHANGED handsLate
       \/ HandsFault /\ l.close = "sent" /\ handsLate' = handsLate \cup {DeleteOf(c, t)}
    /\ lease' = [lease EXCEPT ![c][t].close = "no", ![c][t].rev = 0,
                              ![c][t].ready = prov[c].stage # "undo"]
    /\ sess' = [sess EXCEPT ![c].stopping = IF @ = "leases" THEN "no" ELSE @]
    /\ prov' = [prov EXCEPT ![c] = IF @.stage \in {"replace", "undo"} THEN NoProv ELSE @]
    /\ UNCHANGED <<store, remote, remoteRev, isolate, activating, shutdown,
                   nextKey, nextSid, issuedTo, drifted, rotated, released, changes>>

----------------------------------------------------------------------------
(* What moves a workspace's revision, and what changes the active one. *)

Moved(w) ==
    /\ changes < MaxChanges /\ changes' = changes + 1
    /\ remoteRev' = [remoteRev EXCEPT ![w] = @ + 1]
    /\ drifted' = IF remote[w].key = 0 THEN drifted ELSE drifted \cup {remote[w].key}

\* writeFile through a lease: the answer's revision is stored.
WriteWorkspaceFile(c, t) ==
    LET l == lease[c][t] IN
    /\ l.ready /\ remote[l.w] = [key |-> l.key, lost |-> FALSE]
    /\ Moved(l.w)
    /\ rev' = [rev EXCEPT ![l.w] = remoteRev'[l.w]]
    /\ UNCHANGED <<active, attempt, remote, handsLate, broker, nextKey, nextSid, issuedTo, rotated, released, handsFaults>>

\* executeHandsIsolate: refused while a session leases the workspace; the
\* code runs later, at the revision that was read before.
IsolateBegins(w) ==
    /\ shutdown = "no" /\ ~isolate[w].on /\ ~HasActiveWorkspaceLease(w)
    /\ changes < MaxChanges
    /\ isolate' = [isolate EXCEPT ![w] = [on |-> TRUE, rev |-> rev[w]]]
    /\ UNCHANGED <<store, hands, sess, lease, prov, activating, shutdown, ghosts>>

IsolateEnds(w) ==
    /\ isolate[w].on
    /\ isolate' = [isolate EXCEPT ![w] = [on |-> FALSE, rev |-> 0]]
    /\ \/ /\ isolate[w].rev = remoteRev[w] /\ Moved(w)
          /\ rev' = [rev EXCEPT ![w] = remoteRev'[w]]
       \/ /\ Current(w, remoteRev[w]) /\ rev' = [rev EXCEPT ![w] = remoteRev[w]]
          /\ UNCHANGED <<remoteRev, drifted, changes>>
       \/ UNCHANGED <<rev, remoteRev, drifted, changes>>
    /\ UNCHANGED <<active, attempt, remote, handsLate, sess, lease, prov, activating, shutdown,
                   nextKey, nextSid, issuedTo, rotated, released, handsFaults>>

\* The activate route: refused while the bot has a lease or an isolate runs;
\* setActive follows the policy's answer.
ActivateBegins(b, w) ==
    /\ shutdown = "no" /\ activating[b] = None /\ BotOf[w] = b /\ active[b] # w
    /\ ~HasActiveBotLease(b)
    /\ \A v \in Workspaces : BotOf[v] = b => ~isolate[v].on
    /\ changes < MaxChanges /\ changes' = changes + 1
    /\ activating' = [activating EXCEPT ![b] = w]
    /\ UNCHANGED <<store, hands, sess, lease, prov, isolate, shutdown,
                   nextKey, nextSid, issuedTo, drifted, rotated, released, handsFaults>>

ActivateEnds(b) ==
    /\ activating[b] # None
    /\ activating' = [activating EXCEPT ![b] = None]
    /\ active' = [active EXCEPT ![b] = activating[b]]
    /\ UNCHANGED <<rev, attempt, hands, sess, lease, prov, isolate, shutdown, ghosts>>

----------------------------------------------------------------------------
(* The process. *)

\* close: no new work; the provisionings end first, then every session is
\* stopped.
Close ==
    /\ shutdown = "no" /\ shutdown' = "closing"
    /\ UNCHANGED <<store, hands, sess, lease, prov, isolate, activating, ghosts>>

CloseStops ==
    /\ shutdown = "closing" /\ \A c \in Clients : ~Provisioning(c)
    /\ shutdown' = "stopping"
    /\ sess' = [c \in Clients |->
           IF Open(c) /\ sess[c].stopping = "no"
           THEN [sess[c] EXCEPT !.stopping = "check"] ELSE sess[c]]
    /\ UNCHANGED <<store, hands, lease, prov, isolate, activating, ghosts>>

HandsInFlight ==
    {PostOf(c) : c \in {d \in Clients : prov[d].stage = "post"}}
    \cup {DeleteOf(x[1], x[2]) : x \in {y \in Clients \X Tiers : lease[y[1]][y[2]].close = "sent"}}

\* The process ends, by a crash or after close; the rows remain, and requests
\* on their way may still arrive.
HandsRestart ==
    /\ HandsFault
    /\ \E kept \in SUBSET HandsInFlight : handsLate' = handsLate \cup kept
    /\ sess' = [c \in Clients |-> NoSession]
    /\ lease' = [c \in Clients |-> [t \in Tiers |-> NoLease]]
    /\ prov' = [c \in Clients |-> NoProv]
    /\ isolate' = [w \in Workspaces |-> [on |-> FALSE, rev |-> 0]]
    /\ activating' = [b \in HandsBots |-> None]
    /\ shutdown' = "no"
    /\ UNCHANGED <<store, remote, remoteRev, nextKey, nextSid, issuedTo, drifted, rotated, released, changes>>

HandsNext ==
    \/ \E c \in Clients :
          \/ Start(c) \/ Detach(c) \/ GraceEnds(c) \/ StopAsked(c)
          \/ StopSession(c) \/ SessionStopped(c)
          \/ Replace(c) \/ Acquire(c) \/ PutWorkspace(c) \/ HandsLease(c)
          \/ LeaseGranted(c) \/ LeaseNotGranted(c) \/ ProvisionFails(c)
          \/ \E t \in Tiers :
                \/ StopTier(c, t) \/ HandsRelease(c, t) \/ LeaseReleased(c, t)
                \/ ReleaseFails(c, t) \/ WriteWorkspaceFile(c, t)
                \/ \E b \in HandsBots : Ensure(c, t, b)
    \/ \E w \in Workspaces : HandsLoses(w) \/ IsolateBegins(w) \/ IsolateEnds(w)
    \/ \E b \in HandsBots : ActivateEnds(b) \/ \E w \in Workspaces : ActivateBegins(b, w)
    \/ \E m \in handsLate : LateArrives(m)
    \/ Close \/ CloseStops \/ HandsRestart

\* Every await ends: timers fire, requests are answered or fail, and the
\* code that waits for one another's promises goes on.
Progress(c) ==
    \/ GraceEnds(c) \/ StopSession(c) \/ SessionStopped(c)
    \/ Replace(c) \/ Acquire(c) \/ PutWorkspace(c) \/ HandsLease(c)
    \/ LeaseGranted(c) \/ LeaseNotGranted(c)
    \/ \E t \in Tiers : \/ sess[c].stopping = "leases" /\ StopTier(c, t)
                        \/ HandsRelease(c, t) \/ LeaseReleased(c, t)
                        \/ lease[c][t].close \in {"done", "absent"} /\ ReleaseFails(c, t)

HandsSpec == HandsInit /\ [][HandsNext]_handsVars
HandsFairness == \A c \in Clients : WF_handsVars(Progress(c))

----------------------------------------------------------------------------
(* Properties. *)

\* The types of the rows, of the service's state and of the broker's memory.
HandsTypeOK ==
    /\ active \in [HandsBots -> Workspaces] /\ rev \in [Workspaces -> Nat]
    /\ attempt \in [Workspaces -> [Tiers ->
          [state : {"NONE", "PENDING", "READY"}, rev : Nat, key : 0 .. MaxKeys,
           sid : Nat, client : Clients \cup {None}]]]
    /\ remote \in [Workspaces -> [key : 0 .. MaxKeys, lost : BOOLEAN]]
    /\ remoteRev \in [Workspaces -> Nat]
    /\ sess \in [Clients -> [id : Nat, attached : BOOLEAN, timer : BOOLEAN,
                             stopping : {"no", "check", "leases"}]]
    /\ lease \in [Clients -> [Tiers ->
          [w : Workspaces \cup {None}, key : 0 .. MaxKeys, ready : BOOLEAN,
           close : {"no", "sent", "done", "absent"}, rev : Nat]]]
    /\ prov \in [Clients -> [stage : {"no", "replace", "workspace", "put", "post", "answer", "undo"},
                             tier : Tiers \cup {None}, bot : HandsBots \cup {None},
                             w : Workspaces \cup {None}, rev : Nat, key : 0 .. MaxKeys,
                             answer : {"none", "granted", "lost", "busy", "conflict"}]]
    /\ shutdown \in {"no", "closing", "stopping"}

\* Asked again now, the store would give the key of the workspace's live lease.
Recoverable(w) ==
    \E t \in Tiers : /\ attempt[w][t].key = remote[w].key
                     /\ ReusedKey(w, t, rev[w])

HandsLive(w) == remote[w].key # 0 /\ ~remote[w].lost

\* Whatever answers are lost and whenever the broker restarts, a lease that
\* lives at the service can be had again under its key: the durable attempt
\* still names it. Leases under which the workspace's revision moved are set
\* apart, and so is a lease that a late request makes under a key that was
\* given up as lost.
RetryIdentity ==
    \A w \in Workspaces :
        HandsLive(w) /\ remote[w].key \notin drifted \cup rotated => Recoverable(w)

\* A session only ever holds a lease whose key was made for its own client: no
\* retry, rotation or restart hands one client's lease to another.
LeaseOfOwnClient ==
    \A c \in Clients, t \in Tiers : Leased(c, t) => issuedTo[lease[c][t].key] = c

\* A key whose release was confirmed is never asked for again, and no session
\* keeps a lease that was released under it.
ReleasedKeyRetired ==
    \A c \in Clients :
        /\ prov[c].key \notin released
        /\ \A t \in Tiers : lease[c][t].key \notin released

\* A session has at most one attempt it never saw confirmed: the query that
\* looks for it takes one row, and stopTier asks about one tier.
OneUnresolved == \A c \in Clients : Open(c) => Cardinality(Unresolved(c)) <= 1

\* A provisioning and a stop never wait for each other: both come to an end.
OperationsSettle ==
    \A c \in Clients :
        /\ Provisioning(c) ~> ~Provisioning(c)
        /\ sess[c].stopping # "no" ~> sess[c].stopping = "no"

(* Whatever answers are lost and whenever the broker restarts, a live      *)
(* lease can be had again under its key, by its own client only, and a key *)
(* whose release was confirmed is never used again.                        *)
HandsSafe ==
    /\ HandsTypeOK /\ RetryIdentity /\ LeaseOfOwnClient /\ ReleasedKeyRetired
    /\ OneUnresolved

=============================================================================
