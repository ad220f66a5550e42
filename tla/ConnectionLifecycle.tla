------------------------ MODULE ConnectionLifecycle ------------------------
(***************************************************************************)
(* One Connection of a published Resource: its configuration, its          *)
(* verification by a call to the upstream that no transaction covers, and  *)
(* its revocation, which waits until every runtime of the gateway has      *)
(* acknowledged a release made after it was requested.                     *)
(*                                                                         *)
(* Releases are numbered by their head revision.  A release of model       *)
(* routes reads the Connection as it is; a release of any other kind takes *)
(* it from the snapshot that was approved, whatever became of it since.    *)
(***************************************************************************)
EXTENDS Naturals, FiniteSets

CONSTANTS
    ConnectionRuntimes,  \* runtimes of the gateway
    Verifiers,           \* verifications under way at once
    FromSnapshot,        \* whether releases take the Connection from the snapshot
    MaxRow,              \* bound on the revisions of the Connection's row
    MaxHead              \* bound on releases

ASSUME ConnectionAssumption == FromSnapshot \in BOOLEAN /\ MaxRow \in Nat \ {0} /\ MaxHead \in Nat

VARIABLES
    conn,              \* the Connection's row, and the configuration it was revoked with
    verifying,         \* per verification, the row revision and configuration it read
    approved,          \* whether the published snapshot has the Connection
    carries,           \* per release, whether it has the Connection
    connectionActive,  \* the active, capable runtimes
    sent,              \* per runtime, the newest release it was sent
    acked              \* per runtime, the newest release it acknowledged

connectionVars == <<conn, verifying, approved, carries, connectionActive, sent, acked>>

ConnectionStates == {"DRAFT", "ENABLED", "DISABLED", "REVOKE_PENDING", "REVOKED"}
NoVerification == [row |-> 0, config |-> 0]
HeadRevision == Cardinality(DOMAIN carries)

ConnectionTypeOK ==
    /\ conn \in [lifecycle : ConnectionStates, row : 1..MaxRow, config : 1..MaxRow,
                 checked : 0..MaxRow, mark : 0..MaxHead, final : 0..MaxRow]
    /\ verifying \in [Verifiers -> [row : 0..MaxRow, config : 0..MaxRow]]
    /\ approved \in BOOLEAN
    /\ carries \in UNION {[1..n -> BOOLEAN] : n \in 0..MaxHead}
    /\ connectionActive \subseteq ConnectionRuntimes
    /\ sent \in [ConnectionRuntimes -> 0..MaxHead] /\ acked \in [ConnectionRuntimes -> 0..MaxHead]

ConnectionInit ==
    /\ conn = [lifecycle |-> "DRAFT", row |-> 1, config |-> 1, checked |-> 0, mark |-> 0,
             final |-> 0]
    /\ verifying = [v \in Verifiers |-> NoVerification]
    /\ approved = FALSE
    /\ carries = <<>>
    /\ connectionActive = {}
    /\ sent = [r \in ConnectionRuntimes |-> 0] /\ acked = [r \in ConnectionRuntimes |-> 0]

-----------------------------------------------------------------------------
(* The row                                                                 *)

ConnectionVerified == conn.checked # 0
Ready == conn.lifecycle = "ENABLED" /\ ConnectionVerified
Row == <<approved, carries, connectionActive, sent, acked>>

\* Every change of the row has a new revision; commands name the one they saw.
Write(new) ==
    /\ conn.row < MaxRow
    /\ conn' = [new EXCEPT !.row = conn.row + 1]

\* Endpoint, identity, profile or certificate: verified anew, in any state but
\* a revoked one.  (A change of what is not verified only has a new revision.)
Reconfigure ==
    /\ conn.lifecycle \notin {"REVOKE_PENDING", "REVOKED"}
    /\ Write([conn EXCEPT !.config = conn.row + 1, !.checked = 0])
    /\ UNCHANGED <<verifying, Row>>

\* Routing or a health observation, in any state.
Touch ==
    /\ Write(conn)
    /\ UNCHANGED <<verifying, Row>>

\* verify reads the row and calls the upstream with what it read.
BeginVerify(v) ==
    /\ verifying[v] = NoVerification
    /\ verifying' = [verifying EXCEPT ![v] = [row |-> conn.row, config |-> conn.config]]
    /\ UNCHANGED <<conn, Row>>

Unchanged(v) == verifying[v].row = conn.row

\* The upstream answered: the row, if nobody has changed it, is verified and
\* enabled, whatever its lifecycle.
EndVerify(v) ==
    /\ verifying[v] # NoVerification
    /\ IF Unchanged(v)
       THEN Write([conn EXCEPT !.checked = verifying[v].config, !.lifecycle = "ENABLED"])
       ELSE UNCHANGED conn
    /\ verifying' = [verifying EXCEPT ![v] = NoVerification]
    /\ UNCHANGED Row

\* The upstream refused, or the call failed.
VerifyFails(v) ==
    /\ verifying[v] # NoVerification
    /\ verifying' = [verifying EXCEPT ![v] = NoVerification]
    /\ UNCHANGED <<conn, Row>>

Enable ==
    /\ conn.lifecycle \in {"DRAFT", "DISABLED"} /\ ConnectionVerified
    /\ Write([conn EXCEPT !.lifecycle = "ENABLED"])
    /\ UNCHANGED <<verifying, Row>>

Disable ==
    /\ conn.lifecycle \in {"DRAFT", "ENABLED", "DISABLED"}
    /\ Write([conn EXCEPT !.lifecycle = "DISABLED"])
    /\ UNCHANGED <<verifying, Row>>

ConnectionNewest(S) == IF S = {} THEN 0 ELSE CHOOSE n \in S : \A k \in S : k <= n

\* The newest release any active runtime was sent.
Watermark == ConnectionNewest({sent[r] : r \in connectionActive})

RequestRevoke ==
    /\ conn.lifecycle \notin {"REVOKE_PENDING", "REVOKED"}
    /\ Write([conn EXCEPT !.lifecycle = "REVOKE_PENDING", !.mark = Watermark])
    /\ UNCHANGED <<verifying, Row>>

\* Mutation of ConfirmRevoked: one runtime's acknowledgement is enough.
ConfirmRevokedByOne(revision) ==
    /\ conn.lifecycle = "REVOKE_PENDING" /\ revision > conn.mark
    /\ connectionActive # {} => \E r \in connectionActive : acked[r] >= revision
    /\ Write([conn EXCEPT !.lifecycle = "REVOKED", !.final = conn.config])
    /\ UNCHANGED <<verifying, Row>>

\* The administrator names a release after the watermark, and every active
\* runtime has acknowledged it or a later one.
ConfirmRevoked(revision) ==
    /\ conn.lifecycle = "REVOKE_PENDING" /\ revision > conn.mark
    /\ \A r \in connectionActive : acked[r] >= revision
    /\ Write([conn EXCEPT !.lifecycle = "REVOKED", !.final = conn.config])
    /\ UNCHANGED <<verifying, Row>>

-----------------------------------------------------------------------------
(* Releases and runtimes                                                   *)

\* What a release made now carries, given what is approved and whether the
\* Connection was observed healthy lately.
Carried(snapshot, healthy) == snapshot /\ (FromSnapshot \/ (Ready /\ healthy))

\* A release goes to every active runtime; there must be one.
ConnectionRelease(carried) ==
    /\ connectionActive # {} /\ HeadRevision < MaxHead
    /\ carries' = [n \in 1..(HeadRevision + 1) |-> IF n <= HeadRevision THEN carries[n] ELSE carried]
    /\ sent' = [r \in ConnectionRuntimes |-> IF r \in connectionActive THEN HeadRevision + 1 ELSE sent[r]]
    /\ UNCHANGED <<conn, verifying, connectionActive, acked>>

\* A snapshot is approved, with the Connection, ready and healthy, or without.
Publish(with) ==
    /\ with => Ready
    /\ approved' = with
    /\ ConnectionRelease(Carried(with, TRUE))

\* A release that comes out as the one before keeps its revision, and is sent
\* to the runtimes that do not have it.
Resend(healthy) ==
    /\ connectionActive # {} /\ HeadRevision # 0 /\ carries[HeadRevision] = Carried(approved, healthy)
    /\ sent' = [r \in ConnectionRuntimes |-> IF r \in connectionActive THEN HeadRevision ELSE sent[r]]
    /\ UNCHANGED <<conn, verifying, approved, carries, connectionActive, acked>>

\* The release is renewed, or the Connection's health, another Resource or a
\* rule changes.
Reconcile(healthy) == ConnectionRelease(Carried(approved, healthy)) /\ UNCHANGED approved

Acknowledge(r) ==
    /\ r \in connectionActive /\ acked[r] < sent[r]
    /\ acked' = [acked EXCEPT ![r] = sent[r]]
    /\ UNCHANGED <<conn, verifying, approved, carries, connectionActive, sent>>

\* A runtime is registered, or taken from service after it was sent a release.
Join(r) ==
    /\ r \notin connectionActive /\ sent[r] = 0
    /\ connectionActive' = connectionActive \cup {r}
    /\ UNCHANGED <<conn, verifying, approved, carries, sent, acked>>

Leave(r) ==
    /\ r \in connectionActive /\ sent[r] # 0
    /\ connectionActive' = connectionActive \ {r}
    /\ UNCHANGED <<conn, verifying, approved, carries, sent, acked>>

ConnectionNext ==
    \/ Reconfigure \/ Touch \/ Enable \/ Disable \/ RequestRevoke
    \/ \E revision \in 1..MaxHead : ConfirmRevoked(revision)
    \/ \E v \in Verifiers : BeginVerify(v) \/ EndVerify(v) \/ VerifyFails(v)
    \/ \E healthy \in BOOLEAN : Reconcile(healthy) \/ Resend(healthy)
    \/ \E with \in BOOLEAN : Publish(with)
    \/ \E r \in ConnectionRuntimes : Acknowledge(r) \/ Join(r) \/ Leave(r)

ConnectionSpec == ConnectionInit /\ [][ConnectionNext]_connectionVars

-----------------------------------------------------------------------------
(* Properties                                                              *)

\* A Connection counts as verified for the configuration the upstream was
\* called with, not for one it was given during the call (verify).
VerifiedAsConfigured == ConnectionVerified => conn.checked = conn.config

\* No active runtime serves a Connection that is revoked (transitionLifecycle):
\* the release it acknowledged does not carry it, whenever runtimes join, lag
\* behind or leave.  It holds for releases that read the Connection.  Releases
\* that take it from the snapshot carry it on after the watermark.
RevokedIsNotServed ==
    conn.lifecycle = "REVOKED" => \A r \in connectionActive : acked[r] # 0 => ~ carries[acked[r]]

\* While a revocation is pending, the releases runtimes were sent since do not
\* carry the Connection: what the administrator is asked to wait for is enough
\* (the watermark).
NothingAfterMark ==
    conn.lifecycle = "REVOKE_PENDING" =>
        \A r \in connectionActive : sent[r] > conn.mark => ~ carries[sent[r]]

\* A Connection that was revoked is given no new trust material.  A verification
\* brings it back, and with it the right to change it.
RevokedTrustIsFinal == conn.final # 0 => conn.config = conn.final

(* A Connection is verified for the configuration that was tried, and is   *)
(* revoked only when no active runtime serves it any more, whoever joins,  *)
(* lags or leaves meanwhile.                                               *)
ConnectionSafe ==
    /\ ConnectionTypeOK /\ VerifiedAsConfigured /\ RevokedIsNotServed /\ NothingAfterMark

=============================================================================
