------------------------------ MODULE McpOAuth ------------------------------
(***************************************************************************)
(* A user's OAuth binding to one MCP connection: authorization sessions    *)
(* that end in a binding, requests that resolve the binding to an access   *)
(* token and refresh it when it has expired, disconnection, and a change   *)
(* of the connector's site. The steps are the statements of               *)
(* mcp-oauth/postgres.ts and the requests to the authorization server,     *)
(* which is external; nothing holds a lock between them.                   *)
(*                                                                         *)
(* A token stands for the pair of an access token and the refresh token    *)
(* issued with it. The sealed state of a binding, which is encrypted under *)
(* a random IV, is told apart by a seal number.                            *)
(***************************************************************************)
EXTENDS Integers, FiniteSets

CONSTANTS Sessions,        \* authorizations the user starts
          Callers,         \* requests that need the token, each made once
          Sites,           \* endpoints the connection may point at
          Rotating,        \* whether the server retires a refresh token on use
          MaxTokens,       \* bound: tokens the server issues
          OAuthMaxFaults,  \* bound: lost answers to a refresh
          MaxChanges,      \* bound: expiries, disconnections and site changes
          OAuthNone

ASSUME OAuthAssumption ==
    /\ Sites # {} /\ Rotating \in BOOLEAN
    /\ {MaxTokens, OAuthMaxFaults, MaxChanges} \subseteq Nat
    /\ OAuthNone \notin Sessions \cup Sites

VARIABLES
    site,       \* the connection's endpoint
    session,    \* genio_one_mcp_oauth_sessions and the callback at work on each
    binding,    \* genio_one_mcp_oauth_bindings: the row, or NoBinding
    caller,     \* the requests
    oAuthLive,  \* the refresh tokens the authorization server accepts
    origin,     \* of a token: the session it comes from and the site it is for
    nextTok, nextSeal,
    handed,     \* the tokens given to callers, each with the site it was given for
    presented,  \* of a token: how often it was presented for a refresh
    stranded,   \* sessions one of whose tokens was lost on its way to the store
    oAuthFaults, changes

oAuthVars == <<site, session, binding, caller, oAuthLive, origin, nextTok, nextSeal,
          handed, presented, stranded, oAuthFaults, changes>>

Tokens == 1 .. MaxTokens
NoBinding == [tok |-> 0, site |-> OAuthNone, fresh |-> FALSE, seal |-> 0]
NoSession == [pc |-> "none", site |-> OAuthNone, row |-> FALSE, read |-> OAuthNone, tok |-> 0]
OAuthIdle == [pc |-> "idle", seen |-> NoBinding, site |-> OAuthNone, tok |-> 0]

OAuthInit ==
    /\ site \in Sites
    /\ session = [s \in Sessions |-> NoSession]
    /\ binding = NoBinding
    /\ caller = [c \in Callers |-> OAuthIdle]
    /\ oAuthLive = {} /\ nextTok = 1 /\ nextSeal = 1
    /\ origin = [k \in Tokens |-> [session |-> OAuthNone, site |-> OAuthNone]]
    /\ handed = {}
    /\ presented = [k \in Tokens |-> 0]
    /\ stranded = {} /\ oAuthFaults = 0 /\ changes = 0

OAuthFault == oAuthFaults < OAuthMaxFaults /\ oAuthFaults' = oAuthFaults + 1

\* The authorization server issues a token of session s, for the site the
\* user authorized.
Issued(s, retired) ==
    /\ nextTok <= MaxTokens /\ nextTok' = nextTok + 1
    /\ oAuthLive' = (oAuthLive \ retired) \cup {nextTok}
    /\ origin' = [origin EXCEPT ![nextTok] = [session |-> s, site |-> session[s].site]]

----------------------------------------------------------------------------
(* Authorization: start and complete. *)

\* start: the row is created and the user sent to the authorization server of
\* the connection as it is now.
OAuthStart(s) ==
    /\ session[s].pc = "none"
    /\ session' = [session EXCEPT ![s] = [NoSession EXCEPT !.pc = "open", !.site = site, !.row = TRUE]]
    /\ UNCHANGED <<site, binding, caller, oAuthLive, origin, nextTok, nextSeal, handed,
                   presented, stranded, oAuthFaults, changes>>

\* complete: the session and the connection are read and the code exchanged.
\* A code is good for one exchange, so a repeated callback fails.
Callback(s) ==
    /\ session[s].pc = "open" /\ session[s].row
    /\ Issued(s, {})
    /\ session' = [session EXCEPT ![s].pc = "exchanged", ![s].read = site, ![s].tok = nextTok]
    /\ UNCHANGED <<site, binding, caller, nextSeal, handed, presented, stranded, oAuthFaults, changes>>

\* A callback with an error deletes the row, also one that another callback
\* is at work on.
CallbackDenied(s) ==
    /\ session[s].row
    /\ session' = [session EXCEPT ![s].row = FALSE]
    /\ UNCHANGED <<site, binding, caller, oAuthLive, origin, nextTok, nextSeal, handed,
                   presented, stranded, oAuthFaults, changes>>

\* saveTokens: merged into the row, when it is still there.
SaveTokens(s) ==
    /\ session[s].pc = "exchanged"
    /\ session' = [session EXCEPT ![s].pc = IF session[s].row THEN "saved" ELSE "failed"]
    /\ UNCHANGED <<site, binding, caller, oAuthLive, origin, nextTok, nextSeal, handed,
                   presented, stranded, oAuthFaults, changes>>

\* The row is read again and becomes the binding, for the endpoint that was
\* read with the callback.
PutBinding(s) ==
    /\ session[s].pc = "saved"
    /\ IF session[s].row
       THEN /\ binding' = [tok |-> session[s].tok, site |-> session[s].read,
                           fresh |-> TRUE, seal |-> nextSeal]
            /\ nextSeal' = nextSeal + 1
            /\ session' = [session EXCEPT ![s].pc = "bound"]
       ELSE /\ session' = [session EXCEPT ![s].pc = "failed"]
            /\ UNCHANGED <<binding, nextSeal>>
    /\ UNCHANGED <<site, caller, oAuthLive, origin, nextTok, handed, presented, stranded, oAuthFaults, changes>>

\* deleteSession after the binding is stored.
DeleteSession(s) ==
    /\ session[s].pc = "bound" /\ session[s].row
    /\ session' = [session EXCEPT ![s].row = FALSE]
    /\ UNCHANGED <<site, binding, caller, oAuthLive, origin, nextTok, nextSeal, handed,
                   presented, stranded, oAuthFaults, changes>>

----------------------------------------------------------------------------
(* Resolution: resolveAccessToken reads the binding and then the           *)
(* connection, resolveRequestHeaders and status the other way round.       *)

ReadBinding(c) ==
    /\ \/ caller[c].pc = "idle" /\ caller' = [caller EXCEPT ![c].pc = "haveBinding", ![c].seen = binding]
       \/ caller[c].pc = "haveSite" /\ caller' = [caller EXCEPT ![c].pc = "decide", ![c].seen = binding]
    /\ binding # NoBinding
    /\ UNCHANGED <<site, session, binding, oAuthLive, origin, nextTok, nextSeal, handed,
                   presented, stranded, oAuthFaults, changes>>

ReadConnection(c) ==
    /\ \/ caller[c].pc = "idle" /\ caller' = [caller EXCEPT ![c].pc = "haveSite", ![c].site = site]
       \/ caller[c].pc = "haveBinding" /\ caller' = [caller EXCEPT ![c].pc = "decide", ![c].site = site]
    /\ UNCHANGED <<site, session, binding, oAuthLive, origin, nextTok, nextSeal, handed,
                   presented, stranded, oAuthFaults, changes>>

\* No binding: AUTHORIZATION_REQUIRED.
NotBound(c) ==
    /\ caller[c].pc \in {"idle", "haveSite"} /\ binding = NoBinding
    /\ caller' = [caller EXCEPT ![c].pc = "refused"]
    /\ UNCHANGED <<site, session, binding, oAuthLive, origin, nextTok, nextSeal, handed,
                   presented, stranded, oAuthFaults, changes>>

Outcome(c, next) == caller' = [caller EXCEPT ![c].pc = next]

OAuthGive(c, tok) == handed' = handed \cup {[tok |-> tok, site |-> caller[c].site]}

\* usableAccessToken up to the refresh: a binding of another site is refused,
\* a fresh token is given out.
OAuthDecide(c) ==
    /\ caller[c].pc = "decide"
    /\ CASE caller[c].seen.site # caller[c].site -> Outcome(c, "refused") /\ UNCHANGED handed
         [] caller[c].seen.site = caller[c].site /\ caller[c].seen.fresh ->
                Outcome(c, "served") /\ OAuthGive(c, caller[c].seen.tok)
         [] OTHER -> Outcome(c, "refresh") /\ UNCHANGED handed
    /\ UNCHANGED <<site, session, binding, oAuthLive, origin, nextTok, nextSeal,
                   presented, stranded, oAuthFaults, changes>>

\* The refresh token is presented: a new pair, or a refusal that ends as
\* REAUTHORIZATION_REQUIRED.
Refresh(c) ==
    LET old == caller[c].seen.tok IN
    /\ caller[c].pc = "refresh"
    /\ presented' = [presented EXCEPT ![old] = @ + 1]
    /\ IF old \in oAuthLive
       THEN /\ Issued(origin[old].session, IF Rotating THEN {old} ELSE {})
            /\ caller' = [caller EXCEPT ![c].pc = "save", ![c].tok = nextTok]
       ELSE /\ Outcome(c, "refused")
            /\ UNCHANGED <<oAuthLive, origin, nextTok>>
    /\ UNCHANGED <<site, session, binding, nextSeal, handed, stranded, oAuthFaults, changes>>

\* The answer of the server, or the process that waits for it, is lost.
RefreshLost(c) ==
    /\ caller[c].pc = "save" /\ OAuthFault
    /\ Outcome(c, "refused")
    /\ stranded' = stranded \cup {origin[caller[c].tok].session}
    /\ UNCHANGED <<site, session, binding, oAuthLive, origin, nextTok, nextSeal, handed,
                   presented, changes>>

SaveOldRefreshToken(c) ==
    /\ caller[c].pc = "save"
    /\ IF binding.seal = caller[c].seen.seal
       THEN /\ binding' = [caller[c].seen EXCEPT !.fresh = TRUE, !.seal = nextSeal]
            /\ nextSeal' = nextSeal + 1
            /\ Outcome(c, "served") /\ OAuthGive(c, caller[c].tok)
       ELSE Outcome(c, "refused") /\ UNCHANGED <<binding, nextSeal, handed>>
    /\ UNCHANGED <<site, session, oAuthLive, origin, nextTok, presented, stranded, oAuthFaults, changes>>

\* updateBindingIfCurrent: the row is replaced if its sealed state is the one
\* that was read; otherwise BINDING_CHANGED, and the token is not given out.
OAuthSave(c) ==
    /\ caller[c].pc = "save"
    /\ IF binding.seal = caller[c].seen.seal
       THEN /\ binding' = [caller[c].seen EXCEPT !.tok = caller[c].tok, !.fresh = TRUE, !.seal = nextSeal]
            /\ nextSeal' = nextSeal + 1
            /\ Outcome(c, "served") /\ OAuthGive(c, caller[c].tok)
       ELSE Outcome(c, "refused") /\ UNCHANGED <<binding, nextSeal, handed>>
    /\ UNCHANGED <<site, session, oAuthLive, origin, nextTok, presented, stranded, oAuthFaults, changes>>

----------------------------------------------------------------------------
(* What happens meanwhile. *)

\* The access token runs out.
Expire ==
    /\ binding # NoBinding /\ binding.fresh
    /\ changes < MaxChanges /\ changes' = changes + 1
    /\ binding' = [binding EXCEPT !.fresh = FALSE]
    /\ UNCHANGED <<site, session, caller, oAuthLive, origin, nextTok, nextSeal, handed,
                   presented, stranded, oAuthFaults>>

\* disconnect: the row is deleted.
Disconnect ==
    /\ binding # NoBinding
    /\ changes < MaxChanges /\ changes' = changes + 1
    /\ binding' = NoBinding
    /\ UNCHANGED <<site, session, caller, oAuthLive, origin, nextTok, nextSeal, handed,
                   presented, stranded, oAuthFaults>>

\* The connection is pointed at another site; its OAuth client stays.
ChangeSite ==
    /\ changes < MaxChanges /\ changes' = changes + 1
    /\ site' \in Sites \ {site}
    /\ UNCHANGED <<session, binding, caller, oAuthLive, origin, nextTok, nextSeal, handed,
                   presented, stranded, oAuthFaults>>

OAuthNext ==
    \/ \E s \in Sessions : \/ OAuthStart(s) \/ Callback(s) \/ CallbackDenied(s)
                           \/ SaveTokens(s) \/ PutBinding(s) \/ DeleteSession(s)
    \/ \E c \in Callers : \/ ReadBinding(c) \/ ReadConnection(c) \/ NotBound(c) \/ OAuthDecide(c)
                          \/ Refresh(c) \/ RefreshLost(c) \/ OAuthSave(c)
    \/ Expire \/ Disconnect \/ ChangeSite

OAuthSpec == OAuthInit /\ [][OAuthNext]_oAuthVars

----------------------------------------------------------------------------
(* Properties. *)

\* The types of the rows, of the requests and of the server's tokens; a row of
\* a binding always names the site it is for and holds a token.
OAuthTypeOK ==
    /\ site \in Sites
    /\ session \in [Sessions -> [pc : {"none", "open", "exchanged", "saved", "bound", "failed"},
                                 site : Sites \cup {OAuthNone}, row : BOOLEAN,
                                 read : Sites \cup {OAuthNone}, tok : 0 .. MaxTokens]]
    /\ binding \in {NoBinding} \cup [tok : Tokens, site : Sites, fresh : BOOLEAN, seal : Nat]
    /\ \A c \in Callers : caller[c].pc \in {"idle", "haveBinding", "haveSite", "decide", "refresh",
                                            "save", "served", "refused"}
    /\ oAuthLive \subseteq Tokens /\ nextTok \in 1 .. (MaxTokens + 1)
    /\ handed \subseteq [tok : Tokens, site : Sites]

OAuthGrant == IF binding = NoBinding THEN OAuthNone ELSE origin[binding.tok].session

\* Concurrent refreshes, reauthorizations and disconnections never leave in
\* the store a refresh token the server has retired, except while the request
\* that holds its successor is about to save it, and unless an answer was lost.
BindingUsable ==
    \/ binding = NoBinding
    \/ binding.tok \in oAuthLive
    \/ OAuthGrant \in stranded
    \/ \E c \in Callers : caller[c].pc = "save" /\ caller[c].seen.seal = binding.seal

\* The connection moved to another site while the session's user was away.
Straddles(s) == session[s].read \notin {OAuthNone, session[s].site}

\* A token is only given out for the site it was authorized for, whatever
\* order the binding and the connection are read in, unless the connection
\* was moved in the middle of the authorization.
SiteBoundOtherwise ==
    \A h \in handed : ~Straddles(origin[h.tok].session) => origin[h.tok].site = h.site

(* Callbacks, refreshes, expiries and disconnections in any order leave a  *)
(* binding whose refresh token the server still takes unless an answer was *)
(* lost, and hand a caller a token of its own site unless the site changed *)
(* under it.                                                               *)
OAuthSafe ==
    /\ OAuthTypeOK /\ BindingUsable /\ SiteBoundOtherwise

=============================================================================
