---------------------------- MODULE McpDiscovery ----------------------------
(***************************************************************************)
(* Discovering the tools of one MCP connection.  An administrator asks for *)
(* a discovery; a Gateway Runtime polls for it, claims it, asks the        *)
(* upstream server for its tools and posts what it saw.  Of what was seen  *)
(* the administrator selects tools, ignores or blocks them and approves    *)
(* some for automatic read-only use.  Every change of the selection or of  *)
(* the approvals must reach a publication of the Resource.                 *)
(*                                                                         *)
(* A digest stands for a tool's metadata at the upstream.  Each store      *)
(* operation is one transaction under the gateway's release lock.  The     *)
(* steps of a publication are those ResourcePublication details, taken     *)
(* together here.                                                          *)
(***************************************************************************)
EXTENDS Naturals, Sequences, FiniteSets

CONSTANTS Tools,              \* the names of tools
          Digests,            \* the metadata a tool may have
          Runtimes,           \* the runtimes of the gateway
          DiscoveryNone,
          MaxOps,             \* bound: discovery operations
          MaxDrift,           \* bound: changes of the upstream server
          MaxDecided,         \* bound: decisions of the administrator
          DiscoveryMaxFaults  \* bound: lost answers and runtimes that die

ASSUME DiscoveryAssumption ==
    /\ {MaxOps, MaxDrift, MaxDecided, DiscoveryMaxFaults} \subseteq Nat
    /\ DiscoveryNone \notin Digests \cup Runtimes \cup {"NEW", "PUBLISHED", "IGNORED", "BLOCKED"}

VARIABLES
    upstream,       \* of a tool: its metadata at the server, or None
    ops,            \* genio_one_mcp_discovery_operations, oldest first
    runtime,        \* the control loop of each runtime
    config,         \* the connection: selection, the operation it is from, approvals, revision
    discoveryPub,   \* the newest publication: its state and the configuration it froze
    discoveryLive,  \* the configuration of what is published, or NoConfig
    page,           \* the candidates the administrator has on the screen
    approved,       \* the tools approved for read-only use, each as it was shown
    decided,        \* of a tool: the last decision about it and the metadata it was for
    drift, decisions, discoveryFaults

discoveryVars == <<upstream, ops, runtime, config, discoveryPub, discoveryLive, page, approved, decided,
          drift, decisions, discoveryFaults>>

Seen == [Tools -> Digests \cup {DiscoveryNone}]
Nothing == [t \in Tools |-> DiscoveryNone]
Decisions == {"NEW", "PUBLISHED", "IGNORED", "BLOCKED"}
DiscoveryIdle == [step |-> "idle", op |-> 0, ok |-> FALSE, seen |-> Nothing]
NoConfig == [selected |-> {}, from |-> 0, reviews |-> Nothing, rev |-> 0]

DiscoveryInit ==
    /\ upstream \in Seen
    /\ ops = <<>>
    /\ runtime = [r \in Runtimes |-> DiscoveryIdle]
    /\ config = [NoConfig EXCEPT !.rev = 1]
    /\ discoveryPub = [state |-> "DRAFT", snap |-> NoConfig]
    /\ discoveryLive = NoConfig
    /\ page = Nothing
    /\ approved = {}
    /\ decided = [t \in Tools |-> [state |-> "NEW", digest |-> DiscoveryNone]]
    /\ drift = 0 /\ decisions = 0 /\ discoveryFaults = 0

-----------------------------------------------------------------------------
(* Operations                                                              *)

DiscoveryActive == \E i \in DOMAIN ops : ops[i].state \in {"PENDING", "RUNNING"}
Succeeded == {i \in DOMAIN ops : ops[i].state = "SUCCEEDED"}
\* Operations of a connection complete in the order they were made.
DiscoveryLatest == CHOOSE i \in Succeeded : \A j \in Succeeded : j <= i
LastSeen == IF Succeeded = {} THEN Nothing ELSE ops[DiscoveryLatest].seen
LastCandidates == IF Succeeded = {} THEN Nothing ELSE ops[DiscoveryLatest].candidates

Operation == [state |-> "PENDING", runtime |-> DiscoveryNone, seen |-> Nothing, candidates |-> Nothing]

\* request: while one is active, or for a correlation seen before, the
\* existing operation is the answer.
Request ==
    /\ ~ DiscoveryActive /\ Len(ops) < MaxOps
    /\ ops' = Append(ops, Operation)
    /\ UNCHANGED <<upstream, runtime, config, discoveryPub, discoveryLive, page, approved, decided,
                   drift, decisions, discoveryFaults>>

DiscoveryClaimable(i) == ops[i].state = "PENDING"

DiscoveryFault == discoveryFaults < DiscoveryMaxFaults /\ discoveryFaults' = discoveryFaults + 1

\* The claimed operation is the runtime's.
Taken(i, r) == [ops EXCEPT ![i].state = "RUNNING", ![i].runtime = r]

\* claimNext, and the poll it answers; the answer may be lost.
DiscoveryClaim(r) ==
    /\ runtime[r].step = "idle"
    /\ \E i \in DOMAIN ops :
        /\ DiscoveryClaimable(i)
        /\ ops' = Taken(i, r)
        /\ \/ runtime' = [runtime EXCEPT ![r] = [DiscoveryIdle EXCEPT !.step = "claimed", !.op = i]]
              /\ UNCHANGED discoveryFaults
           \/ DiscoveryFault /\ UNCHANGED runtime
    /\ UNCHANGED <<upstream, config, discoveryPub, discoveryLive, page, approved, decided, drift, decisions>>

\* executeMcpDiscovery: the server's tools, or an error, which is a result too.
Execute(r) ==
    /\ runtime[r].step = "claimed"
    /\ \E ok \in BOOLEAN :
        runtime' = [runtime EXCEPT ![r].step = "executed", ![r].ok = ok,
                                   ![r].seen = IF ok THEN upstream ELSE Nothing]
    /\ UNCHANGED <<upstream, ops, config, discoveryPub, discoveryLive, page, approved, decided,
                   drift, decisions, discoveryFaults>>

\* discoveryCandidates: a selected tool is published; a decision holds for the
\* metadata it was made for, if the last observation had that too.
Candidate(t, seen) ==
    IF seen[t] = DiscoveryNone THEN DiscoveryNone
    ELSE IF t \in config.selected THEN "PUBLISHED"
    ELSE IF LastSeen[t] = seen[t] /\ LastCandidates[t] \in {"IGNORED", "BLOCKED"}
         THEN LastCandidates[t]
    ELSE "NEW"

\* Mutation of Pruned: an approval is dropped only when the tool is gone.
PrunedGone(seen) == [t \in Tools |-> IF seen[t] = DiscoveryNone THEN DiscoveryNone ELSE config.reviews[t]]

\* pruneMcpToolReviews: an approval ends with the metadata it was given for.
Pruned(seen) == [t \in Tools |-> IF config.reviews[t] = seen[t] THEN seen[t] ELSE DiscoveryNone]

\* ensurePublicationSuccessorInTransaction, when the configuration changed: a
\* publication that is published or whose build failed gets a successor.
Successor(c) ==
    IF c.rev # config.rev /\ discoveryPub.state \in {"PUBLISHED", "FAILED"}
    THEN [state |-> "DRAFT", snap |-> NoConfig] ELSE discoveryPub

\* A write of the connection's row: only when something changed.
Configure(selected, from, reviews) ==
    LET changed == selected # config.selected \/ reviews # config.reviews
        c == IF changed
             THEN [selected |-> selected, from |-> from, reviews |-> reviews, rev |-> config.rev + 1]
             ELSE config
    IN config' = c /\ discoveryPub' = Successor(c)

\* complete: what the runtime posts for the operation it claimed.
Complete(r) ==
    LET i == runtime[r].op  seen == runtime[r].seen IN
    /\ ops[i].state = "RUNNING" /\ ops[i].runtime = r
    /\ IF runtime[r].ok
       THEN /\ ops' = [ops EXCEPT ![i].state = "SUCCEEDED", ![i].seen = seen,
                                  ![i].candidates = [t \in Tools |-> Candidate(t, seen)]]
            /\ Configure(config.selected, config.from, Pruned(seen))
       ELSE /\ ops' = [ops EXCEPT ![i].state = "FAILED"]
            /\ UNCHANGED <<config, discoveryPub>>

\* deliverMcpDiscovery: posted once; when the post fails nothing is kept.
Deliver(r) ==
    /\ runtime[r].step = "executed"
    /\ \/ Complete(r) /\ UNCHANGED discoveryFaults
       \/ DiscoveryFault /\ UNCHANGED <<ops, config, discoveryPub>>
    /\ runtime' = [runtime EXCEPT ![r] = DiscoveryIdle]
    /\ UNCHANGED <<upstream, discoveryLive, page, approved, decided, drift, decisions>>

\* The runtime dies and starts again.
DiscoveryCrash(r) ==
    /\ runtime[r].step # "idle" /\ DiscoveryFault
    /\ runtime' = [runtime EXCEPT ![r] = DiscoveryIdle]
    /\ UNCHANGED <<upstream, ops, config, discoveryPub, discoveryLive, page, approved, decided, drift, decisions>>

-----------------------------------------------------------------------------
(* Decisions                                                               *)

\* The screen shows the candidates of the newest operation.
DiscoveryView ==
    /\ Succeeded # {} /\ DiscoveryLatest = Len(ops) /\ page # LastSeen
    /\ page' = LastSeen
    /\ UNCHANGED <<upstream, ops, runtime, config, discoveryPub, discoveryLive, approved, decided,
                   drift, decisions, discoveryFaults>>

\* publicationLocksToolSelection
Locked == discoveryPub.state = "PENDING_REVIEW"

\* The candidate is there, and is the one the administrator saw.
Shown(t) == page[t] # DiscoveryNone /\ LastSeen[t] = page[t]

DiscoveryDecide(t) ==
    /\ decisions < MaxDecided /\ decisions' = decisions + 1
    /\ Succeeded # {} /\ Shown(t) /\ ~ Locked

\* A tool that is not selected loses its approval.
Removed(t, state) ==
    IF state = "PUBLISHED" THEN config.reviews ELSE [config.reviews EXCEPT ![t] = DiscoveryNone]

\* decideCandidate, on the candidates of the last discovery that succeeded.
DecideCandidate(t, state) ==
    /\ DiscoveryDecide(t)
    /\ Configure(IF state = "PUBLISHED" THEN config.selected \cup {t} ELSE config.selected \ {t},
                 DiscoveryLatest, Removed(t, state))
    /\ ops' = [ops EXCEPT ![DiscoveryLatest].candidates[t] = state]
    /\ decided' = [decided EXCEPT ![t] = [state |-> state, digest |-> page[t]]]
    /\ UNCHANGED <<upstream, runtime, discoveryLive, page, approved, drift, discoveryFaults>>

\* decideReadOnlyApproval: for a published tool, given or taken back.
DecideReadOnlyApproval(t, auto) ==
    /\ DiscoveryDecide(t)
    /\ LastCandidates[t] = "PUBLISHED" /\ t \in config.selected
    /\ Configure(config.selected, config.from,
                 [config.reviews EXCEPT ![t] = IF auto THEN LastSeen[t] ELSE DiscoveryNone])
    /\ approved' = IF auto THEN approved \cup {<<t, page[t]>>} ELSE approved
    /\ UNCHANGED <<upstream, ops, runtime, discoveryLive, page, decided, drift, discoveryFaults>>

-----------------------------------------------------------------------------
(* Publications (ResourcePublication has their steps)                      *)

\* A request for review freezes the connection; after a failed build, in a
\* successor.
DiscoveryRequestReview ==
    /\ discoveryPub.state \in {"DRAFT", "FAILED"} /\ config # discoveryLive
    /\ discoveryPub' = [state |-> "PENDING_REVIEW", snap |-> config]
    /\ UNCHANGED <<upstream, ops, runtime, config, discoveryLive, page, approved, decided,
                   drift, decisions, discoveryFaults>>

\* The build and the commit: some tools are selected, every approval is of a
\* selected tool, and the connection is as the snapshot has it.
DiscoveryPublishable ==
    /\ discoveryPub.snap.selected # {} /\ discoveryPub.snap.from # 0
    /\ \A t \in Tools : discoveryPub.snap.reviews[t] # DiscoveryNone => t \in discoveryPub.snap.selected
    /\ discoveryPub.snap = config

\* The review approves: the publication is published or its build fails.
DiscoveryApprove ==
    /\ discoveryPub.state = "PENDING_REVIEW"
    /\ \/ DiscoveryPublishable /\ discoveryPub' = [discoveryPub EXCEPT !.state = "PUBLISHED"] /\ discoveryLive' = discoveryPub.snap
       \/ discoveryPub' = [discoveryPub EXCEPT !.state = "FAILED"] /\ UNCHANGED discoveryLive
    /\ UNCHANGED <<upstream, ops, runtime, config, page, approved, decided,
                   drift, decisions, discoveryFaults>>

DiscoveryReject ==
    /\ discoveryPub.state = "PENDING_REVIEW"
    /\ discoveryPub' = [state |-> "DRAFT", snap |-> NoConfig]
    /\ UNCHANGED <<upstream, ops, runtime, config, discoveryLive, page, approved, decided,
                   drift, decisions, discoveryFaults>>

-----------------------------------------------------------------------------
\* The server's tools change.
Drift ==
    /\ drift < MaxDrift /\ drift' = drift + 1
    /\ \E t \in Tools, d \in Digests \cup {DiscoveryNone} :
        d # upstream[t] /\ upstream' = [upstream EXCEPT ![t] = d]
    /\ UNCHANGED <<ops, runtime, config, discoveryPub, discoveryLive, page, approved, decided, decisions, discoveryFaults>>

Discover(r) == DiscoveryClaim(r) \/ Execute(r) \/ Deliver(r)

DiscoveryNext ==
    \/ Request \/ DiscoveryView \/ DiscoveryRequestReview \/ DiscoveryApprove \/ DiscoveryReject \/ Drift
    \/ \E r \in Runtimes : Discover(r) \/ DiscoveryCrash(r)
    \/ \E t \in Tools :
        \/ \E state \in Decisions \ {"NEW"} : DecideCandidate(t, state)
        \/ \E auto \in BOOLEAN : DecideReadOnlyApproval(t, auto)

DiscoverySpec == DiscoveryInit /\ [][DiscoveryNext]_discoveryVars
-----------------------------------------------------------------------------
Configs == [selected : SUBSET Tools, from : 0..MaxOps, reviews : Seen, rev : Nat]

\* Every variable has its shape, and a claimed operation has a runtime.
DiscoveryTypeOK ==
    /\ upstream \in Seen /\ page \in Seen
    /\ ops \in Seq([state : {"PENDING", "RUNNING", "SUCCEEDED", "FAILED"},
                    runtime : Runtimes \cup {DiscoveryNone}, seen : Seen,
                    candidates : [Tools -> Decisions \cup {DiscoveryNone}]])
    /\ \A i \in DOMAIN ops : (ops[i].state = "PENDING") = (ops[i].runtime = DiscoveryNone)
    /\ runtime \in [Runtimes -> [step : {"idle", "claimed", "executed"}, op : 0..MaxOps,
                                 ok : BOOLEAN, seen : Seen]]
    /\ config \in Configs /\ discoveryLive \in Configs
    /\ discoveryPub \in [state : {"DRAFT", "PENDING_REVIEW", "FAILED", "PUBLISHED"}, snap : Configs]
    /\ approved \subseteq Tools \X Digests
    /\ decided \in [Tools -> [state : Decisions, digest : Digests \cup {DiscoveryNone}]]

\* An approval for automatic use is of a selected tool and bound to the
\* metadata the last successful discovery saw: "MCP read-only approval is
\* explicit, revision-bound, and revoked by discovery metadata changes".
ReviewBound ==
    \A t \in Tools : config.reviews[t] # DiscoveryNone =>
        t \in config.selected /\ LastSeen[t] = config.reviews[t]

\* What runs automatically was approved by someone who had exactly that
\* metadata on the screen, however late the decision came.
ApprovedAsShown ==
    \A t \in Tools : config.reviews[t] # DiscoveryNone => <<t, config.reviews[t]>> \in approved

\* A candidate that is ignored or blocked is so by a decision about exactly
\* the metadata it has now, and one is published if and only if it is selected.
DecidedForRevision ==
    \A t \in Tools :
        /\ LastCandidates[t] \in {"IGNORED", "BLOCKED"} =>
            decided[t] = [state |-> LastCandidates[t], digest |-> LastSeen[t]]
        /\ LastCandidates[t] # DiscoveryNone => ((LastCandidates[t] = "PUBLISHED") = (t \in config.selected))

\* When the connection is no longer as it was published, the newest
\* publication is not the published one: the change waits in a successor.
ChangeWaits == discoveryPub.state = "PUBLISHED" => config = discoveryLive

(* While the upstream server changes, runtimes race for discoveries and    *)
(* answers are lost, a tool is approved only as the administrator saw it,  *)
(* and a changed tool waits for a new decision.                            *)
DiscoverySafe ==
    /\ DiscoveryTypeOK /\ ReviewBound /\ ApprovedAsShown /\ DecidedForRevision
    /\ ChangeWaits

=============================================================================
