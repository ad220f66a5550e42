--------------------------- MODULE SharedMemories ---------------------------
(***************************************************************************)
(* The memories of one shared scope: creation, replacement and deletion by *)
(* users and agents, corrections that are proposed and reviewed, the log   *)
(* of mutations with its idempotency keys, the grants of agents and the    *)
(* roles of principals (memories/module.ts over memories/postgres.ts).     *)
(*                                                                         *)
(* A write runs under the advisory lock of its scope and is one step. A    *)
(* write of an agent is two: it looks for the memory it is about before    *)
(* that lock is taken, in a transaction that already holds the lock of its *)
(* grant and shared locks on its principal's membership.                   *)
(***************************************************************************)
EXTENDS Integers, Sequences

CONSTANTS MaxRequests,   \* bound: idempotency keys, each with one command
          Users,         \* principals that act directly
          Agents,        \* clients that act under a grant
          MemoriesKeys,  \* identities (key, kind and context) of memories
          MemoriesContents,
          MaxMemories,   \* bound: memories ever created
          MaxGrants,     \* bound: grants per agent
          MaxChanges,    \* bound: changes of roles and grants
          MemoriesNone

ASSUME MemoriesAssumption ==
    /\ Users \cap Agents = {}
    /\ {MaxRequests, MaxMemories, MaxGrants, MaxChanges} \subseteq Nat
    /\ MemoriesNone \notin MemoriesContents /\ MemoriesNone \notin Nat

VARIABLES
    memory,         \* genio_one_shared_memories: of an identifier its row, or NoMemory
    nextId,
    log,            \* genio_one_shared_memory_mutations
    proposal,       \* genio_one_shared_memory_correction_proposals, by idempotency key
    memoriesGrant,  \* genio_one_personal_memory_agent_grants
    role,           \* what the directory allows a principal in this scope
    cmd,            \* the command of a request, or NoCommand
    txn,            \* an agent's open transaction: what it found, or NoTxn
    answers,        \* of a request: the memories it was answered with
    changes

memoriesVars == <<memory, nextId, log, proposal, memoriesGrant, role, cmd, txn, answers, changes>>

Principals == Users \cup Agents
Ids == 1 .. MaxMemories
NoMemory == [present |-> FALSE, key |-> MemoriesNone, content |-> MemoriesNone, rev |-> 0, agent |-> FALSE, confirmed |-> FALSE]
NoProposal == [status |-> "none", id |-> 0, base |-> 0, content |-> MemoriesNone, by |-> MemoriesNone, grant |-> 0]
Requests == 1 .. MaxRequests
NoCommand == [op |-> "none", by |-> MemoriesNone, id |-> 0, rev |-> 0, key |-> MemoriesNone, content |-> MemoriesNone]
NoTxn == [open |-> FALSE, id |-> 0, rev |-> 0]

MemoriesInit ==
    /\ memory = [i \in Ids |-> NoMemory] /\ nextId = 1
    /\ log = <<>>
    /\ proposal = [r \in Requests |-> NoProposal]
    /\ memoriesGrant = [a \in Agents |-> [id |-> 1, active |-> TRUE]]
    /\ role \in [Principals -> {"CONTRIBUTE", "MANAGE"}]
    /\ cmd = [r \in Requests |-> NoCommand]
    /\ txn = [r \in Requests |-> NoTxn]
    /\ answers = [r \in Requests |-> {}]
    /\ changes = 0

----------------------------------------------------------------------------
(* Reads that the writes share. *)

\* The memory of an identity, 0 if there is none.
Find(key) ==
    IF \E i \in Ids : memory[i].present /\ memory[i].key = key
    THEN CHOOSE i \in Ids : memory[i].present /\ memory[i].key = key
    ELSE 0

\* Whether the log holds a mutation under the key of the request.
Prior(r) == \E n \in 1 .. Len(log) : log[n].key = r

GrantOf(p) == IF p \in Agents THEN memoriesGrant[p].id ELSE 0
Active(p) == p \in Agents => memoriesGrant[p].active

Mutation(r, id, op, prev, rev, p, g, accepted) ==
    [key |-> r, id |-> id, op |-> op, prev |-> prev, rev |-> rev, by |-> p, grant |-> g,
     accepted |-> accepted]

\* stalePendingCorrectionProposals: all but one, which gets the status given.
Settle(id, except, status) ==
    proposal' = [r \in Requests |->
        IF r = except
        THEN [proposal[r] EXCEPT !.status = status, !.content = MemoriesNone]
        ELSE IF proposal[r].status = "PENDING" /\ proposal[r].id = id
        THEN [proposal[r] EXCEPT !.status = "STALE", !.content = MemoriesNone]
        ELSE proposal[r]]

Answer(r, id, rev) == answers' = [answers EXCEPT ![r] = @ \cup {[id |-> id, rev |-> rev]}]

----------------------------------------------------------------------------
(* Clients form commands from what they have read. *)

\* A key that was not used yet; clients take them in any order, which makes no
\* difference.
Fresh(r) == cmd[r] = NoCommand /\ \A q \in Requests : q < r => cmd[q] # NoCommand

\* A new memory: no identifier, expected revision 0.
IssueCreate(r, p, key, content) ==
    /\ Fresh(r)
    /\ cmd' = [cmd EXCEPT ![r] = [op |-> "remember", by |-> p, id |-> 0, rev |-> 0, key |-> key, content |-> content]]
    /\ UNCHANGED <<memory, nextId, log, proposal, memoriesGrant, role, txn, answers, changes>>

\* A command about a memory at the revision the client has seen.
IssueAbout(r, p, op, id, content) ==
    /\ Fresh(r)
    /\ memory[id].present
    /\ op = "delete" => content = memory[id].content
    /\ cmd' = [cmd EXCEPT ![r] = [op |-> op, by |-> p, id |-> id, rev |-> memory[id].rev,
                                  key |-> memory[id].key, content |-> content]]
    /\ UNCHANGED <<memory, nextId, log, proposal, memoriesGrant, role, txn, answers, changes>>

----------------------------------------------------------------------------
(* Writes under the lock of the scope. *)

Insert(r, p) ==
    /\ nextId <= MaxMemories
    /\ memory' = [memory EXCEPT ![nextId] = [present |-> TRUE, key |-> cmd[r].key, content |-> cmd[r].content,
                                             rev |-> 1, agent |-> p \in Agents, confirmed |-> FALSE]]
    /\ nextId' = nextId + 1
    /\ log' = Append(log, Mutation(r, nextId, "CREATED", 0, 1, p, GrantOf(p), FALSE))
    /\ Answer(r, nextId, 1)

\* rememberShared without an identifier, by a user.
Create(r) ==
    /\ cmd[r].op = "remember" /\ cmd[r].id = 0 /\ cmd[r].by \in Users /\ role[cmd[r].by] # "none"
    /\ ~Prior(r) /\ Find(cmd[r].key) = 0
    /\ Insert(r, cmd[r].by)
    /\ UNCHANGED <<proposal, memoriesGrant, role, cmd, txn, changes>>

ReplaceNotStale(r) ==
    LET id == cmd[r].id  p == cmd[r].by IN
    /\ cmd[r].op = "remember" /\ id # 0 /\ p \in Users /\ role[p] = "MANAGE"
    /\ ~Prior(r) /\ memory[id].present /\ memory[id].rev = cmd[r].rev
    /\ memory' = [memory EXCEPT ![id] = [present |-> TRUE, key |-> memory[id].key, content |-> cmd[r].content,
                                         rev |-> cmd[r].rev + 1, agent |-> FALSE, confirmed |-> FALSE]]
    /\ log' = Append(log, Mutation(r, id, "REPLACED", cmd[r].rev, cmd[r].rev + 1, p, 0, FALSE))
    /\ Answer(r, id, cmd[r].rev + 1)
    /\ UNCHANGED <<nextId, proposal, memoriesGrant, role, cmd, txn, changes>>

\* rememberShared with an identifier, by a manager.
Replace(r) ==
    LET id == cmd[r].id  p == cmd[r].by IN
    /\ cmd[r].op = "remember" /\ id # 0 /\ p \in Users /\ role[p] = "MANAGE"
    /\ ~Prior(r) /\ memory[id].present /\ memory[id].rev = cmd[r].rev
    /\ memory' = [memory EXCEPT ![id] = [present |-> TRUE, key |-> memory[id].key, content |-> cmd[r].content,
                                         rev |-> cmd[r].rev + 1, agent |-> FALSE, confirmed |-> FALSE]]
    /\ Settle(id, MemoriesNone, "STALE")
    /\ log' = Append(log, Mutation(r, id, "REPLACED", cmd[r].rev, cmd[r].rev + 1, p, 0, FALSE))
    /\ Answer(r, id, cmd[r].rev + 1)
    /\ UNCHANGED <<nextId, memoriesGrant, role, cmd, txn, changes>>

\* deleteShared and deleteSharedAsAgent; an agent needs its grant.
Delete(r) ==
    LET id == cmd[r].id  p == cmd[r].by IN
    /\ cmd[r].op = "delete" /\ role[p] = "MANAGE" /\ Active(p)
    /\ ~Prior(r) /\ memory[id].present /\ memory[id].rev = cmd[r].rev
    /\ memory' = [memory EXCEPT ![id] = NoMemory]
    /\ Settle(id, MemoriesNone, "STALE")
    /\ log' = Append(log, Mutation(r, id, "DELETED", cmd[r].rev, cmd[r].rev, p, GrantOf(p), FALSE))
    /\ UNCHANGED <<nextId, memoriesGrant, role, cmd, txn, answers, changes>>

\* A repeated remember of a user: the memory, if it is still as it was left.
Replay(r) ==
    /\ cmd[r].op = "remember" /\ cmd[r].by \in Users /\ role[cmd[r].by] # "none"
    /\ \E n \in 1 .. Len(log) :
          /\ log[n].key = r
          /\ memory[log[n].id].present /\ memory[log[n].id].rev = log[n].rev
          /\ Answer(r, log[n].id, memory[log[n].id].rev)
    /\ UNCHANGED <<memory, nextId, log, proposal, memoriesGrant, role, cmd, txn, changes>>

\* createCorrectionProposal, when the key has made none yet.
Propose(r, id, base, p) ==
    /\ proposal[r] = NoProposal
    /\ memory[id].present /\ memory[id].rev = base
    /\ proposal' = [proposal EXCEPT ![r] = [status |-> "PENDING", id |-> id, base |-> base,
                                            content |-> cmd[r].content, by |-> p, grant |-> GrantOf(p)]]

\* createSharedCorrectionProposal, by a user.
ProposeDirectly(r) ==
    /\ cmd[r].op = "propose" /\ cmd[r].by \in Users /\ role[cmd[r].by] # "none"
    /\ Propose(r, cmd[r].id, cmd[r].rev, cmd[r].by)
    /\ UNCHANGED <<memory, nextId, log, memoriesGrant, role, cmd, txn, answers, changes>>

----------------------------------------------------------------------------
(* rememberSharedAsAgent. *)

\* The grant and the membership are locked and the memory is looked for,
\* before the lock of the scope. One that is as asked for is the answer.
AgentLooks(r) ==
    LET p == cmd[r].by
        id == IF cmd[r].id = 0 THEN Find(cmd[r].key) ELSE cmd[r].id IN
    /\ cmd[r].op = "remember" /\ p \in Agents /\ role[p] # "none" /\ memoriesGrant[p].active
    /\ \A q \in Requests : txn[q].open => cmd[q].by # p
    /\ cmd[r].id # 0 => memory[cmd[r].id].present
    /\ IF cmd[r].id = 0 /\ id # 0 /\ memory[id].content = cmd[r].content
       THEN Answer(r, id, memory[id].rev) /\ UNCHANGED txn
       ELSE /\ txn' = [txn EXCEPT ![r] =
                [open |-> TRUE, id |-> id,
                 rev |-> IF cmd[r].id # 0 THEN cmd[r].rev ELSE IF id # 0 THEN memory[id].rev ELSE 0]]
            /\ UNCHANGED answers
    /\ UNCHANGED <<memory, nextId, log, proposal, memoriesGrant, role, cmd, changes>>

\* A memory was found: a correction of it is proposed at the revision seen.
AgentProposes(r) ==
    /\ txn[r].open /\ txn[r].id # 0
    /\ Propose(r, txn[r].id, txn[r].rev, cmd[r].by)
    /\ txn' = [txn EXCEPT ![r] = NoTxn]
    /\ UNCHANGED <<memory, nextId, log, memoriesGrant, role, cmd, answers, changes>>

\* None was found: it is created, unless one of the same identity was in the
\* meantime. Then the scope, now locked, is looked through again.
AgentCreates(r) ==
    LET id == Find(cmd[r].key) IN
    /\ txn[r].open /\ txn[r].id = 0
    /\ ~Prior(r)
    /\ CASE id = 0 -> Insert(r, cmd[r].by) /\ UNCHANGED proposal
         [] id # 0 /\ memory[id].content = cmd[r].content ->
                Answer(r, id, memory[id].rev) /\ UNCHANGED <<memory, nextId, log, proposal>>
         [] OTHER -> Propose(r, id, memory[id].rev, cmd[r].by) /\ UNCHANGED <<memory, nextId, log, answers>>
    /\ txn' = [txn EXCEPT ![r] = NoTxn]
    /\ UNCHANGED <<memoriesGrant, role, cmd, changes>>

\* Any refusal, error or lost connection: the transaction is rolled back.
AgentFails(r) ==
    /\ txn[r].open
    /\ txn' = [txn EXCEPT ![r] = NoTxn]
    /\ UNCHANGED <<memory, nextId, log, proposal, memoriesGrant, role, cmd, answers, changes>>

----------------------------------------------------------------------------
(* reviewCorrectionProposal, by a manager. Its branch that makes a proposal *)
(* of another revision stale is left out: by PendingCurrent no pending one  *)
(* is of another revision.                                                 *)

Accept(r, p) ==
    LET id == proposal[r].id  base == proposal[r].base IN
    /\ role[p] = "MANAGE" /\ proposal[r].status = "PENDING"
    /\ memory[id].present /\ memory[id].rev = base
    /\ memory' = [memory EXCEPT ![id] = [present |-> TRUE, key |-> memory[id].key, content |-> proposal[r].content,
                                         rev |-> base + 1, agent |-> proposal[r].by \in Agents, confirmed |-> TRUE]]
    /\ Settle(id, r, "ACCEPTED")
    /\ log' = Append(log, Mutation(r, id, "REPLACED", base, base + 1, proposal[r].by, proposal[r].grant, TRUE))
    /\ UNCHANGED <<nextId, memoriesGrant, role, cmd, txn, answers, changes>>

MemoriesReject(r, p) ==
    /\ role[p] = "MANAGE" /\ proposal[r].status = "PENDING"
    /\ memory[proposal[r].id].present /\ memory[proposal[r].id].rev = proposal[r].base
    /\ proposal' = [proposal EXCEPT ![r].status = "REJECTED", ![r].content = MemoriesNone]
    /\ UNCHANGED <<memory, nextId, log, memoriesGrant, role, cmd, txn, answers, changes>>

----------------------------------------------------------------------------
(* Grants and roles. The lock of a grant and the shared locks on a         *)
(* membership are held by an agent's open transaction.                     *)

Unlocked(p) == \A r \in Requests : txn[r].open => cmd[r].by # p

Changed == changes < MaxChanges /\ changes' = changes + 1

EnablePersonalAgent(a) ==
    /\ Unlocked(a) /\ ~memoriesGrant[a].active /\ memoriesGrant[a].id < MaxGrants /\ Changed
    /\ memoriesGrant' = [memoriesGrant EXCEPT ![a] = [id |-> memoriesGrant[a].id + 1, active |-> TRUE]]
    /\ UNCHANGED <<memory, nextId, log, proposal, role, cmd, txn, answers>>

RevokePersonalAgent(a) ==
    /\ Unlocked(a) /\ memoriesGrant[a].active /\ Changed
    /\ memoriesGrant' = [memoriesGrant EXCEPT ![a] = [id |-> memoriesGrant[a].id, active |-> FALSE]]
    /\ UNCHANGED <<memory, nextId, log, proposal, role, cmd, txn, answers>>

\* The directory changes what a principal may do.
ChangeRole(p) ==
    /\ Unlocked(p) /\ Changed
    /\ \E new \in {"none", "CONTRIBUTE", "MANAGE"} \ {role[p]} : role' = [role EXCEPT ![p] = new]
    /\ UNCHANGED <<memory, nextId, log, proposal, memoriesGrant, cmd, txn, answers>>

MemoriesNext ==
    \/ \E r \in Requests, p \in Principals :
          \/ \E k \in MemoriesKeys, c \in MemoriesContents : IssueCreate(r, p, k, c)
          \/ \E i \in Ids, c \in MemoriesContents, op \in {"remember", "delete", "propose"} : IssueAbout(r, p, op, i, c)
          \/ Accept(r, p) \/ MemoriesReject(r, p)
    \/ \E r \in Requests : \/ Create(r) \/ Replace(r) \/ Delete(r) \/ Replay(r) \/ ProposeDirectly(r)
                           \/ AgentLooks(r) \/ AgentProposes(r) \/ AgentCreates(r) \/ AgentFails(r)
    \/ \E a \in Agents : EnablePersonalAgent(a) \/ RevokePersonalAgent(a)
    \/ \E p \in Principals : ChangeRole(p)

MemoriesSpec == MemoriesInit /\ [][MemoriesNext]_memoriesVars

----------------------------------------------------------------------------
(* Properties. *)

\* The types of the rows, of the commands and of the open transactions; only a
\* pending correction still holds its content.
MemoriesTypeOK ==
    /\ \A i \in Ids : memory[i] \in [present : BOOLEAN, key : MemoriesKeys \cup {MemoriesNone}, content : MemoriesContents \cup {MemoriesNone},
                                     rev : Nat, agent : BOOLEAN, confirmed : BOOLEAN]
    /\ \A i \in Ids : memory[i].present => i < nextId /\ memory[i].rev > 0 /\ memory[i].content # MemoriesNone
    /\ \A r \in Requests : proposal[r].content = MemoriesNone <=> proposal[r].status # "PENDING"
    /\ \A r \in Requests : txn[r].open => cmd[r].op = "remember" /\ cmd[r].by \in Agents
    /\ role \in [Principals -> {"none", "CONTRIBUTE", "MANAGE"}]

\* A correction waits for review only while the memory is at the revision it
\* corrects: every replacement, acceptance or deletion has made the others
\* stale.
PendingCurrent ==
    \A r \in Requests : proposal[r].status = "PENDING" =>
        memory[proposal[r].id].present /\ memory[proposal[r].id].rev = proposal[r].base

\* The mutations of a memory, by their places in the log.
History(i) == {n \in 1 .. Len(log) : log[n].id = i}
IsLast(n, i) == n \in History(i) /\ \A m \in History(i) : m <= n

\* The log tells the whole history of a memory: it begins with its creation,
\* every entry continues the one before it, nothing follows a deletion, and
\* the row is what the last entry left.
HistoryComplete ==
    \A i \in Ids :
        /\ \A n \in History(i) :
              /\ log[n].op = "CREATED" <=> \A m \in History(i) : n <= m
              /\ log[n].op = "CREATED" => log[n].prev = 0
              /\ log[n].op = "DELETED" => IsLast(n, i)
        /\ \A m, n \in History(i) :
              m < n /\ ~(\E q \in History(i) : m < q /\ q < n) => log[n].prev = log[m].rev
        /\ memory[i].present <=> \E n \in History(i) : IsLast(n, i) /\ log[n].op # "DELETED"
        /\ \A n \in History(i) : memory[i].present /\ IsLast(n, i) => log[n].rev = memory[i].rev

\* An identity has one memory at a time.
IdentityOnce ==
    \A i, j \in Ids : memory[i].present /\ memory[j].present /\ memory[i].key = memory[j].key => i = j

\* Delayed, repeated and concurrent calls: a key takes effect on a memory at
\* most once, and every answer to a user's remember names the same revision
\* of the same memory.
OncePerKey ==
    \A r \in Requests :
        /\ \A m, n \in 1 .. Len(log) : log[m].key = r /\ log[n].key = r
                                       /\ ~log[m].accepted /\ ~log[n].accepted => m = n
        /\ cmd[r].by \in Users => \A x, y \in answers[r] : x = y

\* What a review confirmed is the correction that was accepted, word for word,
\* and what an agent inferred replaces something only after such a review.
ConfirmedAsReviewed ==
    \A i \in Ids : memory[i].present =>
        /\ memory[i].confirmed =>
              \E n \in 1 .. Len(log) :
                  /\ log[n].id = i /\ log[n].rev = memory[i].rev /\ log[n].accepted
                  /\ memory[i].content = cmd[log[n].key].content
        /\ memory[i].agent /\ memory[i].rev > 1 => memory[i].confirmed

(* Users, agents and reviewers that write concurrently and repeat their    *)
(* requests leave one memory per identity, a log that explains it, and no  *)
(* correction of a revision that is gone.                                  *)
MemoriesSafe ==
    /\ MemoriesTypeOK /\ PendingCurrent /\ HistoryComplete /\ IdentityOnce /\ OncePerKey
    /\ ConfirmedAsReviewed

=============================================================================
