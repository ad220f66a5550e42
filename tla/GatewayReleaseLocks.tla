------------------------ MODULE GatewayReleaseLocks ------------------------
(***************************************************************************)
(* The locks the Platform's transactions on Gateway releases take, and the *)
(* order they take them in.  All are held to the end of the transaction.   *)
(*                                                                         *)
(* gateway and topology are advisory locks (transaction-lock.ts,           *)
(* runtime-topology-lock.ts); the others are row locks: the resources the  *)
(* release is compiled from, a runtime's registration, capabilities and    *)
(* command, and the release head.  The renewal first looks for a due head  *)
(* with FOR UPDATE SKIP LOCKED and then runs the same coordinator as a     *)
(* publication.  PostgreSQL queues waiters fairly and, when transactions   *)
(* wait for each other, ends one of them.                                  *)
(***************************************************************************)
EXTENDS Naturals, Sequences

CONSTANTS
    Transactions,  \* the transactions that may be open at once
    Kind,          \* what each of them does
    LocksNobody    \* the holder of a free lock

Kinds == {"publish", "renew", "report", "negotiate", "rollback"}

ASSUME LocksAssumption ==
    /\ Kind \in [Transactions -> Kinds]
    /\ LocksNobody \notin Transactions

Locks == {"gateway", "resources", "topology", "registration", "capability", "head", "command"}

\* Compiling, saving and enqueueing a release.
CommitLocks == <<"gateway", "resources", "topology", "registration", "capability", "head", "command">>

\* Mutation of LockOrder: a report locks its command before the registration.
LockOrderCommandFirst(kind) ==
    CASE kind = "publish" -> CommitLocks
      [] kind = "renew" -> <<"head">> \o CommitLocks
      [] kind = "report" -> <<"command", "registration">>
      [] kind = "negotiate" -> <<"topology", "registration", "capability">>
      [] kind = "rollback" -> <<"registration", "capability", "command">>

\* The locks of a transaction, in the order of its statements.
LockOrder(kind) ==
    CASE kind = "publish" -> CommitLocks
      [] kind = "renew" -> <<"head">> \o CommitLocks
      [] kind = "report" -> <<"registration", "command">>
      [] kind = "negotiate" -> <<"topology", "registration", "capability">>
      [] kind = "rollback" -> <<"registration", "capability", "command">>

VARIABLES
    holder,  \* who holds a lock
    taken    \* how many of its locks a transaction has taken

locksVars == <<holder, taken>>

LocksTypeOK ==
    /\ holder \in [Locks -> Transactions \cup {LocksNobody}]
    /\ taken \in [Transactions -> 0..8]

LocksInit ==
    /\ holder = [l \in Locks |-> LocksNobody]
    /\ taken = [t \in Transactions |-> 0]

Script(t) == LockOrder(Kind[t])
Finished(t) == taken[t] = Len(Script(t))
Wanted(t) == Script(t)[taken[t] + 1]

\* A renewal that is still looking for a due head passes over a locked one.
Searching(t) == Kind[t] = "renew" /\ taken[t] = 0

LocksTake(t) ==
    /\ ~ Finished(t)
    /\ holder[Wanted(t)] \in {LocksNobody, t}
    /\ holder' = [holder EXCEPT ![Wanted(t)] = t]
    /\ taken' = [taken EXCEPT ![t] = @ + 1]

\* The transaction ends and its locks are free; the next one of its kind may
\* begin.
LocksRelease(t) ==
    /\ holder' = [l \in Locks |-> IF holder[l] = t THEN LocksNobody ELSE holder[l]]
    /\ taken' = [taken EXCEPT ![t] = 0]

Commit(t) == Finished(t) /\ LocksRelease(t)

\* t waits for u.
Waits(t, u) ==
    /\ t # u
    /\ ~ Finished(t)
    /\ ~ Searching(t)
    /\ holder[Wanted(t)] = u

\* The transactions of S on a cycle of waits within S.  A transaction waits for
\* at most one other, so the members of a union of cycles are those sets whose
\* members all wait for a member and are all waited for by one.
Deadlocked(S) ==
    LET waiting == {t \in S : \E u \in S : Waits(t, u)}
    IN  UNION {C \in SUBSET waiting : \A t \in C : /\ \E u \in C : Waits(t, u)
                                                   /\ \E u \in C : Waits(u, t)}

\* The database ends a deadlocked transaction.
Victim(t) == t \in Deadlocked(Transactions) /\ LocksRelease(t)

LocksNext == \E t \in Transactions : LocksTake(t) \/ Commit(t) \/ Victim(t)

LocksSpec == LocksInit /\ [][LocksNext]_locksVars

-----------------------------------------------------------------------------
(* Properties *)

\* Publications, reports, negotiations and rollbacks never deadlock among
\* themselves: only a renewal, which locks the head before the gateway lock,
\* can be part of a cycle.
DeadlockNeedsRenewal ==
    Deadlocked({t \in Transactions : Kind[t] # "renew"}) = {}

(* Two publications and every other kind of transaction never wait for     *)
(* each other in a circle unless a renewal, which locks the head first, is *)
(* part of it.                                                             *)
LocksSafe ==
    /\ LocksTypeOK /\ DeadlockNeedsRenewal

=============================================================================
