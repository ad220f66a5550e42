---------------------------- MODULE BotDeletion ----------------------------
(***************************************************************************)
(* The deletion of a Bot, in two databases.  The Bot server fences the Bot *)
(* (archived, with a row of pending deletion), asks the platform to cancel *)
(* the Bot's distillation, which leaves a tombstone there, and only then   *)
(* deletes its own record.  Each of the owner's tokens may ask.  A refusal *)
(* settles its attempt, and the Bot is given back when every attempt that  *)
(* was ever made is settled; an attempt whose fate is unknown stays        *)
(* unresolved.  What is in flight is lost with the process, except for the *)
(* request, which the platform may serve later.                            *)
(***************************************************************************)
EXTENDS Integers, FiniteSets

CONSTANTS
    Tokens,      \* the owner's access tokens
    MaxAttempts  \* bound on attempts

ASSUME DeletionAssumption == MaxAttempts \in Nat /\ Tokens # {}

VARIABLES
    bot,        \* the Bot's record
    pend,       \* its row of pending deletion, and the row's two counters
    tombstone,  \* whether the platform has cancelled the Bot's distillation
    made,       \* how many attempts were made
    calls,      \* per attempt: token, request, whether its caller waits, whether it is settled
    batch,      \* the attempts that are in flight together
    rejected,   \* the tokens this process knows to be refused
    busy        \* whether the Bot's workspace is in use

deletionVars == <<bot, pend, tombstone, made, calls, batch, rejected, busy>>

Attempts == 1..MaxAttempts
NoRow == [there |-> FALSE, generation |-> 0, unresolved |-> 0]
NoCall == [token |-> CHOOSE t \in Tokens : TRUE, request |-> "none", waiting |-> FALSE, settled |-> FALSE]
NoBatch == [pending |-> {}, latest |-> 0, definitive |-> FALSE, ambiguous |-> FALSE]
Requests == {"none", "flying", "cancelled", "refused", "failed"}

DeletionTypeOK ==
    /\ bot \in {"here", "archived", "gone"}
    /\ pend \in [there : BOOLEAN, generation : Nat, unresolved : Nat]
    /\ tombstone \in BOOLEAN /\ busy \in BOOLEAN
    /\ made \in 0..MaxAttempts
    /\ calls \in [Attempts -> [token : Tokens, request : Requests, waiting : BOOLEAN, settled : BOOLEAN]]
    /\ batch \in [pending : SUBSET Attempts, latest : Nat, definitive : BOOLEAN, ambiguous : BOOLEAN]
    /\ rejected \subseteq Tokens

DeletionInit ==
    /\ bot = "here" /\ pend = NoRow /\ tombstone = FALSE /\ made = 0
    /\ calls = [i \in Attempts |-> NoCall]
    /\ batch = NoBatch /\ rejected = {} /\ busy \in BOOLEAN

-----------------------------------------------------------------------------
(* Attempts                                                                *)

InFlight(t) == \E i \in Attempts : calls[i].waiting /\ calls[i].token = t

\* Mutation of Rollback: the Bot is given back without a row.
RollbackUnfenced(row, b) ==
    b.pending = {} /\ b.definitive /\ ~ b.ambiguous /\ row.unresolved = 0

\* The last attempt of a batch gives the Bot back if all were refused and no
\* attempt of the row is unresolved.
Rollback(row, b) ==
    /\ b.pending = {} /\ b.definitive /\ ~ b.ambiguous
    /\ row.there /\ row.generation = b.latest /\ row.unresolved = 0

\* An attempt leaves its batch; row is the row as it leaves it.
EndOf(row, b, record) ==
    /\ batch' = IF b.pending = {} THEN NoBatch ELSE b
    /\ IF Rollback(row, b) THEN pend' = NoRow /\ bot' = "here"
       ELSE pend' = row /\ bot' = record

\* The attempt is counted in the row, and sends its request unless the
\* workspace is busy.
Attempt(t, row) ==
    LET i == made + 1
        counted == [there |-> TRUE, generation |-> row.generation + 1, unresolved |-> row.unresolved + 1]
        joined == [batch EXCEPT !.latest = IF batch.pending = {} \/ counted.generation > @
                                           THEN counted.generation ELSE @]
    IN  /\ made < MaxAttempts
        /\ made' = i
        /\ calls' = [calls EXCEPT ![i] = [token |-> t, waiting |-> ~ busy, settled |-> FALSE,
                                          request |-> IF busy THEN "failed" ELSE "flying"]]
        /\ IF busy THEN EndOf(counted, [joined EXCEPT !.ambiguous = TRUE], "archived")
           ELSE /\ batch' = [joined EXCEPT !.pending = @ \cup {i}]
                /\ pend' = counted /\ bot' = "archived"
        /\ UNCHANGED <<tombstone, rejected, busy>>

\* The owner asks for the deletion; an attempt with the same token is shared.
RequestDeletion(t) ==
    /\ ~ busy /\ (bot = "here" \/ (bot = "archived" /\ pend.there))
    /\ IF InFlight(t)
       THEN bot' = "archived" /\ pend' = [pend EXCEPT !.there = TRUE]
            /\ UNCHANGED <<tombstone, made, calls, batch, rejected, busy>>
       ELSE Attempt(t, [pend EXCEPT !.there = TRUE])

\* A pending deletion is tried again with a session's token.
Reconcile(t) ==
    /\ pend.there /\ t \notin rejected /\ ~ InFlight(t)
    /\ Attempt(t, pend)

Leaves(i) == [batch EXCEPT !.pending = @ \ {i}]

Settle(row) == [row EXCEPT !.unresolved = IF row.there /\ @ > 0 THEN @ - 1 ELSE @]

\* The platform refuses the token: the attempt is settled.
Refused(i) ==
    /\ calls[i].waiting /\ calls[i].request = "refused"
    /\ calls' = [calls EXCEPT ![i].waiting = FALSE, ![i].settled = TRUE]
    /\ rejected' = rejected \cup {calls[i].token}
    /\ EndOf(Settle(pend), [Leaves(i) EXCEPT !.definitive = TRUE], bot)
    /\ UNCHANGED <<tombstone, made, busy>>

\* The platform has cancelled: the record and the row are deleted, unless
\* another attempt has done it.
Cancelled(i) ==
    /\ calls[i].waiting /\ calls[i].request = "cancelled" /\ ~ busy
    /\ calls' = [calls EXCEPT ![i].waiting = FALSE]
    /\ IF pend.there THEN EndOf(NoRow, Leaves(i), "gone") ELSE EndOf(pend, Leaves(i), bot)
    /\ UNCHANGED <<tombstone, made, rejected, busy>>

\* Mutation of Ambiguous: an attempt without an answer is settled as well.
AmbiguousSettles(i) ==
    /\ calls[i].waiting
    /\ calls' = [calls EXCEPT ![i].waiting = FALSE]
    /\ EndOf(Settle(pend), [Leaves(i) EXCEPT !.definitive = TRUE], bot)
    /\ UNCHANGED <<tombstone, made, rejected, busy>>

\* No answer in time, an error, or a workspace that is busy by now.
Ambiguous(i) ==
    /\ calls[i].waiting
    /\ calls' = [calls EXCEPT ![i].waiting = FALSE]
    /\ EndOf(pend, [Leaves(i) EXCEPT !.ambiguous = TRUE], bot)
    /\ UNCHANGED <<tombstone, made, rejected, busy>>

-----------------------------------------------------------------------------
(* The platform, the process and the workspace                             *)

\* cancelBot leaves the tombstone in the transaction that cancels.
Serve(i, answer) ==
    /\ calls[i].request = "flying"
    /\ calls' = [calls EXCEPT ![i].request = answer]
    /\ tombstone' = (tombstone \/ answer = "cancelled")
    /\ UNCHANGED <<bot, pend, made, batch, rejected, busy>>

Crash ==
    /\ calls' = [i \in Attempts |-> [calls[i] EXCEPT !.waiting = FALSE]]
    /\ batch' = NoBatch /\ rejected' = {}
    /\ UNCHANGED <<bot, pend, tombstone, made, busy>>

UseWorkspace(to) ==
    /\ busy' = to
    /\ UNCHANGED <<bot, pend, tombstone, made, calls, batch, rejected>>

-----------------------------------------------------------------------------
Answers == {"cancelled", "refused", "failed"}

DeletionNext ==
    \/ \E t \in Tokens : RequestDeletion(t) \/ Reconcile(t)
    \/ \E i \in Attempts :
         \/ Refused(i) \/ Cancelled(i) \/ Ambiguous(i)
         \/ \E answer \in Answers : Serve(i, answer)
    \/ Crash
    \/ \E to \in BOOLEAN : UseWorkspace(to)

DeletionSpec == DeletionInit /\ [][DeletionNext]_deletionVars

-----------------------------------------------------------------------------
(* Properties                                                              *)

\* A Bot its owner still has, or was given back, has not been cancelled on the
\* platform, where a tombstone refuses all its distillation for good: neither
\* by a request that is answered late nor by an attempt of another token
\* (rollbackPendingDeletion).
RestoredIsWhole == bot = "here" => ~ tombstone

\* Nor is there a request left that could still cancel it.
RestoredIsSafe == bot = "here" => \A i \in Attempts : calls[i].request # "flying"

\* The Bot's record is deleted only after the platform has cancelled its
\* distillation (finalizePendingBotDeletion).
DeletedIsCancelled == bot = "gone" => tombstone

\* While a deletion is pending the Bot is fenced, and only then
\* (BOT_DELETE_FENCE_MISSING).
PendingIsFenced == pend.there <=> bot = "archived"

\* A Bot that was deleted stays deleted: a late refusal does not bring it back.
DeletedForGood == [][bot = "gone" => bot' = "gone"]_deletionVars

(* Attempts that overlap, are retried and lose their answers either delete *)
(* a Bot that the platform has cancelled or give it back whole, never a    *)
(* Bot the platform may yet cancel.                                        *)
DeletionSafe ==
    /\ DeletionTypeOK /\ RestoredIsWhole /\ RestoredIsSafe /\ DeletedIsCancelled
    /\ PendingIsFenced

=============================================================================
