------------------------------ MODULE BotProofs ------------------------------
(***************************************************************************)
(* Proofs about the Bot server.                                            *)
(*                                                                         *)
(* BotDeletion: whatever the tokens, however many attempts they make, and  *)
(* whenever the platform serves their requests, the Bot is given back only *)
(* if nothing has cancelled it and nothing can.                            *)
(*                                                                         *)
(* CallerContinuation: however late the runtime answers and wherever the   *)
(* server crashes, a row says what became of its turn, and where the       *)
(* runtime is not slow a handoff gives its caller one turn.                *)
(*                                                                         *)
(* BotScheduleRuns: however the owner's edits, the ticking runner, the     *)
(* sessions and the ends of the process interleave, a slot's prompt is     *)
(* sent once, as it was when it was claimed, and reported as it ended.     *)
(***************************************************************************)
EXTENDS BotDeletion, CallerContinuation, BotScheduleRuns, FiniteSetTheorems,
        WellFoundedInduction, NaturalsInduction, TLAPS

-----------------------------------------------------------------------------
(* The deletion of a Bot *)

\* The attempts that were made and not settled: what the row's counter counts.
Open == {i \in Attempts : i <= made /\ ~ calls[i].settled}

\* An attempt is settled by its refusal only; one that was not made is idle.
CallsInv ==
    \A i \in Attempts :
        /\ calls[i].settled => calls[i].request = "refused" /\ ~ calls[i].waiting
        /\ i > made => calls[i].request = "none" /\ ~ calls[i].waiting /\ ~ calls[i].settled

\* The platform has the tombstone exactly if it has served a request.
TombstoneInv == tombstone <=> \E i \in Attempts : calls[i].request = "cancelled"

\* The row counts the open attempts, and a Bot that is here has none.
RowInv ==
    /\ pend.there => pend.unresolved = Cardinality(Open)
    /\ ~ pend.there => pend = NoRow
    /\ bot = "here" => Open = {}

DeletionInv ==
    /\ DeletionTypeOK /\ CallsInv /\ TombstoneInv /\ RowInv
    /\ PendingIsFenced /\ DeletedIsCancelled

-----------------------------------------------------------------------------
(* Lemmas                                                                  *)

\* There are finitely many open attempts.
LEMMA OpenFinite == DeletionTypeOK => IsFiniteSet(Open) /\ Cardinality(Open) \in Nat
  <1>1. IsFiniteSet(1..MaxAttempts)
    BY FS_Interval, DeletionAssumption
  <1>2. Open \subseteq 1..MaxAttempts
    BY DEF Open, Attempts
  <1>3. IsFiniteSet(Open)
    BY <1>1, <1>2, FS_Subset
  <1> QED
    BY <1>3, FS_CardinalityType

\* A set of which one element is not known gains it, and its cardinality one.
LEMMA CardinalityAdd ==
    ASSUME NEW S, NEW x, IsFiniteSet(S), x \notin S
    PROVE  Cardinality(S \cup {x}) = Cardinality(S) + 1
  BY FS_AddElement

LEMMA CardinalityRemove ==
    ASSUME NEW S, NEW x, IsFiniteSet(S), x \in S
    PROVE  Cardinality(S \ {x}) = Cardinality(S) - 1 /\ Cardinality(S) > 0
  <1>1. Cardinality(S \ {x}) = Cardinality(S) - 1
    BY FS_RemoveElement
  <1>2. Cardinality(S \ {x}) \in Nat /\ Cardinality(S) \in Nat
    BY FS_RemoveElement, FS_CardinalityType
  <1> QED
    BY <1>1, <1>2

\* The end of an attempt leaves the row it is given, or gives the Bot back
\* when that row has no unresolved attempt.
LEMMA EndOfCases ==
    ASSUME NEW entry \in [there : BOOLEAN, generation : Nat, unresolved : Nat],
           NEW b \in [pending : SUBSET Attempts, latest : Nat, definitive : BOOLEAN, ambiguous : BOOLEAN],
           NEW record \in {"here", "archived", "gone"},
           EndOf(entry, b, record)
    PROVE  /\ batch' \in [pending : SUBSET Attempts, latest : Nat, definitive : BOOLEAN, ambiguous : BOOLEAN]
           /\ \/ pend' = entry /\ bot' = record
              \/ pend' = NoRow /\ bot' = "here" /\ entry.there /\ entry.unresolved = 0
  BY DEF EndOf, Rollback, NoBatch

\* The initial state satisfies the invariant.
LEMMA InitInv == DeletionInit => DeletionInv
  <1> SUFFICES ASSUME DeletionInit PROVE DeletionInv
    OBVIOUS
  <1> USE DeletionAssumption DEF DeletionInit
  <1>1. \A i \in Attempts : calls[i] = NoCall
    OBVIOUS
  <1>2. (CHOOSE t \in Tokens : TRUE) \in Tokens
    OBVIOUS
  <1>3. DeletionTypeOK
    <2>1. NoCall \in [token : Tokens, request : Requests, waiting : BOOLEAN, settled : BOOLEAN]
      BY <1>2 DEF NoCall, Requests
    <2>2. calls \in [Attempts -> [token : Tokens, request : Requests, waiting : BOOLEAN, settled : BOOLEAN]]
      BY <2>1
    <2>3. made \in 0..MaxAttempts
      OBVIOUS
    <2>4. batch \in [pending : SUBSET Attempts, latest : Nat, definitive : BOOLEAN, ambiguous : BOOLEAN]
      BY DEF NoBatch
    <2> QED
      BY <2>2, <2>3, <2>4 DEF DeletionTypeOK, NoRow
  <1>4. CallsInv /\ TombstoneInv
    BY <1>1 DEF CallsInv, TombstoneInv, NoCall
  <1>5. Open = {}
    BY DEF Open, Attempts
  <1>6. RowInv
    BY <1>5 DEF RowInv, NoRow
  <1> QED
    BY <1>3, <1>4, <1>6 DEF DeletionInv, PendingIsFenced, DeletedIsCancelled, NoRow

-----------------------------------------------------------------------------
(* An attempt                                                              *)

\* An attempt of a fenced Bot is counted in its row.
LEMMA AttemptInv ==
    ASSUME DeletionInv, NEW t \in Tokens,
           NEW entry \in [there : BOOLEAN, generation : Nat, unresolved : Nat],
           entry.there, entry.unresolved = Cardinality(Open),
           bot # "gone", Attempt(t, entry)
    PROVE  DeletionInv'
  <1> DEFINE i == made + 1
             counted == [there |-> TRUE, generation |-> entry.generation + 1, unresolved |-> entry.unresolved + 1]
  <1>0. DeletionTypeOK /\ CallsInv /\ TombstoneInv
    BY DEF DeletionInv
  <1>1. i \in Attempts /\ made' = i /\ made \in Nat /\ MaxAttempts \in Nat
    BY <1>0, DeletionAssumption DEF Attempt, DeletionTypeOK, Attempts
  <1>2. /\ calls' = [calls EXCEPT ![i] = [token |-> t, waiting |-> ~ busy, settled |-> FALSE,
                                          request |-> IF busy THEN "failed" ELSE "flying"]]
        /\ UNCHANGED <<tombstone, rejected, busy>>
    BY DEF Attempt
  <1>3. counted \in [there : BOOLEAN, generation : Nat, unresolved : Nat]
        /\ counted.there /\ counted.unresolved = Cardinality(Open) + 1
    OBVIOUS
  <1>4. pend' = counted /\ bot' = "archived"
        /\ batch' \in [pending : SUBSET Attempts, latest : Nat, definitive : BOOLEAN, ambiguous : BOOLEAN]
    <2> DEFINE joined == [batch EXCEPT !.latest = IF batch.pending = {} \/ counted.generation > @
                                                  THEN counted.generation ELSE @]
    <2>1. joined \in [pending : SUBSET Attempts, latest : Nat, definitive : BOOLEAN, ambiguous : BOOLEAN]
      BY <1>0, <1>3 DEF DeletionTypeOK
    <2>2. CASE busy
      <3>1. EndOf(counted, [joined EXCEPT !.ambiguous = TRUE], "archived")
        BY <2>2 DEF Attempt
      <3>2. ~ Rollback(counted, [joined EXCEPT !.ambiguous = TRUE])
        BY <2>1 DEF Rollback
      <3> QED
        BY <2>1, <3>1, <3>2 DEF EndOf, NoBatch
    <2>3. CASE ~ busy
      <3>1. batch' = [joined EXCEPT !.pending = @ \cup {i}] /\ pend' = counted /\ bot' = "archived"
        BY <2>3 DEF Attempt
      <3> HIDE DEF joined
      <3> QED
        BY <1>1, <2>1, <3>1
    <2> QED
      BY <2>2, <2>3
  <1>5. DeletionTypeOK'
    <2> DEFINE call == [token |-> t, waiting |-> ~ busy, settled |-> FALSE,
                        request |-> IF busy THEN "failed" ELSE "flying"]
    <2>1. call \in [token : Tokens, request : Requests, waiting : BOOLEAN, settled : BOOLEAN]
      BY <1>0 DEF DeletionTypeOK, Requests
    <2>2. calls' = [calls EXCEPT ![i] = call]
      BY <1>2
    <2> HIDE DEF call
    <2>3. calls' \in [Attempts -> [token : Tokens, request : Requests, waiting : BOOLEAN, settled : BOOLEAN]]
      BY <1>0, <2>1, <2>2 DEF DeletionTypeOK
    <2>4. made' \in 0..MaxAttempts
      BY <1>1 DEF Attempts
    <2>5. UNCHANGED <<tombstone, rejected, busy>>
      BY <1>2
    <2> HIDE DEF counted
    <2> QED
      BY <1>0, <1>3, <1>4, <2>3, <2>4, <2>5 DEF DeletionTypeOK
  <1>6. \A j \in Attempts : j # i => calls'[j] = calls[j]
    BY <1>0, <1>2 DEF DeletionTypeOK
  <1>7. calls'[i] = [token |-> t, waiting |-> ~ busy, settled |-> FALSE,
                     request |-> IF busy THEN "failed" ELSE "flying"]
    BY <1>0, <1>1, <1>2 DEF DeletionTypeOK
  <1>8. CallsInv'
    <2> SUFFICES ASSUME NEW j \in Attempts
                 PROVE  /\ calls'[j].settled => calls'[j].request = "refused" /\ ~ calls'[j].waiting
                        /\ j > made' => calls'[j].request = "none" /\ ~ calls'[j].waiting /\ ~ calls'[j].settled
      BY DEF CallsInv
    <2>1. CASE j = i
      BY <1>1, <1>7, <2>1
    <2>2. CASE j # i
      BY <1>0, <1>1, <1>6, <2>2 DEF CallsInv, Attempts
    <2> QED
      BY <2>1, <2>2
  <1>9. TombstoneInv'
    <2>1. calls[i].request = "none"
      BY <1>0, <1>1 DEF CallsInv
    <2>2. calls'[i].request # "cancelled"
      BY <1>7
    <2> QED
      BY <1>0, <1>1, <1>2, <1>6, <2>1, <2>2 DEF TombstoneInv
  <1>10. Open' = Open \cup {i} /\ i \notin Open
    BY <1>1, <1>6, <1>7 DEF Open, Attempts
  <1>11. Cardinality(Open') = Cardinality(Open) + 1
    BY <1>0, <1>10, OpenFinite, CardinalityAdd
  <1>12. RowInv'
    BY <1>3, <1>4, <1>11 DEF RowInv
  <1> QED
    BY <1>3, <1>4, <1>5, <1>8, <1>9, <1>12 DEF DeletionInv, PendingIsFenced, DeletedIsCancelled

-----------------------------------------------------------------------------
(* The end of an attempt                                                   *)

\* An attempt that stops waiting and is not settled stays open.
LEMMA StopsWaiting ==
    ASSUME DeletionInv, NEW i \in Attempts, calls[i].waiting,
           calls' = [calls EXCEPT ![i].waiting = FALSE],
           UNCHANGED <<tombstone, made>>
    PROVE  CallsInv' /\ TombstoneInv' /\ Open' = Open
           /\ calls' \in [Attempts -> [token : Tokens, request : Requests, waiting : BOOLEAN, settled : BOOLEAN]]
  <1> USE DEF DeletionInv, DeletionTypeOK
  <1>1. \A j \in Attempts : /\ calls'[j].settled = calls[j].settled
                            /\ calls'[j].request = calls[j].request
                            /\ calls'[j].waiting => calls[j].waiting
    OBVIOUS
  <1>2. CallsInv'
    BY <1>1 DEF CallsInv
  <1>3. TombstoneInv'
    BY <1>1 DEF TombstoneInv
  <1>4. Open' = Open
    BY <1>1 DEF Open
  <1> QED
    BY <1>2, <1>3, <1>4

\* An attempt that waits is open, and the Bot is not here.
LEMMA WaitingIsOpen ==
    ASSUME DeletionInv, NEW i \in Attempts, calls[i].waiting
    PROVE  i \in Open /\ bot # "here"
  <1>1. i <= made /\ ~ calls[i].settled
    BY DEF DeletionInv, CallsInv, DeletionTypeOK, Attempts
  <1> QED
    BY <1>1 DEF Open, DeletionInv, RowInv

LEMMA LeavesType ==
    ASSUME DeletionTypeOK, NEW i
    PROVE  /\ Leaves(i) \in [pending : SUBSET Attempts, latest : Nat, definitive : BOOLEAN, ambiguous : BOOLEAN]
           /\ [Leaves(i) EXCEPT !.ambiguous = TRUE]
                \in [pending : SUBSET Attempts, latest : Nat, definitive : BOOLEAN, ambiguous : BOOLEAN]
           /\ [Leaves(i) EXCEPT !.definitive = TRUE]
                \in [pending : SUBSET Attempts, latest : Nat, definitive : BOOLEAN, ambiguous : BOOLEAN]
  BY DEF DeletionTypeOK, Leaves

LEMMA AmbiguousInv ==
    ASSUME DeletionInv, NEW i \in Attempts, Ambiguous(i)
    PROVE  DeletionInv'
  <1> DEFINE b == [Leaves(i) EXCEPT !.ambiguous = TRUE]
  <1>1. /\ calls[i].waiting /\ calls' = [calls EXCEPT ![i].waiting = FALSE]
        /\ EndOf(pend, b, bot) /\ UNCHANGED <<tombstone, made, rejected, busy>>
    BY DEF Ambiguous
  <1>2. CallsInv' /\ TombstoneInv' /\ Open' = Open
        /\ calls' \in [Attempts -> [token : Tokens, request : Requests, waiting : BOOLEAN, settled : BOOLEAN]]
    BY <1>1, StopsWaiting
  <1>3. b \in [pending : SUBSET Attempts, latest : Nat, definitive : BOOLEAN, ambiguous : BOOLEAN]
    BY LeavesType DEF DeletionInv
  <1>4. ~ Rollback(pend, b)
    <2>1. b.ambiguous = TRUE
      BY DEF DeletionInv, DeletionTypeOK, Leaves
    <2> QED
      BY <2>1 DEF Rollback
  <1> HIDE DEF b
  <1>5. pend' = pend /\ bot' = bot
        /\ batch' \in [pending : SUBSET Attempts, latest : Nat, definitive : BOOLEAN, ambiguous : BOOLEAN]
    BY <1>1, <1>3, <1>4 DEF EndOf, NoBatch
  <1>6. DeletionTypeOK'
    BY <1>1, <1>2, <1>5 DEF DeletionInv, DeletionTypeOK
  <1>7. RowInv'
    BY <1>2, <1>5 DEF DeletionInv, RowInv
  <1> QED
    BY <1>1, <1>2, <1>5, <1>6, <1>7 DEF DeletionInv, PendingIsFenced, DeletedIsCancelled

LEMMA CancelledInv ==
    ASSUME DeletionInv, NEW i \in Attempts, Cancelled(i)
    PROVE  DeletionInv' /\ bot' # "here"
  <1> DEFINE b == Leaves(i)
             entry == IF pend.there THEN NoRow ELSE pend
             record == IF pend.there THEN "gone" ELSE bot
  <1>1. /\ calls[i].waiting /\ calls' = [calls EXCEPT ![i].waiting = FALSE]
        /\ EndOf(entry, b, record) /\ UNCHANGED <<tombstone, made, rejected, busy>>
        /\ calls[i].request = "cancelled"
    BY DEF Cancelled
  <1>2. CallsInv' /\ TombstoneInv' /\ Open' = Open
        /\ calls' \in [Attempts -> [token : Tokens, request : Requests, waiting : BOOLEAN, settled : BOOLEAN]]
    BY <1>1, StopsWaiting
  <1>3. b \in [pending : SUBSET Attempts, latest : Nat, definitive : BOOLEAN, ambiguous : BOOLEAN]
    BY LeavesType DEF DeletionInv
  <1>4. entry = NoRow /\ record = "gone"
    BY <1>1, WaitingIsOpen DEF DeletionInv, RowInv, PendingIsFenced, DeletionTypeOK
  <1>5. ~ Rollback(entry, b)
    BY <1>4 DEF Rollback, NoRow
  <1> HIDE DEF b, entry, record
  <1>6. pend' = NoRow /\ bot' = "gone"
        /\ batch' \in [pending : SUBSET Attempts, latest : Nat, definitive : BOOLEAN, ambiguous : BOOLEAN]
    BY <1>1, <1>3, <1>4, <1>5 DEF EndOf, NoBatch
  <1>7. tombstone'
    BY <1>1 DEF DeletionInv, TombstoneInv
  <1>8. DeletionTypeOK'
    BY <1>1, <1>2, <1>6 DEF DeletionInv, DeletionTypeOK, NoRow
  <1>9. RowInv'
    BY <1>6 DEF RowInv, NoRow
  <1> QED
    BY <1>2, <1>6, <1>7, <1>8, <1>9 DEF DeletionInv, PendingIsFenced, DeletedIsCancelled, NoRow

\* A refusal takes its attempt out of the open ones and out of the count, so
\* the Bot is given back only when none is left.
LEMMA RefusedInv ==
    ASSUME DeletionInv, NEW i \in Attempts, Refused(i)
    PROVE  DeletionInv' /\ (bot = "gone" => bot' = "gone")
  <1> DEFINE b == [Leaves(i) EXCEPT !.definitive = TRUE]
             entry == Settle(pend)
  <1>0. DeletionTypeOK /\ CallsInv /\ TombstoneInv /\ RowInv /\ PendingIsFenced /\ DeletedIsCancelled
    BY DEF DeletionInv
  <1>1. /\ calls[i].waiting /\ calls[i].request = "refused"
        /\ calls' = [calls EXCEPT ![i].waiting = FALSE, ![i].settled = TRUE]
        /\ rejected' = rejected \cup {calls[i].token}
        /\ EndOf(entry, b, bot) /\ UNCHANGED <<tombstone, made, busy>>
    BY DEF Refused
  <1>2. /\ calls' \in [Attempts -> [token : Tokens, request : Requests, waiting : BOOLEAN, settled : BOOLEAN]]
        /\ calls'[i].settled /\ ~ calls'[i].waiting
        /\ \A j \in Attempts : j # i => calls'[j] = calls[j]
        /\ \A j \in Attempts : calls'[j].request = calls[j].request
    BY <1>0, <1>1 DEF DeletionTypeOK
  <1>3. i \in Open /\ bot # "here"
    BY <1>1, WaitingIsOpen
  <1>4. Open' = Open \ {i}
    BY <1>1, <1>2 DEF Open
  <1>5. Cardinality(Open') = Cardinality(Open) - 1 /\ Cardinality(Open) > 0 /\ Cardinality(Open) \in Nat
    BY <1>0, <1>3, <1>4, OpenFinite, CardinalityRemove
  <1>6. entry \in [there : BOOLEAN, generation : Nat, unresolved : Nat]
        /\ (entry.there <=> pend.there)
        /\ (entry.there => entry.unresolved = Cardinality(Open'))
        /\ (~ entry.there => entry = NoRow)
    <2>1. CASE pend.there
      <3>1. entry = [pend EXCEPT !.unresolved = pend.unresolved - 1]
        BY <1>0, <1>5, <2>1 DEF Settle, RowInv
      <3> QED
        BY <1>0, <1>5, <2>1, <3>1 DEF RowInv, DeletionTypeOK
    <2>2. CASE ~ pend.there
      <3>1. pend = NoRow
        BY <1>0, <2>2 DEF RowInv
      <3>2. entry = [pend EXCEPT !.unresolved = pend.unresolved]
        BY <2>2 DEF Settle
      <3>3. entry = NoRow
        BY <3>1, <3>2 DEF NoRow
      <3> QED
        BY <2>2, <3>3 DEF NoRow
    <2> QED
      BY <2>1, <2>2
  <1>7. b \in [pending : SUBSET Attempts, latest : Nat, definitive : BOOLEAN, ambiguous : BOOLEAN]
    BY <1>0, LeavesType
  <1> HIDE DEF b, entry
  <1>8. /\ batch' \in [pending : SUBSET Attempts, latest : Nat, definitive : BOOLEAN, ambiguous : BOOLEAN]
        /\ \/ pend' = entry /\ bot' = bot
           \/ pend' = NoRow /\ bot' = "here" /\ entry.there /\ entry.unresolved = 0
    BY <1>0, <1>1, <1>6, <1>7, EndOfCases DEF DeletionTypeOK
  <1>9. calls[i].token \in Tokens
    BY <1>0 DEF DeletionTypeOK
  <1>10. DeletionTypeOK'
    <2>1. pend' \in [there : BOOLEAN, generation : Nat, unresolved : Nat]
          /\ bot' \in {"here", "archived", "gone"}
      <3>1. NoRow \in [there : BOOLEAN, generation : Nat, unresolved : Nat]
        BY DEF NoRow
      <3>2. bot \in {"here", "archived", "gone"}
        BY <1>0 DEF DeletionTypeOK
      <3> QED
        BY <1>6, <1>8, <3>1, <3>2
    <2>2. rejected' \subseteq Tokens /\ made' \in 0..MaxAttempts /\ tombstone' \in BOOLEAN /\ busy' \in BOOLEAN
      BY <1>0, <1>1, <1>9 DEF DeletionTypeOK
    <2> QED
      BY <1>2, <1>8, <2>1, <2>2 DEF DeletionTypeOK
  <1>11. CallsInv'
    <2>1. i <= made
      BY <1>3 DEF Open
    <2> QED
      BY <1>0, <1>1, <1>2, <2>1 DEF CallsInv, DeletionTypeOK, Attempts
  <1>12. TombstoneInv'
    BY <1>0, <1>1, <1>2 DEF TombstoneInv
  <1>13. CASE pend' = entry /\ bot' = bot
    BY <1>0, <1>1, <1>3, <1>6, <1>10, <1>11, <1>12, <1>13
       DEF DeletionInv, RowInv, PendingIsFenced, DeletedIsCancelled
  <1>14. CASE pend' = NoRow /\ bot' = "here" /\ entry.there /\ entry.unresolved = 0
    <2>1. Open' = {}
      BY <1>0, <1>4, <1>6, <1>14, OpenFinite, FS_Subset, FS_EmptySet
    <2>2. bot # "gone"
      BY <1>0, <1>6, <1>14 DEF PendingIsFenced
    <2> QED
      BY <1>10, <1>11, <1>12, <1>14, <2>1, <2>2
         DEF DeletionInv, RowInv, PendingIsFenced, DeletedIsCancelled, NoRow
  <1> QED
    BY <1>8, <1>13, <1>14

LEMMA ServeInv ==
    ASSUME DeletionInv, NEW i \in Attempts, NEW answer \in Answers, Serve(i, answer)
    PROVE  DeletionInv'
  <1> USE DEF DeletionInv
  <1>1. /\ calls[i].request = "flying" /\ calls' = [calls EXCEPT ![i].request = answer]
        /\ tombstone' = (tombstone \/ answer = "cancelled")
        /\ UNCHANGED <<bot, pend, made, batch, rejected, busy>>
    BY DEF Serve
  <1>2. /\ calls' \in [Attempts -> [token : Tokens, request : Requests, waiting : BOOLEAN, settled : BOOLEAN]]
        /\ calls'[i].request = answer
        /\ \A j \in Attempts : j # i => calls'[j] = calls[j]
        /\ \A j \in Attempts : calls'[j].settled = calls[j].settled /\ calls'[j].waiting = calls[j].waiting
    BY <1>1 DEF DeletionTypeOK, Requests, Answers
  <1>3. DeletionTypeOK'
    BY <1>1, <1>2 DEF DeletionTypeOK
  <1>4. CallsInv'
    BY <1>1, <1>2 DEF CallsInv
  <1>5. TombstoneInv'
    BY <1>1, <1>2 DEF TombstoneInv
  <1>6. Open' = Open
    BY <1>1, <1>2 DEF Open
  <1> QED
    BY <1>1, <1>3, <1>4, <1>5, <1>6 DEF RowInv, PendingIsFenced, DeletedIsCancelled

LEMMA CrashInv ==
    ASSUME DeletionInv, Crash
    PROVE  DeletionInv'
  <1> USE DEF DeletionInv
  <1>1. /\ batch' = NoBatch /\ rejected' = {} /\ UNCHANGED <<bot, pend, tombstone, made, busy>>
        /\ calls' = [i \in Attempts |-> [calls[i] EXCEPT !.waiting = FALSE]]
    BY DEF Crash
  <1>2. /\ calls' \in [Attempts -> [token : Tokens, request : Requests, waiting : BOOLEAN, settled : BOOLEAN]]
        /\ \A j \in Attempts : /\ calls'[j].settled = calls[j].settled
                               /\ calls'[j].request = calls[j].request
                               /\ ~ calls'[j].waiting
    BY <1>1 DEF DeletionTypeOK
  <1>3. DeletionTypeOK'
    BY <1>1, <1>2 DEF DeletionTypeOK, NoBatch
  <1>4. CallsInv'
    BY <1>1, <1>2 DEF CallsInv
  <1>5. TombstoneInv'
    BY <1>1, <1>2 DEF TombstoneInv
  <1>6. Open' = Open
    BY <1>1, <1>2 DEF Open
  <1> QED
    BY <1>1, <1>3, <1>4, <1>5, <1>6 DEF RowInv, PendingIsFenced, DeletedIsCancelled

-----------------------------------------------------------------------------
(* Steps and theorems                                                      *)

\* Every step preserves the invariant, and none brings a deleted Bot back.
LEMMA NextInv ==
    ASSUME DeletionInv, [DeletionNext]_deletionVars
    PROVE  DeletionInv' /\ (bot = "gone" => bot' = "gone")
  <1>0. DeletionTypeOK /\ CallsInv /\ TombstoneInv /\ RowInv /\ PendingIsFenced /\ DeletedIsCancelled
    BY DEF DeletionInv
  <1>1. ASSUME NEW t \in Tokens, RequestDeletion(t)
        PROVE  DeletionInv' /\ bot # "gone"
    <2>1. bot # "gone"
      BY <1>1 DEF RequestDeletion
    <2>2. CASE InFlight(t)
      <3>1. PICK i \in Attempts : calls[i].waiting
        BY <2>2 DEF InFlight
      <3>2. bot = "archived" /\ pend.there
        BY <1>0, <2>1, <3>1, WaitingIsOpen DEF PendingIsFenced, DeletionTypeOK
      <3>3. UNCHANGED deletionVars
        BY <1>0, <1>1, <2>2, <3>2 DEF RequestDeletion, deletionVars, DeletionTypeOK
      <3> QED
        BY <1>0, <2>1, <3>3 DEF deletionVars, DeletionInv, DeletionTypeOK, CallsInv, TombstoneInv, RowInv,
           PendingIsFenced, DeletedIsCancelled, Open
    <2>3. CASE ~ InFlight(t)
      <3> DEFINE entry == [pend EXCEPT !.there = TRUE]
      <3>1. Attempt(t, entry)
        BY <1>1, <2>3 DEF RequestDeletion
      <3>2. entry \in [there : BOOLEAN, generation : Nat, unresolved : Nat] /\ entry.there
            /\ entry.unresolved = pend.unresolved
        BY <1>0 DEF DeletionTypeOK
      <3>3. pend.unresolved = Cardinality(Open)
        <4>1. CASE pend.there
          BY <1>0, <4>1 DEF RowInv
        <4>2. CASE ~ pend.there
          BY <1>0, <1>1, <4>2, FS_EmptySet DEF RequestDeletion, RowInv, NoRow
        <4> QED
          BY <4>1, <4>2
      <3> QED
        BY <2>1, <3>1, <3>2, <3>3, AttemptInv
    <2> QED
      BY <2>2, <2>3
  <1>2. ASSUME NEW t \in Tokens, Reconcile(t)
        PROVE  DeletionInv' /\ bot # "gone"
    BY <1>0, <1>2, AttemptInv DEF Reconcile, RowInv, PendingIsFenced, DeletionTypeOK
  <1>3. ASSUME NEW i \in Attempts, Refused(i)
        PROVE  DeletionInv' /\ (bot = "gone" => bot' = "gone")
    BY <1>3, RefusedInv
  <1>4. ASSUME NEW i \in Attempts, Cancelled(i)
        PROVE  DeletionInv' /\ (bot = "gone" => bot' = "gone")
    <2>1. bot' = "gone" \/ bot' = bot
      BY <1>0, <1>4 DEF Cancelled, EndOf, Rollback, NoRow, RowInv
    <2> QED
      BY <1>4, <2>1, CancelledInv
  <1>5. ASSUME NEW i \in Attempts, Ambiguous(i)
        PROVE  DeletionInv' /\ (bot = "gone" => bot' = "gone")
    <2>1. bot' = bot \/ pend.there
      BY <1>5 DEF Ambiguous, EndOf, Rollback
    <2> QED
      BY <1>0, <1>5, <2>1, AmbiguousInv DEF PendingIsFenced
  <1>6. ASSUME NEW i \in Attempts, NEW answer \in Answers, Serve(i, answer)
        PROVE  DeletionInv' /\ bot' = bot
    BY <1>6, ServeInv DEF Serve
  <1>7. CASE Crash
    BY <1>7, CrashInv DEF Crash
  <1>8. ASSUME NEW to \in BOOLEAN, UseWorkspace(to)
        PROVE  DeletionInv' /\ bot' = bot
    BY <1>0, <1>8 DEF UseWorkspace, DeletionInv, DeletionTypeOK, CallsInv, TombstoneInv, RowInv,
       PendingIsFenced, DeletedIsCancelled, Open
  <1>9. CASE UNCHANGED deletionVars
    BY <1>0, <1>9 DEF deletionVars, DeletionInv, DeletionTypeOK, CallsInv, TombstoneInv, RowInv,
       PendingIsFenced, DeletedIsCancelled, Open
  <1> QED
    BY <1>1, <1>2, <1>3, <1>4, <1>5, <1>6, <1>7, <1>8, <1>9 DEF DeletionNext

\* The row counts exactly the attempts whose fate is not known, the tombstone
\* comes from a request that was served, and the fence stands while a deletion
\* is pending: in every reachable state.
THEOREM DeletionInvariant == DeletionSpec => []DeletionInv
  <1>1. DeletionInit => DeletionInv
    BY InitInv
  <1>2. DeletionInv /\ [DeletionNext]_deletionVars => DeletionInv'
    BY NextInv
  <1> QED
    BY <1>1, <1>2, PTL DEF DeletionSpec

\* A Bot that its owner has, or was given back, is not cancelled on the
\* platform (rollbackPendingDeletion).
THEOREM RestoredBotIsWhole == DeletionSpec => []RestoredIsWhole
  <1>1. DeletionInv => RestoredIsWhole
    <2> SUFFICES ASSUME DeletionInv, bot = "here", tombstone PROVE FALSE
      BY DEF RestoredIsWhole
    <2>1. PICK i \in Attempts : calls[i].request = "cancelled"
      BY DEF DeletionInv, TombstoneInv
    <2>2. i \in Open
      BY <2>1 DEF DeletionInv, CallsInv, DeletionTypeOK, Attempts, Open
    <2> QED
      BY <2>2 DEF DeletionInv, RowInv
  <1> QED
    BY <1>1, DeletionInvariant, PTL

\* No request that could cancel such a Bot is left in flight.
THEOREM RestoredBotIsSafe == DeletionSpec => []RestoredIsSafe
  <1>1. DeletionInv => RestoredIsSafe
    <2> SUFFICES ASSUME DeletionInv, bot = "here", NEW i \in Attempts, calls[i].request = "flying"
                 PROVE  FALSE
      BY DEF RestoredIsSafe
    <2>1. i \in Open
      BY DEF DeletionInv, CallsInv, DeletionTypeOK, Attempts, Open
    <2> QED
      BY <2>1 DEF DeletionInv, RowInv
  <1> QED
    BY <1>1, DeletionInvariant, PTL

\* The record is deleted only after the platform has cancelled, the fence
\* stands exactly while a deletion is pending, and the types are right.
THEOREM DeletedBotIsCancelled == DeletionSpec => [](DeletedIsCancelled /\ PendingIsFenced /\ DeletionTypeOK)
  <1>1. DeletionInv => DeletedIsCancelled /\ PendingIsFenced /\ DeletionTypeOK
    BY DEF DeletionInv
  <1> QED
    BY <1>1, DeletionInvariant, PTL

\* The four promises of a deletion together: whatever answers are lost, late or
\* refused, the Bot and its distillation go or stay as one.
THEOREM DeletionIsSafe == DeletionSpec => []DeletionSafe
  <1> QED
    BY RestoredBotIsWhole, RestoredBotIsSafe, DeletedBotIsCancelled, PTL DEF DeletionSafe

\* No step brings a deleted Bot back.
THEOREM DeletedBotStaysDeleted == DeletionSpec => DeletedForGood
  <1>1. DeletionInv /\ [DeletionNext]_deletionVars => [bot = "gone" => bot' = "gone"]_deletionVars
    BY NextInv
  <1> QED
    BY <1>1, DeletionInvariant, PTL DEF DeletionSpec, DeletedForGood

-----------------------------------------------------------------------------
(* The caller's turn after a handoff *)

Working == {"read", "list", "reconcile", "resume", "sent"}
Founds == [st : {"none", "running"} \cup Done, turn : Nat]
Snaps == UNION {[S -> ContinuationLive] : S \in SUBSET Entries}
Loops == [pc : {"idle", "next"} \cup Working, e : Entries \cup {0}, snap : Snaps, active : BOOLEAN,
          found : Founds, todo : SUBSET Entries]
TurnRows == [owner : Entries \cup {User}, status : {"inProgress"} \cup Done]
Claimed(e) == row[e].st \notin {"none", "pending"}

\* The loop works on rows it has read, and a row that was read as started has
\* been.
LoopReads ==
    /\ loop \in Loops /\ loop.todo \subseteq DOMAIN loop.snap
    /\ loop.pc = "next" => loop.todo # {}
    /\ loop.pc \in Working => loop.e \in DOMAIN loop.snap
    /\ \A e \in DOMAIN loop.snap : loop.snap[e] # "pending" => Claimed(e)

\* What was found is a turn of the entry, and an end is final.
FoundIsCarried ==
    loop.pc = "reconcile" /\ loop.found # NotFound =>
        /\ loop.found.turn \in Carrying(loop.e) /\ loop.found.st # "none"
        /\ loop.found.st \in Done => turns[loop.found.turn].status = loop.found.st

\* A start is under way only for an entry that was claimed.
FlightIsClaimed == \A e \in continuationFlight : Claimed(e)

\* Where the runtime is not slow, a start is under way only while the loop waits
\* for its answer, and one is sent only where there is no turn.
StartIsAwaited == \A e \in continuationFlight : loop.pc = "sent" /\ loop.e = e /\ Carrying(e) = {}
NoSecondTurn == \A e \in Entries : \A t, u \in Carrying(e) : t = u
NoneBeforeStart ==
    (loop.pc = "resume" \/ (loop.pc = "reconcile" /\ loop.found = NotFound)) /\ loop.snap[loop.e] # "pending"
      => Carrying(loop.e) = {}
OneStart == ~ slow => StartIsAwaited /\ NoSecondTurn /\ NoneBeforeStart

TurnsInOrder == \E k \in Nat : turns \in [1 .. k -> TurnRows]

ContinuationTypes ==
    /\ row \in [Entries -> [st : {"none"} \cup ContinuationLive \cup Done, turn : Nat]]
    /\ shown \subseteq DOMAIN turns /\ continuationFlight \subseteq Entries
    /\ sent \in [Entries -> 0 .. MaxStarts]
    /\ continuationCrashes \in 0 .. ContinuationMaxCrashes /\ userTurns \in 0 .. MaxUser

ContinuationInv ==
    /\ ContinuationTypes /\ RowNamesItsTurn /\ RowFollowsTurn
    /\ slow \in BOOLEAN /\ TurnsInOrder /\ LoopReads /\ FoundIsCarried /\ FlightIsClaimed /\ OneStart

-----------------------------------------------------------------------------
\* Min and Max of a nonempty set of numbers from an interval are members.
LEMMA MinIsMember ==
    ASSUME NEW T \in SUBSET Nat, T # {}
    PROVE  Min(T) \in T
<1> DEFINE R == OpToRel(<, Nat)
<1> HIDE DEF R
<1>1. IsWellFoundedOn(R, Nat)
  BY NatLessThanWellFounded DEF R
<1>2. \A x, y \in Nat : <<y, x>> \in R <=> y < x
  BY DEF OpToRel, R
<1>3. PICK m \in T : \A n \in T : ~ (<<n, m>> \in R)
  BY <1>1, WFMin
<1>4. \A n \in T : ~ (n < m)
  BY <1>2, <1>3
<1>5. \A n \in T : m <= n
  BY <1>4
<1> QED
  BY <1>5 DEF Min

LEMMA MaxIsMember ==
    ASSUME NEW N \in Nat, NEW T \in SUBSET (1..N), T # {}
    PROVE  Max(T) \in T
<1> DEFINE D == {N - n : n \in T}
           R == OpToRel(<, Nat)
<1> HIDE DEF R
<1>1. D \subseteq Nat /\ D # {}
  <2>1. PICK n \in T : TRUE
    OBVIOUS
  <2>2. N - n \in D
    OBVIOUS
  <2>3. D \subseteq Nat
    OBVIOUS
  <2> QED
    BY <2>2, <2>3
<1>2. IsWellFoundedOn(R, Nat)
  BY NatLessThanWellFounded DEF R
<1>3. \A x, y \in Nat : <<y, x>> \in R <=> y < x
  BY DEF OpToRel, R
<1> HIDE DEF D
<1>4. PICK d \in D : \A f \in D : ~ (<<f, d>> \in R)
  BY <1>1, <1>2, WFMin
<1>5. \A f \in D : ~ (f < d)
  BY <1>1, <1>3, <1>4
<1>6. PICK m \in T : d = N - m
  BY DEF D
<1>7. \A n \in T : ~ (N - n < N - m)
  BY <1>5, <1>6 DEF D
<1>8. \A n \in T : m >= n
  BY <1>7
<1> QED
  BY <1>8 DEF Max

\* The turns are numbered from one.
LEMMA TurnNumbers ==
    ASSUME TurnsInOrder
    PROVE  /\ DOMAIN turns \subseteq Nat \ {0}
           /\ \A t \in DOMAIN turns : turns[t] \in TurnRows
           /\ \A e : Carrying(e) # {} => Min(Carrying(e)) \in Carrying(e) /\ Max(Carrying(e)) \in Carrying(e)
<1>1. PICK k \in Nat : turns \in [1 .. k -> TurnRows]
  BY DEF TurnsInOrder
<1>2. DOMAIN turns = 1 .. k /\ 1 .. k \subseteq Nat \ {0}
  BY <1>1
<1>3. \A e : Carrying(e) \subseteq 1 .. k
  BY <1>2 DEF Carrying
<1>4. \A t \in DOMAIN turns : turns[t] \in TurnRows
  BY <1>1
<1>5. ASSUME NEW e, Carrying(e) # {}
      PROVE  Min(Carrying(e)) \in Carrying(e) /\ Max(Carrying(e)) \in Carrying(e)
  <2> DEFINE T == Carrying(e)
  <2>1. T \in SUBSET (1 .. k) /\ T \in SUBSET Nat /\ T # {}
    BY <1>2, <1>3, <1>5
  <2> HIDE DEF T
  <2>2. Min(T) \in T /\ Max(T) \in T
    BY <2>1, MinIsMember, MaxIsMember
  <2> QED
    BY <2>2 DEF T
<1> QED
  BY <1>2, <1>4, <1>5

\* A turn that begins is the next one.
LEMMA AddTurn ==
    ASSUME TurnsInOrder, NEW e \in Entries \cup {User}, turns' = WithTurn(e)
    PROVE  /\ TurnsInOrder' /\ NewTurn \in Nat \ {0} /\ NewTurn \notin DOMAIN turns
           /\ DOMAIN turns' = DOMAIN turns \cup {NewTurn}
           /\ \A t \in DOMAIN turns : turns'[t] = turns[t]
           /\ Carrying(e)' = Carrying(e) \cup {NewTurn}
           /\ \A f : f # e => Carrying(f)' = Carrying(f)
<1>1. PICK k \in Nat : turns \in [1 .. k -> TurnRows]
  BY DEF TurnsInOrder
<1>2. DOMAIN turns = 1 .. k
  BY <1>1
<1>3. Cardinality(1 .. k) = k
  <2>1. Cardinality(1 .. k) = IF 1 > k THEN 0 ELSE k - 1 + 1
    BY FS_Interval, 1 \in Int, k \in Int
  <2> QED
    BY <2>1
<1>4. NewTurn = k + 1
  BY <1>2, <1>3 DEF NewTurn
<1>5. 1 .. (k + 1) = (1 .. k) \cup {k + 1} /\ k + 1 \notin 1 .. k /\ k + 1 \in Nat \ {0}
  OBVIOUS
<1> DEFINE fresh == [owner |-> e, status |-> "inProgress"]
<1>6. fresh \in TurnRows /\ fresh.owner = e
  BY DEF TurnRows
<1> HIDE DEF fresh
<1>7. turns' = [t \in (1 .. k) \cup {k + 1} |-> IF t \in 1 .. k THEN turns[t] ELSE fresh]
  BY <1>2, <1>4 DEF WithTurn, fresh
<1>8. turns' \in [(1 .. k) \cup {k + 1} -> TurnRows]
  BY <1>1, <1>6, <1>7
<1>9. turns' \in [1 .. (k + 1) -> TurnRows]
  BY <1>5, <1>8
<1>10. TurnsInOrder'
  BY <1>5, <1>9 DEF TurnsInOrder, TurnRows
<1>11. /\ DOMAIN turns' = DOMAIN turns \cup {NewTurn}
       /\ \A t \in DOMAIN turns : turns'[t] = turns[t]
       /\ turns'[NewTurn] = fresh /\ NewTurn \notin DOMAIN turns /\ NewTurn \in Nat \ {0}
  BY <1>2, <1>4, <1>5, <1>7
<1> DEFINE n == NewTurn
<1> HIDE DEF n
<1>12. /\ DOMAIN turns' = DOMAIN turns \cup {n}
       /\ \A t \in DOMAIN turns : turns'[t] = turns[t]
       /\ turns'[n].owner = e /\ n \notin DOMAIN turns
  BY <1>6, <1>11 DEF n
<1>13. Carrying(e)' = Carrying(e) \cup {n}
  BY <1>12 DEF Carrying
<1>14. \A f : f # e => Carrying(f)' = Carrying(f)
  BY <1>12 DEF Carrying
<1> QED
  BY <1>10, <1>11, <1>13, <1>14 DEF n

\* Turns that only end carry what they did.
LEMMA KeepTurns ==
    ASSUME TurnsInOrder, NEW S \in SUBSET DOMAIN turns, NEW s \in Done,
           turns' = [t \in DOMAIN turns |-> IF t \in S THEN [turns[t] EXCEPT !.status = s] ELSE turns[t]]
    PROVE  /\ TurnsInOrder' /\ DOMAIN turns' = DOMAIN turns
           /\ \A f : Carrying(f)' = Carrying(f)
           /\ \A t \in DOMAIN turns : turns'[t].status = IF t \in S THEN s ELSE turns[t].status
<1>1. PICK k \in Nat : turns \in [1 .. k -> TurnRows]
  BY DEF TurnsInOrder
<1>2. \A t \in DOMAIN turns : turns[t] \in TurnRows
  BY <1>1
<1>3. \A r \in TurnRows : /\ [r EXCEPT !.status = s] \in TurnRows
                          /\ [r EXCEPT !.status = s].owner = r.owner
                          /\ [r EXCEPT !.status = s].status = s
  BY DEF TurnRows
<1>4. \A t \in DOMAIN turns : turns'[t] \in TurnRows /\ turns'[t].owner = turns[t].owner
                              /\ turns'[t].status = IF t \in S THEN s ELSE turns[t].status
  BY <1>2, <1>3
<1>5. DOMAIN turns' = DOMAIN turns
  OBVIOUS
<1>6. turns' \in [1 .. k -> TurnRows]
  <2>1. turns' = [t \in DOMAIN turns |-> turns'[t]]
    OBVIOUS
  <2> QED
    BY <1>1, <1>4, <2>1
<1>7. TurnsInOrder'
  BY <1>6 DEF TurnsInOrder, TurnRows
<1>8. \A f : Carrying(f)' = Carrying(f)
  BY <1>4, <1>5 DEF Carrying
<1> QED
  BY <1>4, <1>5, <1>7, <1>8

LEMMA SameTurns ==
    ASSUME TurnsInOrder, turns' = turns
    PROVE  TurnsInOrder' /\ \A f : Carrying(f)' = Carrying(f)
BY DEF TurnsInOrder, TurnRows, Carrying

-----------------------------------------------------------------------------
LEMMA IdleLoop ==
    /\ ContinuationIdle \in Loops /\ ContinuationIdle.pc = "idle" /\ ContinuationIdle.todo = {}
    /\ DOMAIN ContinuationIdle.snap = {}
<1> DEFINE none == [e \in {} |-> "none"]
<1>1. none \in Snaps /\ DOMAIN none = {}
  <2>1. none \in [{} -> ContinuationLive] /\ {} \in SUBSET Entries
    OBVIOUS
  <2> QED
    BY <2>1 DEF Snaps
<1>2. NotFound \in Founds
  BY DEF NotFound, Founds
<1> HIDE DEF none
<1>3. PICK v \in BOOLEAN : ContinuationIdle = [pc |-> "idle", e |-> 0, snap |-> none, active |-> v,
                                               found |-> NotFound, todo |-> {}]
  BY Zenon DEF ContinuationIdle, none
<1> QED
  BY <1>1, <1>2, <1>3 DEF Loops

\* Whatever the loop has done with an entry, the next one is one it has read.
LEMMA LoopMovesOn ==
    ASSUME LoopReads, NEW l \in Loops, l.snap = loop.snap, l.todo \subseteq loop.todo, loop' = nextEntry(l),
           \A e \in Entries : Claimed(e) => Claimed(e)'
    PROVE  LoopReads' /\ loop'.pc \in {"idle", "next"}
<1>1. DOMAIN loop.snap \subseteq Entries
  BY DEF LoopReads, Loops, Snaps
<1>2. CASE l.todo = {}
  <2>1. loop' = ContinuationIdle
    BY <1>2 DEF nextEntry
  <2> QED
    BY <2>1, IdleLoop DEF LoopReads, Working, Loops, Founds, Snaps
<1>3. CASE l.todo # {}
  <2>1. loop' = [l EXCEPT !.pc = "next"]
    BY <1>3 DEF nextEntry
  <2>2. loop' \in Loops /\ loop'.pc = "next" /\ loop'.todo = l.todo /\ loop'.snap = loop.snap
    BY <2>1 DEF Loops
  <2>3. "next" \notin Working
    BY DEF Working
  <2>4. \A e \in DOMAIN loop.snap : loop.snap[e] # "pending" => Claimed(e)'
    BY <1>1 DEF LoopReads
  <2>5. (loop \in Loops)'
    BY <2>2 DEF Loops, Founds, Snaps, Working
  <2> QED
    BY <1>3, <2>2, <2>3, <2>4, <2>5 DEF LoopReads
<1> QED
  BY <1>2, <1>3

\* The loop takes a step with the entry it has.
LEMMA LoopWorks ==
    ASSUME LoopReads, NEW p \in Working, NEW v \in BOOLEAN, NEW f \in Founds, NEW e \in DOMAIN loop.snap,
           NEW todo \in SUBSET loop.todo,
           loop' = [loop EXCEPT !.pc = p, !.e = e, !.active = v, !.found = f, !.todo = todo],
           \A x \in Entries : Claimed(x) => Claimed(x)'
    PROVE  LoopReads' /\ loop'.pc = p /\ loop'.e = e /\ loop'.snap = loop.snap /\ loop'.found = f
<1>1. DOMAIN loop.snap \subseteq Entries
  BY DEF LoopReads, Loops, Snaps
<1>2. loop \in Loops /\ loop.todo \subseteq Entries
  BY DEF LoopReads, Loops
<1>3. loop' \in Loops /\ loop'.pc = p /\ loop'.e = e /\ loop'.snap = loop.snap /\ loop'.found = f /\ loop'.todo = todo
  BY <1>1, <1>2 DEF Loops
<1>4. \A x \in DOMAIN loop.snap : loop.snap[x] # "pending" => Claimed(x)'
  BY <1>1 DEF LoopReads
<1>5. (loop \in Loops)'
  BY <1>3 DEF Loops, Founds, Snaps, Working
<1>6. p # "next"
  BY DEF Working
<1>7. todo \subseteq DOMAIN loop.snap
  BY DEF LoopReads
<1> QED
  BY <1>3, <1>4, <1>5, <1>6, <1>7 DEF LoopReads

\* The loop stays where it is.
LEMMA LoopWaits ==
    ASSUME LoopReads, loop' = loop, \A x \in Entries : Claimed(x) => Claimed(x)'
    PROVE  LoopReads'
<1>1. DOMAIN loop.snap \subseteq Entries
  BY DEF LoopReads, Loops, Snaps
<1>2. \A x \in DOMAIN loop.snap : loop.snap[x] # "pending" => Claimed(x)'
  BY <1>1 DEF LoopReads
<1>3. (loop \in Loops)'
  BY DEF LoopReads, Loops, Founds, Snaps, Working
<1> QED
  BY <1>2, <1>3 DEF LoopReads, Working

\* Between two entries nothing has been found and no start is awaited.
LEMMA Resting ==
    ASSUME loop'.pc \notin {"reconcile", "resume", "sent"}, OneStart, slow' = slow,
           ~ slow => continuationFlight' = {},
           \A e \in Entries : Carrying(e)' = Carrying(e)
    PROVE  FoundIsCarried' /\ OneStart'
<1>1. FoundIsCarried'
  BY DEF FoundIsCarried
<1>2. ~ slow => StartIsAwaited' /\ NoSecondTurn' /\ NoneBeforeStart'
  BY DEF OneStart, StartIsAwaited, NoSecondTurn, NoneBeforeStart
<1> QED
  BY <1>1, <1>2 DEF OneStart

\* Outside the wait for an answer no start is under way.
LEMMA NothingSent ==
    ASSUME OneStart, ~ slow, loop.pc # "sent"
    PROVE  continuationFlight = {}
BY DEF OneStart, StartIsAwaited

\* Rows that nothing has happened to.
LEMMA SameRows ==
    ASSUME RowNamesItsTurn, RowFollowsTurn, row' = row, turns' = turns
    PROVE  RowNamesItsTurn' /\ RowFollowsTurn' /\ \A x \in Entries : Claimed(x) => Claimed(x)'
BY DEF RowNamesItsTurn, RowFollowsTurn, Carrying, Claimed

-----------------------------------------------------------------------------
LEMMA ContinuationInvInit == ContinuationInit => ContinuationInv
<1> SUFFICES ASSUME ContinuationInit
             PROVE  ContinuationInv
  OBVIOUS
<1>1. DOMAIN turns = {} /\ \A e : Carrying(e) = {}
  BY DEF ContinuationInit, Carrying
<1>2. TurnsInOrder
  <2>1. turns \in [1 .. 0 -> TurnRows]
    BY <1>1, 1 .. 0 = {} DEF ContinuationInit
  <2> QED
    BY <2>1 DEF TurnsInOrder
<1>3. LoopReads
  BY IdleLoop DEF ContinuationInit, LoopReads, Working
<1>4. loop.pc = "idle" /\ continuationFlight = {} /\ slow \in BOOLEAN
  BY IdleLoop, ContinuationAssumption DEF ContinuationInit
<1>5. FoundIsCarried /\ FlightIsClaimed /\ OneStart
  BY <1>1, <1>4 DEF FoundIsCarried, FlightIsClaimed, OneStart, StartIsAwaited, NoSecondTurn, NoneBeforeStart
<1>6. row = [e \in Entries |-> [st |-> "none", turn |-> 0]]
  BY DEF ContinuationInit
<1>7. RowNamesItsTurn /\ RowFollowsTurn
  BY <1>1, <1>6 DEF RowNamesItsTurn, RowFollowsTurn, Done
<1>8. ContinuationTypes
  BY ContinuationAssumption DEF ContinuationInit, ContinuationTypes, ContinuationLive, Done
<1> QED
  BY <1>2, <1>3, <1>4, <1>5, <1>7, <1>8 DEF ContinuationInv

\* A row is inserted once.
LEMMA EnqueueStep ==
    ASSUME ContinuationInv, NEW e \in Entries, enqueue(e), slow' = slow
    PROVE  ContinuationInv'
<1>1. TurnsInOrder' /\ \A f : Carrying(f)' = Carrying(f)
  BY SameTurns DEF ContinuationInv, enqueue
<1>2. /\ row' \in [Entries -> [st : {"none"} \cup ContinuationLive \cup Done, turn : Nat]]
      /\ row[e].st = "none" /\ row'[e].st = "pending" /\ row'[e].turn = row[e].turn
      /\ \A x \in Entries : x # e => row'[x] = row[x]
  BY DEF ContinuationInv, ContinuationTypes, enqueue, ContinuationLive
<1>3. \A x \in Entries : Claimed(x) <=> Claimed(x)'
  BY <1>2 DEF Claimed
<1>4. LoopReads'
  BY <1>3, LoopWaits DEF ContinuationInv, enqueue
<1>5. RowNamesItsTurn' /\ RowFollowsTurn'
  BY <1>1, <1>2 DEF ContinuationInv, RowNamesItsTurn, RowFollowsTurn, enqueue, Done
<1>6. FoundIsCarried' /\ OneStart'
  BY <1>1 DEF ContinuationInv, FoundIsCarried, OneStart, StartIsAwaited, NoSecondTurn, NoneBeforeStart, enqueue
<1>7. FlightIsClaimed'
  BY <1>3 DEF ContinuationInv, FlightIsClaimed, ContinuationTypes, enqueue
<1>8. ContinuationTypes'
  BY <1>2 DEF ContinuationInv, ContinuationTypes, enqueue
<1> QED
  BY <1>1, <1>4, <1>5, <1>6, <1>7, <1>8 DEF ContinuationInv

\* A step of the loop alone.
LEMMA LoopAlone ==
    ASSUME ContinuationInv, UNCHANGED <<slow, row, turns, shown, continuationFlight, sent, continuationCrashes, userTurns>>,
           LoopReads', FoundIsCarried', OneStart'
    PROVE  ContinuationInv'
<1>1. TurnsInOrder' /\ RowNamesItsTurn' /\ RowFollowsTurn'
  BY SameTurns, SameRows DEF ContinuationInv
<1>2. ContinuationTypes' /\ FlightIsClaimed' /\ slow' \in BOOLEAN
  BY DEF ContinuationInv, ContinuationTypes, FlightIsClaimed, Claimed
<1> QED
  BY <1>1, <1>2 DEF ContinuationInv

\* ... to an entry it has not worked on.
LEMMA LoopAloneRests ==
    ASSUME ContinuationInv, UNCHANGED <<slow, row, turns, shown, continuationFlight, sent, continuationCrashes, userTurns>>,
           LoopReads', loop.pc # "sent", loop'.pc \notin {"reconcile", "resume", "sent"}
    PROVE  ContinuationInv'
<1>1. \A f : Carrying(f)' = Carrying(f)
  BY SameTurns DEF ContinuationInv
<1>2. ~ slow => continuationFlight' = {}
  BY NothingSent DEF ContinuationInv
<1>3. FoundIsCarried' /\ OneStart'
  BY <1>1, <1>2, Resting DEF ContinuationInv
<1> QED
  BY <1>3, LoopAlone

LEMMA BeginStep ==
    ASSUME ContinuationInv, begin, slow' = slow
    PROVE  ContinuationInv'
<1> DEFINE todo == {e \in Entries : row[e].st \in ContinuationLive}
           rows == [e \in todo |-> row[e].st]
<1>1. todo \subseteq Entries /\ todo # {} /\ DOMAIN rows = todo /\ rows \in Snaps
  <2>1. rows \in [todo -> ContinuationLive] /\ todo \in SUBSET Entries
    OBVIOUS
  <2> QED
    BY <2>1 DEF Snaps, begin
<1>2. \A e \in todo : rows[e] # "pending" => Claimed(e)
  BY DEF Claimed, ContinuationLive
<1> HIDE DEF todo, rows
<1>3. NotFound \in Founds
  BY DEF NotFound, Founds
<1>4. PICK v \in BOOLEAN : loop' = [pc |-> "next", e |-> 0, snap |-> rows, active |-> v, found |-> NotFound, todo |-> todo]
  BY Zenon DEF begin, todo, rows
<1>5. loop' \in Loops /\ loop'.pc = "next" /\ loop'.snap = rows /\ loop'.todo = todo
  BY <1>1, <1>3, <1>4 DEF Loops
<1>6. (loop \in Loops)' /\ (\A e \in DOMAIN rows : rows[e] # "pending" => Claimed(e)')
  BY <1>1, <1>2, <1>5 DEF Loops, Founds, Snaps, Working, Claimed, begin
<1>7. LoopReads'
  BY <1>1, <1>5, <1>6 DEF LoopReads, Working
<1>8. loop.pc # "sent" /\ UNCHANGED <<row, turns, shown, continuationFlight, sent, continuationCrashes, userTurns>>
  BY DEF begin
<1> QED
  BY <1>5, <1>7, <1>8, LoopAloneRests

LEMMA TakeStep ==
    ASSUME ContinuationInv, take, slow' = slow
    PROVE  ContinuationInv'
<1> DEFINE e == Min(loop.todo)
           l == [loop EXCEPT !.todo = @ \ {e}, !.e = e]
<1>1. LoopReads /\ loop \in Loops /\ loop.pc = "next" /\ loop.todo # {} /\ loop.todo \subseteq Entries
      /\ loop.todo \subseteq DOMAIN loop.snap
  BY DEF ContinuationInv, LoopReads, Loops, take
<1>2. loop.todo \in SUBSET Nat
  BY <1>1, ContinuationAssumption
<1>3. e \in loop.todo
  BY <1>1, <1>2, MinIsMember
<1> HIDE DEF e
<1>4. l \in Loops /\ l.snap = loop.snap /\ l.todo = loop.todo \ {e}
  BY <1>1, <1>3 DEF Loops
<1>5. UNCHANGED <<row, turns, shown, continuationFlight, sent, continuationCrashes, userTurns>>
  BY DEF take
<1>6. \A x \in Entries : Claimed(x) => Claimed(x)'
  BY <1>5 DEF Claimed
<1>7. CASE shown # {}
  <2>1. loop' = nextEntry(l)
    BY <1>7 DEF take, e
  <2> HIDE DEF l
  <2>2. l.todo \subseteq loop.todo
    BY <1>4
  <2>3. LoopReads' /\ loop'.pc \in {"idle", "next"}
    BY <1>1, <1>4, <1>6, <2>1, <2>2, LoopMovesOn
  <2> QED
    BY <1>1, <1>5, <2>3, LoopAloneRests
<1>8. CASE shown = {}
  <2>1. loop' = [l EXCEPT !.pc = "read"]
    BY <1>8 DEF take, e
  <2> DEFINE rest == loop.todo \ {e}
  <2>2. loop' = [loop EXCEPT !.pc = "read", !.e = e, !.active = loop.active, !.found = loop.found, !.todo = rest]
    BY <1>1, <2>1 DEF Loops
  <2>3. loop.active \in BOOLEAN /\ loop.found \in Founds /\ "read" \in Working /\ e \in DOMAIN loop.snap
        /\ rest \in SUBSET loop.todo
    BY <1>1, <1>3 DEF Loops, Working
  <2> HIDE DEF rest, l
  <2>4. LoopReads' /\ loop'.pc = "read"
    BY <1>1, <1>6, <2>2, <2>3, LoopWorks, ZenonT(30)
  <2> QED
    BY <1>1, <1>5, <2>4, LoopAloneRests
<1> QED
  BY <1>7, <1>8

LEMMA ReadStep ==
    ASSUME ContinuationInv, readThread, slow' = slow
    PROVE  ContinuationInv'
<1>1. LoopReads /\ loop \in Loops /\ loop.pc = "read" /\ loop.e \in DOMAIN loop.snap
  BY DEF ContinuationInv, LoopReads, Working, readThread
<1>2. UNCHANGED <<row, turns, shown, continuationFlight, sent, continuationCrashes, userTurns>>
  BY DEF readThread
<1>3. \A x \in Entries : Claimed(x) => Claimed(x)'
  BY <1>2 DEF Claimed
<1>4. PICK v \in BOOLEAN : loop' = [loop EXCEPT !.pc = "list", !.active = v]
  <2>1. Active \in BOOLEAN
    BY DEF Active
  <2> QED
    BY <2>1 DEF readThread
<1>5. loop' = [loop EXCEPT !.pc = "list", !.e = loop.e, !.active = v, !.found = loop.found, !.todo = loop.todo]
  BY <1>1, <1>4 DEF Loops
<1>6. loop.found \in Founds /\ "list" \in Working /\ loop.todo \in SUBSET loop.todo
  BY <1>1 DEF Loops, Working
<1>7. LoopReads' /\ loop'.pc = "list"
  BY <1>1, <1>3, <1>5, <1>6, LoopWorks
<1> QED
  BY <1>1, <1>2, <1>7, LoopAloneRests

LEMMA DeferStep ==
    ASSUME ContinuationInv, defer, slow' = slow
    PROVE  ContinuationInv'
<1>1. LoopReads /\ loop \in Loops /\ loop.pc # "sent"
  BY DEF ContinuationInv, LoopReads, defer
<1>2. UNCHANGED <<row, turns, shown, continuationFlight, sent, continuationCrashes, userTurns>> /\ loop' = nextEntry(loop)
  BY DEF defer
<1>3. \A x \in Entries : Claimed(x) => Claimed(x)'
  BY <1>2 DEF Claimed
<1>4. LoopReads' /\ loop'.pc \in {"idle", "next"}
  BY <1>1, <1>2, <1>3, LoopMovesOn
<1> QED
  BY <1>1, <1>2, <1>4, LoopAloneRests

\* What is found is the first turn that carries the entry.
LEMMA ListStep ==
    ASSUME ContinuationInv, listTurns, slow' = slow
    PROVE  ContinuationInv'
<1> DEFINE C == Carrying(loop.e)
           m == Min(C)
           f == IF loop.snap[loop.e] = "pending" \/ C = {} THEN NotFound
                ELSE [st |-> Observed(turns[m].status), turn |-> m]
<1>1. LoopReads /\ loop \in Loops /\ loop.pc = "list" /\ loop.e \in DOMAIN loop.snap
  BY DEF ContinuationInv, LoopReads, Working, listTurns
<1>2. UNCHANGED <<row, turns, shown, continuationFlight, sent, continuationCrashes, userTurns>>
  BY DEF listTurns
<1>3. \A x \in Entries : Claimed(x) => Claimed(x)'
  BY <1>2 DEF Claimed
<1>4. loop' = [loop EXCEPT !.pc = "reconcile", !.found = f]
  BY DEF listTurns
<1>5. /\ f \in Founds
      /\ f # NotFound => /\ f.turn \in C /\ f.st # "none"
                         /\ f.st \in Done => turns[f.turn].status = f.st
      /\ f = NotFound => loop.snap[loop.e] = "pending" \/ C = {}
  <2>1. CASE loop.snap[loop.e] = "pending" \/ C = {}
    BY <2>1 DEF NotFound, Founds
  <2>2. CASE ~ (loop.snap[loop.e] = "pending" \/ C = {})
    <3>1. m \in C /\ C \subseteq DOMAIN turns /\ m \in Nat \ {0} /\ turns[m] \in TurnRows
      BY <2>2, TurnNumbers DEF ContinuationInv, Carrying
    <3> DEFINE o == Observed(turns[m].status)
    <3> HIDE DEF m, C
    <3>2. o \in {"running"} \cup Done /\ (o \in Done => turns[m].status = o)
      BY <3>1 DEF Observed, TurnRows, Done
    <3>3. f = [st |-> o, turn |-> m]
      BY <2>2
    <3> HIDE DEF o, f
    <3> QED
      BY <3>1, <3>2, <3>3 DEF Founds, NotFound, Done
  <2> QED
    BY <2>1, <2>2
<1> HIDE DEF f
<1>6. loop' = [loop EXCEPT !.pc = "reconcile", !.e = loop.e, !.active = loop.active, !.found = f, !.todo = loop.todo]
  BY <1>1, <1>4 DEF Loops
<1>7. loop.active \in BOOLEAN /\ "reconcile" \in Working /\ loop.todo \in SUBSET loop.todo
  BY <1>1 DEF Loops, Working
<1>8. LoopReads' /\ loop'.pc = "reconcile" /\ loop'.e = loop.e /\ loop'.snap = loop.snap /\ loop'.found = f
  BY <1>1, <1>3, <1>5, <1>6, <1>7, LoopWorks
<1>9. \A x : Carrying(x)' = Carrying(x)
  BY <1>2, SameTurns DEF ContinuationInv
<1>10. FoundIsCarried'
  BY <1>2, <1>5, <1>8, <1>9 DEF FoundIsCarried, NotFound
<1>11. ~ slow => continuationFlight' = {}
  BY <1>1, <1>2, NothingSent DEF ContinuationInv
<1>12. ~ slow => StartIsAwaited' /\ NoSecondTurn'
  BY <1>9, <1>11 DEF ContinuationInv, OneStart, StartIsAwaited, NoSecondTurn
<1>13. NoneBeforeStart'
  BY <1>5, <1>8, <1>9 DEF NoneBeforeStart, NotFound
<1>14. OneStart'
  BY <1>12, <1>13 DEF OneStart
<1> QED
  BY <1>2, <1>8, <1>10, <1>14, LoopAlone

\* A row that takes what was found names a turn of its own.
LEMMA ReconcileStep ==
    ASSUME ContinuationInv, reconcile, slow' = slow
    PROVE  ContinuationInv'
<1>1. LoopReads /\ loop \in Loops /\ loop.pc = "reconcile" /\ loop.e \in DOMAIN loop.snap /\ loop.e \in Entries
  BY DEF ContinuationInv, LoopReads, Working, reconcile, Loops, Snaps
<1>2. UNCHANGED <<turns, shown, continuationFlight, sent, continuationCrashes, userTurns>>
  BY DEF reconcile
<1>3. TurnsInOrder' /\ \A x : Carrying(x)' = Carrying(x)
  BY <1>2, SameTurns DEF ContinuationInv
<1>4. ~ slow => continuationFlight' = {}
  BY <1>1, <1>2, NothingSent DEF ContinuationInv
<1>5. CASE loop.found # NotFound
  <2> DEFINE f == loop.found
  <2>1. f \in Founds /\ f.turn \in Carrying(loop.e) /\ f.st # "none"
        /\ (f.st \in Done => turns[f.turn].status = f.st)
    BY <1>1, <1>5 DEF ContinuationInv, FoundIsCarried, Loops
  <2>2. row' = [row EXCEPT ![loop.e] = f] /\ loop' = nextEntry(loop)
    BY <1>5 DEF reconcile
  <2> HIDE DEF f
  <2>3. /\ row' \in [Entries -> [st : {"none"} \cup ContinuationLive \cup Done, turn : Nat]]
        /\ row'[loop.e] = f /\ f.st \in {"running"} \cup Done
        /\ \A x \in Entries : x # loop.e => row'[x] = row[x]
    BY <1>1, <2>1, <2>2 DEF ContinuationInv, ContinuationTypes, Founds, ContinuationLive
  <2>4. \A x \in Entries : Claimed(x) => Claimed(x)'
    BY <2>3 DEF Claimed, Done
  <2>5. LoopReads' /\ loop'.pc \in {"idle", "next"}
    BY <1>1, <2>2, <2>4, LoopMovesOn
  <2>6. FoundIsCarried' /\ OneStart'
    BY <1>3, <1>4, <2>5, Resting DEF ContinuationInv
  <2>7. RowNamesItsTurn'
    BY <1>3, <2>1, <2>3 DEF ContinuationInv, RowNamesItsTurn, Done
  <2>8. RowFollowsTurn'
    <3>1. Carrying(loop.e) \subseteq DOMAIN turns
      BY DEF Carrying
    <3> QED
      BY <1>2, <2>1, <2>3, <3>1 DEF ContinuationInv, RowFollowsTurn
  <2>9. FlightIsClaimed' /\ ContinuationTypes' /\ slow' \in BOOLEAN
    BY <1>2, <2>3, <2>4 DEF ContinuationInv, FlightIsClaimed, ContinuationTypes
  <2> QED
    BY <1>3, <2>5, <2>6, <2>7, <2>8, <2>9 DEF ContinuationInv
<1>6. CASE loop.found = NotFound
  <2>1. row' = row
    BY <1>6 DEF reconcile
  <2>2. \A x \in Entries : Claimed(x) => Claimed(x)'
    BY <2>1 DEF Claimed
  <2>3. CASE loop' = nextEntry(loop)
    <3>1. LoopReads' /\ loop'.pc \in {"idle", "next"}
      BY <1>1, <2>2, <2>3, LoopMovesOn
    <3> QED
      BY <1>1, <1>2, <2>1, <3>1, LoopAloneRests
  <2>4. CASE loop' = [loop EXCEPT !.pc = "resume"]
    <3>1. loop' = [loop EXCEPT !.pc = "resume", !.e = loop.e, !.active = loop.active, !.found = loop.found, !.todo = loop.todo]
      BY <1>1, <2>4 DEF Loops
    <3>2. loop.active \in BOOLEAN /\ "resume" \in Working /\ loop.todo \in SUBSET loop.todo /\ loop.found \in Founds
      BY <1>1 DEF Loops, Working
    <3>3. LoopReads' /\ loop'.pc = "resume" /\ loop'.e = loop.e /\ loop'.snap = loop.snap
      BY <1>1, <2>2, <3>1, <3>2, LoopWorks, ZenonT(30)
    <3>4. FoundIsCarried'
      BY <3>3 DEF FoundIsCarried
    <3>5. ~ slow => StartIsAwaited' /\ NoSecondTurn' /\ NoneBeforeStart'
      BY <1>1, <1>3, <1>4, <1>6, <3>3 DEF ContinuationInv, OneStart, StartIsAwaited, NoSecondTurn, NoneBeforeStart
    <3>6. OneStart'
      BY <3>5 DEF OneStart
    <3> QED
      BY <1>2, <2>1, <3>3, <3>4, <3>6, LoopAlone
  <2> QED
    BY <1>6, <2>3, <2>4 DEF reconcile
<1> QED
  BY <1>5, <1>6

\* A start is sent for an entry that no turn carries.
LEMMA ClaimStep ==
    ASSUME ContinuationInv, continuationClaim, slow' = slow
    PROVE  ContinuationInv'
<1> DEFINE e == loop.e
<1>1. LoopReads /\ loop \in Loops /\ loop.pc = "resume" /\ e \in DOMAIN loop.snap /\ e \in Entries
  BY DEF ContinuationInv, LoopReads, Working, continuationClaim, Loops, Snaps
<1>2. UNCHANGED <<turns, shown, continuationCrashes, userTurns>> /\ continuationFlight' = continuationFlight \cup {e}
  BY DEF continuationClaim
<1>3. TurnsInOrder' /\ \A x : Carrying(x)' = Carrying(x)
  BY <1>2, SameTurns DEF ContinuationInv
<1>4. /\ row' \in [Entries -> [st : {"none"} \cup ContinuationLive \cup Done, turn : Nat]]
      /\ row'[e].turn = row[e].turn
      /\ row'[e].st = IF loop.snap[e] = "pending" THEN "starting" ELSE row[e].st
      /\ \A x \in Entries : x # e => row'[x] = row[x]
  BY <1>1 DEF ContinuationInv, ContinuationTypes, continuationClaim, ContinuationLive
<1>5. row'[e].st \notin {"none", "pending"} /\ \A x \in Entries : Claimed(x) => Claimed(x)'
  BY <1>1, <1>4 DEF Claimed, LoopReads
<1>6. loop' = [loop EXCEPT !.pc = "sent", !.e = loop.e, !.active = loop.active, !.found = loop.found, !.todo = loop.todo]
  BY <1>1 DEF Loops, continuationClaim
<1>7. loop.active \in BOOLEAN /\ "sent" \in Working /\ loop.todo \in SUBSET loop.todo /\ loop.found \in Founds
  BY <1>1 DEF Loops, Working
<1>8. LoopReads' /\ loop'.pc = "sent" /\ loop'.e = e
  <2>1. LoopReads /\ loop.e \in DOMAIN loop.snap /\ \A x \in Entries : Claimed(x) => Claimed(x)'
    BY <1>1, <1>5
  <2>2. ASSUME NEW p \in Working, NEW v \in BOOLEAN, NEW f \in Founds, NEW d \in SUBSET loop.todo,
               loop' = [loop EXCEPT !.pc = p, !.e = loop.e, !.active = v, !.found = f, !.todo = d]
        PROVE  LoopReads' /\ loop'.pc = p /\ loop'.e = loop.e
    BY <2>1, <2>2, LoopWorks
  <2>3. LoopReads' /\ loop'.pc = "sent" /\ loop'.e = loop.e
    BY <1>6, <1>7, <2>2
  <2> QED
    BY <2>3
<1>9. FoundIsCarried' /\ NoneBeforeStart'
  BY <1>8 DEF FoundIsCarried, NoneBeforeStart
<1>10. RowNamesItsTurn' /\ RowFollowsTurn'
  <2>1. row'[e].st \in Done => row'[e].st = row[e].st
    BY <1>4 DEF Done
  <2>2. RowNamesItsTurn'
    BY <1>3, <1>4, <1>5 DEF ContinuationInv, RowNamesItsTurn, Claimed
  <2> QED
    BY <1>2, <1>4, <2>1, <2>2 DEF ContinuationInv, RowFollowsTurn
<1>11. ~ slow => Carrying(e) = {}
  BY <1>1 DEF ContinuationInv, OneStart, NoneBeforeStart, RowNamesItsTurn, continuationClaim
<1>12. ~ slow => continuationFlight = {}
  BY <1>1, NothingSent DEF ContinuationInv
<1> HIDE DEF e
<1>13. OneStart'
  BY <1>2, <1>3, <1>8, <1>9, <1>11, <1>12 DEF ContinuationInv, OneStart, StartIsAwaited, NoSecondTurn
<1>14. FlightIsClaimed'
  BY <1>2, <1>5 DEF Claimed, ContinuationInv, FlightIsClaimed, ContinuationTypes
<1>15. sent' \in [Entries -> 0 .. MaxStarts]
  <2>1. sent[e] \in Nat /\ sent[e] < MaxStarts /\ sent \in [Entries -> 0 .. MaxStarts]
    BY <1>1, ContinuationAssumption DEF ContinuationInv, ContinuationTypes, continuationClaim, e
  <2>2. sent[e] + 1 \in 0 .. MaxStarts
    BY <2>1, ContinuationAssumption
  <2> QED
    BY <1>1, <2>1, <2>2 DEF continuationClaim, e
<1>16. ContinuationTypes' /\ slow' \in BOOLEAN
  BY <1>1, <1>2, <1>4, <1>15 DEF ContinuationInv, ContinuationTypes
<1> QED
  BY <1>3, <1>8, <1>9, <1>10, <1>13, <1>14, <1>16 DEF ContinuationInv

\* The answer names the turn that carries the entry.
LEMMA StartedStep ==
    ASSUME ContinuationInv, started, slow' = slow
    PROVE  ContinuationInv'
<1> DEFINE m == Max(Carrying(loop.e))
<1>1. LoopReads /\ loop \in Loops /\ loop.pc = "sent" /\ loop.e \in Entries /\ loop' = nextEntry(loop)
  BY DEF ContinuationInv, LoopReads, Working, started, Loops, Snaps
<1>2. UNCHANGED <<turns, shown, continuationFlight, sent, continuationCrashes, userTurns>>
  BY DEF started
<1>3. TurnsInOrder' /\ \A x : Carrying(x)' = Carrying(x)
  BY <1>2, SameTurns DEF ContinuationInv
<1>4. m \in Carrying(loop.e) /\ m \in Nat
  BY TurnNumbers DEF ContinuationInv, Carrying, started
<1> HIDE DEF m
<1>5. /\ row' \in [Entries -> [st : {"none"} \cup ContinuationLive \cup Done, turn : Nat]]
      /\ row'[loop.e] = row[loop.e] \/ (row'[loop.e].st = "running" /\ row'[loop.e].turn = m /\ row[loop.e].st = "starting")
      /\ \A x \in Entries : x # loop.e => row'[x] = row[x]
  <2>1. CASE row[loop.e].st = "starting"
    <3>1. row' = [row EXCEPT ![loop.e] = [st |-> "running", turn |-> m]]
      BY <2>1 DEF started, m
    <3> QED
      BY <1>1, <1>4, <2>1, <3>1 DEF ContinuationInv, ContinuationTypes, ContinuationLive
  <2>2. CASE row[loop.e].st # "starting"
    BY <2>2 DEF started, ContinuationInv, ContinuationTypes
  <2> QED
    BY <2>1, <2>2
<1>6. \A x \in Entries : Claimed(x) => Claimed(x)'
  BY <1>5 DEF Claimed
<1>7. LoopReads' /\ loop'.pc \in {"idle", "next"}
  BY <1>1, <1>6, LoopMovesOn
<1>8. ~ slow => continuationFlight' = {}
  BY <1>2 DEF ContinuationInv, OneStart, StartIsAwaited, started
<1>9. FoundIsCarried' /\ OneStart'
  BY <1>3, <1>7, <1>8, Resting DEF ContinuationInv
<1>10. RowNamesItsTurn'
  BY <1>3, <1>4, <1>5 DEF ContinuationInv, RowNamesItsTurn
<1>11. RowFollowsTurn'
  BY <1>2, <1>5 DEF ContinuationInv, RowFollowsTurn, Done
<1>12. FlightIsClaimed' /\ ContinuationTypes' /\ slow' \in BOOLEAN
  BY <1>2, <1>5, <1>6 DEF ContinuationInv, FlightIsClaimed, ContinuationTypes
<1> QED
  BY <1>3, <1>7, <1>9, <1>10, <1>11, <1>12 DEF ContinuationInv

LEMMA StartFailsStep ==
    ASSUME ContinuationInv, startFails, slow' = slow
    PROVE  ContinuationInv'
<1>1. LoopReads /\ loop \in Loops /\ loop.pc = "sent" /\ loop.e \in Entries /\ loop' = nextEntry(loop)
  BY DEF ContinuationInv, LoopReads, Working, startFails, Loops, Snaps
<1>2. UNCHANGED <<row, turns, shown, sent, continuationCrashes, userTurns>> /\ continuationFlight' \subseteq continuationFlight
  BY DEF startFails
<1>3. TurnsInOrder' /\ \A x : Carrying(x)' = Carrying(x)
  BY <1>2, SameTurns DEF ContinuationInv
<1>4. RowNamesItsTurn' /\ RowFollowsTurn' /\ \A x \in Entries : Claimed(x) => Claimed(x)'
  BY <1>2, SameRows DEF ContinuationInv
<1>5. LoopReads' /\ loop'.pc \in {"idle", "next"}
  BY <1>1, <1>4, LoopMovesOn
<1>6. ~ slow => continuationFlight' = {}
  BY <1>2 DEF ContinuationInv, OneStart, StartIsAwaited, startFails
<1>7. FoundIsCarried' /\ OneStart'
  BY <1>3, <1>5, <1>6, Resting DEF ContinuationInv
<1>8. FlightIsClaimed' /\ ContinuationTypes' /\ slow' \in BOOLEAN
  BY <1>2, <1>4 DEF ContinuationInv, FlightIsClaimed, ContinuationTypes
<1> QED
  BY <1>3, <1>4, <1>5, <1>7, <1>8 DEF ContinuationInv

\* The only turn of the entry begins.
LEMMA AcceptStep ==
    ASSUME ContinuationInv, NEW e \in Entries, accept(e), slow' = slow
    PROVE  ContinuationInv'
<1> DEFINE n == NewTurn
<1>1. /\ TurnsInOrder' /\ n \in Nat \ {0} /\ n \notin DOMAIN turns /\ DOMAIN turns' = DOMAIN turns \cup {n}
      /\ \A t \in DOMAIN turns : turns'[t] = turns[t]
      /\ Carrying(e)' = Carrying(e) \cup {n} /\ \A f : f # e => Carrying(f)' = Carrying(f)
  BY AddTurn DEF ContinuationInv, accept
<1>2. /\ e \in continuationFlight /\ continuationFlight' = continuationFlight \ {e} /\ shown' = shown \cup {n}
      /\ UNCHANGED <<sent, loop, continuationCrashes, userTurns>>
  BY DEF accept
<1>3. row' = IF row[e].st = "starting" THEN [row EXCEPT ![e] = [st |-> "running", turn |-> n]] ELSE row
  BY DEF accept
<1> HIDE DEF n
<1>4. Claimed(e)
  BY <1>2 DEF ContinuationInv, FlightIsClaimed
<1>5. /\ row' \in [Entries -> [st : {"none"} \cup ContinuationLive \cup Done, turn : Nat]]
      /\ row'[e] = row[e] \/ (row'[e].st = "running" /\ row'[e].turn = n)
      /\ \A x \in Entries : x # e => row'[x] = row[x]
  BY <1>1, <1>3 DEF ContinuationInv, ContinuationTypes, ContinuationLive
<1>6. \A x \in Entries : Claimed(x) => Claimed(x)'
  BY <1>5 DEF Claimed
<1>7. LoopReads'
  BY <1>2, <1>6, LoopWaits DEF ContinuationInv
<1>8. RowNamesItsTurn'
  <2>1. row'[e].st \notin {"none", "pending"}
    BY <1>4, <1>5 DEF Claimed
  <2> QED
    BY <1>1, <1>5, <2>1 DEF ContinuationInv, RowNamesItsTurn
<1>9. RowFollowsTurn'
  BY <1>1, <1>5 DEF ContinuationInv, RowFollowsTurn, Done
<1>10. FoundIsCarried'
  <2> SUFFICES ASSUME loop.pc = "reconcile", loop.found # NotFound
               PROVE  loop.found.turn \in Carrying(loop.e)' /\ loop.found.st # "none"
                      /\ (loop.found.st \in Done => turns'[loop.found.turn].status = loop.found.st)
    BY <1>2 DEF FoundIsCarried, NotFound
  <2>1. /\ loop.found.turn \in Carrying(loop.e) /\ loop.found.st # "none"
        /\ loop.found.st \in Done => turns[loop.found.turn].status = loop.found.st
    BY DEF ContinuationInv, FoundIsCarried
  <2>2. \A f : Carrying(f) \subseteq DOMAIN turns /\ Carrying(f) \subseteq Carrying(f)'
    BY <1>1 DEF Carrying
  <2> QED
    BY <1>1, <1>2, <2>1, <2>2
<1>11. OneStart'
  <2> SUFFICES ASSUME ~ slow
               PROVE  StartIsAwaited' /\ NoSecondTurn' /\ NoneBeforeStart'
    BY DEF OneStart
  <2>1. loop.pc = "sent" /\ loop.e = e /\ Carrying(e) = {} /\ continuationFlight' = {}
    BY <1>2 DEF ContinuationInv, OneStart, StartIsAwaited
  <2>2. StartIsAwaited' /\ NoneBeforeStart'
    BY <1>2, <2>1 DEF StartIsAwaited, NoneBeforeStart
  <2>3. NoSecondTurn'
    BY <1>1, <2>1 DEF ContinuationInv, OneStart, NoSecondTurn
  <2> QED
    BY <2>2, <2>3
<1>12. FlightIsClaimed' /\ ContinuationTypes' /\ slow' \in BOOLEAN
  BY <1>1, <1>2, <1>5, <1>6 DEF ContinuationInv, FlightIsClaimed, ContinuationTypes
<1> QED
  BY <1>1, <1>7, <1>8, <1>9, <1>10, <1>11, <1>12 DEF ContinuationInv

\* Turns end, one of them or, with the runtime, all that run.
LEMMA TurnsEnd ==
    ASSUME ContinuationInv, slow' = slow, NEW S \in SUBSET DOMAIN turns, NEW s \in Done,
           \A t \in S : turns[t].status = "inProgress",
           turns' = [t \in DOMAIN turns |-> IF t \in S THEN [turns[t] EXCEPT !.status = s] ELSE turns[t]],
           \/ row' = row
           \/ row' = [e \in Entries |-> IF row[e].st \in {"starting", "running"} /\ row[e].turn \in S
                                        THEN [row[e] EXCEPT !.st = s] ELSE row[e]]
    PROVE  /\ TurnsInOrder' /\ DOMAIN turns' = DOMAIN turns /\ RowNamesItsTurn' /\ RowFollowsTurn'
           /\ \A f : Carrying(f)' = Carrying(f)
           /\ \A t \in DOMAIN turns : turns[t].status \in Done => turns'[t].status = turns[t].status
           /\ \A x \in Entries : Claimed(x) => Claimed(x)'
           /\ row' \in [Entries -> [st : {"none"} \cup ContinuationLive \cup Done, turn : Nat]]
<1>1. /\ TurnsInOrder' /\ DOMAIN turns' = DOMAIN turns /\ \A f : Carrying(f)' = Carrying(f)
      /\ \A t \in DOMAIN turns : turns'[t].status = IF t \in S THEN s ELSE turns[t].status
  BY KeepTurns DEF ContinuationInv
<1>2. \A t \in DOMAIN turns : turns[t].status \in Done => turns'[t].status = turns[t].status
  BY <1>1 DEF Done
<1> DEFINE Rows == [st : {"none"} \cup ContinuationLive \cup Done, turn : Nat]
<1>3. row \in [Entries -> Rows]
  BY DEF ContinuationInv, ContinuationTypes
<1>4. \A r \in Rows : [r EXCEPT !.st = s] \in Rows /\ [r EXCEPT !.st = s].st = s /\ [r EXCEPT !.st = s].turn = r.turn
  OBVIOUS
<1>5. \A e \in Entries : row'[e] = row[e] \/ (/\ row'[e].st = s /\ row'[e].turn = row[e].turn /\ row[e].turn \in S
                                             /\ row[e].st \in {"starting", "running"})
  BY <1>3, <1>4
<1>6. row' \in [Entries -> Rows]
  BY <1>3, <1>4
<1> HIDE DEF Rows
<1>7. \A x \in Entries : Claimed(x) => Claimed(x)'
  BY <1>5 DEF Claimed, Done
<1>8. RowNamesItsTurn'
  BY <1>1, <1>5 DEF ContinuationInv, RowNamesItsTurn, Done
<1>9. RowFollowsTurn'
  <2> SUFFICES ASSUME NEW e \in Entries, row'[e].st \in Done
               PROVE  row'[e].turn \in DOMAIN turns' /\ turns'[row'[e].turn].status = row'[e].st
    BY DEF RowFollowsTurn
  <2>1. CASE row'[e] = row[e]
    BY <1>1, <1>2, <2>1 DEF ContinuationInv, RowFollowsTurn
  <2>2. CASE row'[e] # row[e]
    BY <1>1, <1>5, <2>2
  <2> QED
    BY <2>1, <2>2
<1> QED
  BY <1>1, <1>2, <1>6, <1>7, <1>8, <1>9 DEF Rows

LEMMA CompletedStep ==
    ASSUME ContinuationInv, NEW t \in DOMAIN turns, turnCompleted(t), slow' = slow
    PROVE  ContinuationInv'
<1>1. PICK s \in Done :
        /\ turns' = [turns EXCEPT ![t].status = s]
        /\ row' = [e \in Entries |-> IF observe(e, t) THEN [row[e] EXCEPT !.st = s] ELSE row[e]]
  BY DEF turnCompleted
<1>2. turns' = [u \in DOMAIN turns |-> IF u \in {t} THEN [turns[u] EXCEPT !.status = s] ELSE turns[u]]
  BY <1>1 DEF ContinuationInv, TurnsInOrder
<1>3. row' = [e \in Entries |-> IF row[e].st \in {"starting", "running"} /\ row[e].turn \in {t}
                                THEN [row[e] EXCEPT !.st = s] ELSE row[e]]
  BY <1>1 DEF observe
<1>4. \A u \in {t} : turns[u].status = "inProgress"
  BY DEF turnCompleted
<1>5. /\ TurnsInOrder' /\ DOMAIN turns' = DOMAIN turns /\ RowNamesItsTurn' /\ RowFollowsTurn'
      /\ \A f : Carrying(f)' = Carrying(f)
      /\ \A u \in DOMAIN turns : turns[u].status \in Done => turns'[u].status = turns[u].status
      /\ \A x \in Entries : Claimed(x) => Claimed(x)'
      /\ row' \in [Entries -> [st : {"none"} \cup ContinuationLive \cup Done, turn : Nat]]
  BY <1>2, <1>3, <1>4, TurnsEnd
<1>6. UNCHANGED <<continuationFlight, sent, loop, continuationCrashes, userTurns>> /\ shown' = shown \ {t}
  BY DEF turnCompleted
<1>7. LoopReads'
  BY <1>5, <1>6, LoopWaits DEF ContinuationInv
<1>8. FoundIsCarried'
  <2>1. \A f : Carrying(f) \subseteq DOMAIN turns
    BY DEF Carrying
  <2> QED
    BY <1>5, <1>6, <2>1 DEF ContinuationInv, FoundIsCarried, NotFound
<1>9. OneStart'
  BY <1>5, <1>6 DEF ContinuationInv, OneStart, StartIsAwaited, NoSecondTurn, NoneBeforeStart, NotFound
<1>10. FlightIsClaimed' /\ ContinuationTypes' /\ slow' \in BOOLEAN
  BY <1>5, <1>6 DEF ContinuationInv, FlightIsClaimed, ContinuationTypes
<1> QED
  BY <1>5, <1>7, <1>8, <1>9, <1>10 DEF ContinuationInv

LEMMA ContinuationCrashStep ==
    ASSUME ContinuationInv, continuationCrash, slow' = slow
    PROVE  ContinuationInv'
<1> DEFINE S == {t \in DOMAIN turns : turns[t].status = "inProgress"}
<1>1. "failed" \in Done /\ S \in SUBSET DOMAIN turns /\ \A t \in S : turns[t].status = "inProgress"
  BY DEF Done
<1>2. turns' = [t \in DOMAIN turns |-> IF t \in S THEN [turns[t] EXCEPT !.status = "failed"] ELSE turns[t]]
  BY DEF continuationCrash
<1>3. row' = row /\ loop' = ContinuationIdle /\ continuationFlight' = {} /\ UNCHANGED <<shown, sent, userTurns>>
  BY DEF continuationCrash
<1> HIDE DEF S
<1>4. /\ TurnsInOrder' /\ DOMAIN turns' = DOMAIN turns /\ RowNamesItsTurn' /\ RowFollowsTurn'
      /\ \A f : Carrying(f)' = Carrying(f)
  BY <1>1, <1>2, <1>3, TurnsEnd
<1>5. LoopReads' /\ loop'.pc = "idle"
  BY <1>3, IdleLoop DEF LoopReads, Working, Loops, Founds, Snaps
<1>6. FoundIsCarried' /\ OneStart'
  BY <1>3, <1>4, <1>5, Resting DEF ContinuationInv
<1>7. continuationCrashes' \in 0 .. ContinuationMaxCrashes
  BY ContinuationAssumption DEF ContinuationInv, ContinuationTypes, continuationCrash
<1>8. FlightIsClaimed' /\ ContinuationTypes' /\ slow' \in BOOLEAN
  BY <1>3, <1>4, <1>7 DEF ContinuationInv, FlightIsClaimed, ContinuationTypes
<1> QED
  BY <1>4, <1>5, <1>6, <1>8 DEF ContinuationInv

LEMMA UserTurnStep ==
    ASSUME ContinuationInv, userTurn, slow' = slow
    PROVE  ContinuationInv'
<1> DEFINE n == NewTurn
<1>1. User \in Entries \cup {User} /\ User \notin Entries
  BY ContinuationAssumption DEF User
<1>2. /\ TurnsInOrder' /\ n \notin DOMAIN turns /\ DOMAIN turns' = DOMAIN turns \cup {n}
      /\ \A t \in DOMAIN turns : turns'[t] = turns[t]
      /\ \A f : f # User => Carrying(f)' = Carrying(f)
  BY <1>1, AddTurn DEF ContinuationInv, userTurn
<1>3. shown' = shown \cup {n} /\ UNCHANGED <<row, continuationFlight, sent, loop, continuationCrashes>>
      /\ loop.pc \in {"idle", "next"}
  BY DEF userTurn
<1> HIDE DEF n
<1>4. \A f \in Entries : Carrying(f)' = Carrying(f)
  BY <1>1, <1>2
<1>5. RowNamesItsTurn' /\ RowFollowsTurn'
  BY <1>2, <1>3, <1>4 DEF ContinuationInv, RowNamesItsTurn, RowFollowsTurn
<1>6. \A x \in Entries : Claimed(x) => Claimed(x)'
  BY <1>3 DEF Claimed
<1>7. LoopReads'
  BY <1>3, <1>6, LoopWaits DEF ContinuationInv
<1>8. ~ slow => continuationFlight' = {}
  BY <1>3, NothingSent DEF ContinuationInv
<1>9. FoundIsCarried' /\ OneStart'
  BY <1>3, <1>4, <1>8, Resting DEF ContinuationInv
<1>10. userTurns' \in 0 .. MaxUser
  BY ContinuationAssumption DEF ContinuationInv, ContinuationTypes, userTurn
<1>11. FlightIsClaimed' /\ ContinuationTypes' /\ slow' \in BOOLEAN
  BY <1>2, <1>3, <1>10 DEF ContinuationInv, FlightIsClaimed, ContinuationTypes, Claimed
<1> QED
  BY <1>2, <1>5, <1>7, <1>9, <1>11 DEF ContinuationInv

LEMMA ImportStep ==
    ASSUME ContinuationInv, continuationImportRuntimeHistory, slow' = slow
    PROVE  ContinuationInv'
<1>1. /\ UNCHANGED <<row, turns, continuationFlight, sent, loop, continuationCrashes, userTurns>>
      /\ shown' \subseteq DOMAIN turns
  BY DEF continuationImportRuntimeHistory
<1>2. TurnsInOrder' /\ \A f : Carrying(f)' = Carrying(f)
  BY <1>1, SameTurns DEF ContinuationInv
<1>3. RowNamesItsTurn' /\ RowFollowsTurn' /\ \A x \in Entries : Claimed(x) => Claimed(x)'
  BY <1>1, SameRows DEF ContinuationInv
<1>4. LoopReads'
  BY <1>1, <1>3, LoopWaits DEF ContinuationInv
<1>5. FoundIsCarried' /\ OneStart'
  BY <1>1, <1>2 DEF ContinuationInv, FoundIsCarried, OneStart, StartIsAwaited, NoSecondTurn, NoneBeforeStart, NotFound
<1>6. FlightIsClaimed' /\ ContinuationTypes' /\ slow' \in BOOLEAN
  BY <1>1 DEF ContinuationInv, FlightIsClaimed, ContinuationTypes, Claimed
<1> QED
  BY <1>2, <1>3, <1>4, <1>5, <1>6 DEF ContinuationInv

LEMMA ContinuationInvNext ==
    ASSUME ContinuationInv, [ContinuationNext /\ UNCHANGED slow]_<<slow, continuationVars>>
    PROVE  ContinuationInv'
<1>1. CASE UNCHANGED <<slow, continuationVars>>
  <2>1. UNCHANGED <<slow, row, turns, shown, continuationFlight, sent, continuationCrashes, userTurns>> /\ loop' = loop
    BY <1>1 DEF continuationVars
  <2>2. \A f : Carrying(f)' = Carrying(f)
    BY <2>1 DEF Carrying
  <2>3. \A x \in Entries : Claimed(x) => Claimed(x)'
    BY <2>1 DEF Claimed
  <2>4. LoopReads'
    BY <2>1, <2>3, LoopWaits DEF ContinuationInv
  <2>5. FoundIsCarried' /\ OneStart'
    BY <2>1, <2>2 DEF ContinuationInv, FoundIsCarried, OneStart, StartIsAwaited, NoSecondTurn, NoneBeforeStart, NotFound
  <2> QED
    BY <2>1, <2>4, <2>5, LoopAlone
<1>2. CASE ContinuationNext /\ UNCHANGED slow
  BY <1>2, EnqueueStep, AcceptStep, BeginStep, TakeStep, ReadStep, DeferStep, ListStep, ReconcileStep, ClaimStep,
     StartedStep, StartFailsStep, CompletedStep, UserTurnStep, ImportStep, ContinuationCrashStep
     DEF ContinuationNext
<1> QED
  BY <1>1, <1>2

\* One outcome, one turn: none, one, or one start under way.
LEMMA OneStartIsOnce ==
    ASSUME ContinuationInv
    PROVE  ContinuedOnce
<1> SUFFICES ASSUME ~ slow, NEW e \in Entries
             PROVE  Cardinality(Carrying(e)) + (IF e \in continuationFlight THEN 1 ELSE 0) <= 1
  BY DEF ContinuedOnce
<1>1. CASE Carrying(e) = {}
  BY <1>1, FS_EmptySet
<1>2. CASE Carrying(e) # {}
  <2>1. PICK t \in Carrying(e) : TRUE
    BY <1>2
  <2>2. Carrying(e) = {t}
    BY <2>1 DEF ContinuationInv, OneStart, NoSecondTurn
  <2>3. Cardinality(Carrying(e)) = 1
    BY <2>2, FS_Singleton
  <2>4. e \notin continuationFlight
    BY <1>2 DEF ContinuationInv, OneStart, StartIsAwaited
  <2> QED
    BY <2>3, <2>4
<1> QED
  BY <1>1, <1>2

\* For any number of entries, crashes and starts, whatever stale rows and
\* histories the loop works on: a row names its own turn and ends as it ended, and
\* an outcome starts one turn unless the runtime takes a start that had timed out.
THEOREM ContinuationIsSafe == ContinuationSpec => []ContinuationSafe
<1>1. ContinuationInv => ContinuationSafe
  <2> SUFFICES ASSUME ContinuationInv
               PROVE  ContinuationSafe
    OBVIOUS
  <2>1. loop \in Loops /\ loop.todo \subseteq DOMAIN loop.snap
    BY DEF ContinuationInv, LoopReads
  <2>2. loop.pc \in {"idle", "next", "read", "list", "reconcile", "resume", "sent"}
    BY <2>1 DEF Loops, Working
  <2>3. \A t \in DOMAIN turns : turns[t] \in [owner : Entries \cup {User}, status : {"inProgress"} \cup Done]
    BY TurnNumbers DEF ContinuationInv, TurnRows
  <2>4. ContinuationTypeOK
    BY <2>1, <2>2, <2>3 DEF ContinuationInv, ContinuationTypes, ContinuationTypeOK
  <2> QED
    BY <2>4, OneStartIsOnce DEF ContinuationInv, ContinuationSafe
<1> QED
  BY <1>1, ContinuationInvInit, ContinuationInvNext, PTL DEF ContinuationSpec

-----------------------------------------------------------------------------
(* The runs of a schedule *)

Turns == {"none", "inProgress", "completed", "failed", "interrupted"}
Sessions == {"none", "live", "own"}
Scheds == [state : {"on", "paused", "deleted"}, rev : 1..ScheduleMaxRevision,
           prompt : 0..MaxEdits, edits : 0..MaxEdits, next : 0..(MaxSlot + 1)]
RunRows == [state : ScheduleStates, thread : BOOLEAN, due : BOOLEAN]
Execs == [pc : {"idle", "opening", "preparing", "composing", "sent"}, session : Sessions, lost : BOOLEAN,
          rev : 0..ScheduleMaxRevision, prompt : 0..MaxEdits]
Natives == [turn : Turns, sends : Nat, current : BOOLEAN]
Ticks == [at : {"idle", "recover", "report"}, slot : 0..MaxSlot, session : Sessions, seen : {"unread"} \cup Turns]

ScheduleTypes ==
    /\ clock \in 0..MaxSlot /\ sched \in Scheds /\ runs \in [Slots -> RunRows] /\ scheduleExec \in [Slots -> Execs]
    /\ own \subseteq Slots /\ tracked \in [Slots -> Sessions] /\ live \in BOOLEAN /\ up \in BOOLEAN
    /\ scheduleCrashes \in 0..ScheduleMaxCrashes /\ tick \in Ticks
    /\ scheduleNative \in [Slots -> Natives] /\ reported \in [Slots -> {"none", "COMPLETED", "FAILED"}]

\* The revision counts the owner's changes and the slots that were claimed; an
\* edit opens the present slot once more.
RevisionCounted ==
    /\ sched.next <= clock + 1 /\ (sched.state = "on" <=> sched.next # 0)
    /\ sched.rev <= 1 + 2 * sched.edits + (IF sched.next = 0 THEN clock ELSE sched.next - 1)

\* An execution that read the revision the schedule has, read its prompt.
PromptOfRevision ==
    \A s \in Slots : /\ scheduleExec[s].rev <= sched.rev
                     /\ scheduleExec[s].rev = sched.rev => scheduleExec[s].prompt = sched.prompt

\* A process that is down executes and waits for nothing.
NothingWhenDown ==
    ~ up => tick.at = "idle" /\ \A s \in Slots : scheduleExec[s].pc = "idle" /\ tracked[s] = "none"

\* A run is tied to its thread before anything is sent; it waits only before.
ThreadFirst(s) ==
    /\ scheduleNative[s].turn = "none" <=> scheduleNative[s].sends = 0
    /\ scheduleNative[s].sends <= 1 /\ scheduleNative[s].current
    /\ ~ runs[s].thread => scheduleNative[s].turn = "none" /\ ~ runs[s].due
    /\ runs[s].state \in Pending \cup {"NONE"} => scheduleExec[s].pc = "idle" /\ ~ runs[s].thread

\* Where an execution is in the life of its run.
Executing(s) ==
    /\ scheduleExec[s].pc \in {"opening", "preparing"} => ~ runs[s].thread
    /\ scheduleExec[s].pc = "composing" =>
         /\ runs[s].thread /\ scheduleNative[s].turn = "none" /\ ~ runs[s].due
         /\ ~ scheduleExec[s].lost => runs[s].state = "STARTING"
    /\ scheduleExec[s].pc = "sent" => runs[s].thread /\ scheduleNative[s].turn # "none" /\ runs[s].state = "STARTING"

\* What is tracked runs; what is reported has ended, and nothing works on it.
Settled(s) ==
    /\ tracked[s] # "none" =>
         scheduleExec[s].pc = "idle" /\ runs[s].state = "RUNNING" /\ scheduleNative[s].turn # "none"
    /\ reported[s] # "none" => scheduleExec[s].pc = "idle" /\ runs[s].thread /\ ~ Recovering(s)

\* A recovery is alone with its run, and what it read of the turn still holds or
\* the turn has ended since.
RecoversAlone(s) ==
    Recovering(s) =>
        /\ runs[s].thread /\ tracked[s] = "none" /\ runs[s].state \in {"UNCERTAIN", "BLOCKED"}
        /\ scheduleExec[s].pc = "idle" \/ (scheduleExec[s].pc = "composing" /\ scheduleExec[s].lost)
        /\ tick.seen \in {"unread", scheduleNative[s].turn}
           \/ (tick.seen = "inProgress" /\ scheduleNative[s].turn # "none")

OutcomeOf(s) ==
    /\ runs[s].state = "COMPLETED" => scheduleNative[s].turn = "completed"
    /\ runs[s].state = "FAILED" => scheduleNative[s].turn = "failed"
    /\ runs[s].state = "BLOCKED" => scheduleNative[s].turn \in {"none", "interrupted"}
    /\ reported[s] # "none" => runs[s].state \in ScheduleEnded /\ reported[s] = ScheduleOutcome(runs[s].state)

SlotInv(s) == ThreadFirst(s) /\ Executing(s) /\ Settled(s) /\ RecoversAlone(s) /\ OutcomeOf(s)

ScheduleInv ==
    /\ ScheduleTypes /\ RevisionCounted /\ PromptOfRevision /\ NothingWhenDown
    /\ \A s \in Slots : SlotInv(s)

-----------------------------------------------------------------------------
LEMMA ScheduleNumbers ==
    /\ MaxSlot \in Nat /\ MaxEdits \in Nat /\ ScheduleMaxCrashes \in Nat /\ ScheduleMaxRevision \in Nat
    /\ ScheduleMaxRevision = 1 + MaxSlot + 2 * MaxEdits /\ \A s \in Slots : s \in 1..MaxSlot /\ s \in Nat
BY ScheduleAssumption DEF ScheduleMaxRevision, Slots

LEMMA NoExecFields ==
    /\ NoExec \in Execs /\ NoExec.pc = "idle" /\ NoExec.session = "none" /\ ~ NoExec.lost
    /\ NoExec.rev = 0 /\ NoExec.prompt = 0
<1>1. ~ NoExec.lost
  BY Zenon DEF NoExec
<1>2. PICK v \in BOOLEAN : NoExec = [pc |-> "idle", session |-> "none", lost |-> v, rev |-> 0, prompt |-> 0]
  BY Zenon DEF NoExec
<1>3. 0 \in 0..ScheduleMaxRevision /\ 0 \in 0..MaxEdits
  BY ScheduleNumbers
<1> QED
  BY <1>1, <1>2, <1>3 DEF Execs, Sessions

LEMMA NoTickFields == NoTick \in Ticks /\ NoTick.at = "idle" /\ NoTick.slot = 0
BY ScheduleNumbers DEF NoTick, Ticks, Sessions

\* A slot nothing happens to.
LEMMA SlotKept ==
    ASSUME NEW t \in Slots, SlotInv(t),
           runs'[t] = runs[t], scheduleExec'[t] = scheduleExec[t], tracked'[t] = tracked[t],
           scheduleNative'[t] = scheduleNative[t], reported'[t] = reported[t],
           Recovering(t)' => Recovering(t) /\ tick' = tick
    PROVE  SlotInv(t)'
<1>1. ThreadFirst(t)' /\ Executing(t)'
  BY DEF SlotInv, ThreadFirst, Executing
<1>2. Settled(t)'
  BY DEF SlotInv, Settled
<1>3. RecoversAlone(t)'
  BY DEF SlotInv, RecoversAlone
<1>4. OutcomeOf(t)'
  BY DEF SlotInv, OutcomeOf
<1> QED
  BY <1>1, <1>2, <1>3, <1>4 DEF SlotInv

\* A run that waits, or was claimed and not sent, is queued or blocked.
Shifts(s) ==
    /\ runs'[s].thread = runs[s].thread /\ runs'[s].due = runs[s].due
    /\ \/ runs'[s].state = runs[s].state
       \/ /\ runs'[s].state = "BLOCKED"
          /\ \/ runs[s].state \in Pending \cup {"NONE"}
             \/ runs[s].state \in {"CLAIMED", "STARTING"} /\ ~ runs[s].thread
       \/ runs'[s].state = "QUEUED" /\ runs[s].state \in Pending \cup {"NONE"}

LEMMA SlotShifts ==
    ASSUME NEW t \in Slots, SlotInv(t), Shifts(t),
           scheduleExec'[t] = scheduleExec[t], tracked'[t] = tracked[t],
           scheduleNative'[t] = scheduleNative[t], reported'[t] = reported[t], tick' = tick
    PROVE  SlotInv(t)'
<1>1. ThreadFirst(t)'
  BY DEF SlotInv, ThreadFirst, Shifts, Pending
<1>2. Executing(t)'
  BY DEF SlotInv, ThreadFirst, Executing, Shifts, Pending
<1>3. Settled(t)'
  BY DEF SlotInv, Settled, Shifts, Recovering, Pending
<1>4. RecoversAlone(t)'
  BY DEF SlotInv, RecoversAlone, Shifts, Recovering, Pending
<1>5. OutcomeOf(t)'
  BY DEF SlotInv, ThreadFirst, OutcomeOf, Shifts, Pending, ScheduleEnded
<1> QED
  BY <1>1, <1>2, <1>3, <1>4, <1>5 DEF SlotInv

\* Marking a run leaves its thread and its report.
LEMMA MarkFields ==
    ASSUME runs \in [Slots -> RunRows], NEW s \in Slots, NEW to \in ScheduleStates, Mark(s, to)
    PROVE  /\ runs' \in [Slots -> RunRows] /\ runs'[s].state = to
           /\ runs'[s].thread = runs[s].thread /\ runs'[s].due = runs[s].due
           /\ \A t \in Slots : t # s => runs'[t] = runs[t]
BY DEF Mark, RunRows

\* Of the waiting runs some are blocked.
LEMMA CoalesceFields ==
    ASSUME NEW rs \in [Slots -> RunRows]
    PROVE  /\ Coalesce(rs) \in [Slots -> RunRows]
           /\ \A s \in Slots : \/ Coalesce(rs)[s] = rs[s]
                               \/ /\ rs[s].state \in Pending /\ Coalesce(rs)[s].state = "BLOCKED"
                                  /\ Coalesce(rs)[s].thread = rs[s].thread /\ Coalesce(rs)[s].due = rs[s].due
<1>1. \A r \in RunRows : /\ [r EXCEPT !.state = "BLOCKED"] \in RunRows /\ [r EXCEPT !.state = "BLOCKED"].state = "BLOCKED"
                         /\ [r EXCEPT !.state = "BLOCKED"].thread = r.thread /\ [r EXCEPT !.state = "BLOCKED"].due = r.due
  BY DEF RunRows, ScheduleStates
<1> DEFINE W == {s \in Slots : rs[s].state \in Pending}
           l == Latest(W)
<1>2. Coalesce(rs) = [s \in Slots |-> IF s \in W /\ s # l THEN [rs[s] EXCEPT !.state = "BLOCKED"] ELSE rs[s]]
  BY DEF Coalesce
<1>3. \A s \in W : rs[s].state \in Pending
  OBVIOUS
<1> HIDE DEF W, l
<1> QED
  BY <1>1, <1>2, <1>3

\* The parts that no step of a run touches.
SchedUntouched == UNCHANGED <<clock, sched>>

\* An execution has read nothing, what it had read, or what the schedule says.
ReadsWell(s) ==
    \/ scheduleExec'[s].rev = 0
    \/ scheduleExec'[s].rev = scheduleExec[s].rev /\ scheduleExec'[s].prompt = scheduleExec[s].prompt
    \/ scheduleExec'[s].rev = sched.rev /\ scheduleExec'[s].prompt = sched.prompt

LEMMA SchedKept ==
    ASSUME ScheduleInv, SchedUntouched, \A s \in Slots : ReadsWell(s)
    PROVE  RevisionCounted' /\ PromptOfRevision' /\ clock' \in 0..MaxSlot /\ sched' \in Scheds
<1>1. clock' \in 0..MaxSlot /\ sched' \in Scheds /\ sched.rev \in Nat \ {0}
  BY ScheduleNumbers DEF ScheduleInv, ScheduleTypes, SchedUntouched, Scheds
<1>2. RevisionCounted'
  BY DEF ScheduleInv, SchedUntouched, RevisionCounted
<1>3. PromptOfRevision'
  BY <1>1 DEF ScheduleInv, PromptOfRevision, SchedUntouched, ReadsWell
<1> QED
  BY <1>1, <1>2, <1>3

RunTypes ==
    /\ runs \in [Slots -> RunRows] /\ scheduleExec \in [Slots -> Execs] /\ own \subseteq Slots
    /\ tracked \in [Slots -> Sessions] /\ live \in BOOLEAN /\ up \in BOOLEAN
    /\ scheduleCrashes \in 0..ScheduleMaxCrashes /\ tick \in Ticks
    /\ scheduleNative \in [Slots -> Natives] /\ reported \in [Slots -> {"none", "COMPLETED", "FAILED"}]

\* Nothing happens to a slot.
Same(t) ==
    /\ runs'[t] = runs[t] /\ scheduleExec'[t] = scheduleExec[t] /\ tracked'[t] = tracked[t]
    /\ scheduleNative'[t] = scheduleNative[t] /\ reported'[t] = reported[t]

\* A step of one slot's run.
LEMMA OneSlot ==
    ASSUME ScheduleInv, NEW s \in Slots, SchedUntouched, RunTypes', SlotInv(s)', NothingWhenDown',
           \A t \in Slots : t # s => Same(t) /\ (Recovering(t)' => Recovering(t) /\ tick' = tick),
           ReadsWell(s)
    PROVE  ScheduleInv'
<1>1. \A t \in Slots : SlotInv(t)'
  <2> SUFFICES ASSUME NEW t \in Slots, t # s
               PROVE  SlotInv(t)'
    OBVIOUS
  <2> QED
    BY SlotKept DEF ScheduleInv, Same
<1>2. RevisionCounted' /\ PromptOfRevision' /\ clock' \in 0..MaxSlot /\ sched' \in Scheds
  BY SchedKept DEF Same, ReadsWell
<1> QED
  BY <1>1, <1>2 DEF ScheduleInv, ScheduleTypes, RunTypes

\* An execution is there only while the process is up, and nothing else has
\* settled its run.
LEMMA AtWork ==
    ASSUME ScheduleInv, NEW s \in Slots, scheduleExec[s].pc # "idle"
    PROVE  up /\ tracked[s] = "none" /\ reported[s] = "none" /\ RunTypes /\ SlotInv(s)
BY DEF ScheduleInv, NothingWhenDown, SlotInv, Settled, ScheduleTypes, RunTypes

\* The execution leaves its run in a state.
LEMMA LeaveStep ==
    ASSUME ScheduleInv, NEW s \in Slots, NEW to \in {"QUEUED", "AUTH_REQUIRED", "BLOCKED", "UNCERTAIN"},
           ScheduleLeave(s, to), scheduleExec[s].pc # "idle",
           to \in {"QUEUED", "AUTH_REQUIRED"} => ~ runs[s].thread,
           to = "BLOCKED" => scheduleNative[s].turn = "none"
    PROVE  ScheduleInv'
<1>1. up /\ tracked[s] = "none" /\ reported[s] = "none" /\ RunTypes /\ SlotInv(s)
  BY AtWork
<1>2. SchedUntouched /\ UNCHANGED <<tracked, live, tick, scheduleNative, reported, up, scheduleCrashes>> /\ own' = own \ {s}
  BY DEF ScheduleLeave, SchedUntouched
<1>3. /\ runs' \in [Slots -> RunRows] /\ runs'[s].state = to
      /\ runs'[s].thread = runs[s].thread /\ runs'[s].due = runs[s].due
      /\ \A t \in Slots : t # s => runs'[t] = runs[t]
  BY <1>1, MarkFields DEF ScheduleLeave, RunTypes, ScheduleStates
<1>4. /\ scheduleExec' \in [Slots -> Execs] /\ scheduleExec'[s] = NoExec
      /\ \A t \in Slots : t # s => scheduleExec'[t] = scheduleExec[t]
  BY <1>1, NoExecFields DEF ScheduleLeave, RunTypes
<1>5. RunTypes' /\ NothingWhenDown'
  BY <1>1, <1>2, <1>3, <1>4 DEF RunTypes, NothingWhenDown
<1>6. ThreadFirst(s)'
  BY <1>1, <1>2, <1>3, <1>4, NoExecFields DEF SlotInv, ThreadFirst, Pending
<1>7. Executing(s)'
  BY <1>4, NoExecFields DEF Executing
<1>8. Settled(s)'
  BY <1>1, <1>2 DEF Settled
<1>9. RecoversAlone(s)'
  BY <1>1, <1>2, <1>3, <1>4, NoExecFields DEF SlotInv, RecoversAlone, Recovering
<1>10. OutcomeOf(s)'
  BY <1>1, <1>2, <1>3 DEF OutcomeOf
<1>11. SlotInv(s)'
  BY <1>6, <1>7, <1>8, <1>9, <1>10 DEF SlotInv
<1>12. \A t \in Slots : t # s => Same(t) /\ (Recovering(t)' => Recovering(t) /\ tick' = tick)
  BY <1>2, <1>3, <1>4 DEF Same, Recovering
<1> QED
  BY <1>2, <1>4, <1>5, <1>11, <1>12, NoExecFields, OneSlot DEF ReadsWell

LEMMA LeavesSteps ==
    ASSUME ScheduleInv, NEW s \in Slots,
           NotOpened(s) \/ ScheduleBusy(s) \/ PreparationFails(s) \/ ComposeFails(s) \/ StartTimesOut(s)
    PROVE  ScheduleInv'
<1>1. SlotInv(s)
  BY DEF ScheduleInv
<1>2. scheduleExec[s].pc \in {"opening", "preparing"} => ~ runs[s].thread /\ scheduleNative[s].turn = "none"
  BY <1>1 DEF SlotInv, Executing, ThreadFirst
<1>3. scheduleExec[s].pc = "composing" => scheduleNative[s].turn = "none"
  BY <1>1 DEF SlotInv, Executing
<1>4. CASE NotOpened(s)
  BY <1>2, <1>4, LeaveStep DEF NotOpened
<1>5. CASE ScheduleBusy(s)
  BY <1>2, <1>5, LeaveStep DEF ScheduleBusy, Opened
<1>6. CASE PreparationFails(s)
  BY <1>2, <1>6, LeaveStep DEF PreparationFails
<1>7. CASE ComposeFails(s)
  BY <1>3, <1>7, LeaveStep DEF ComposeFails
<1>8. CASE StartTimesOut(s)
  BY <1>8, LeaveStep DEF StartTimesOut
<1> QED
  BY <1>4, <1>5, <1>6, <1>7, <1>8

LEMMA OpenRuntimeStep ==
    ASSUME ScheduleInv, NEW s \in Slots, OpenRuntime(s)
    PROVE  ScheduleInv'
<1>1. up /\ RunTypes /\ SlotInv(s)
  BY AtWork DEF OpenRuntime
<1>2. SchedUntouched /\ UNCHANGED <<runs, scheduleExec, tracked, live, tick, scheduleNative, reported, up, scheduleCrashes>>
      /\ own' = own \cup {s}
  BY DEF OpenRuntime, SchedUntouched
<1>3. RunTypes' /\ NothingWhenDown'
  BY <1>1, <1>2 DEF RunTypes, NothingWhenDown
<1>4. \A t \in Slots : Same(t) /\ (Recovering(t)' => Recovering(t) /\ tick' = tick)
  BY <1>2 DEF Same, Recovering
<1>5. SlotInv(s)'
  BY <1>1, <1>4, SlotKept DEF Same
<1> QED
  BY <1>2, <1>3, <1>4, <1>5, OneSlot DEF ReadsWell

LEMMA StartTurnStep ==
    ASSUME ScheduleInv, NEW s \in Slots, StartTurn(s)
    PROVE  ScheduleInv'
<1>1. up /\ tracked[s] = "none" /\ reported[s] = "none" /\ RunTypes /\ SlotInv(s) /\ scheduleExec[s].pc = "opening"
  BY AtWork DEF StartTurn, Opened
<1>2. SchedUntouched /\ UNCHANGED <<own, tracked, live, tick, scheduleNative, reported, up, scheduleCrashes>>
  BY DEF StartTurn, SchedUntouched
<1>3. /\ runs' \in [Slots -> RunRows] /\ runs'[s].state = "STARTING"
      /\ runs'[s].thread = runs[s].thread /\ runs'[s].due = runs[s].due
      /\ \A t \in Slots : t # s => runs'[t] = runs[t]
  BY <1>1, MarkFields DEF StartTurn, RunTypes, ScheduleStates
<1>4. /\ scheduleExec' \in [Slots -> Execs] /\ scheduleExec'[s].pc = "preparing"
      /\ scheduleExec'[s].rev = scheduleExec[s].rev /\ scheduleExec'[s].prompt = scheduleExec[s].prompt
      /\ \A t \in Slots : t # s => scheduleExec'[t] = scheduleExec[t]
  BY <1>1 DEF StartTurn, RunTypes, Execs
<1>5. RunTypes' /\ NothingWhenDown'
  BY <1>1, <1>2, <1>3, <1>4 DEF RunTypes, NothingWhenDown
<1>6. ~ runs[s].thread /\ ~ Recovering(s)
  BY <1>1 DEF SlotInv, Executing, RecoversAlone
<1>7. ThreadFirst(s)' /\ Executing(s)'
  BY <1>1, <1>2, <1>3, <1>4, <1>6 DEF SlotInv, ThreadFirst, Executing, Pending
<1>8. Settled(s)' /\ RecoversAlone(s)' /\ OutcomeOf(s)'
  BY <1>1, <1>2, <1>3, <1>6 DEF Settled, RecoversAlone, Recovering, OutcomeOf
<1>9. SlotInv(s)'
  BY <1>7, <1>8 DEF SlotInv
<1>10. \A t \in Slots : t # s => Same(t) /\ (Recovering(t)' => Recovering(t) /\ tick' = tick)
  BY <1>2, <1>3, <1>4 DEF Same, Recovering
<1> QED
  BY <1>2, <1>4, <1>5, <1>9, <1>10, OneSlot DEF ReadsWell

\* The run is tied to its thread, and the schedule read.
LEMMA ComposeStep ==
    ASSUME ScheduleInv, NEW s \in Slots, Compose(s)
    PROVE  ScheduleInv'
<1>1. up /\ tracked[s] = "none" /\ reported[s] = "none" /\ RunTypes /\ SlotInv(s) /\ scheduleExec[s].pc = "preparing"
      /\ sched \in Scheds
  BY AtWork DEF Compose, ScheduleInv, ScheduleTypes
<1>2. SchedUntouched /\ UNCHANGED <<own, tracked, live, tick, scheduleNative, reported, up, scheduleCrashes>>
  BY DEF Compose, SchedUntouched
<1>3. PICK v \in BOOLEAN : v /\ runs' = [runs EXCEPT ![s].state = "STARTING", ![s].thread = v]
  BY Zenon DEF Compose
<1>4. /\ runs' \in [Slots -> RunRows] /\ runs'[s].state = "STARTING"
      /\ runs'[s].thread /\ runs'[s].due = runs[s].due
      /\ \A t \in Slots : t # s => runs'[t] = runs[t]
  BY <1>1, <1>3 DEF RunTypes, RunRows, ScheduleStates
<1>5. /\ scheduleExec' \in [Slots -> Execs] /\ scheduleExec'[s].pc = "composing"
      /\ scheduleExec'[s].rev = sched.rev /\ scheduleExec'[s].prompt = sched.prompt
      /\ \A t \in Slots : t # s => scheduleExec'[t] = scheduleExec[t]
  <2>1. sched.rev \in 0..ScheduleMaxRevision /\ sched.prompt \in 0..MaxEdits
    BY <1>1, ScheduleNumbers DEF Scheds
  <2> QED
    BY <1>1, <2>1, ZenonT(30) DEF Compose, RunTypes, Execs
<1>6. RunTypes' /\ NothingWhenDown'
  BY <1>1, <1>2, <1>4, <1>5 DEF RunTypes, NothingWhenDown
<1>7. ~ runs[s].thread /\ ~ Recovering(s) /\ ~ runs[s].due /\ scheduleNative[s].turn = "none"
  BY <1>1 DEF SlotInv, Executing, RecoversAlone, ThreadFirst
<1>8. ThreadFirst(s)' /\ Executing(s)'
  BY <1>1, <1>2, <1>4, <1>5, <1>7 DEF SlotInv, ThreadFirst, Executing, Pending
<1>9. Settled(s)' /\ RecoversAlone(s)' /\ OutcomeOf(s)'
  BY <1>1, <1>2, <1>4, <1>7 DEF Settled, RecoversAlone, Recovering, OutcomeOf
<1>10. SlotInv(s)'
  BY <1>8, <1>9 DEF SlotInv
<1>11. \A t \in Slots : t # s => Same(t) /\ (Recovering(t)' => Recovering(t) /\ tick' = tick)
  BY <1>2, <1>4, <1>5 DEF Same, Recovering
<1> QED
  BY <1>2, <1>5, <1>6, <1>10, <1>11, OneSlot DEF ReadsWell

\* The turn is sent, once, with the prompt the schedule has.
LEMMA DispatchStep ==
    ASSUME ScheduleInv, NEW s \in Slots, Dispatch(s)
    PROVE  ScheduleInv'
<1>1. up /\ tracked[s] = "none" /\ reported[s] = "none" /\ RunTypes /\ SlotInv(s) /\ scheduleExec[s].pc = "composing"
  BY AtWork DEF Dispatch
<1>2. SchedUntouched /\ UNCHANGED <<own, tracked, live, tick, reported, up, scheduleCrashes>>
  BY DEF Dispatch, SchedUntouched
<1>3. /\ runs[s].thread /\ scheduleNative[s].turn = "none" /\ runs[s].state = "STARTING" /\ ~ Recovering(s)
      /\ scheduleNative[s].sends = 0
  BY <1>1 DEF SlotInv, Executing, RecoversAlone, ThreadFirst, Dispatch
<1>4. PICK v \in BOOLEAN : v /\ runs' = [runs EXCEPT ![s].due = v]
  BY Zenon DEF Dispatch
<1>5. /\ runs' \in [Slots -> RunRows] /\ runs'[s].state = "STARTING"
      /\ runs'[s].thread /\ runs'[s].due
      /\ \A t \in Slots : t # s => runs'[t] = runs[t]
  BY <1>1, <1>3, <1>4 DEF RunTypes, RunRows, ScheduleStates
<1>6. sched.state = "on" /\ scheduleExec[s].prompt = sched.prompt
  BY DEF Dispatch, Changed, ScheduleInv, PromptOfRevision
<1>7. PICK c \in BOOLEAN :
        c /\ scheduleNative' = [scheduleNative EXCEPT ![s] = [turn |-> "inProgress", sends |-> @.sends + 1, current |-> c]]
  BY <1>6, Zenon DEF Dispatch
<1>8. /\ scheduleNative' \in [Slots -> Natives] /\ scheduleNative'[s].turn = "inProgress"
      /\ scheduleNative'[s].sends = 1 /\ scheduleNative'[s].current
      /\ \A t \in Slots : t # s => scheduleNative'[t] = scheduleNative[t]
  BY <1>1, <1>3, <1>7 DEF RunTypes, Natives, Turns
<1>9. /\ scheduleExec' \in [Slots -> Execs] /\ scheduleExec'[s].pc = "sent"
      /\ scheduleExec'[s].rev = scheduleExec[s].rev /\ scheduleExec'[s].prompt = scheduleExec[s].prompt
      /\ \A t \in Slots : t # s => scheduleExec'[t] = scheduleExec[t]
  BY <1>1 DEF Dispatch, RunTypes, Execs
<1>10. RunTypes' /\ NothingWhenDown'
  BY <1>1, <1>2, <1>5, <1>8, <1>9 DEF RunTypes, NothingWhenDown
<1>11. ThreadFirst(s)' /\ Executing(s)'
  BY <1>5, <1>8, <1>9 DEF ThreadFirst, Executing, Pending
<1>12. Settled(s)' /\ RecoversAlone(s)' /\ OutcomeOf(s)'
  BY <1>1, <1>2, <1>3, <1>5 DEF Settled, RecoversAlone, Recovering, OutcomeOf
<1>13. SlotInv(s)'
  BY <1>11, <1>12 DEF SlotInv
<1>14. \A t \in Slots : t # s => Same(t) /\ (Recovering(t)' => Recovering(t) /\ tick' = tick)
  BY <1>2, <1>5, <1>8, <1>9 DEF Same, Recovering
<1> QED
  BY <1>2, <1>9, <1>10, <1>13, <1>14, OneSlot DEF ReadsWell

LEMMA DispatchFailsStep ==
    ASSUME ScheduleInv, NEW s \in Slots, DispatchFails(s)
    PROVE  ScheduleInv'
<1>1. up /\ tracked[s] = "none" /\ reported[s] = "none" /\ RunTypes /\ SlotInv(s) /\ scheduleExec[s].pc = "composing"
  BY AtWork DEF DispatchFails
<1>2. SchedUntouched /\ UNCHANGED <<tracked, live, tick, scheduleNative, reported, up, scheduleCrashes>> /\ own' = own \ {s}
  BY DEF DispatchFails, SchedUntouched
<1>3. runs[s].thread
  BY <1>1 DEF SlotInv, Executing
<1>4. PICK v \in BOOLEAN : v /\ runs' = [runs EXCEPT ![s].due = v, ![s].state = "UNCERTAIN"]
  BY Zenon DEF DispatchFails
<1>5. /\ runs' \in [Slots -> RunRows] /\ runs'[s].state = "UNCERTAIN" /\ runs'[s].thread
      /\ \A t \in Slots : t # s => runs'[t] = runs[t]
  BY <1>1, <1>3, <1>4, ZenonT(30) DEF RunTypes, RunRows, ScheduleStates
<1>6. /\ scheduleExec' \in [Slots -> Execs] /\ scheduleExec'[s] = NoExec
      /\ \A t \in Slots : t # s => scheduleExec'[t] = scheduleExec[t]
  BY <1>1, NoExecFields DEF DispatchFails, RunTypes
<1>7. RunTypes' /\ NothingWhenDown'
  BY <1>1, <1>2, <1>5, <1>6 DEF RunTypes, NothingWhenDown
<1>8. ThreadFirst(s)' /\ Executing(s)'
  BY <1>1, <1>2, <1>5, <1>6, NoExecFields DEF SlotInv, ThreadFirst, Executing, Pending
<1>9. Settled(s)' /\ OutcomeOf(s)'
  BY <1>1, <1>2, <1>5 DEF Settled, OutcomeOf
<1>10. RecoversAlone(s)'
  BY <1>1, <1>2, <1>5, <1>6, NoExecFields DEF SlotInv, RecoversAlone, Recovering
<1>11. SlotInv(s)'
  BY <1>8, <1>9, <1>10 DEF SlotInv
<1>12. \A t \in Slots : t # s => Same(t) /\ (Recovering(t)' => Recovering(t) /\ tick' = tick)
  BY <1>2, <1>5, <1>6 DEF Same, Recovering
<1> QED
  BY <1>2, <1>6, <1>7, <1>11, <1>12, NoExecFields, OneSlot DEF ReadsWell

\* What a turn says of its run.
LEMMA RunStateFields ==
    ASSUME NEW turn \in Turns
    PROVE  /\ RunState(turn) \in ScheduleStates \ Pending /\ RunState(turn) \in {"COMPLETED", "FAILED", "BLOCKED", "RUNNING"}
           /\ RunState(turn) = "COMPLETED" => turn = "completed"
           /\ RunState(turn) = "FAILED" => turn = "failed"
           /\ RunState(turn) = "BLOCKED" => turn = "interrupted"
           /\ RunState(turn) = "RUNNING" => turn \in {"none", "inProgress"}
BY DEF RunState, Turns, ScheduleStates, Pending

LEMMA RunStartedStep ==
    ASSUME ScheduleInv, NEW s \in Slots, Started(s)
    PROVE  ScheduleInv'
<1> DEFINE turn == scheduleNative[s].turn
           to == RunState(turn)
<1>1. up /\ tracked[s] = "none" /\ reported[s] = "none" /\ RunTypes /\ SlotInv(s) /\ scheduleExec[s].pc = "sent"
  BY AtWork DEF Started
<1>2. SchedUntouched /\ UNCHANGED <<live, tick, scheduleNative, reported, up, scheduleCrashes>> /\ Mark(s, to)
      /\ own' \subseteq own
      /\ tracked' = [tracked EXCEPT ![s] = IF to = "RUNNING" THEN scheduleExec[s].session ELSE "none"]
  BY DEF Started, SchedUntouched
<1>3. turn \in Turns /\ turn # "none" /\ runs[s].thread /\ ~ Recovering(s) /\ scheduleExec[s].session \in Sessions
  BY <1>1 DEF SlotInv, Executing, RecoversAlone, RunTypes, Natives, Execs
<1>4. /\ to \in ScheduleStates \ Pending /\ to \in {"COMPLETED", "FAILED", "BLOCKED", "RUNNING"}
      /\ to = "COMPLETED" => turn = "completed"
      /\ to = "FAILED" => turn = "failed"
      /\ to = "BLOCKED" => turn = "interrupted"
  BY <1>3, RunStateFields
<1> HIDE DEF to
<1>5. /\ runs' \in [Slots -> RunRows] /\ runs'[s].state = to
      /\ runs'[s].thread = runs[s].thread /\ runs'[s].due = runs[s].due
      /\ \A t \in Slots : t # s => runs'[t] = runs[t]
  BY <1>1, <1>2, <1>4, MarkFields DEF RunTypes
<1>6. /\ scheduleExec' \in [Slots -> Execs] /\ scheduleExec'[s] = NoExec
      /\ \A t \in Slots : t # s => scheduleExec'[t] = scheduleExec[t]
  BY <1>1, NoExecFields DEF Started, RunTypes
<1>7. /\ tracked' \in [Slots -> Sessions] /\ (tracked'[s] # "none" => to = "RUNNING")
      /\ \A t \in Slots : t # s => tracked'[t] = tracked[t]
  BY <1>1, <1>2, <1>3 DEF RunTypes, Sessions
<1>8. RunTypes' /\ NothingWhenDown'
  BY <1>1, <1>2, <1>5, <1>6, <1>7 DEF RunTypes, NothingWhenDown
<1>9. ThreadFirst(s)' /\ Executing(s)'
  BY <1>1, <1>2, <1>3, <1>4, <1>5, <1>6, NoExecFields DEF SlotInv, ThreadFirst, Executing, Pending
<1>10. Settled(s)'
  BY <1>1, <1>2, <1>3, <1>5, <1>6, <1>7, NoExecFields DEF Settled
<1>11. RecoversAlone(s)' /\ OutcomeOf(s)'
  BY <1>1, <1>2, <1>3, <1>4, <1>5 DEF RecoversAlone, Recovering, OutcomeOf
<1>12. SlotInv(s)'
  BY <1>9, <1>10, <1>11 DEF SlotInv
<1>13. \A t \in Slots : t # s => Same(t) /\ (Recovering(t)' => Recovering(t) /\ tick' = tick)
  BY <1>2, <1>5, <1>6, <1>7 DEF Same, Recovering
<1> QED
  BY <1>2, <1>6, <1>8, <1>12, <1>13, NoExecFields, OneSlot DEF ReadsWell

\* A turn ends, and with it the run that is tracked.
LEMMA FinishStep ==
    ASSUME ScheduleInv, NEW s \in Slots, NEW turn \in {"completed", "failed", "interrupted"}, Finish(s, turn)
    PROVE  ScheduleInv'
<1>1. RunTypes /\ SlotInv(s) /\ NothingWhenDown
  BY DEF ScheduleInv, ScheduleTypes, RunTypes
<1>2. SchedUntouched /\ UNCHANGED <<scheduleExec, live, tick, reported, up, scheduleCrashes>>
      /\ scheduleNative[s].turn = "inProgress"
  BY DEF Finish, SchedUntouched
<1>3. turn \in Turns
  BY DEF Turns
<1>4. /\ scheduleNative' \in [Slots -> Natives] /\ scheduleNative'[s].turn = turn
      /\ scheduleNative'[s].sends = scheduleNative[s].sends /\ scheduleNative'[s].current = scheduleNative[s].current
      /\ \A t \in Slots : t # s => scheduleNative'[t] = scheduleNative[t]
  BY <1>1, <1>3 DEF Finish, RunTypes, Natives
<1>5. CASE tracked[s] # "none"
  <2> DEFINE to == RunState(turn)
  <2>1. /\ to \in ScheduleStates \ Pending /\ to \in {"COMPLETED", "FAILED", "BLOCKED", "RUNNING"}
        /\ to = "COMPLETED" => turn = "completed"
        /\ to = "FAILED" => turn = "failed"
        /\ to = "BLOCKED" => turn = "interrupted"
    BY <1>3, RunStateFields
  <2>2. Mark(s, to) /\ tracked' = [tracked EXCEPT ![s] = "none"] /\ own' = own \ {s}
    BY <1>5 DEF Finish
  <2> HIDE DEF to
  <2>3. /\ runs' \in [Slots -> RunRows] /\ runs'[s].state = to
        /\ runs'[s].thread = runs[s].thread /\ runs'[s].due = runs[s].due
        /\ \A t \in Slots : t # s => runs'[t] = runs[t]
    BY <1>1, <2>1, <2>2, MarkFields DEF RunTypes
  <2>4. /\ tracked' \in [Slots -> Sessions] /\ tracked'[s] = "none"
        /\ \A t \in Slots : t # s => tracked'[t] = tracked[t]
    BY <1>1, <2>2 DEF RunTypes, Sessions
  <2>5. /\ scheduleExec[s].pc = "idle" /\ runs[s].state = "RUNNING" /\ reported[s] = "none" /\ ~ Recovering(s)
    BY <1>1, <1>5 DEF SlotInv, Settled, RecoversAlone, OutcomeOf, ScheduleEnded
  <2>6. RunTypes'
    BY <1>1, <1>2, <1>4, <2>2, <2>3, <2>4 DEF RunTypes
  <2>7. NothingWhenDown'
    BY <1>1, <1>2, <2>4 DEF NothingWhenDown
  <2>8. ThreadFirst(s)' /\ Executing(s)'
    BY <1>1, <1>2, <1>4, <2>1, <2>3, <2>5 DEF SlotInv, ThreadFirst, Executing, Pending
  <2>9. Settled(s)' /\ RecoversAlone(s)' /\ OutcomeOf(s)'
    BY <1>2, <1>4, <2>1, <2>3, <2>4, <2>5 DEF Settled, RecoversAlone, Recovering, OutcomeOf
  <2>10. SlotInv(s)'
    BY <2>8, <2>9 DEF SlotInv
  <2>11. \A t \in Slots : t # s => Same(t) /\ (Recovering(t)' => Recovering(t) /\ tick' = tick)
    BY <1>2, <1>4, <2>3, <2>4 DEF Same, Recovering
  <2> QED
    BY <1>2, <2>6, <2>7, <2>10, <2>11, OneSlot DEF ReadsWell
<1>6. CASE tracked[s] = "none"
  <2>1. UNCHANGED <<runs, tracked, own>>
    BY <1>6 DEF Finish
  <2>2. RunTypes' /\ NothingWhenDown'
    BY <1>1, <1>2, <1>4, <2>1 DEF RunTypes, NothingWhenDown
  <2>3. ThreadFirst(s)'
    BY <1>1, <1>2, <1>4, <2>1 DEF SlotInv, ThreadFirst
  <2>4. Executing(s)'
    BY <1>1, <1>2, <1>4, <2>1 DEF SlotInv, Executing
  <2>5. Settled(s)'
    BY <1>1, <1>2, <1>4, <2>1 DEF SlotInv, Settled, Recovering
  <2>6. RecoversAlone(s)'
    BY <1>1, <1>2, <1>4, <2>1 DEF SlotInv, RecoversAlone, Recovering
  <2>7. OutcomeOf(s)'
    BY <1>1, <1>2, <1>4, <2>1 DEF SlotInv, OutcomeOf
  <2>8. SlotInv(s)'
    BY <2>3, <2>4, <2>5, <2>6, <2>7 DEF SlotInv
  <2>9. \A t \in Slots : t # s => Same(t) /\ (Recovering(t)' => Recovering(t) /\ tick' = tick)
    BY <1>2, <1>4, <2>1 DEF Same, Recovering
  <2> QED
    BY <1>2, <2>2, <2>8, <2>9, OneSlot DEF ReadsWell
<1> QED
  BY <1>5, <1>6

\* The runtime of a run exits: what was sent, or ran, is uncertain.
LEMMA OwnExitsStep ==
    ASSUME ScheduleInv, NEW s \in Slots, OwnExits(s)
    PROVE  ScheduleInv'
<1>1. RunTypes /\ SlotInv(s) /\ NothingWhenDown /\ ~ Recovering(s)
  BY DEF ScheduleInv, ScheduleTypes, RunTypes, OwnExits, Recovering
<1>2. SchedUntouched /\ UNCHANGED <<live, tick, scheduleNative, reported, up, scheduleCrashes>> /\ own' = own \ {s}
  BY DEF OwnExits, SchedUntouched
<1>3. /\ runs' \in [Slots -> RunRows]
      /\ runs'[s].state = IF runs[s].state \in {"STARTING", "RUNNING"} THEN "UNCERTAIN" ELSE runs[s].state
      /\ runs'[s].thread = runs[s].thread /\ runs'[s].due = runs[s].due
      /\ \A t \in Slots : t # s => runs'[t] = runs[t]
  BY <1>1 DEF OwnExits, RunTypes, RunRows, ScheduleStates
<1>4. /\ tracked' \in [Slots -> Sessions] /\ tracked'[s] = "none"
      /\ \A t \in Slots : t # s => tracked'[t] = tracked[t]
  BY <1>1 DEF OwnExits, RunTypes, Sessions
<1>5. /\ scheduleExec' \in [Slots -> Execs]
      /\ (scheduleExec'[s].pc = "idle" /\ scheduleExec'[s].rev = 0)
         \/ (/\ scheduleExec[s].pc # "sent" /\ scheduleExec'[s].pc = scheduleExec[s].pc
             /\ scheduleExec[s].pc # "idle" => scheduleExec'[s].lost
             /\ scheduleExec'[s].rev = scheduleExec[s].rev
             /\ scheduleExec'[s].prompt = scheduleExec[s].prompt)
      /\ \A t \in Slots : t # s => scheduleExec'[t] = scheduleExec[t]
  <2>1. CASE scheduleExec[s].pc = "sent"
    <3>1. scheduleExec' = [scheduleExec EXCEPT ![s] = NoExec]
      BY <1>1, <2>1 DEF OwnExits, RunTypes
    <3> QED
      BY <1>1, <3>1, NoExecFields DEF RunTypes
  <2>2. CASE scheduleExec[s].pc # "sent"
    <3> DEFINE lost == scheduleExec[s].lost \/ scheduleExec[s].pc # "idle"
    <3>1. scheduleExec' = [scheduleExec EXCEPT ![s] = [scheduleExec[s] EXCEPT !.lost = lost]]
      <4> DEFINE x == IF scheduleExec[s].pc = "sent" THEN NoExec ELSE [scheduleExec[s] EXCEPT !.lost = lost]
      <4>1. scheduleExec' = [scheduleExec EXCEPT ![s] = x]
        BY Zenon DEF OwnExits
      <4>2. x = [scheduleExec[s] EXCEPT !.lost = lost]
        BY <2>2, Zenon
      <4> HIDE DEF x
      <4> QED
        BY <4>1, <4>2, Zenon
    <3>2. lost \in BOOLEAN /\ (scheduleExec[s].pc # "idle" => lost)
      OBVIOUS
    <3> HIDE DEF lost
    <3>3. PICK v \in BOOLEAN : (scheduleExec[s].pc # "idle" => v) /\ scheduleExec' = [scheduleExec EXCEPT ![s] = [scheduleExec[s] EXCEPT !.lost = v]]
      BY <3>1, <3>2, Zenon
    <3> QED
      BY <1>1, <2>2, <3>3 DEF RunTypes, Execs
  <2> QED
    BY <2>1, <2>2
<1>6. RunTypes'
  BY <1>1, <1>2, <1>3, <1>4, <1>5 DEF RunTypes
<1>7. NothingWhenDown'
  BY <1>1, <1>2, <1>4, <1>5, NoExecFields DEF NothingWhenDown
<1>8. ThreadFirst(s)'
  BY <1>1, <1>2, <1>3, <1>5, NoExecFields DEF SlotInv, ThreadFirst, Pending
<1>9. Executing(s)'
  BY <1>1, <1>2, <1>3, <1>5, NoExecFields DEF SlotInv, Executing
<1>10. Settled(s)'
  BY <1>1, <1>2, <1>3, <1>4, <1>5, NoExecFields DEF SlotInv, Settled, Recovering
<1>11. RecoversAlone(s)' /\ OutcomeOf(s)'
  BY <1>1, <1>2, <1>3 DEF SlotInv, RecoversAlone, Recovering, OutcomeOf, ScheduleEnded
<1>12. SlotInv(s)'
  BY <1>8, <1>9, <1>10, <1>11 DEF SlotInv
<1>13. \A t \in Slots : t # s => Same(t) /\ (Recovering(t)' => Recovering(t) /\ tick' = tick)
  BY <1>2, <1>3, <1>4, <1>5 DEF Same, Recovering
<1> QED
  BY <1>2, <1>5, <1>6, <1>7, <1>12, <1>13, NoExecFields, OneSlot DEF ReadsWell

\* A step of any number of runs.
LEMMA ManySlots ==
    ASSUME ScheduleInv, SchedUntouched, RunTypes', NothingWhenDown', \A t \in Slots : ReadsWell(t) /\ SlotInv(t)'
    PROVE  ScheduleInv'
<1>1. RevisionCounted' /\ PromptOfRevision' /\ clock' \in 0..MaxSlot /\ sched' \in Scheds
  BY SchedKept
<1> QED
  BY <1>1 DEF ScheduleInv, ScheduleTypes, RunTypes

\* The owner's session ends, with every run that was given to it.
LEMMA LiveExitsStep ==
    ASSUME ScheduleInv, LiveExits
    PROVE  ScheduleInv'
<1>1. RunTypes /\ NothingWhenDown
  BY DEF ScheduleInv, ScheduleTypes, RunTypes
<1>2. SchedUntouched /\ UNCHANGED <<own, tick, scheduleNative, reported, up, scheduleCrashes>> /\ live' \in BOOLEAN
  BY DEF LiveExits, SchedUntouched
<1>3. /\ tracked' \in [Slots -> Sessions]
      /\ \A t \in Slots : tracked'[t] = IF tracked[t] = "live" THEN "none" ELSE tracked[t]
  BY <1>1 DEF LiveExits, RunTypes, Sessions
<1>4. /\ runs' \in [Slots -> RunRows]
      /\ \A t \in Slots : /\ runs'[t].thread = runs[t].thread /\ runs'[t].due = runs[t].due
                          /\ runs'[t].state = IF Lost(t, "live") THEN "UNCERTAIN" ELSE runs[t].state
  <2>1. \A r \in RunRows : /\ [r EXCEPT !.state = "UNCERTAIN"] \in RunRows
                           /\ [r EXCEPT !.state = "UNCERTAIN"].state = "UNCERTAIN"
                           /\ [r EXCEPT !.state = "UNCERTAIN"].thread = r.thread
                           /\ [r EXCEPT !.state = "UNCERTAIN"].due = r.due
    BY DEF RunRows, ScheduleStates
  <2>2. runs' = [t \in Slots |-> IF Lost(t, "live") THEN [runs[t] EXCEPT !.state = "UNCERTAIN"] ELSE runs[t]]
    BY DEF LiveExits
  <2> QED
    BY <1>1, <2>1, <2>2 DEF RunTypes
<1>5. /\ scheduleExec' \in [Slots -> Execs]
      /\ \A t \in Slots :
           \/ scheduleExec[t].session # "live" /\ scheduleExec'[t] = scheduleExec[t]
           \/ scheduleExec[t].session = "live" /\ scheduleExec[t].pc = "sent" /\ scheduleExec'[t].pc = "idle" /\ scheduleExec'[t].rev = 0
           \/ /\ scheduleExec[t].session = "live" /\ scheduleExec[t].pc # "sent" /\ scheduleExec'[t].pc = scheduleExec[t].pc
              /\ scheduleExec'[t].lost
              /\ scheduleExec'[t].rev = scheduleExec[t].rev /\ scheduleExec'[t].prompt = scheduleExec[t].prompt
  <2>1. PICK v \in BOOLEAN :
          v /\ scheduleExec' = [t \in Slots |-> IF scheduleExec[t].session # "live" THEN scheduleExec[t]
                                               ELSE IF scheduleExec[t].pc = "sent" THEN NoExec
                                               ELSE [scheduleExec[t] EXCEPT !.lost = v]]
    BY Zenon DEF LiveExits
  <2>2. \A x \in Execs : /\ [x EXCEPT !.lost = v] \in Execs /\ [x EXCEPT !.lost = v].pc = x.pc
                         /\ [x EXCEPT !.lost = v].lost = v
                         /\ [x EXCEPT !.lost = v].rev = x.rev /\ [x EXCEPT !.lost = v].prompt = x.prompt
    BY DEF Execs
  <2> QED
    BY <1>1, <2>1, <2>2, NoExecFields DEF RunTypes
<1>6. RunTypes'
  BY <1>1, <1>2, <1>3, <1>4, <1>5 DEF RunTypes
<1>7. NothingWhenDown'
  BY <1>1, <1>2, <1>3, <1>5 DEF NothingWhenDown
<1>8. ASSUME NEW t \in Slots
      PROVE  ReadsWell(t) /\ SlotInv(t)'
  <2>1. SlotInv(t) /\ tracked[t] \in Sessions
    BY <1>1 DEF ScheduleInv, RunTypes
  <2>2. ReadsWell(t)
    BY <1>5 DEF ReadsWell
  <2>3. CASE Lost(t, "live")
    <3>1. /\ runs'[t].state = "UNCERTAIN" /\ tracked'[t] = "none" /\ scheduleExec'[t].pc = "idle"
          /\ reported[t] = "none" /\ ~ Recovering(t)
      BY <1>3, <1>4, <1>5, <2>1, <2>3 DEF SlotInv, Settled, Executing, RecoversAlone, OutcomeOf, Lost, ScheduleEnded
    <3>2. ThreadFirst(t)' /\ Executing(t)'
      BY <1>2, <1>4, <2>1, <3>1 DEF SlotInv, ThreadFirst, Executing, Pending
    <3>3. Settled(t)' /\ RecoversAlone(t)' /\ OutcomeOf(t)'
      BY <1>2, <3>1 DEF Settled, RecoversAlone, Recovering, OutcomeOf
    <3> QED
      BY <2>2, <3>2, <3>3 DEF SlotInv
  <2>4. CASE ~ Lost(t, "live")
    <3>1. /\ runs'[t].state = runs[t].state /\ runs'[t].thread = runs[t].thread /\ runs'[t].due = runs[t].due
          /\ tracked'[t] = tracked[t] /\ scheduleExec'[t].pc = scheduleExec[t].pc
          /\ scheduleExec[t].lost => scheduleExec'[t].lost
      BY <1>3, <1>4, <1>5, <2>4 DEF Lost
    <3>2. ThreadFirst(t)'
      BY <1>2, <2>1, <3>1 DEF SlotInv, ThreadFirst
    <3>3. Executing(t)'
      BY <1>2, <2>1, <3>1 DEF SlotInv, Executing
    <3>4. Settled(t)' /\ OutcomeOf(t)'
      BY <1>2, <2>1, <3>1 DEF SlotInv, Settled, Recovering, OutcomeOf
    <3>5. RecoversAlone(t)'
      BY <1>2, <2>1, <3>1 DEF SlotInv, RecoversAlone, Recovering
    <3> QED
      BY <2>2, <3>2, <3>3, <3>4, <3>5 DEF SlotInv
  <2> QED
    BY <2>3, <2>4
<1> QED
  BY <1>2, <1>6, <1>7, <1>8, ManySlots

\* A recovery begins with an uncertain run.
LEMMA BeginRecoverStep ==
    ASSUME ScheduleInv, NEW s \in Slots, BeginRecover(s)
    PROVE  ScheduleInv'
<1>1. RunTypes /\ SlotInv(s) /\ up /\ tick = NoTick /\ runs[s].state = "UNCERTAIN"
  BY DEF ScheduleInv, ScheduleTypes, RunTypes, BeginRecover, Ticking
<1>2. SchedUntouched /\ UNCHANGED <<scheduleExec, tracked, live, scheduleNative, reported, up, scheduleCrashes>>
  BY DEF BeginRecover, SchedUntouched
<1>3. NothingWhenDown'
  BY <1>1, <1>2 DEF NothingWhenDown
<1>4. reported[s] = "none" /\ tracked[s] = "none" /\ scheduleExec[s].pc # "sent" /\ ~ Recovering(s)
  BY <1>1, NoTickFields DEF SlotInv, Settled, Executing, OutcomeOf, ScheduleEnded, Recovering
<1>5. CASE runs[s].thread
  <2>1. /\ tick' = [at |-> "recover", slot |-> s, seen |-> "unread", session |-> IF live THEN "live" ELSE "own"]
        /\ own' \subseteq own \cup {s} /\ runs' = runs
    BY <1>5 DEF BeginRecover
  <2>2. tick' \in Ticks /\ tick'.at = "recover" /\ tick'.slot = s /\ tick'.seen = "unread"
    BY <2>1, ScheduleNumbers DEF Ticks, Sessions
  <2>3. RunTypes'
    BY <1>1, <1>2, <2>1, <2>2 DEF RunTypes
  <2>4. ThreadFirst(s)' /\ Executing(s)'
    BY <1>1, <1>2, <2>1 DEF SlotInv, ThreadFirst, Executing
  <2>5. Settled(s)' /\ OutcomeOf(s)'
    BY <1>1, <1>2, <1>4, <2>1 DEF SlotInv, Settled, OutcomeOf
  <2>6. RecoversAlone(s)'
    <3>1. scheduleExec[s].pc = "idle" \/ (scheduleExec[s].pc = "composing" /\ scheduleExec[s].lost)
      <4>1. scheduleExec[s].pc \notin {"opening", "preparing", "sent"}
        BY <1>1, <1>4, <1>5 DEF SlotInv, Executing
      <4>2. scheduleExec[s].pc \in {"idle", "composing"}
        BY <1>1, <4>1 DEF RunTypes, Execs
      <4>3. scheduleExec[s].pc = "composing" => scheduleExec[s].lost
        BY <1>1 DEF SlotInv, Executing
      <4> QED
        BY <4>2, <4>3
    <3> QED
      BY <1>1, <1>2, <1>4, <1>5, <2>1, <2>2, <3>1 DEF RecoversAlone
  <2>7. SlotInv(s)'
    BY <2>4, <2>5, <2>6 DEF SlotInv
  <2>8. \A t \in Slots : t # s => Same(t) /\ (Recovering(t)' => Recovering(t) /\ tick' = tick)
    BY <1>2, <2>1, <2>2 DEF Same, Recovering
  <2> QED
    BY <1>2, <1>3, <2>3, <2>7, <2>8, OneSlot DEF ReadsWell
<1>6. CASE ~ runs[s].thread
  <2>1. Mark(s, "BLOCKED") /\ tick' = tick /\ own' = own
    BY <1>6 DEF BeginRecover
  <2>2. /\ runs' \in [Slots -> RunRows] /\ runs'[s].state = "BLOCKED"
        /\ runs'[s].thread = runs[s].thread /\ runs'[s].due = runs[s].due
        /\ \A t \in Slots : t # s => runs'[t] = runs[t]
    BY <1>1, <2>1, MarkFields DEF RunTypes, ScheduleStates
  <2>3. RunTypes'
    BY <1>1, <1>2, <2>1, <2>2 DEF RunTypes
  <2>4. ThreadFirst(s)' /\ Executing(s)'
    BY <1>1, <1>2, <1>6, <2>2 DEF SlotInv, ThreadFirst, Executing, Pending
  <2>5. Settled(s)' /\ OutcomeOf(s)' /\ RecoversAlone(s)'
    BY <1>1, <1>2, <1>4, <1>6, <2>1, <2>2 DEF SlotInv, ThreadFirst, Settled, OutcomeOf, RecoversAlone, Recovering
  <2>6. SlotInv(s)'
    BY <2>4, <2>5 DEF SlotInv
  <2>7. \A t \in Slots : t # s => Same(t) /\ (Recovering(t)' => Recovering(t) /\ tick' = tick)
    BY <1>2, <2>1, <2>2 DEF Same, Recovering
  <2> QED
    BY <1>2, <1>3, <2>3, <2>6, <2>7, OneSlot DEF ReadsWell
<1> QED
  BY <1>5, <1>6

\* While a run is recovered the process is up.
LEMMA RecoveringUp ==
    ASSUME ScheduleInv, NEW s \in Slots, Recovering(s)
    PROVE  /\ up /\ RunTypes /\ SlotInv(s) /\ runs[s].thread /\ tracked[s] = "none" /\ reported[s] = "none"
           /\ scheduleExec[s].pc = "idle" \/ (scheduleExec[s].pc = "composing" /\ scheduleExec[s].lost)
           /\ tick.seen \in {"unread", scheduleNative[s].turn}
              \/ (tick.seen = "inProgress" /\ scheduleNative[s].turn # "none")
<1>1. up /\ RunTypes /\ SlotInv(s)
  BY DEF ScheduleInv, ScheduleTypes, RunTypes, NothingWhenDown, Recovering
<1> QED
  BY <1>1 DEF SlotInv, RecoversAlone, Settled

LEMMA RecoverFailsStep ==
    ASSUME ScheduleInv, NEW s \in Slots, RecoverFails(s)
    PROVE  ScheduleInv'
<1>1. /\ up /\ RunTypes /\ SlotInv(s) /\ runs[s].thread /\ tracked[s] = "none" /\ reported[s] = "none"
      /\ scheduleExec[s].pc = "idle" \/ (scheduleExec[s].pc = "composing" /\ scheduleExec[s].lost)
  BY RecoveringUp DEF RecoverFails
<1>2. SchedUntouched /\ UNCHANGED <<scheduleExec, tracked, live, scheduleNative, reported, up, scheduleCrashes>>
      /\ own' \subseteq own /\ tick' = NoTick /\ Mark(s, "UNCERTAIN")
  BY DEF RecoverFails, SchedUntouched
<1>3. /\ runs' \in [Slots -> RunRows] /\ runs'[s].state = "UNCERTAIN"
      /\ runs'[s].thread = runs[s].thread /\ runs'[s].due = runs[s].due
      /\ \A t \in Slots : t # s => runs'[t] = runs[t]
  BY <1>1, <1>2, MarkFields DEF RunTypes, ScheduleStates
<1>4. RunTypes' /\ NothingWhenDown'
  BY <1>1, <1>2, <1>3, NoTickFields DEF RunTypes, NothingWhenDown
<1>5. \A t \in Slots : ~ Recovering(t)'
  BY <1>2, NoTickFields DEF Recovering
<1>6. ThreadFirst(s)' /\ Executing(s)'
  BY <1>1, <1>2, <1>3 DEF SlotInv, ThreadFirst, Executing, Pending
<1>7. Settled(s)' /\ RecoversAlone(s)' /\ OutcomeOf(s)'
  BY <1>1, <1>2, <1>3, <1>5 DEF Settled, RecoversAlone, OutcomeOf
<1>8. SlotInv(s)'
  BY <1>6, <1>7 DEF SlotInv
<1>9. \A t \in Slots : t # s => Same(t) /\ (Recovering(t)' => Recovering(t) /\ tick' = tick)
  BY <1>2, <1>3, <1>5 DEF Same
<1> QED
  BY <1>2, <1>4, <1>8, <1>9, OneSlot DEF ReadsWell

LEMMA ReadHistoryStep ==
    ASSUME ScheduleInv, NEW s \in Slots, ReadHistory(s)
    PROVE  ScheduleInv'
<1>1. up /\ RunTypes /\ SlotInv(s) /\ reported[s] = "none" /\ Recovering(s)
  BY RecoveringUp DEF ReadHistory
<1>2. SchedUntouched /\ UNCHANGED <<runs, scheduleExec, own, tracked, live, scheduleNative, reported, up, scheduleCrashes>>
      /\ tick' = [tick EXCEPT !.seen = scheduleNative[s].turn]
  BY DEF ReadHistory, SchedUntouched
<1>3. tick' \in Ticks /\ tick'.at = "recover" /\ tick'.slot = s /\ tick'.seen = scheduleNative[s].turn
  BY <1>1, <1>2 DEF RunTypes, Ticks, Natives, Recovering
<1>4. RunTypes' /\ NothingWhenDown'
  BY <1>1, <1>2, <1>3 DEF RunTypes, NothingWhenDown
<1>5. ThreadFirst(s)' /\ Executing(s)'
  BY <1>1, <1>2 DEF SlotInv, ThreadFirst, Executing
<1>6. Settled(s)' /\ OutcomeOf(s)'
  BY <1>1, <1>2 DEF SlotInv, Settled, OutcomeOf
<1>7. RecoversAlone(s)'
  BY <1>1, <1>2, <1>3 DEF SlotInv, RecoversAlone
<1>8. SlotInv(s)'
  BY <1>5, <1>6, <1>7 DEF SlotInv
<1>9. \A t \in Slots : t # s => Same(t) /\ (Recovering(t)' => Recovering(t) /\ tick' = tick)
  BY <1>2, <1>3 DEF Same, Recovering
<1> QED
  BY <1>2, <1>4, <1>8, <1>9, OneSlot DEF ReadsWell

\* What was found is what became of the turn.
LEMMA EndRecoverStep ==
    ASSUME ScheduleInv, NEW s \in Slots, EndRecover(s)
    PROVE  ScheduleInv'
<1> DEFINE turn == Found(s)
           n == scheduleNative[s].turn
           to == IF turn = "none" THEN "BLOCKED"
                 ELSE IF turn = "inProgress" /\ tick.session = "own" THEN "UNCERTAIN"
                 ELSE RunState(turn)
<1>1. /\ up /\ RunTypes /\ SlotInv(s) /\ runs[s].thread /\ tracked[s] = "none" /\ reported[s] = "none"
      /\ scheduleExec[s].pc = "idle" \/ (scheduleExec[s].pc = "composing" /\ scheduleExec[s].lost)
      /\ tick.seen \in {"unread", n} \/ (tick.seen = "inProgress" /\ n # "none")
      /\ tick.seen # "unread" /\ n \in Turns
  BY RecoveringUp DEF EndRecover, RunTypes, Natives
<1>2. SchedUntouched /\ UNCHANGED <<scheduleExec, live, scheduleNative, reported, up, scheduleCrashes>>
      /\ own' \subseteq own /\ tick' = NoTick /\ Mark(s, to)
      /\ tracked' = [tracked EXCEPT ![s] = IF to = "RUNNING" THEN "live" ELSE @]
  BY DEF EndRecover, SchedUntouched
<1>3. turn = n \/ (turn = "inProgress" /\ n # "none")
  BY <1>1 DEF Found
<1> HIDE DEF turn, n
<1>4. turn \in Turns
  BY <1>1, <1>3 DEF Turns
<1>5. /\ to \in ScheduleStates \ Pending /\ to \in {"COMPLETED", "FAILED", "BLOCKED", "RUNNING", "UNCERTAIN"}
      /\ to = "COMPLETED" => n = "completed"
      /\ to = "FAILED" => n = "failed"
      /\ to = "BLOCKED" => n \in {"none", "interrupted"}
      /\ to = "RUNNING" => n # "none"
  BY <1>3, <1>4, RunStateFields DEF ScheduleStates, Pending
<1> HIDE DEF to
<1>6. /\ runs' \in [Slots -> RunRows] /\ runs'[s].state = to
      /\ runs'[s].thread = runs[s].thread /\ runs'[s].due = runs[s].due
      /\ \A t \in Slots : t # s => runs'[t] = runs[t]
  BY <1>1, <1>2, <1>5, MarkFields DEF RunTypes
<1>7. /\ tracked' \in [Slots -> Sessions] /\ (tracked'[s] # "none" => to = "RUNNING")
      /\ \A t \in Slots : t # s => tracked'[t] = tracked[t]
  BY <1>1, <1>2 DEF RunTypes, Sessions
<1>8. RunTypes' /\ NothingWhenDown'
  BY <1>1, <1>2, <1>6, <1>7, NoTickFields DEF RunTypes, NothingWhenDown
<1>9. \A t \in Slots : ~ Recovering(t)'
  BY <1>2, NoTickFields DEF Recovering
<1>10. ThreadFirst(s)'
  BY <1>1, <1>2, <1>5, <1>6 DEF SlotInv, ThreadFirst, Pending
<1>11. Executing(s)'
  BY <1>1, <1>2, <1>6 DEF SlotInv, Executing
<1>12. to = "RUNNING" => scheduleExec[s].pc = "idle"
  BY <1>1, <1>5 DEF SlotInv, Executing, n
<1>13. Settled(s)'
  BY <1>1, <1>2, <1>5, <1>6, <1>7, <1>9, <1>12 DEF Settled, n
<1>14. OutcomeOf(s)' /\ RecoversAlone(s)'
  BY <1>1, <1>2, <1>5, <1>6, <1>9 DEF OutcomeOf, RecoversAlone, n
<1>15. SlotInv(s)'
  BY <1>10, <1>11, <1>13, <1>14 DEF SlotInv
<1>16. \A t \in Slots : t # s => Same(t) /\ (Recovering(t)' => Recovering(t) /\ tick' = tick)
  BY <1>2, <1>6, <1>7, <1>9 DEF Same
<1> QED
  BY <1>2, <1>8, <1>15, <1>16, OneSlot DEF ReadsWell

LEMMA BeginReportStep ==
    ASSUME ScheduleInv, NEW s \in Slots, BeginReport(s)
    PROVE  ScheduleInv'
<1>1. up /\ RunTypes /\ SlotInv(s) /\ runs[s].state \in ScheduleEnded /\ runs[s].due
  BY DEF ScheduleInv, ScheduleTypes, RunTypes, BeginReport, Ticking
<1>2. SchedUntouched /\ UNCHANGED <<runs, scheduleExec, own, tracked, live, scheduleNative, up, scheduleCrashes>>
  BY DEF BeginReport, SchedUntouched
<1>3. tick' \in Ticks /\ tick'.at = "report"
  <2>1. tick' = [NoTick EXCEPT !.at = "report", !.slot = s]
    BY DEF BeginReport
  <2>2. tick' = [at |-> "report", slot |-> s, session |-> "none", seen |-> "unread"]
    BY <2>1 DEF NoTick
  <2>3. s \in 0..MaxSlot
    BY ScheduleNumbers
  <2> QED
    BY <2>2, <2>3 DEF Ticks, Sessions
<1>4. /\ reported' \in [Slots -> {"none", "COMPLETED", "FAILED"}] /\ reported'[s] = ScheduleOutcome(runs[s].state)
      /\ \A t \in Slots : t # s => reported'[t] = reported[t]
  BY <1>1 DEF BeginReport, RunTypes, ScheduleOutcome
<1>5. RunTypes' /\ NothingWhenDown'
  BY <1>1, <1>2, <1>3, <1>4 DEF RunTypes, NothingWhenDown
<1>6. \A t \in Slots : ~ Recovering(t)'
  BY <1>3 DEF Recovering
<1>7. runs[s].thread /\ scheduleExec[s].pc = "idle"
  <2>1. runs[s].thread
    BY <1>1 DEF SlotInv, ThreadFirst
  <2>2. scheduleExec[s].pc \notin {"opening", "preparing", "composing", "sent"}
    BY <1>1, <2>1 DEF SlotInv, Executing, ScheduleEnded
  <2> QED
    BY <1>1, <2>1, <2>2 DEF RunTypes, Execs
<1>8. ThreadFirst(s)' /\ Executing(s)'
  BY <1>1, <1>2 DEF SlotInv, ThreadFirst, Executing
<1>9. Settled(s)'
  BY <1>1, <1>2, <1>6, <1>7 DEF SlotInv, Settled
<1>10. RecoversAlone(s)' /\ OutcomeOf(s)'
  BY <1>1, <1>2, <1>4, <1>6 DEF SlotInv, RecoversAlone, OutcomeOf
<1>11. SlotInv(s)'
  BY <1>8, <1>9, <1>10 DEF SlotInv
<1>12. \A t \in Slots : t # s => Same(t) /\ (Recovering(t)' => Recovering(t) /\ tick' = tick)
  BY <1>2, <1>4, <1>6 DEF Same
<1> QED
  BY <1>2, <1>5, <1>11, <1>12, OneSlot DEF ReadsWell

LEMMA EndReportStep ==
    ASSUME ScheduleInv, NEW s \in Slots, NEW taken \in BOOLEAN, EndReport(s, taken)
    PROVE  ScheduleInv'
<1>1. RunTypes /\ SlotInv(s) /\ NothingWhenDown
  BY DEF ScheduleInv, ScheduleTypes, RunTypes
<1>2. SchedUntouched /\ UNCHANGED <<scheduleExec, own, tracked, live, scheduleNative, reported, up, scheduleCrashes>> /\ tick' = NoTick
  BY DEF EndReport, SchedUntouched
<1>3. /\ runs' \in [Slots -> RunRows] /\ runs'[s].state = runs[s].state
      /\ runs'[s].thread = runs[s].thread /\ (runs'[s].due => runs[s].due)
      /\ \A t \in Slots : t # s => runs'[t] = runs[t]
  <2>1. CASE taken
    <3>1. PICK v \in BOOLEAN : ~ v /\ runs' = [runs EXCEPT ![s].due = v]
      BY <2>1, Zenon DEF EndReport
    <3> QED
      BY <1>1, <3>1 DEF RunTypes, RunRows
  <2>2. CASE ~ taken
    BY <1>1, <2>2 DEF EndReport, RunTypes
  <2> QED
    BY <2>1, <2>2
<1>4. RunTypes' /\ NothingWhenDown'
  BY <1>1, <1>2, <1>3, NoTickFields DEF RunTypes, NothingWhenDown
<1>5. \A t \in Slots : ~ Recovering(t)'
  BY <1>2, NoTickFields DEF Recovering
<1>6. ThreadFirst(s)' /\ Executing(s)'
  BY <1>1, <1>2, <1>3 DEF SlotInv, ThreadFirst, Executing
<1>7. Settled(s)' /\ RecoversAlone(s)' /\ OutcomeOf(s)'
  BY <1>1, <1>2, <1>3, <1>5 DEF SlotInv, Settled, RecoversAlone, OutcomeOf
<1>8. SlotInv(s)'
  BY <1>6, <1>7 DEF SlotInv
<1>9. \A t \in Slots : t # s => Same(t) /\ (Recovering(t)' => Recovering(t) /\ tick' = tick)
  BY <1>2, <1>3, <1>5 DEF Same
<1> QED
  BY <1>2, <1>4, <1>8, <1>9, OneSlot DEF ReadsWell

\* The process ends; of the runs some are left uncertain or blocked.
LEMMA DownStep ==
    ASSUME ScheduleInv, Down, scheduleCrashes < ScheduleMaxCrashes, runs' \in [Slots -> RunRows],
           \A t \in Slots : /\ runs'[t].thread = runs[t].thread /\ runs'[t].due = runs[t].due
                            /\ \/ runs'[t].state = runs[t].state
                               \/ /\ runs[t].state \in {"STARTING", "RUNNING"}
                                  /\ \/ runs'[t].state = "UNCERTAIN"
                                     \/ runs'[t].state = "BLOCKED" /\ scheduleNative[t].turn = "none"
    PROVE  ScheduleInv'
<1>1. RunTypes
  BY DEF ScheduleInv, ScheduleTypes, RunTypes
<1>2. SchedUntouched /\ UNCHANGED <<scheduleNative, reported>> /\ own' = {} /\ tick' = NoTick
      /\ live' \in BOOLEAN /\ up' \in BOOLEAN
  BY DEF Down, SchedUntouched
<1>3. scheduleExec' = [t \in Slots |-> NoExec] /\ tracked' = [t \in Slots |-> "none"]
  BY DEF Down
<1>4. scheduleExec' \in [Slots -> Execs] /\ \A t \in Slots : scheduleExec'[t].pc = "idle" /\ scheduleExec'[t].rev = 0
  BY <1>3, NoExecFields
<1>5. tracked' \in [Slots -> Sessions] /\ \A t \in Slots : tracked'[t] = "none"
  BY <1>3 DEF Sessions
<1>6. scheduleCrashes' \in 0..ScheduleMaxCrashes
  BY <1>1, ScheduleNumbers DEF Down, RunTypes
<1>7. RunTypes'
  BY <1>1, <1>2, <1>4, <1>5, <1>6, NoTickFields DEF RunTypes
<1>8. NothingWhenDown'
  BY <1>2, <1>4, <1>5, NoTickFields DEF NothingWhenDown
<1>9. \A t \in Slots : ~ Recovering(t)'
  BY <1>2, NoTickFields DEF Recovering
<1>10. ASSUME NEW t \in Slots
       PROVE  ReadsWell(t) /\ SlotInv(t)'
  <2>1. SlotInv(t)
    BY DEF ScheduleInv
  <2>2. ReadsWell(t)
    BY <1>4 DEF ReadsWell
  <2>3. ThreadFirst(t)' /\ Executing(t)'
    BY <1>2, <1>4, <2>1 DEF SlotInv, ThreadFirst, Executing, Pending
  <2>4. Settled(t)' /\ RecoversAlone(t)'
    BY <1>2, <1>4, <1>5, <1>9, <2>1 DEF SlotInv, Settled, RecoversAlone
  <2>5. OutcomeOf(t)'
    BY <1>2, <2>1 DEF SlotInv, OutcomeOf, ScheduleEnded
  <2> QED
    BY <2>2, <2>3, <2>4, <2>5 DEF SlotInv
<1> QED
  BY <1>2, <1>7, <1>8, <1>10, ManySlots

LEMMA ScheduleCrashStep ==
    ASSUME ScheduleInv, ScheduleCrash
    PROVE  ScheduleInv'
<1>1. Down /\ scheduleCrashes < ScheduleMaxCrashes /\ runs' = runs /\ runs \in [Slots -> RunRows]
  BY DEF ScheduleCrash, ScheduleInv, ScheduleTypes
<1> QED
  BY <1>1, DownStep

LEMMA StopStep ==
    ASSUME ScheduleInv, Stop
    PROVE  ScheduleInv'
<1>1. Down /\ scheduleCrashes < ScheduleMaxCrashes /\ RunTypes
  BY DEF Stop, ScheduleInv, ScheduleTypes, RunTypes
<1>2. PICK said \in SUBSET {s \in own : scheduleExec[s].pc \in {"preparing", "composing"}} :
        runs' = [s \in Slots |->
           IF s \in own /\ runs[s].state \in {"STARTING", "RUNNING"}
           THEN [runs[s] EXCEPT !.state = IF s \in said THEN "BLOCKED" ELSE "UNCERTAIN"]
           ELSE runs[s]]
  BY DEF Stop
<1>3. \A r \in RunRows, to \in ScheduleStates :
        /\ [r EXCEPT !.state = to] \in RunRows /\ [r EXCEPT !.state = to].state = to
        /\ [r EXCEPT !.state = to].thread = r.thread /\ [r EXCEPT !.state = to].due = r.due
  BY DEF RunRows
<1>4. "BLOCKED" \in ScheduleStates /\ "UNCERTAIN" \in ScheduleStates
  BY DEF ScheduleStates
<1>5. \A s \in said : s \in Slots => scheduleNative[s].turn = "none"
  BY <1>2 DEF ScheduleInv, SlotInv, Executing, ThreadFirst
<1>6. runs' \in [Slots -> RunRows]
  BY <1>1, <1>2, <1>3, <1>4 DEF RunTypes
<1>7. ASSUME NEW t \in Slots
      PROVE  /\ runs'[t].thread = runs[t].thread /\ runs'[t].due = runs[t].due
             /\ \/ runs'[t].state = runs[t].state
                \/ /\ runs[t].state \in {"STARTING", "RUNNING"}
                   /\ \/ runs'[t].state = "UNCERTAIN"
                      \/ runs'[t].state = "BLOCKED" /\ scheduleNative[t].turn = "none"
  BY <1>1, <1>2, <1>3, <1>4, <1>5 DEF RunTypes
<1> QED
  BY <1>1, <1>6, <1>7, DownStep

\* recoverInterrupted queues again only what was not sent.
LEMMA ScheduleRestartStep ==
    ASSUME ScheduleInv, ScheduleRestart
    PROVE  ScheduleInv'
<1>1. RunTypes /\ tick.at = "idle" /\ \A s \in Slots : scheduleExec[s].pc = "idle" /\ tracked[s] = "none"
  BY DEF ScheduleRestart, ScheduleInv, ScheduleTypes, RunTypes, NothingWhenDown
<1>2. SchedUntouched /\ UNCHANGED <<scheduleExec, own, tracked, live, tick, scheduleNative, reported, scheduleCrashes>>
      /\ up' \in BOOLEAN /\ up'
  BY DEF ScheduleRestart, SchedUntouched
<1>3. \A r \in RunRows, to \in ScheduleStates :
        /\ [r EXCEPT !.state = to] \in RunRows /\ [r EXCEPT !.state = to].state = to
        /\ [r EXCEPT !.state = to].thread = r.thread /\ [r EXCEPT !.state = to].due = r.due
  BY DEF RunRows
<1>4. \A r \in RunRows : /\ Interrupted(r) \in RunRows /\ Interrupted(r).thread = r.thread /\ Interrupted(r).due = r.due
                         /\ \/ Interrupted(r).state = r.state
                            \/ /\ r.state \in {"CLAIMED", "STARTING", "RUNNING"}
                               /\ Interrupted(r).state = "UNCERTAIN" \/ (Interrupted(r).state = "QUEUED" /\ ~ r.thread)
  BY <1>3 DEF Interrupted, ScheduleStates
<1>5. /\ runs' \in [Slots -> RunRows]
      /\ \A t \in Slots : /\ runs'[t].thread = runs[t].thread /\ runs'[t].due = runs[t].due
                          /\ \/ runs'[t].state = runs[t].state
                             \/ /\ runs[t].state \in {"CLAIMED", "STARTING", "RUNNING"}
                                /\ runs'[t].state = "UNCERTAIN" \/ (runs'[t].state = "QUEUED" /\ ~ runs[t].thread)
  BY <1>1, <1>4 DEF ScheduleRestart, RunTypes
<1>6. RunTypes' /\ NothingWhenDown'
  BY <1>1, <1>2, <1>5 DEF RunTypes, NothingWhenDown
<1>7. ASSUME NEW t \in Slots
      PROVE  ReadsWell(t) /\ SlotInv(t)'
  <2>1. SlotInv(t)
    BY DEF ScheduleInv
  <2>2. ReadsWell(t)
    BY <1>2 DEF ReadsWell
  <2>3. ThreadFirst(t)' /\ Executing(t)'
    BY <1>1, <1>2, <1>5, <2>1 DEF SlotInv, ThreadFirst, Executing, Pending
  <2>4. Settled(t)' /\ RecoversAlone(t)'
    BY <1>1, <1>2, <1>5, <2>1 DEF SlotInv, Settled, RecoversAlone, Recovering
  <2>5. OutcomeOf(t)'
    BY <1>2, <1>5, <2>1 DEF SlotInv, OutcomeOf, ScheduleEnded
  <2> QED
    BY <2>2, <2>3, <2>4, <2>5 DEF SlotInv
<1> QED
  BY <1>2, <1>6, <1>7, ManySlots

\* The clock goes on; a slot may come due.
LEMMA TimePassesStep ==
    ASSUME ScheduleInv, TimePasses
    PROVE  ScheduleInv'
<1>1. UNCHANGED <<sched, runs, scheduleExec, own, tracked, live, tick, scheduleNative, reported, up, scheduleCrashes>>
      /\ clock' = clock + 1 /\ clock < MaxSlot
  BY DEF TimePasses
<1>2. ScheduleTypes'
  BY <1>1, ScheduleNumbers DEF ScheduleInv, ScheduleTypes
<1>3. clock \in Nat /\ sched.next \in Nat /\ sched.rev \in Nat /\ sched.edits \in Nat
  BY ScheduleNumbers DEF ScheduleInv, ScheduleTypes, Scheds
<1>4. RevisionCounted'
  BY <1>1, <1>3 DEF ScheduleInv, RevisionCounted
<1>5. PromptOfRevision' /\ NothingWhenDown'
  BY <1>1 DEF ScheduleInv, PromptOfRevision, NothingWhenDown
<1>6. ASSUME NEW t \in Slots
      PROVE  SlotInv(t)'
  BY <1>1, SlotKept DEF ScheduleInv, Recovering
<1> QED
  BY <1>2, <1>4, <1>5, <1>6 DEF ScheduleInv

\* The owner's change: a new revision, which no execution has read.
LEMMA RescheduleStep ==
    ASSUME ScheduleInv, NEW to \in {"on", "paused", "deleted"}, NEW p \in 0..MaxEdits,
           Reschedule([sched EXCEPT !.state = to, !.prompt = p]),
           runs' \in [Slots -> RunRows], \A t \in Slots : Shifts(t)
    PROVE  ScheduleInv'
<1> DEFINE new == [sched EXCEPT !.state = to, !.prompt = p]
<1>1. sched \in Scheds /\ clock \in 0..MaxSlot /\ RevisionCounted /\ RunTypes
  BY DEF ScheduleInv, ScheduleTypes, RunTypes
<1>2. new \in Scheds /\ new.state = to /\ new.prompt = p
  BY <1>1 DEF Scheds
<1>3. UNCHANGED <<clock, scheduleExec, own, tracked, live, tick, scheduleNative, reported, up, scheduleCrashes>>
      /\ sched.edits < MaxEdits
  BY DEF Reschedule
<1>4. PICK n \in {clock, clock + 1} \ {0} :
        sched' = [new EXCEPT !.rev = sched.rev + 1, !.edits = sched.edits + 1, !.next = IF new.state = "on" THEN n ELSE 0]
  BY DEF Reschedule
<1> HIDE DEF new
<1> DEFINE next == IF to = "on" THEN n ELSE 0
<1>5. sched' = [new EXCEPT !.rev = sched.rev + 1, !.edits = sched.edits + 1, !.next = next]
  BY <1>2, <1>4
<1>6. /\ clock \in Nat /\ sched.rev \in Nat \ {0} /\ sched.edits \in Nat /\ sched.next \in Nat /\ n \in Nat \ {0}
      /\ n <= clock + 1 /\ n >= clock
  BY <1>1, ScheduleNumbers DEF Scheds
<1>7. /\ next \in 0..(MaxSlot + 1) /\ next <= clock + 1 /\ (to = "on" <=> next # 0)
      /\ sched.rev + 1 <= 1 + 2 * (sched.edits + 1) + (IF next = 0 THEN clock ELSE next - 1)
  <2>1. next \in 0..(MaxSlot + 1) /\ next <= clock + 1 /\ (to = "on" <=> next # 0)
    BY <1>1, <1>6, ScheduleNumbers
  <2>2. sched.rev <= 1 + 2 * sched.edits + clock
    BY <1>1, <1>6 DEF RevisionCounted
  <2>3. clock <= 1 + (IF next = 0 THEN clock ELSE next - 1)
    BY <1>6
  <2>4. (IF next = 0 THEN clock ELSE next - 1) \in Nat
    BY <1>6
  <2> HIDE DEF next
  <2> QED
    BY <1>6, <2>1, <2>2, <2>3, <2>4
<1> HIDE DEF next
<1>8. sched.edits + 1 \in 0..MaxEdits /\ sched.rev + 1 \in 1..ScheduleMaxRevision
  <2>1. sched.edits + 1 \in 0..MaxEdits
    BY <1>3, <1>6, ScheduleNumbers
  <2>2. (IF next = 0 THEN clock ELSE next - 1) <= MaxSlot /\ (IF next = 0 THEN clock ELSE next - 1) \in Nat
    BY <1>1, <1>7, ScheduleNumbers
  <2>3. sched.rev + 1 <= 1 + 2 * MaxEdits + MaxSlot
    BY <1>3, <1>6, <1>7, <2>2, ScheduleNumbers
  <2> QED
    BY <1>6, <2>1, <2>3, ScheduleNumbers
<1>9. /\ sched' \in Scheds /\ sched'.state = to /\ sched'.prompt = p /\ sched'.rev = sched.rev + 1
      /\ sched'.edits = sched.edits + 1 /\ sched'.next = next
  BY <1>2, <1>5, <1>7, <1>8 DEF Scheds
<1>10. ScheduleTypes'
  BY <1>1, <1>3, <1>9 DEF ScheduleTypes, RunTypes
<1>11. RevisionCounted'
  BY <1>3, <1>7, <1>9 DEF RevisionCounted
<1>12. PromptOfRevision'
  <2>1. \A s \in Slots : scheduleExec[s].rev \in Nat /\ scheduleExec[s].rev <= sched.rev
    BY <1>1, ScheduleNumbers DEF RunTypes, Execs, ScheduleInv, PromptOfRevision
  <2> QED
    BY <1>3, <1>6, <1>9, <2>1 DEF PromptOfRevision
<1>13. NothingWhenDown'
  BY <1>3 DEF ScheduleInv, NothingWhenDown
<1>14. ASSUME NEW t \in Slots
       PROVE  SlotInv(t)'
  BY <1>3, SlotShifts DEF ScheduleInv
<1> QED
  BY <1>10, <1>11, <1>12, <1>13, <1>14 DEF ScheduleInv

LEMMA OwnerSteps ==
    ASSUME ScheduleInv, Update \/ Delete \/ ScheduleCancelBot
    PROVE  ScheduleInv'
<1>1. sched \in Scheds /\ runs \in [Slots -> RunRows]
  BY DEF ScheduleInv, ScheduleTypes
<1>2. sched.prompt \in 0..MaxEdits /\ sched.edits \in Nat
  BY <1>1, ScheduleNumbers DEF Scheds
<1>3. [sched EXCEPT !.state = "deleted"] = [sched EXCEPT !.state = "deleted", !.prompt = sched.prompt]
  BY <1>1 DEF Scheds
<1>4. CASE Update
  <2>1. PICK to \in {"on", "paused"}, p \in {sched.prompt, sched.edits + 1} :
          p <= MaxEdits /\ Reschedule([sched EXCEPT !.state = to, !.prompt = p])
    BY <1>4 DEF Update
  <2>2. p \in 0..MaxEdits
    BY <1>2, <2>1, ScheduleNumbers
  <2>3. runs' = runs /\ \A t \in Slots : Shifts(t)
    BY <1>4 DEF Update, Shifts
  <2> QED
    BY <1>1, <2>1, <2>2, <2>3, RescheduleStep
<1>5. CASE Delete
  <2>1. Reschedule([sched EXCEPT !.state = "deleted", !.prompt = sched.prompt])
    BY <1>3, <1>5 DEF Delete
  <2>2. runs' = runs /\ \A t \in Slots : Shifts(t)
    BY <1>5 DEF Delete, Shifts
  <2> QED
    BY <1>1, <1>2, <2>1, <2>2, RescheduleStep
<1>6. CASE ScheduleCancelBot
  <2>1. Reschedule([sched EXCEPT !.state = "deleted", !.prompt = sched.prompt])
    BY <1>3, <1>6 DEF ScheduleCancelBot
  <2>2. \A r \in RunRows : /\ [r EXCEPT !.state = "BLOCKED"] \in RunRows /\ [r EXCEPT !.state = "BLOCKED"].state = "BLOCKED"
                           /\ [r EXCEPT !.state = "BLOCKED"].thread = r.thread /\ [r EXCEPT !.state = "BLOCKED"].due = r.due
    BY DEF RunRows, ScheduleStates
  <2>3. runs' = [s \in Slots |->
           IF runs[s].state \in Pending \/ (runs[s].state \in {"CLAIMED", "STARTING"} /\ ~ runs[s].thread)
           THEN [runs[s] EXCEPT !.state = "BLOCKED"] ELSE runs[s]]
    BY <1>6 DEF ScheduleCancelBot
  <2>4. runs' \in [Slots -> RunRows]
    BY <1>1, <2>2, <2>3
  <2>5. \A t \in Slots : Shifts(t)
    BY <1>1, <2>2, <2>3 DEF Shifts
  <2> QED
    BY <1>2, <2>1, <2>4, <2>5, RescheduleStep
<1> QED
  BY <1>4, <1>5, <1>6

\* A due slot gets its run.
LEMMA ClaimDueStep ==
    ASSUME ScheduleInv, ClaimDue
    PROVE  ScheduleInv'
<1> DEFINE slot == sched.next
           queued == [runs EXCEPT ![slot].state = IF @ = "NONE" THEN "QUEUED" ELSE @]
<1>1. sched \in Scheds /\ clock \in 0..MaxSlot /\ RevisionCounted /\ RunTypes
  BY DEF ScheduleInv, ScheduleTypes, RunTypes
<1>2. UNCHANGED <<clock, scheduleExec, own, tracked, live, tick, scheduleNative, reported, up, scheduleCrashes>>
      /\ slot \in 1..clock /\ sched.state = "on" /\ runs' = Coalesce(queued)
      /\ sched' = [sched EXCEPT !.next = clock + 1, !.rev = @ + 1]
  BY DEF ClaimDue
<1>3. /\ clock \in Nat /\ sched.rev \in Nat \ {0} /\ sched.edits \in Nat /\ sched.edits <= MaxEdits /\ slot \in Nat \ {0} /\ slot <= clock
      /\ slot \in Slots
  BY <1>1, <1>2, ScheduleNumbers DEF Scheds, Slots
<1>4. /\ queued \in [Slots -> RunRows]
      /\ \A t \in Slots : /\ queued[t].thread = runs[t].thread /\ queued[t].due = runs[t].due
                          /\ \/ queued[t].state = runs[t].state
                             \/ queued[t].state = "QUEUED" /\ runs[t].state = "NONE"
  BY <1>1, <1>3 DEF RunTypes, RunRows, ScheduleStates
<1> HIDE DEF queued
<1>5. runs' \in [Slots -> RunRows] /\ \A t \in Slots : Shifts(t)
  <2>1. /\ Coalesce(queued) \in [Slots -> RunRows]
        /\ \A t \in Slots : \/ Coalesce(queued)[t] = queued[t]
                            \/ /\ queued[t].state \in Pending /\ Coalesce(queued)[t].state = "BLOCKED"
                               /\ Coalesce(queued)[t].thread = queued[t].thread /\ Coalesce(queued)[t].due = queued[t].due
    BY <1>4, CoalesceFields
  <2> QED
    BY <1>2, <1>4, <2>1 DEF Shifts, Pending
<1>6. sched.rev + 1 <= 1 + 2 * sched.edits + ((clock + 1) - 1)
  BY <1>1, <1>3 DEF RevisionCounted
<1>7. sched.rev + 1 \in 1..ScheduleMaxRevision /\ clock + 1 \in 0..(MaxSlot + 1)
  BY <1>1, <1>3, <1>6, ScheduleNumbers
<1>8. /\ sched' \in Scheds /\ sched'.state = "on" /\ sched'.prompt = sched.prompt /\ sched'.rev = sched.rev + 1
      /\ sched'.edits = sched.edits /\ sched'.next = clock + 1
  BY <1>1, <1>2, <1>7 DEF Scheds
<1>9. ScheduleTypes'
  BY <1>1, <1>2, <1>5, <1>8 DEF ScheduleTypes, RunTypes
<1>10. RevisionCounted'
  BY <1>2, <1>3, <1>6, <1>8 DEF RevisionCounted
<1>11. PromptOfRevision'
  <2>1. \A s \in Slots : scheduleExec[s].rev \in Nat /\ scheduleExec[s].rev <= sched.rev
    BY <1>1, ScheduleNumbers DEF RunTypes, Execs, ScheduleInv, PromptOfRevision
  <2> QED
    BY <1>2, <1>3, <1>8, <2>1 DEF PromptOfRevision
<1>12. NothingWhenDown'
  BY <1>2 DEF ScheduleInv, NothingWhenDown
<1>13. ASSUME NEW t \in Slots
       PROVE  SlotInv(t)'
  BY <1>2, <1>5, SlotShifts DEF ScheduleInv
<1> QED
  BY <1>9, <1>10, <1>11, <1>12, <1>13 DEF ScheduleInv

LEMMA NothingDueStep ==
    ASSUME ScheduleInv, NothingDue \/ Login
    PROVE  ScheduleInv'
<1> DEFINE kept == Coalesce(runs)
<1>1. RunTypes
  BY DEF ScheduleInv, ScheduleTypes, RunTypes
<1>2. SchedUntouched /\ UNCHANGED <<scheduleExec, own, tracked, tick, scheduleNative, reported, up, scheduleCrashes>> /\ live' \in BOOLEAN
  BY <1>1 DEF NothingDue, Login, SchedUntouched, RunTypes
<1>3. /\ kept \in [Slots -> RunRows]
      /\ \A t \in Slots : \/ kept[t] = runs[t]
                          \/ /\ runs[t].state \in Pending /\ kept[t].state = "BLOCKED"
                             /\ kept[t].thread = runs[t].thread /\ kept[t].due = runs[t].due
  BY <1>1, CoalesceFields DEF RunTypes
<1> HIDE DEF kept
<1>4. runs' \in [Slots -> RunRows] /\ \A t \in Slots : Shifts(t)
  <2>1. CASE NothingDue
    <3>1. runs' = kept
      BY <2>1 DEF NothingDue, kept
    <3> QED
      BY <1>3, <3>1 DEF Shifts
  <2>2. CASE Login
    <3>1. runs' = [t \in Slots |-> IF kept[t].state = "AUTH_REQUIRED" THEN [kept[t] EXCEPT !.state = "QUEUED"] ELSE kept[t]]
      BY <2>2 DEF Login, kept
    <3>2. \A r \in RunRows : /\ [r EXCEPT !.state = "QUEUED"] \in RunRows /\ [r EXCEPT !.state = "QUEUED"].state = "QUEUED"
                             /\ [r EXCEPT !.state = "QUEUED"].thread = r.thread /\ [r EXCEPT !.state = "QUEUED"].due = r.due
      BY DEF RunRows, ScheduleStates
    <3>3. runs' \in [Slots -> RunRows]
      BY <1>3, <3>1, <3>2
    <3>4. \A t \in Slots : Shifts(t)
      BY <1>3, <3>1, <3>2 DEF Shifts, Pending
    <3> QED
      BY <3>3, <3>4
  <2> QED
    BY <2>1, <2>2
<1>5. RunTypes' /\ NothingWhenDown'
  BY <1>1, <1>2, <1>4 DEF RunTypes, NothingWhenDown, ScheduleInv
<1>6. ASSUME NEW t \in Slots
      PROVE  ReadsWell(t) /\ SlotInv(t)'
  BY <1>2, <1>4, SlotShifts DEF ScheduleInv, ReadsWell
<1> QED
  BY <1>2, <1>5, <1>6, ManySlots

\* A run that waits was not sent, and may be executed.
LEMMA ClaimRunnableStep ==
    ASSUME ScheduleInv, NEW s \in Slots, ClaimRunnable(s)
    PROVE  ScheduleInv'
<1> DEFINE kept == Coalesce(runs)
           to == IF sched.state = "on" THEN "CLAIMED" ELSE "BLOCKED"
<1>1. RunTypes /\ SlotInv(s) /\ up /\ tick = NoTick
  BY DEF ScheduleInv, ScheduleTypes, RunTypes, ClaimRunnable, Ticking
<1>2. SchedUntouched /\ UNCHANGED <<own, tracked, live, tick, scheduleNative, reported, up, scheduleCrashes>>
      /\ kept[s].state = "QUEUED" /\ runs' = [kept EXCEPT ![s].state = to]
  BY DEF ClaimRunnable, SchedUntouched
<1>3. /\ kept \in [Slots -> RunRows]
      /\ \A t \in Slots : \/ kept[t] = runs[t]
                          \/ /\ runs[t].state \in Pending /\ kept[t].state = "BLOCKED"
                             /\ kept[t].thread = runs[t].thread /\ kept[t].due = runs[t].due
  BY <1>1, CoalesceFields DEF RunTypes
<1> HIDE DEF kept
<1>4. kept[s] = runs[s] /\ runs[s].state = "QUEUED"
  BY <1>2, <1>3
<1>5. to \in {"CLAIMED", "BLOCKED"} /\ to \in ScheduleStates
  BY DEF ScheduleStates
<1> HIDE DEF to
<1>6. /\ runs' \in [Slots -> RunRows] /\ runs'[s].state = to
      /\ runs'[s].thread = runs[s].thread /\ runs'[s].due = runs[s].due
      /\ \A t \in Slots : t # s => Shifts(t)
  <2>1. /\ runs' \in [Slots -> RunRows] /\ runs'[s].state = to
        /\ runs'[s].thread = kept[s].thread /\ runs'[s].due = kept[s].due
        /\ \A t \in Slots : t # s => runs'[t] = kept[t]
    BY <1>2, <1>3, <1>5 DEF RunRows
  <2> QED
    BY <1>3, <1>4, <2>1 DEF Shifts
<1>7. /\ ~ runs[s].thread /\ scheduleNative[s].turn = "none" /\ ~ runs[s].due /\ scheduleExec[s].pc = "idle"
      /\ reported[s] = "none" /\ tracked[s] = "none" /\ ~ Recovering(s)
  BY <1>1, <1>4, NoTickFields DEF SlotInv, ThreadFirst, Settled, OutcomeOf, ScheduleEnded, Pending, Recovering
<1>8. /\ scheduleExec' \in [Slots -> Execs] /\ scheduleExec'[s].pc \in {"idle", "opening"}
      /\ ReadsWell(s) /\ \A t \in Slots : t # s => scheduleExec'[t] = scheduleExec[t]
  <2>1. CASE sched.state = "on"
    <3> DEFINE x == [NoExec EXCEPT !.pc = "opening", !.session = IF live THEN "live" ELSE "own"]
    <3>1. scheduleExec' = [scheduleExec EXCEPT ![s] = x]
      BY <2>1 DEF ClaimRunnable
    <3>2. PICK y \in {"live", "own"} : x = [NoExec EXCEPT !.pc = "opening", !.session = y]
      OBVIOUS
    <3>3. x \in Execs /\ x.pc = "opening" /\ x.rev = 0
      BY <3>2, NoExecFields DEF Execs, Sessions
    <3> HIDE DEF x
    <3> QED
      BY <1>1, <3>1, <3>3 DEF RunTypes, ReadsWell
  <2>2. CASE sched.state # "on"
    <3>1. scheduleExec' = scheduleExec
      BY <2>2 DEF ClaimRunnable
    <3> QED
      BY <1>1, <1>7, <3>1 DEF RunTypes, ReadsWell
  <2> QED
    BY <2>1, <2>2
<1>9. RunTypes' /\ NothingWhenDown'
  BY <1>1, <1>2, <1>6, <1>8 DEF RunTypes, NothingWhenDown
<1>10. ThreadFirst(s)' /\ Executing(s)'
  BY <1>1, <1>2, <1>5, <1>6, <1>7, <1>8 DEF SlotInv, ThreadFirst, Executing, Pending
<1>11. Settled(s)' /\ RecoversAlone(s)' /\ OutcomeOf(s)'
  BY <1>2, <1>5, <1>6, <1>7 DEF Settled, RecoversAlone, Recovering, OutcomeOf
<1>12. ASSUME NEW t \in Slots, t # s
       PROVE  ReadsWell(t) /\ SlotInv(t)'
  BY <1>2, <1>6, <1>8, <1>12, SlotShifts DEF ScheduleInv, ReadsWell
<1>13. SlotInv(s)'
  BY <1>10, <1>11 DEF SlotInv
<1> QED
  BY <1>2, <1>8, <1>9, <1>12, <1>13, ManySlots

LEMMA ScheduleInvInit == ScheduleInit => ScheduleInv
<1> SUFFICES ASSUME ScheduleInit
             PROVE  ScheduleInv
  OBVIOUS
<1>1. clock = 0 /\ own = {} /\ tick = NoTick /\ scheduleCrashes = 0 /\ up /\ up \in BOOLEAN /\ live \in BOOLEAN
      /\ tracked = [s \in Slots |-> "none"] /\ reported = [s \in Slots |-> "none"]
      /\ scheduleExec = [s \in Slots |-> NoExec]
      /\ sched = [state |-> "on", rev |-> 1, prompt |-> 0, edits |-> 0, next |-> 1]
  BY DEF ScheduleInit
<1>2. PICK v \in BOOLEAN : ~ v /\ runs = [s \in Slots |-> [state |-> "NONE", thread |-> v, due |-> v]]
  BY Zenon DEF ScheduleInit
<1>3. PICK c \in BOOLEAN : c /\ scheduleNative = [s \in Slots |-> [turn |-> "none", sends |-> 0, current |-> c]]
  BY Zenon DEF ScheduleInit
<1>4. runs \in [Slots -> RunRows] /\ \A s \in Slots : runs[s].state = "NONE" /\ ~ runs[s].thread /\ ~ runs[s].due
  BY <1>2 DEF RunRows, ScheduleStates
<1>5. scheduleNative \in [Slots -> Natives] /\ \A s \in Slots : scheduleNative[s].turn = "none" /\ scheduleNative[s].sends = 0
                                                               /\ scheduleNative[s].current
  BY <1>3 DEF Natives, Turns
<1>6. scheduleExec \in [Slots -> Execs] /\ \A s \in Slots : scheduleExec[s].pc = "idle" /\ scheduleExec[s].rev = 0
  BY <1>1, NoExecFields
<1>7. sched \in Scheds /\ RevisionCounted
  BY <1>1, ScheduleNumbers DEF Scheds, RevisionCounted
<1>8. clock \in 0..MaxSlot /\ scheduleCrashes \in 0..ScheduleMaxCrashes /\ tracked \in [Slots -> Sessions]
      /\ reported \in [Slots -> {"none", "COMPLETED", "FAILED"}]
  BY <1>1, ScheduleNumbers DEF Sessions
<1>9. ScheduleTypes
  BY <1>1, <1>4, <1>5, <1>6, <1>7, <1>8, NoTickFields DEF ScheduleTypes
<1>10. PromptOfRevision /\ NothingWhenDown
  BY <1>1, <1>6 DEF PromptOfRevision, NothingWhenDown
<1>11. \A s \in Slots : ~ Recovering(s) /\ tracked[s] = "none" /\ reported[s] = "none"
  BY <1>1, NoTickFields DEF Recovering
<1>12. \A s \in Slots : SlotInv(s)
  BY <1>4, <1>5, <1>6, <1>11 DEF SlotInv, ThreadFirst, Executing, Settled, RecoversAlone, OutcomeOf, Pending
<1> QED
  BY <1>7, <1>9, <1>10, <1>12 DEF ScheduleInv

LEMMA ScheduleInvNext ==
    ASSUME ScheduleInv, [ScheduleNext]_runVars
    PROVE  ScheduleInv'
<1>1. CASE UNCHANGED runVars
  <2>1. UNCHANGED <<clock, sched, runs, scheduleExec, own, tracked, live, tick, scheduleNative, reported, up, scheduleCrashes>>
    BY <1>1 DEF runVars
  <2>2. RunTypes' /\ NothingWhenDown' /\ SchedUntouched
    BY <2>1 DEF ScheduleInv, ScheduleTypes, RunTypes, NothingWhenDown, SchedUntouched
  <2>3. ASSUME NEW t \in Slots
        PROVE  ReadsWell(t) /\ SlotInv(t)'
    BY <2>1, SlotKept DEF ScheduleInv, Recovering, ReadsWell
  <2> QED
    BY <2>2, <2>3, ManySlots
<1>2. CASE TimePasses \/ Update \/ Delete \/ ScheduleCancelBot \/ Claims \/ Login
  BY <1>2, TimePassesStep, OwnerSteps, ClaimDueStep, NothingDueStep, ClaimRunnableStep DEF Claims
<1>3. CASE LiveExits \/ ScheduleCrash \/ Stop \/ ScheduleRestart
  BY <1>3, LiveExitsStep, ScheduleCrashStep, StopStep, ScheduleRestartStep
<1>4. ASSUME NEW s \in Slots, Execute(s)
      PROVE  ScheduleInv'
  BY <1>4, LeavesSteps, OpenRuntimeStep, StartTurnStep, ComposeStep, DispatchStep, DispatchFailsStep, RunStartedStep DEF Execute
<1>5. ASSUME NEW s \in Slots, Ends(s) \/ OwnExits(s) \/ Recover(s)
      PROVE  ScheduleInv'
  BY <1>5, FinishStep, OwnExitsStep, BeginRecoverStep, RecoverFailsStep, ReadHistoryStep, EndRecoverStep, BeginReportStep,
     EndReportStep DEF Ends, Recover
<1> QED
  BY <1>1, <1>2, <1>3, <1>4, <1>5 DEF ScheduleNext

\* For any number of slots, edits and crashes: a slot's prompt is sent at most
\* once and as it was saved, and its run ends and is reported as its turn ended.
THEOREM ScheduleIsSafe == ScheduleSpec => []ScheduleSafe
<1>1. ScheduleInv => ScheduleSafe
  <2> SUFFICES ASSUME ScheduleInv
               PROVE  ScheduleSafe
    OBVIOUS
  <2>1. tick.at \in {"idle", "recover", "report"} /\ tick.slot \in 0..MaxSlot
    BY DEF ScheduleInv, ScheduleTypes, Ticks
  <2>2. ScheduleTypeOK
    BY <2>1 DEF ScheduleInv, ScheduleTypes, ScheduleTypeOK, Scheds, RunRows, Execs, Natives, Turns, Sessions
  <2>3. SentOnce /\ SentAsSaved
    BY DEF ScheduleInv, SlotInv, ThreadFirst, SentOnce, SentAsSaved
  <2>4. OutcomeIsNative /\ ReportedAsEnded
    BY DEF ScheduleInv, SlotInv, OutcomeOf, OutcomeIsNative, ReportedAsEnded
  <2> QED
    BY <2>2, <2>3, <2>4 DEF ScheduleSafe
<1> QED
  BY <1>1, ScheduleInvInit, ScheduleInvNext, PTL DEF ScheduleSpec

=============================================================================
