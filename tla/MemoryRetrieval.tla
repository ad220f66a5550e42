-------------------------- MODULE MemoryRetrieval ---------------------------
(***************************************************************************)
(* Retrieval of memories for a model's context: which rows are read, how   *)
(* they are grouped into units and conflicts, which units are kept within  *)
(* the limit, and how their lines are fitted into the width the caller     *)
(* allows (retrieve and selectSharedMemoryRetrieval, memories/module.ts).  *)
(*                                                                         *)
(* The retrieval is a function of the stored memories; the only steps are  *)
(* the ones that store them, and a retrieval reads one state. A line is    *)
(* its length: Overhead for the metadata, one more when the content is not *)
(* marked as truncated ("false" is longer than "true"), and the content.   *)
(***************************************************************************)
EXTENDS Integers, Sequences, FiniteSets, SequencesExt

CONSTANTS Scopes, RetrievalKeys, Kinds, RetrievalContents,
          Length,     \* of a content: its length
          Overhead,   \* the length of a line without its content
          Page,       \* rows per read of candidates
          PerKey,     \* rows per key in a read of companions
          MaxStored,  \* bound: memories
          MaxTime,    \* bound: instants at which they were updated
          MaxWidth    \* bound: widths of the context

ASSUME RetrievalAssumption ==
    /\ {Page, PerKey, Overhead, MaxStored, MaxTime, MaxWidth} \subseteq Nat \ {0}
    /\ Length \in [RetrievalContents -> Nat]
    /\ Cardinality(Kinds) <= PerKey

VARIABLE stored

Contexts == <<"GLOBAL", "PROJECT">>
Origins == {"USER", "AGENT", "CONFIRMED"}

RetrievalInit == stored = {}

\* A memory is stored; its identity is unique in its scope.
Remember ==
    /\ Cardinality(stored) < MaxStored
    /\ \E s \in Scopes, k \in RetrievalKeys, d \in Kinds, n \in 1 .. 2, c \in RetrievalContents, o \in Origins, t \in 1 .. MaxTime :
          /\ \A m \in stored : <<m.scope, m.key, m.kind, m.ctx>> # <<s, k, d, Contexts[n]>>
          /\ stored' = stored \cup {[id |-> Cardinality(stored) + 1, scope |-> s, key |-> k, kind |-> d,
                                     ctx |-> Contexts[n], content |-> c, origin |-> o, at |-> t]}

RetrievalSpec == RetrievalInit /\ [][Remember]_stored

----------------------------------------------------------------------------
(* Reading. *)

\* The order of every list: the latest first, then by identifier.
Later(x, y) == x.at > y.at \/ (x.at = y.at /\ x.id < y.id)

\* The elements of a set in the order of a strict total order.
Sorted(S, Before(_, _)) ==
    [n \in 1 .. Cardinality(S) |-> CHOOSE x \in S : Cardinality({y \in S : Before(y, x)}) = n - 1]

Smaller(a, b) == IF a < b THEN a ELSE b

\* The first rows of a list.
List(S, limit) == {x \in S : Cardinality({y \in S : Later(y, x)}) < limit}

Reads == Scopes \X Range(Contexts)
At(r) == {m \in stored : m.scope = r[1] /\ m.ctx = r[2]}
Candidates == UNION {List(At(r), Page) : r \in Reads}
CandidateKeys == {m.key : m \in Candidates}

CompanionsOfPage ==
    UNION {List({m \in At(r) : m.key \in CandidateKeys}, Page) : r \in Reads}

\* The memories of the same keys, which the page of candidates left out.
Companions ==
    UNION {List({m \in At(r) : m.key \in CandidateKeys}, Cardinality(CandidateKeys) * PerKey) : r \in Reads}

Values == Candidates \cup Companions

----------------------------------------------------------------------------
(* Units: retrievalUnits and orderConflictEntries. *)

Human(m) == m.origin # "AGENT"
Group(k) == {m \in Values : m.key = k}

InferredKindConflict(G) ==
    \E m \in G : m.origin # "USER" /\ \E o \in G : o.ctx = m.ctx /\ o.kind # m.kind

Conflict(G) == Cardinality({m.content : m \in G}) > 1 \/ InferredKindConflict(G)

\* What people said or confirmed comes first, within one scope.
OrderConflict(G) ==
    LET oneScope == Cardinality({m.scope : m \in G}) = 1
        Before(x, y) == IF oneScope /\ Human(x) # Human(y) THEN Human(x) ELSE Later(x, y)
    IN Sorted(G, Before)

Unit(entries, conflict) ==
    [entries |-> entries, conflict |-> conflict, id |-> entries[1].id,
     at |-> CHOOSE t \in {m.at : m \in Range(entries)} : \A m \in Range(entries) : m.at <= t]

Units ==
    LET groups == {Group(k) : k \in CandidateKeys}
    IN Sorted({Unit(OrderConflict(G), TRUE) : G \in {H \in groups : Conflict(H)}}
              \cup {Unit(<<m>>, FALSE) : m \in UNION {H \in groups : ~Conflict(H)}}, Later)

----------------------------------------------------------------------------
(* Selection: selectSharedMemoryRetrieval.                                 *)

Count(sel) == Cardinality(UNION {Range(u.entries) : u \in sel})

\* A conflict that does not fit is cut, any other unit left out.
Add(sel, u, limit) ==
    LET remaining == limit - Count(sel) IN
    IF remaining <= 0 \/ \E v \in sel : v.id = u.id THEN sel
    ELSE IF Len(u.entries) <= remaining THEN sel \cup {u}
    ELSE IF u.conflict THEN sel \cup {[u EXCEPT !.entries = SubSeq(@, 1, remaining)]}
    ELSE sel

HasContext(u, ctx) == \E m \in Range(u.entries) : m.ctx = ctx

\* First the latest unit of each required context that none has yet.
Required(units, limit) ==
    LET Need(sel, ctx) ==
            LET n == SelectInSeq(units, LAMBDA u : HasContext(u, ctx)) IN
            IF n = 0 \/ \E v \in sel : HasContext(v, ctx) THEN sel ELSE Add(sel, units[n], limit)
    IN FoldLeft(Need, {}, Contexts)

\* Then all others in their order.
Selected(limit) ==
    LET units == Units
        More(sel, u) == Add(sel, u, limit)
    IN Sorted(FoldLeft(More, Required(units, limit), units), Later)

----------------------------------------------------------------------------
(* The context: contextResult and appendContextEntry. *)

Empty == [lines |-> <<>>, len |-> 0, failed |-> FALSE, stop |-> FALSE]

\* The least a sequence of lines takes, all contents cut to nothing.
MinimumLength(entries, hasContext) ==
    Len(entries) * (Overhead + 1) - IF hasContext \/ entries = <<>> THEN 0 ELSE 1

\* One line in what is left beside the reserve: whole, cut, or not at all.
AppendEntry(state, m, width, reserve) ==
    LET sep == IF state.len > 0 THEN 1 ELSE 0
        available == width - state.len - sep - reserve
        cut == Smaller(Length[m.content], available - Overhead) IN
    CASE available >= Overhead + 1 + Length[m.content] ->
            [state EXCEPT !.lines = Append(@, [id |-> m.id, cut |-> FALSE]),
                          !.len = @ + sep + Overhead + 1 + Length[m.content]]
      [] available >= Overhead /\ available < Overhead + 1 + Length[m.content] ->
            [state EXCEPT !.lines = Append(@, [id |-> m.id, cut |-> TRUE]), !.len = @ + sep + Overhead + cut,
                          !.stop = TRUE]
      [] OTHER -> [state EXCEPT !.failed = TRUE, !.stop = TRUE]

\* A conflict goes in with all its entries or not at all: each line leaves
\* room for the least the following ones take.
AppendConflict(state, u, width) ==
    IF state.len + MinimumLength(u.entries, state.len > 0) > width THEN state
    ELSE LET AppendOne(st, n) ==
                [AppendEntry(st, u.entries[n], width,
                             MinimumLength(SubSeq(u.entries, n + 1, Len(u.entries)), TRUE))
                    EXCEPT !.stop = state.stop]
         IN FoldLeft(AppendOne, state, [n \in 1 .. Len(u.entries) |-> n])

\* A single memory that is cut or does not fit is the last.
AppendSingle(state, u, width) ==
    [AppendEntry(state, u.entries[1], width, 0) EXCEPT !.failed = state.failed]

Context(units, width) ==
    LET AppendUnit(st, u) == IF st.stop THEN st
                             ELSE IF u.conflict THEN AppendConflict(st, u, width)
                             ELSE AppendSingle(st, u, width)
    IN FoldLeft(AppendUnit, Empty, units)

----------------------------------------------------------------------------
(* Properties. *)

RetrievalLimits == 1 .. MaxStored
Entries(units) == UNION {Range(u.entries) : u \in Range(units)}

\* The rows keep their form and an identity is stored once.
RetrievalTypeOK ==
    /\ stored \subseteq [id : 1 .. MaxStored, scope : Scopes, key : RetrievalKeys, kind : Kinds,
                         ctx : Range(Contexts), content : RetrievalContents, origin : Origins, at : 1 .. MaxTime]
    /\ \A m, n \in stored : m.id = n.id => m = n

\* Every memory that may contradict a candidate is read with it, however old:
\* the companions are never cut by their own limit.
CompanionsComplete ==
    \A m \in stored : m.key \in CandidateKeys => m \in Values

\* The limit is used up: a retrieval returns as many memories as it may and
\* there are.
LimitUsed ==
    \A limit \in RetrievalLimits : Cardinality(Entries(Selected(limit))) = Smaller(limit, Cardinality(Values))

\* A conflict within one scope that is cut by the limit loses inferences
\* before it loses what a person said or confirmed.
HumanFirst ==
    \A limit \in RetrievalLimits : LET sel == Entries(Selected(limit)) IN
        \A m \in sel, h \in Values \ sel :
            m.key = h.key /\ Human(h) /\ Cardinality({x.scope : x \in Group(h.key)}) = 1
            /\ Conflict(Group(h.key)) => Human(m)

\* Every required context that has memories is represented, unless one unit
\* takes up the whole limit or a conflict had to be cut.
ContextsKept ==
    \A limit \in RetrievalLimits : LET units == Selected(limit) IN
        \A ctx \in Range(Contexts) : (\E m \in Values : m.ctx = ctx) =>
            \/ \E m \in Entries(units) : m.ctx = ctx
            \/ \E u \in Range(units) :
                  Len(u.entries) = limit \/ (u.conflict /\ Len(u.entries) < Cardinality(Group(u.entries[1].key)))

\* The context never exceeds its width, shows a conflict whole or not at all,
\* and the encoding of a conflict, once begun, cannot fail.
ContextFits ==
    \A limit \in RetrievalLimits : LET units == Selected(limit) IN
        \A width \in 1 .. MaxWidth :
            LET ctx == Context(units, width)
                shown == {ctx.lines[n].id : n \in DOMAIN ctx.lines} IN
            /\ ~ctx.failed /\ ctx.len <= width
            /\ \A u \in Range(units) : u.conflict =>
                  LET ids == {m.id : m \in Range(u.entries)} IN ids \subseteq shown \/ ids \cap shown = {}

(* Whatever is stored, a retrieval reads every memory that may contradict  *)
(* another, uses its limit, prefers what a person said, and fits its width *)
(* with conflicts whole.                                                   *)
RetrievalSafe ==
    stored # {} =>
        /\ RetrievalTypeOK /\ CompanionsComplete /\ LimitUsed /\ HumanFirst /\ ContextsKept
        /\ ContextFits

=============================================================================
