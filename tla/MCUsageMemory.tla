---------------------------- MODULE MCUsageMemory ----------------------------
(***************************************************************************)
(* Usage admission, the shared memories and their retrieval, for TLC.      *)
(* They share no state: a behaviour follows one of them, its focus, and    *)
(* the others stay as they began.  Admission has two attempts of one       *)
(* correlation and one of another, a quota in the first policy and a       *)
(* concurrency limit in the second; both draw on one allocation.           *)
(***************************************************************************)
EXTENDS UsageAdmission, SharedMemories, MemoryRetrieval, TLC

CONSTANTS Components,  \* the components a behaviour may follow
          c1, c2, x, y, z, short, long

VARIABLE focus

MCCorr == [a \in Attempts |-> IF a = z THEN c2 ELSE c1]
MCPolicies == {1, 2}
MCQuota == <<1, -1>>
MCConcurrency == <<-1, 1>>
MCCredit == <<4, 4>>
MCAllocation == <<"shared", "shared">>

\* The lengths of the two contents that are retrieved.
MCLength == short :> 1 @@ long :> 3

\* Nothing tells two contents of a memory apart.
MCSymmetry == Permutations(MemoriesContents)

\* Bound: a late time, a second revision and a failure do not all meet.
UsageBound == clock + revision + faults <= MaxClock + MaxRevision

Init ==
    /\ focus \in Components
    /\ UsageInit /\ MemoriesInit /\ RetrievalInit
    /\ role = [p \in Principals |-> "MANAGE"]

Next ==
    \/ focus = "usage" /\ UsageNext /\ UsageBound' /\ UNCHANGED <<focus, memoriesVars, stored>>
    \/ focus = "memories" /\ MemoriesNext /\ UNCHANGED <<focus, usageVars, stored>>
    \/ focus = "retrieval" /\ Remember /\ UNCHANGED <<focus, usageVars, memoriesVars>>

Spec == Init /\ [][Next]_<<focus, usageVars, memoriesVars, stored>>
=============================================================================
