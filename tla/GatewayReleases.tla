-------------------------- MODULE GatewayReleases --------------------------
(***************************************************************************)
(* The vocabulary the Platform and a Gateway Runtime share: references to  *)
(* releases and what a runtime reports about one.                          *)
(*                                                                         *)
(* A release id stands for the content digest it is computed from, and the *)
(* package digest is a function of the reference [id, rev].  A command id  *)
(* is random and unique per (runtime, release id), so the release id names *)
(* the command.                                                            *)
(***************************************************************************)
EXTENDS Naturals

CONSTANTS
    ReleaseIds,     \* the releases that may be compiled
    MaxRevision,    \* bound on the head revision
    None            \* no release

ASSUME ReleaseAssumption ==
    /\ None \notin ReleaseIds
    /\ MaxRevision \in Nat

\* A reference to a release under a head revision.
Refs == [id : ReleaseIds, rev : 1..MaxRevision]
NoRef == [id |-> None, rev |-> 0]
AnyRef == Refs \cup {NoRef}

\* What a runtime says of the release a command asks for: its state and the
\* release it runs.
ReportStates == {"READY", "APPLYING", "DEGRADED", "UNKNOWN"}
Observations == [command : ReleaseIds \cup {None}, rev : 0..MaxRevision,
                 state : ReportStates \cup {"NONE"}, applied : AnyRef]
NoObservation == [command |-> None, rev |-> 0, state |-> "NONE", applied |-> NoRef]
=============================================================================
