-------------------------------- MODULE MCBot --------------------------------
(***************************************************************************)
(* The Bot server's components, for TLC.  They share no state: a behaviour *)
(* follows one of them, its focus, and the others stay as they began.      *)
(***************************************************************************)
EXTENDS BotScheduleRuns, BotDeletion, BotDistillation, BotInvocations, CallerContinuation,
        HandsLeases, TLC

CONSTANTS Components,  \* the components a behaviour may follow
          MaxMishaps,  \* bound on what goes wrong around the invocations
          i1, i2, b1,  \* two invocations of one Bot
          w1, w2, w3, h1, h2,  \* workspaces and their Bots
          c1           \* a client

VARIABLE focus

botVars == <<runVars, deletionVars, distVars, invocationVars, slow, continuationVars, handsVars>>

\* A task, approved within its owner, and a direct invocation across owners.
MCTarget == [i \in Invs |-> b1]
MCKind == [i \in Invs |-> IF i = i1 THEN "task" ELSE "direct"]

\* Where there are two Bots, the second has one workspace.
MCBotOf == [w \in Workspaces |-> IF w = w2 /\ h2 \in HandsBots THEN h2 ELSE h1]
MCFirstActive == [b \in HandsBots |-> IF b = h2 THEN w2 ELSE w1]

\* Bound: the owner's changes, the ends of the process and the second slot do not
\* all meet in one behaviour of the schedule.
ScheduleBound == clock + sched.edits + scheduleCrashes <= 3

\* Bound: a third revision of the turn comes without a fault.
DistillationBound == stored.revision + distillationFaults <= 3

\* Bound: expiries, a change of the target Bot, crashes and exits that meet.
Mishaps ==
    Cardinality({i \in Invs : invocationLate[i]}) + invocationCrashes + exits
    + Cardinality({b \in InvocationBots : invocationBot[b] # "live" \/ ~shared[b]})
InvocationBound == Mishaps <= MaxMishaps

\* Bounds: where a workspace changes there is one session, one key and no fault,
\* and where another client than c1 takes part there is one Bot and one fault.
TakesPart(c) == Open(c) \/ \E k \in Keys : issuedTo[k] = c
HandsBound ==
    /\ changes > 0 \/ (\E w \in Workspaces : isolate[w].on) =>
          nextKey <= 2 /\ nextSid <= 2 /\ handsFaults = 0
    /\ (\E c \in Clients \ {c1} : TakesPart(c)) =>
          /\ nextKey <= 3 /\ handsFaults <= 1 /\ changes = 0
          /\ \A w \in Workspaces : ~isolate[w].on
          /\ \A c \in Clients : prov[c].bot # h2

\* A component out of focus begins in one of its initial states.
Init ==
    /\ focus \in Components
    /\ ScheduleInit /\ DeletionInit /\ DistillationInit
    /\ InvocationInit /\ ContinuationInit /\ HandsInit
    /\ focus # "continuation" => slow = CHOOSE pace \in Paces : TRUE

Next ==
    \/ /\ focus = "schedules" /\ ScheduleNext /\ ScheduleBound'
       /\ UNCHANGED <<focus, deletionVars, distVars, invocationVars, slow, continuationVars, handsVars>>
    \/ /\ focus = "deletion" /\ DeletionNext
       /\ UNCHANGED <<focus, runVars, distVars, invocationVars, slow, continuationVars, handsVars>>
    \/ /\ focus = "distillation" /\ DistillationNext /\ DistillationBound'
       /\ UNCHANGED <<focus, runVars, deletionVars, invocationVars, slow, continuationVars, handsVars>>
    \/ /\ focus = "invocations" /\ InvocationNext /\ InvocationBound'
       /\ UNCHANGED <<focus, runVars, deletionVars, distVars, slow, continuationVars, handsVars>>
    \/ /\ focus = "continuation" /\ ContinuationNext
       /\ UNCHANGED <<focus, slow, runVars, deletionVars, distVars, invocationVars, handsVars>>
    \/ /\ focus = "hands" /\ HandsNext /\ HandsBound'
       /\ UNCHANGED <<focus, runVars, deletionVars, distVars, invocationVars, slow, continuationVars>>

Spec == Init /\ [][Next]_<<focus, botVars>>

\* None of the fair steps is enabled where a component begins: one that is out of
\* focus has none to take.
FairSpec == Spec /\ InvocationFairness /\ ContinuationFairness /\ HandsFairness
=============================================================================
