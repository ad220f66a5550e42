-------------------------- MODULE BotScheduleRuns --------------------------
(***************************************************************************)
(* A schedule of a Bot and its runs, one per slot of time.  A run is       *)
(* claimed, given a native runtime (the owner's interactive one if there   *)
(* is one, its own otherwise), prepared by several calls, and dispatched   *)
(* as a turn of the Bot's thread.  The turn ends by itself, and its end is *)
(* announced once, to the sessions that listen.  A run that lost sight of  *)
(* its turn is UNCERTAIN until the native history tells what became of it. *)
(*                                                                         *)
(* The schedule and the runs are rows of a database; executions, sessions  *)
(* and what they track are lost with the process.                          *)
(***************************************************************************)
EXTENDS Naturals, FiniteSets

CONSTANTS
    MaxSlot,             \* bound on slots
    MaxEdits,            \* bound on changes of the schedule by its owner
    ScheduleMaxCrashes,  \* bound on ends of the process
    Interactive          \* whether the owner ever opens an interactive session

ASSUME ScheduleAssumption ==
    MaxSlot \in Nat /\ MaxEdits \in Nat /\ ScheduleMaxCrashes \in Nat /\ Interactive \in BOOLEAN

VARIABLES
    clock,           \* the slot that came last
    sched,           \* the schedule: state, revision, prompt and next slot
    runs,            \* per slot its run: state, whether it has a thread, a report due
    scheduleExec,    \* per slot the execution of its run
    own,             \* the slots whose runs have a runtime of their own
    tracked,         \* per slot, the session that waits for the end of its turn
    live,            \* whether the owner's interactive session is there
    tick,            \* the recovery or report the ticking runner is at
    scheduleNative,  \* per slot its turn: status, how often and what it was sent
    reported,        \* per slot, the outcome reported to the policy service
    up,              \* whether the process runs
    scheduleCrashes  \* how often it ended

runVars == <<clock, sched, runs, scheduleExec, own, tracked, live, tick, scheduleNative, reported, up, scheduleCrashes>>

Slots == 1..MaxSlot
ScheduleStates == {"NONE", "QUEUED", "CLAIMED", "STARTING", "RUNNING", "COMPLETED", "AUTH_REQUIRED",
           "BLOCKED", "FAILED", "UNCERTAIN"}
ScheduleEnded == {"COMPLETED", "FAILED", "BLOCKED"}
Pending == {"QUEUED", "AUTH_REQUIRED"}
ScheduleMaxRevision == 1 + MaxSlot + 2 * MaxEdits

NoExec == [pc |-> "idle", session |-> "none", lost |-> FALSE, rev |-> 0, prompt |-> 0]
NoTick == [at |-> "idle", slot |-> 0, session |-> "none", seen |-> "unread"]

ScheduleTypeOK ==
    /\ clock \in 0..MaxSlot
    /\ sched \in [state : {"on", "paused", "deleted"}, rev : 1..ScheduleMaxRevision,
                  prompt : 0..MaxEdits, edits : 0..MaxEdits, next : 0..(MaxSlot + 1)]
    /\ runs \in [Slots -> [state : ScheduleStates, thread : BOOLEAN, due : BOOLEAN]]
    /\ scheduleExec \in [Slots -> [pc : {"idle", "opening", "preparing", "composing", "sent"},
                           session : {"none", "live", "own"}, lost : BOOLEAN,
                           rev : 0..ScheduleMaxRevision, prompt : 0..MaxEdits]]
    /\ own \subseteq Slots
    /\ tracked \in [Slots -> {"none", "live", "own"}]
    /\ live \in BOOLEAN /\ up \in BOOLEAN /\ scheduleCrashes \in 0..ScheduleMaxCrashes
    /\ tick.at \in {"idle", "recover", "report"} /\ tick.slot \in 0..MaxSlot
    /\ scheduleNative \in [Slots -> [turn : {"none", "inProgress", "completed", "failed", "interrupted"},
                             sends : Nat, current : BOOLEAN]]
    /\ reported \in [Slots -> {"none", "COMPLETED", "FAILED"}]

ScheduleInit ==
    /\ clock = 0
    /\ sched = [state |-> "on", rev |-> 1, prompt |-> 0, edits |-> 0, next |-> 1]
    /\ runs = [s \in Slots |-> [state |-> "NONE", thread |-> FALSE, due |-> FALSE]]
    /\ scheduleExec = [s \in Slots |-> NoExec]
    /\ own = {} /\ tracked = [s \in Slots |-> "none"]
    /\ live = FALSE /\ tick = NoTick /\ up = TRUE /\ scheduleCrashes = 0
    /\ scheduleNative = [s \in Slots |-> [turn |-> "none", sends |-> 0, current |-> TRUE]]
    /\ reported = [s \in Slots |-> "none"]

-----------------------------------------------------------------------------
(* The schedule and its owner                                              *)

TimePasses ==
    /\ clock < MaxSlot
    /\ clock' = clock + 1
    /\ UNCHANGED <<sched, runs, scheduleExec, own, tracked, live, tick, scheduleNative, reported, up, scheduleCrashes>>

\* The next slot is the present one, when it has just come, or the one after.
Reschedule(new) ==
    /\ sched.edits < MaxEdits /\ sched.state # "deleted"
    /\ \E n \in {clock, clock + 1} \ {0} :
         sched' = [new EXCEPT !.rev = sched.rev + 1, !.edits = sched.edits + 1,
                              !.next = IF new.state = "on" THEN n ELSE 0]
    /\ UNCHANGED <<clock, scheduleExec, own, tracked, live, tick, scheduleNative, reported, up, scheduleCrashes>>

Update ==
    /\ \E to \in {"on", "paused"}, prompt \in {sched.prompt, sched.edits + 1} :
         prompt <= MaxEdits /\ Reschedule([sched EXCEPT !.state = to, !.prompt = prompt])
    /\ UNCHANGED runs

Delete == Reschedule([sched EXCEPT !.state = "deleted"]) /\ UNCHANGED runs

\* The Bot is deleted with its schedules: work that was not sent is cancelled.
ScheduleCancelBot ==
    /\ Reschedule([sched EXCEPT !.state = "deleted"])
    /\ runs' = [s \in Slots |->
         IF runs[s].state \in Pending
            \/ (runs[s].state \in {"CLAIMED", "STARTING"} /\ ~ runs[s].thread)
         THEN [runs[s] EXCEPT !.state = "BLOCKED"] ELSE runs[s]]

-----------------------------------------------------------------------------
(* Claims                                                                  *)

Latest(S) == CHOOSE s \in S : \A t \in S : t <= s

\* Of the runs that wait, only the latest is kept.
Coalesce(rs) ==
    LET waiting == {s \in Slots : rs[s].state \in Pending}
    IN  [s \in Slots |-> IF s \in waiting /\ s # Latest(waiting)
                         THEN [rs[s] EXCEPT !.state = "BLOCKED"] ELSE rs[s]]

Mark(s, to) == runs' = [runs EXCEPT ![s].state = to]
Ticking == up /\ tick = NoTick

\* A due slot has a run, once, and the schedule its next slot after now: slots
\* that were missed are skipped.
ClaimDue ==
    /\ Ticking /\ sched.state = "on" /\ sched.next \in 1..clock
    /\ sched' = [sched EXCEPT !.next = clock + 1, !.rev = @ + 1]
    /\ runs' = Coalesce([runs EXCEPT ![sched.next].state = IF @ = "NONE" THEN "QUEUED" ELSE @])
    /\ UNCHANGED <<clock, scheduleExec, own, tracked, live, tick, scheduleNative, reported, up, scheduleCrashes>>

\* Nothing is due, and only the waiting runs are looked through.
NothingDue ==
    /\ Ticking /\ Coalesce(runs) # runs
    /\ runs' = Coalesce(runs)
    /\ UNCHANGED <<clock, sched, scheduleExec, own, tracked, live, tick, scheduleNative, reported, up, scheduleCrashes>>

\* A waiting run is claimed, and executed if its schedule is still there.
ClaimRunnable(s) ==
    /\ Ticking /\ Coalesce(runs)[s].state = "QUEUED"
    /\ runs' = [Coalesce(runs) EXCEPT ![s].state =
                  IF sched.state = "on" THEN "CLAIMED" ELSE "BLOCKED"]
    /\ scheduleExec' = IF sched.state = "on"
               THEN [scheduleExec EXCEPT ![s] = [NoExec EXCEPT !.pc = "opening",
                                           !.session = IF live THEN "live" ELSE "own"]]
               ELSE scheduleExec
    /\ UNCHANGED <<clock, sched, own, tracked, live, tick, scheduleNative, reported, up, scheduleCrashes>>

\* The owner opens a session: runs that waited for a login are queued again.
Login ==
    /\ Interactive /\ up /\ ~ live
    /\ live' = TRUE
    /\ runs' = LET kept == Coalesce(runs)
               IN  [s \in Slots |-> IF kept[s].state = "AUTH_REQUIRED"
                                    THEN [kept[s] EXCEPT !.state = "QUEUED"] ELSE kept[s]]
    /\ UNCHANGED <<clock, sched, scheduleExec, own, tracked, tick, scheduleNative, reported, up, scheduleCrashes>>

-----------------------------------------------------------------------------
(* The execution of a run                                                  *)

\* The execution ends with the run in a state; a runtime of its own is closed.
ScheduleLeave(s, to) ==
    /\ Mark(s, to)
    /\ scheduleExec' = [scheduleExec EXCEPT ![s] = NoExec]
    /\ own' = own \ {s}
    /\ UNCHANGED <<clock, sched, tracked, live, tick, scheduleNative, reported, up, scheduleCrashes>>

\* No authority, an identity that does not match, or no capability; or no runtime.
NotOpened(s) ==
    /\ scheduleExec[s].pc = "opening"
    /\ \E to \in {"AUTH_REQUIRED", "BLOCKED"} : ScheduleLeave(s, to)

OpenRuntime(s) ==
    /\ scheduleExec[s].pc = "opening" /\ scheduleExec[s].session = "own" /\ ~ scheduleExec[s].lost /\ s \notin own
    /\ own' = own \cup {s}
    /\ UNCHANGED <<clock, sched, runs, scheduleExec, tracked, live, tick, scheduleNative, reported, up, scheduleCrashes>>

\* Another turn of the Bot is under way.
OtherTurn(s) ==
    \/ \E t \in Slots : scheduleNative[t].turn = "inProgress"
    \/ \E t \in Slots \ {s} : scheduleExec[t].pc \in {"preparing", "composing", "sent"}

Opened(s) == scheduleExec[s].pc = "opening" /\ (scheduleExec[s].session = "live" \/ s \in own)

\* The owner's interactive session may have a turn of its own.
ScheduleBusy(s) ==
    /\ Opened(s) /\ (OtherTurn(s) \/ live)
    /\ ScheduleLeave(s, "QUEUED")

StartTurn(s) ==
    /\ Opened(s) /\ ~ OtherTurn(s)
    /\ Mark(s, "STARTING")
    /\ scheduleExec' = [scheduleExec EXCEPT ![s].pc = "preparing"]
    /\ UNCHANGED <<clock, sched, own, tracked, live, tick, scheduleNative, reported, up, scheduleCrashes>>

\* Authorization, tools, model or thread fail, or the session is gone.
PreparationFails(s) ==
    /\ scheduleExec[s].pc = "preparing"
    /\ \E to \in {"AUTH_REQUIRED", "BLOCKED"} : ScheduleLeave(s, to)

\* The thread is there: the run is tied to it before anything is sent, and the
\* schedule is read again.
Compose(s) ==
    /\ scheduleExec[s].pc = "preparing" /\ ~ scheduleExec[s].lost /\ sched.state = "on"
    /\ runs' = [runs EXCEPT ![s].state = "STARTING", ![s].thread = TRUE]
    /\ scheduleExec' = [scheduleExec EXCEPT ![s].pc = "composing", ![s].rev = sched.rev, ![s].prompt = sched.prompt]
    /\ UNCHANGED <<clock, sched, own, tracked, live, tick, scheduleNative, reported, up, scheduleCrashes>>

Changed(s) == sched.state # "on" \/ sched.rev # scheduleExec[s].rev

\* The turn's parameters are not to be had, or the schedule has changed.
ComposeFails(s) ==
    /\ scheduleExec[s].pc = "composing"
    /\ ScheduleLeave(s, "BLOCKED")

\* The authorization to report is saved, and the turn sent.
Dispatch(s) ==
    /\ scheduleExec[s].pc = "composing" /\ ~ Changed(s) /\ ~ scheduleExec[s].lost
    /\ runs' = [runs EXCEPT ![s].due = TRUE]
    /\ scheduleNative' = [scheduleNative EXCEPT ![s] = [turn |-> "inProgress", sends |-> @.sends + 1,
                    current |-> sched.state = "on" /\ scheduleExec[s].prompt = sched.prompt]]
    /\ scheduleExec' = [scheduleExec EXCEPT ![s].pc = "sent"]
    /\ UNCHANGED <<clock, sched, own, tracked, live, tick, reported, up, scheduleCrashes>>

\* The session does not take it.
DispatchFails(s) ==
    /\ scheduleExec[s].pc = "composing" /\ ~ Changed(s)
    /\ runs' = [runs EXCEPT ![s].due = TRUE, ![s].state = "UNCERTAIN"]
    /\ scheduleExec' = [scheduleExec EXCEPT ![s] = NoExec]
    /\ own' = own \ {s}
    /\ UNCHANGED <<clock, sched, tracked, live, tick, scheduleNative, reported, up, scheduleCrashes>>

RunState(turn) ==
    CASE turn = "completed" -> "COMPLETED" [] turn = "failed" -> "FAILED"
      [] turn = "interrupted" -> "BLOCKED" [] OTHER -> "RUNNING"

\* The session answers.  The turn may have ended by then.
Started(s) ==
    /\ scheduleExec[s].pc = "sent"
    /\ LET to == RunState(scheduleNative[s].turn)
       IN  /\ Mark(s, to)
           /\ tracked' = [tracked EXCEPT ![s] = IF to = "RUNNING" THEN scheduleExec[s].session ELSE "none"]
           /\ own' = IF to = "RUNNING" THEN own ELSE own \ {s}
    /\ scheduleExec' = [scheduleExec EXCEPT ![s] = NoExec]
    /\ UNCHANGED <<clock, sched, live, tick, scheduleNative, reported, up, scheduleCrashes>>

\* No answer in time.
StartTimesOut(s) ==
    /\ scheduleExec[s].pc = "sent"
    /\ ScheduleLeave(s, "UNCERTAIN")

-----------------------------------------------------------------------------
(* Turns and sessions                                                      *)

\* A turn ends; the session that waits for it marks the run.
Finish(s, turn) ==
    /\ scheduleNative[s].turn = "inProgress"
    /\ scheduleNative' = [scheduleNative EXCEPT ![s].turn = turn]
    /\ IF tracked[s] # "none"
       THEN Mark(s, RunState(turn)) /\ tracked' = [tracked EXCEPT ![s] = "none"] /\ own' = own \ {s}
       ELSE UNCHANGED <<runs, tracked, own>>
    /\ UNCHANGED <<clock, sched, scheduleExec, live, tick, reported, up, scheduleCrashes>>

\* Runs that have lost their session: what they track, and what they sent.
Lost(s, session) ==
    \/ tracked[s] = session
    \/ scheduleExec[s].session = session /\ scheduleExec[s].pc = "sent"

\* The native process of a run exits.
OwnExits(s) ==
    /\ s \in own /\ ~ (tick.at = "recover" /\ tick.slot = s)
    /\ own' = own \ {s}
    /\ runs' = [runs EXCEPT ![s].state = IF @ \in {"STARTING", "RUNNING"} THEN "UNCERTAIN" ELSE @]
    /\ scheduleExec' = [scheduleExec EXCEPT ![s] = IF scheduleExec[s].pc = "sent" THEN NoExec
                                   ELSE [scheduleExec[s] EXCEPT !.lost = scheduleExec[s].lost \/ scheduleExec[s].pc # "idle"]]
    /\ tracked' = [tracked EXCEPT ![s] = "none"]
    /\ UNCHANGED <<clock, sched, live, tick, scheduleNative, reported, up, scheduleCrashes>>

LiveExits ==
    /\ live
    /\ live' = FALSE
    /\ runs' = [s \in Slots |-> IF Lost(s, "live") THEN [runs[s] EXCEPT !.state = "UNCERTAIN"]
                                ELSE runs[s]]
    /\ scheduleExec' = [s \in Slots |-> IF scheduleExec[s].session # "live" THEN scheduleExec[s]
                                ELSE IF scheduleExec[s].pc = "sent" THEN NoExec
                                ELSE [scheduleExec[s] EXCEPT !.lost = TRUE]]
    /\ tracked' = [s \in Slots |-> IF tracked[s] = "live" THEN "none" ELSE tracked[s]]
    /\ UNCHANGED <<clock, sched, own, tick, scheduleNative, reported, up, scheduleCrashes>>

-----------------------------------------------------------------------------
(* Recovery and reports                                                    *)

BeginRecover(s) ==
    /\ Ticking /\ runs[s].state = "UNCERTAIN"
    /\ IF runs[s].thread
       THEN /\ tick' = [at |-> "recover", slot |-> s, seen |-> "unread",
                        session |-> IF live THEN "live" ELSE "own"]
            /\ own' = IF live THEN own ELSE own \cup {s}
            /\ UNCHANGED runs
       ELSE Mark(s, "BLOCKED") /\ UNCHANGED <<tick, own>>
    /\ UNCHANGED <<clock, sched, scheduleExec, tracked, live, scheduleNative, reported, up, scheduleCrashes>>

Recovering(s) == tick.at = "recover" /\ tick.slot = s

\* No authority, no runtime, or no history.
RecoverFails(s) ==
    /\ Recovering(s) /\ tick.seen = "unread"
    /\ Mark(s, "UNCERTAIN")
    /\ tick' = NoTick
    /\ own' = IF tick.session = "own" THEN own \ {s} ELSE own
    /\ UNCHANGED <<clock, sched, scheduleExec, tracked, live, scheduleNative, reported, up, scheduleCrashes>>

ReadHistory(s) ==
    /\ Recovering(s) /\ tick.seen = "unread" /\ (tick.session = "live" => live)
    /\ tick' = [tick EXCEPT !.seen = scheduleNative[s].turn]
    /\ UNCHANGED <<clock, sched, runs, scheduleExec, own, tracked, live, scheduleNative, reported, up, scheduleCrashes>>

\* A runtime of the run's own has kept the end of the turn, if it was announced
\* meanwhile; the interactive one has not.
Found(s) ==
    IF tick.session = "own" /\ tick.seen = "inProgress" THEN scheduleNative[s].turn ELSE tick.seen

EndRecover(s) ==
    /\ Recovering(s) /\ tick.seen # "unread"
    /\ LET turn == Found(s)
           to == IF turn = "none" THEN "BLOCKED"
                 ELSE IF turn = "inProgress" /\ tick.session = "own" THEN "UNCERTAIN"
                 ELSE RunState(turn)
       IN  /\ Mark(s, to)
           /\ tracked' = [tracked EXCEPT ![s] = IF to = "RUNNING" THEN "live" ELSE @]
    /\ tick' = NoTick
    /\ own' = IF tick.session = "own" THEN own \ {s} ELSE own
    /\ UNCHANGED <<clock, sched, scheduleExec, live, scheduleNative, reported, up, scheduleCrashes>>

ScheduleOutcome(state) == IF state = "COMPLETED" THEN "COMPLETED" ELSE "FAILED"

BeginReport(s) ==
    /\ Ticking /\ runs[s].state \in ScheduleEnded /\ runs[s].due
    /\ tick' = [NoTick EXCEPT !.at = "report", !.slot = s]
    /\ reported' = [reported EXCEPT ![s] = ScheduleOutcome(runs[s].state)]
    /\ UNCHANGED <<clock, sched, runs, scheduleExec, own, tracked, live, scheduleNative, up, scheduleCrashes>>

\* The report was taken, and is due no more; or nobody knows, and it stays due.
EndReport(s, taken) ==
    /\ tick.at = "report" /\ tick.slot = s
    /\ runs' = IF taken THEN [runs EXCEPT ![s].due = FALSE] ELSE runs
    /\ tick' = NoTick
    /\ UNCHANGED <<clock, sched, scheduleExec, own, tracked, live, scheduleNative, reported, up, scheduleCrashes>>

-----------------------------------------------------------------------------
(* The process                                                             *)

Down ==
    /\ up' = FALSE /\ scheduleCrashes' = scheduleCrashes + 1
    /\ scheduleExec' = [s \in Slots |-> NoExec]
    /\ own' = {} /\ tracked' = [s \in Slots |-> "none"] /\ live' = FALSE /\ tick' = NoTick
    /\ UNCHANGED <<clock, sched, scheduleNative, reported>>

ScheduleCrash ==
    /\ up /\ scheduleCrashes < ScheduleMaxCrashes
    /\ Down
    /\ UNCHANGED runs

\* The runner is stopped: runs with a runtime of their own are uncertain, or,
\* where the execution still had its say, blocked.
Stop ==
    /\ up /\ scheduleCrashes < ScheduleMaxCrashes
    /\ \E said \in SUBSET {s \in own : scheduleExec[s].pc \in {"preparing", "composing"}} :
         runs' = [s \in Slots |->
           IF s \in own /\ runs[s].state \in {"STARTING", "RUNNING"}
           THEN [runs[s] EXCEPT !.state = IF s \in said THEN "BLOCKED" ELSE "UNCERTAIN"]
           ELSE runs[s]]
    /\ Down

\* Mutation of Interrupted: every interrupted run is executed again.
InterruptedAgain(run) ==
    IF run.state \in {"CLAIMED", "STARTING", "RUNNING"} THEN [run EXCEPT !.state = "QUEUED"] ELSE run

\* recoverInterrupted: a run without a thread was not sent, and is executed
\* again; one that has a thread may have been.
Interrupted(run) ==
    IF run.state \in {"CLAIMED", "STARTING"} /\ ~ run.thread THEN [run EXCEPT !.state = "QUEUED"]
    ELSE IF run.state \in {"CLAIMED", "STARTING", "RUNNING"} THEN [run EXCEPT !.state = "UNCERTAIN"]
    ELSE run

ScheduleRestart ==
    /\ ~ up
    /\ up' = TRUE
    /\ runs' = [s \in Slots |-> Interrupted(runs[s])]
    /\ UNCHANGED <<clock, sched, scheduleExec, own, tracked, live, tick, scheduleNative, reported, scheduleCrashes>>

-----------------------------------------------------------------------------
Claims == ClaimDue \/ NothingDue \/ \E s \in Slots : ClaimRunnable(s)

Execute(s) ==
    \/ NotOpened(s) \/ OpenRuntime(s) \/ ScheduleBusy(s) \/ StartTurn(s) \/ PreparationFails(s)
    \/ Compose(s) \/ ComposeFails(s) \/ Dispatch(s) \/ DispatchFails(s)
    \/ Started(s) \/ StartTimesOut(s)

Recover(s) ==
    \/ BeginRecover(s) \/ RecoverFails(s) \/ ReadHistory(s) \/ EndRecover(s)
    \/ BeginReport(s) \/ \E taken \in BOOLEAN : EndReport(s, taken)

Ends(s) == \E turn \in {"completed", "failed", "interrupted"} : Finish(s, turn)

ScheduleNext ==
    \/ TimePasses \/ Update \/ Delete \/ ScheduleCancelBot
    \/ Claims \/ Login \/ LiveExits \/ ScheduleCrash \/ Stop \/ ScheduleRestart
    \/ \E s \in Slots : Execute(s) \/ Ends(s) \/ OwnExits(s) \/ Recover(s)

ScheduleSpec == ScheduleInit /\ [][ScheduleNext]_runVars

-----------------------------------------------------------------------------
(* Properties                                                              *)

\* A slot's prompt is sent to the native runtime at most once, whatever
\* crashes, timeouts, lost answers and recoveries there are
\* (recoverInterrupted, reconcileUncertainRuns).
SentOnce == \A s \in Slots : scheduleNative[s].sends <= 1

\* What is sent is the prompt the schedule has at that moment, and no paused or
\* deleted schedule is sent: preparation takes several calls, during which the
\* owner may change it (startTurn).
SentAsSaved == \A s \in Slots : scheduleNative[s].current

\* A run that has ended says of its turn what became of it, and a run is blocked
\* only if its turn was never sent or was interrupted (reconcileUncertainRuns).
OutcomeIsNative ==
    \A s \in Slots :
        /\ runs[s].state = "COMPLETED" => scheduleNative[s].turn = "completed"
        /\ runs[s].state = "FAILED" => scheduleNative[s].turn = "failed"
        /\ runs[s].state = "BLOCKED" => scheduleNative[s].turn \in {"none", "interrupted"}

\* The outcome reported for a run is the one it has (replayConfirmedReports).
ReportedAsEnded ==
    \A s \in Slots :
        reported[s] # "none" => runs[s].state \in ScheduleEnded /\ reported[s] = ScheduleOutcome(runs[s].state)

(* Through crashes, timeouts, lost answers and edits of the schedule, a    *)
(* slot's prompt is sent at most once and as it was saved, and its run     *)
(* ends and is reported as the native turn ended.                          *)
ScheduleSafe ==
    /\ ScheduleTypeOK /\ SentOnce /\ SentAsSaved /\ OutcomeIsNative /\ ReportedAsEnded

=============================================================================
