------------------------ MODULE GatewaySessionLease ------------------------
(***************************************************************************)
(* The session lease of one Gateway Runtime: the row that says the runtime *)
(* is connected, the aggregate channel's sockets and the HTTP heartbeat    *)
(* that compete for it.                                                    *)
(*                                                                         *)
(* A socket starts with a chain of awaits (authorize, read the registration,*)
(* claim the lease, wait for a first poll) while its events (messages,      *)
(* close) come at any time.  Messages, polls, renewals and the release run  *)
(* one after the other on the socket's serial queue.  Every socket has a   *)
(* fresh lease id, so a socket stands for its lease id; all heartbeats of  *)
(* the runtime share one id, Heartbeat.                                    *)
(***************************************************************************)
EXTENDS Naturals, Sequences

CONSTANTS
    Sockets,        \* the connections a runtime may open, each with its lease id
    Heartbeat,      \* the owner and lease id of the HTTP heartbeat
    Free,           \* no lease row
    MaxQueue,       \* bound on the tasks waiting on a socket's queue
    LeaseMaxFaults  \* bound on lost answers, failed tasks and late renewals

ASSUME LeaseAssumption ==
    /\ Heartbeat \notin Sockets
    /\ Free \notin Sockets \cup {Heartbeat}
    /\ MaxQueue \in Nat /\ LeaseMaxFaults \in Nat

VARIABLES
    leaseActive,               \* the registration is ACTIVE
    lease,                     \* whose lease the row holds
    live,                      \* the row has not expired
    start,                     \* how far the start of a socket has come
    closed, started, claimed,  \* the handler's flags; claimed is leaseClaimed
    ready,                     \* the promise that messages wait for
    queue,                     \* the serial queue of a socket
    lapsed,                    \* history: the socket's lease has expired once
    leaseFaults                \* faults so far

flags == <<closed, started, claimed, ready>>
leaseVars == <<leaseActive, lease, live, start, closed, started, claimed, ready, queue, lapsed, leaseFaults>>

Owners == Sockets \cup {Heartbeat}
Starts == {"unused", "assert", "claim", "answer", "first poll", "serving", "ended"}
Tasks == {"report", "poll", "first poll", "renew", "release"}

LeaseTypeOK ==
    /\ leaseActive \in BOOLEAN /\ live \in BOOLEAN
    /\ lease \in Owners \cup {Free}
    /\ start \in [Sockets -> Starts]
    /\ closed \in [Sockets -> BOOLEAN]
    /\ started \in [Sockets -> BOOLEAN]
    /\ claimed \in [Sockets -> BOOLEAN]
    /\ ready \in [Sockets -> {"pending", "yes", "no"}]
    /\ queue \in [Sockets -> Seq(Tasks)]
    /\ lapsed \in [Sockets -> BOOLEAN]
    /\ leaseFaults \in 0..LeaseMaxFaults

LeaseInit ==
    /\ leaseActive = TRUE
    /\ lease = Free /\ live = FALSE
    /\ start = [s \in Sockets |-> "unused"]
    /\ closed = [s \in Sockets |-> FALSE]
    /\ started = [s \in Sockets |-> FALSE]
    /\ claimed = [s \in Sockets |-> FALSE]
    /\ ready = [s \in Sockets |-> "pending"]
    /\ queue = [s \in Sockets |-> << >>]
    /\ lapsed = [s \in Sockets |-> FALSE]
    /\ leaseFaults = 0

-----------------------------------------------------------------------------
(* The lease row                                                           *)

\* The condition of the upsert: no row, an expired one, or the caller's own.
Claimable(o) == leaseActive /\ (lease \in {Free, o} \/ ~ live)

LeaseTake(o) == lease' = o /\ live' = TRUE

\* The condition of the update that renews.
Renewable(s) == leaseActive /\ lease = s /\ live

\* Mutation of Delete: a row of the same owner id is deleted.
DeleteByOwner(s) ==
    IF lease \in Sockets THEN lease' = Free /\ live' = FALSE ELSE UNCHANGED <<lease, live>>

\* A row with another lease id is left alone; the caller ignores the error.
Delete(s) ==
    IF lease = s THEN lease' = Free /\ live' = FALSE ELSE UNCHANGED <<lease, live>>

\* The lease of an owner expires.
Expire ==
    /\ live
    /\ live' = FALSE
    /\ lapsed' = [s \in Sockets |-> lapsed[s] \/ s = lease]
    /\ UNCHANGED <<leaseActive, lease, start, flags, queue>>

\* A renewal is due every third of the lease's life, so a live socket's lease
\* expires only when its queue or the Platform is held up.
Attended(o) == o = Heartbeat \/ (o \in Sockets /\ start[o] = "serving" /\ ~ closed[o])

Lapse == ~ Attended(lease) /\ Expire /\ UNCHANGED leaseFaults
LateRenewal == Attended(lease) /\ leaseFaults < LeaseMaxFaults /\ Expire /\ leaseFaults' = leaseFaults + 1

-----------------------------------------------------------------------------
(* A socket                                                                *)

\* finish on an open socket whose queue is then tasks: promises, timers, and
\* the release of a claimed lease as the last task.
FinishWith(s, tasks) ==
    /\ closed' = [closed EXCEPT ![s] = TRUE]
    /\ started' = [started EXCEPT ![s] = FALSE]
    /\ ready' = [ready EXCEPT ![s] = IF @ = "pending" THEN "no" ELSE @]
    /\ claimed' = [claimed EXCEPT ![s] = FALSE]
    /\ queue' = [queue EXCEPT ![s] = IF claimed[s] THEN Append(tasks, "release") ELSE tasks]

Finish(s) == FinishWith(s, queue[s])

\* failClosed after the task at the head of the queue: nothing more on a
\* closed socket.
FailTask(s) ==
    IF closed[s]
    THEN /\ queue' = [queue EXCEPT ![s] = Tail(@)]
         /\ UNCHANGED flags
    ELSE FinishWith(s, Tail(queue[s]))

\* The runtime opens a socket.
Open(s) ==
    /\ start[s] = "unused"
    /\ start' = [start EXCEPT ![s] = "assert"]
    /\ UNCHANGED <<leaseActive, lease, live, flags, queue, lapsed, leaseFaults>>

\* authorizeRuntime and assertReadyRuntime have answered.
Asserted(s) ==
    /\ start[s] = "assert"
    /\ leaseActive
    /\ start' = [start EXCEPT ![s] = "claim"]
    /\ UNCHANGED <<leaseActive, lease, live, flags, queue, lapsed, leaseFaults>>

\* The start fails: the catch closes the socket unless it is closed.
StartFails(s) ==
    /\ start' = [start EXCEPT ![s] = "ended"]
    /\ IF closed[s] THEN UNCHANGED <<flags, queue>> ELSE Finish(s)

Refused(s) ==
    /\ start[s] = "assert" /\ ~ leaseActive
    /\ StartFails(s)
    /\ UNCHANGED <<leaseActive, lease, live, lapsed, leaseFaults>>

\* The transaction of claimGatewaySessionLease.
Claim(s) ==
    /\ start[s] = "claim"
    /\ Claimable(s)
    /\ LeaseTake(s)
    /\ start' = [start EXCEPT ![s] = "answer"]
    /\ UNCHANGED <<leaseActive, flags, queue, lapsed, leaseFaults>>

ClaimRefused(s) ==
    /\ start[s] = "claim"
    /\ ~ Claimable(s)
    /\ StartFails(s)
    /\ UNCHANGED <<leaseActive, lease, live, lapsed, leaseFaults>>

\* The claim has committed, but its answer is lost.
ClaimLost(s) ==
    /\ start[s] = "answer"
    /\ leaseFaults < LeaseMaxFaults
    /\ leaseFaults' = leaseFaults + 1
    /\ StartFails(s)
    /\ UNCHANGED <<leaseActive, lease, live, lapsed>>

\* The claim has answered.  A socket closed in the meantime returns here: its
\* finish has already run, and nothing releases the lease.
Claimed(s) ==
    /\ start[s] = "answer"
    /\ claimed' = [claimed EXCEPT ![s] = TRUE]
    /\ IF closed[s]
       THEN /\ start' = [start EXCEPT ![s] = "ended"]
            /\ UNCHANGED <<closed, started, ready, queue>>
       ELSE /\ start' = [start EXCEPT ![s] = "first poll"]
            /\ started' = [started EXCEPT ![s] = TRUE]
            /\ ready' = [ready EXCEPT ![s] = "yes"]
            /\ queue' = [queue EXCEPT ![s] = Append(@, "first poll")]
            /\ UNCHANGED closed
    /\ UNCHANGED <<leaseActive, lease, live, lapsed, leaseFaults>>

\* The peer closes the socket.
Close(s) ==
    /\ start[s] # "unused" /\ ~ closed[s]
    /\ Finish(s)
    /\ UNCHANGED <<leaseActive, lease, live, start, lapsed, leaseFaults>>

\* A message arrives, or a timer of a serving socket fires.
Enqueue(s, task) ==
    /\ Len(queue[s]) < MaxQueue
    /\ ~ closed[s]
    /\ IF task = "report" THEN start[s] # "unused" ELSE start[s] = "serving"
    /\ queue' = [queue EXCEPT ![s] = Append(@, task)]
    /\ UNCHANGED <<leaseActive, lease, live, start, flags, lapsed, leaseFaults>>

-----------------------------------------------------------------------------
(* The serial queue                                                        *)

HasTask(s, task) == queue[s] # << >> /\ Head(queue[s]) = task

Done(s) == queue' = [queue EXCEPT ![s] = Tail(@)] /\ UNCHANGED flags

\* The start goes on after its first poll, or ends when that poll failed or the
\* socket has closed.
AfterFirst(s, open) ==
    start' = IF Head(queue[s]) # "first poll" THEN start
             ELSE [start EXCEPT ![s] = IF open THEN "serving" ELSE "ended"]

\* processMessage and poll: nothing on a closed socket; a report waits for the
\* claim, a poll needs an active registration.
TaskRuns(s) ==
    /\ HasTask(s, "report") \/ HasTask(s, "poll") \/ HasTask(s, "first poll")
    /\ Head(queue[s]) = "report" => ready[s] # "pending"
    /\ Head(queue[s]) # "report" /\ ~ closed[s] => leaseActive
    /\ Done(s)
    /\ AfterFirst(s, ~ closed[s])
    /\ UNCHANGED <<leaseActive, lease, live, lapsed, leaseFaults>>

\* A report is refused, a message cannot be sent, or the registration has been
\* retired: the socket is closed.
TaskFails(s) ==
    /\ HasTask(s, "report") \/ HasTask(s, "poll") \/ HasTask(s, "first poll")
    /\ ~ closed[s]
    /\ \/ Head(queue[s]) # "report" /\ ~ leaseActive /\ UNCHANGED leaseFaults
       \/ /\ Head(queue[s]) = "report" => ready[s] = "yes"
          /\ leaseFaults < LeaseMaxFaults /\ leaseFaults' = leaseFaults + 1
    /\ FailTask(s)
    /\ AfterFirst(s, FALSE)
    /\ UNCHANGED <<leaseActive, lease, live, lapsed>>

\* renewGatewaySessionLease on an open socket; any refusal closes the socket.
RenewTask(s) ==
    /\ HasTask(s, "renew")
    /\ IF closed[s] THEN Done(s) /\ UNCHANGED <<lease, live>>
       ELSE IF Renewable(s) THEN Done(s) /\ LeaseTake(s)
       ELSE FailTask(s) /\ UNCHANGED <<lease, live>>
    /\ UNCHANGED <<leaseActive, start, lapsed, leaseFaults>>

\* releaseGatewaySessionLease.
ReleaseTask(s) ==
    /\ HasTask(s, "release")
    /\ Delete(s)
    /\ Done(s)
    /\ UNCHANGED <<leaseActive, start, lapsed, leaseFaults>>

\* The release does not reach the database; the error is dropped.
ReleaseFails(s) ==
    /\ HasTask(s, "release")
    /\ leaseFaults < LeaseMaxFaults /\ leaseFaults' = leaseFaults + 1
    /\ Done(s)
    /\ UNCHANGED <<leaseActive, lease, live, start, lapsed>>

-----------------------------------------------------------------------------
(* Heartbeat and registration                                              *)

\* The heartbeat claims the lease under its own id; held by a socket, it is
\* refused and tried again after the interval.
HeartbeatClaims ==
    /\ Claimable(Heartbeat)
    /\ LeaseTake(Heartbeat)
    /\ UNCHANGED <<leaseActive, start, flags, queue, lapsed, leaseFaults>>

\* The runtime is retired.
LeaseRetire ==
    /\ leaseActive
    /\ leaseActive' = FALSE
    /\ UNCHANGED <<lease, live, start, flags, queue, lapsed, leaseFaults>>

LeaseQueue(s) == TaskRuns(s) \/ TaskFails(s) \/ RenewTask(s) \/ ReleaseTask(s) \/ ReleaseFails(s)

LeaseStart(s) ==
    \/ Asserted(s) \/ Refused(s) \/ Claim(s) \/ ClaimRefused(s) \/ ClaimLost(s) \/ Claimed(s)

LeaseNext ==
    \/ \E s \in Sockets : Open(s) \/ Close(s) \/ LeaseStart(s) \/ LeaseQueue(s)
    \/ \E s \in Sockets, task \in {"report", "poll", "renew"} : Enqueue(s, task)
    \/ Lapse \/ LateRenewal \/ HeartbeatClaims \/ LeaseRetire

LeaseSpec == LeaseInit /\ [][LeaseNext]_leaseVars

-----------------------------------------------------------------------------
(* Properties                                                              *)

\* A socket that has been let through and whose lease never expired holds the
\* lease: two sockets deliver commands at once only after a late renewal.
ServingHoldsLease ==
    \A s \in Sockets : started[s] /\ ~ lapsed[s] => lease = s

\* A socket is over: its start has ended and its queue is empty.
Over(s) == closed[s] /\ start[s] \in {"serving", "ended"} /\ queue[s] = << >>

\* Unless a request to the database failed, the lease of a socket that is over
\* has been released, or the socket closed while its claim was under way.
OnlyTheRaceLeaks ==
    \A s \in Sockets : Over(s) /\ lease = s /\ live /\ leaseFaults = 0 => claimed[s]

(* Sockets and heartbeats compete for one lease row through awaits and     *)
(* queues: who serves holds it, and only a socket that closed while        *)
(* claiming leaves it behind.                                              *)
LeaseSafe ==
    /\ LeaseTypeOK /\ ServingHoldsLease /\ OnlyTheRaceLeaks

=============================================================================
