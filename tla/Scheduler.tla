------------------------------ MODULE Scheduler ------------------------------
(***************************************************************************)
(* Scheduled tasks: src/main/scheduler/schedulerService.ts over the        *)
(* scheduled_tasks and scheduled_runs tables of src/main/state/database.ts *)
(* and the executor of src/main/index.ts.                                  *)
(*                                                                         *)
(* tasks and runs are the database and survive a crash; everything else is *)
(* memory of the main process.  One clock unit is one tick interval.  An   *)
(* action is a macrotask, except that the drain loop is one action per     *)
(* run: while it has a next run to look at, nothing else is scheduled      *)
(* (Settled), but the process may still be killed.                         *)
(***************************************************************************)
EXTENDS Naturals, Sequences, FiniteSets

CONSTANTS
    Tasks, Projects,   \* identifiers
    TaskInputs,        \* what a user may save for a task: policy, attempts, projects
    NextOccurrence,    \* NextOccurrence[t][n]: the first occurrence of t after n
    Backoff,           \* retryBackoffMinutes, in ticks
    MaxAttempts,       \* the largest maxAttempts a task may ask for
    MaxTime,           \* bound: the clock
    MaxRuns            \* bound: manual runs start only below this many records

Time == 0 .. MaxTime
Never == MaxTime + 1   \* a null nextRunAt, a timer that is not armed

ASSUME TimeAssumption == MaxTime \in Nat \ {0}
ASSUME AttemptsAssumption == MaxAttempts \in Nat \ {0} /\ Backoff \in Nat \ {0}
ASSUME RunsAssumption == MaxRuns \in Nat
ASSUME TaskInputsAssumption ==
    TaskInputs \in [Tasks -> SUBSET [missedRunPolicy : {"run_once", "skip"},
                                      maxAttempts : 1 .. MaxAttempts,
                                      projectIds : SUBSET Projects]]
ASSUME NextOccurrenceAssumption == NextOccurrence \in [Tasks -> [Time -> 0 .. Never]]

VARIABLES
    tasks,     \* scheduled_tasks
    runs,      \* scheduled_runs, by task and project, oldest first
    now,       \* the clock
    service,   \* the process: down, constructed (booted), started, stopping
    timer,     \* when #timer is due
    drain,     \* who awaits the #drain in progress: a tick, a call, or nobody
    active     \* the run being executed, as #controllers and #activeTaskIds hold it

store == <<tasks, runs>>
memory == <<timer, drain, active>>
vars == <<tasks, runs, now, service, timer, drain, active>>

TaskRecord ==
    [status : {"absent", "active", "paused"}, nextRunAt : 0 .. Never,
     missedRunPolicy : {"run_once", "skip"}, maxAttempts : 1 .. MaxAttempts,
     projectIds : SUBSET Projects]

\* cause is the error text of a finished run, by what it reports.
Statuses == {"queued", "running", "succeeded", "failed", "cancelled", "skipped"}
Causes == {"none", "error", "cancelled", "interrupted", "overlap", "missed", "deleted"}

RunRecord ==
    [scheduledFor : Nat, attempt : 1 .. MaxAttempts, status : Statuses, cause : Causes]

RunTable == [Tasks -> [Projects -> Seq(RunRecord)]]

ActiveRecord ==
    [task : Tasks, project : Projects, index : Nat, held : TaskRecord, aborted : BOOLEAN]

TypeOK ==
    /\ tasks \in [Tasks -> TaskRecord]
    /\ runs \in RunTable
    /\ now \in Time
    /\ service \in {"down", "booted", "started", "stopping"}
    /\ timer \in 0 .. Never
    /\ drain \in {"none", "tick", "call"}
    /\ active \subseteq ActiveRecord
    /\ \A c \in active : c.index \in DOMAIN runs[c.task][c.project]

Absent ==
    [status |-> "absent", nextRunAt |-> Never, missedRunPolicy |-> "skip",
     maxAttempts |-> 1, projectIds |-> {}]

Init ==
    /\ tasks = [t \in Tasks |-> Absent]
    /\ runs = [t \in Tasks |-> [p \in Projects |-> <<>>]]
    /\ now = 0 /\ service = "down"
    /\ timer = Never /\ drain = "none" /\ active = {}

-----------------------------------------------------------------------------
(* Building blocks.                                                        *)

Exists(t) == tasks[t].status # "absent"
IsActive(t) == \E c \in active : c.task = t

\* The bound on manual runs and on crashes that duplicate runs.
HasRoom == \A t \in Tasks, p \in Projects : Len(runs[t][p]) < MaxRuns

\* The drain loop holds the event loop until it awaits an execution or ends.
Settled == drain = "none" \/ active # {}

\* Calls come over IPC, which is registered before the service starts.
Callable == service \in {"booted", "started"} /\ Settled

NewRun(at, k, s, why) == [scheduledFor |-> at, attempt |-> k, status |-> s, cause |-> why]

\* One more record for each project of ps.
Record(rs, t, ps, run) ==
    [rs EXCEPT ![t] = [p \in Projects |->
        IF p \in ps THEN Append(rs[t][p], run) ELSE rs[t][p]]]

Mark(run, s, why) == [run EXCEPT !.status = s, !.cause = why]

SetRun(rs, t, p, i, s, why) == [rs EXCEPT ![t][p][i] = Mark(@, s, why)]

\* #scheduleTick.  At the end of the clock a timer is due at once.
TickTime == IF now < MaxTime THEN now + 1 ELSE MaxTime
ScheduleTick == timer' = IF service = "started" THEN TickTime ELSE timer

-----------------------------------------------------------------------------
(* The calls of the UI.                                                    *)

SavedNextRunAt(t) ==
    IF tasks[t].status = "paused" THEN Never ELSE NextOccurrence[t][now]

\* A new task gets a fresh identifier, one no earlier run names.
SaveTask(t) ==
    /\ Callable
    /\ Exists(t) \/ \A p \in Projects : runs[t][p] = <<>>
    /\ \E input \in TaskInputs[t] :
         tasks' = [tasks EXCEPT ![t] =
            [status |-> IF Exists(t) THEN tasks[t].status ELSE "active",
             nextRunAt |-> SavedNextRunAt(t),
             missedRunPolicy |-> input.missedRunPolicy, maxAttempts |-> input.maxAttempts,
             projectIds |-> input.projectIds]]
    /\ ScheduleTick
    /\ UNCHANGED <<runs, now, service, drain, active>>

SetPaused(t, paused) ==
    /\ Callable /\ Exists(t)
    /\ tasks' = [tasks EXCEPT
         ![t].status = IF paused THEN "paused" ELSE "active",
         ![t].nextRunAt = IF paused THEN Never ELSE NextOccurrence[t][now]]
    /\ ScheduleTick
    /\ UNCHANGED <<runs, now, service, drain, active>>

DeleteTask(t) ==
    /\ Callable /\ Exists(t) /\ ~IsActive(t)
    /\ tasks' = [tasks EXCEPT ![t] = Absent]
    /\ UNCHANGED <<runs, now, service, memory>>

\* Queue the task now; drain unless a drain is in progress or the service has
\* not started.
RunNow(t) ==
    /\ Callable /\ Exists(t) /\ ~IsActive(t)
    /\ HasRoom
    /\ runs' = Record(runs, t, tasks[t].projectIds, NewRun(now, 1, "queued", "none"))
    /\ drain' = IF drain = "none" /\ service = "started" THEN "call" ELSE drain
    /\ UNCHANGED <<tasks, now, service, timer, active>>

CancelRun ==
    /\ service = "started" /\ Settled
    /\ \E c \in active : ~c.aborted /\ active' = {[c EXCEPT !.aborted = TRUE]}
    /\ UNCHANGED <<store, now, service, timer, drain>>

-----------------------------------------------------------------------------
(* tick().                                                                 *)

IsDue(t) == tasks[t].status = "active" /\ tasks[t].nextRunAt <= now

IsMissed(t) == now - tasks[t].nextRunAt > 2

Queues(t) == ~IsActive(t) /\ (IsMissed(t) => tasks[t].missedRunPolicy = "run_once")

\* What a tick records for a due task.
TickRun(t) ==
    LET at == tasks[t].nextRunAt
    IN IF Queues(t) THEN NewRun(at, 1, "queued", "none")
       ELSE NewRun(at, 1, "skipped", IF IsActive(t) THEN "overlap" ELSE "missed")

\* The loop over the tasks, then the call of #drain: a tick that starts the
\* drain waits for it before it arms the next timer; otherwise it arms at once.
TickBody ==
    /\ runs' = [t \in Tasks |->
         IF IsDue(t) THEN Record(runs, t, tasks[t].projectIds, TickRun(t))[t] ELSE runs[t]]
    /\ tasks' = [t \in Tasks |->
         IF IsDue(t) THEN [tasks[t] EXCEPT !.nextRunAt = NextOccurrence[t][now]] ELSE tasks[t]]
    /\ drain' = IF drain = "none" THEN "tick" ELSE drain
    /\ timer' = IF drain = "none" THEN Never ELSE TickTime

Tick ==
    /\ service = "started" /\ Settled /\ timer <= now
    /\ TickBody
    /\ UNCHANGED <<now, service, active>>

-----------------------------------------------------------------------------
(* #drain and #executeRun.                                                 *)

Due(t, p, i) ==
    /\ i \in DOMAIN runs[t][p]
    /\ runs[t][p][i].status = "queued" /\ runs[t][p][i].scheduledFor <= now

AnyDue == \E t \in Tasks, p \in Projects : \E i \in DOMAIN runs[t][p] : Due(t, p, i)

\* listDueScheduledRuns orders by scheduledFor alone.
IsNext(t, p, i) ==
    /\ Due(t, p, i)
    /\ \A u \in Tasks, q \in Projects : \A j \in DOMAIN runs[u][q] :
         Due(u, q, j) => runs[t][p][i].scheduledFor <= runs[u][q][j].scheduledFor

\* Fault: a second drain starts while a run is executing.
Fault_DrainTwice ==
    /\ drain # "none" /\ service = "started"
    /\ \E t \in Tasks, p \in Projects : \E i \in DOMAIN runs[t][p] :
         /\ IsNext(t, p, i) /\ Exists(t)
         /\ runs' = SetRun(runs, t, p, i, "running", "none")
         /\ active' = active \cup {[task |-> t, project |-> p, index |-> i,
                                    held |-> tasks[t], aborted |-> FALSE]}
    /\ UNCHANGED <<tasks, now, service, timer, drain>>

\* Fault: the loop gives up at a run whose task is gone.
Fault_DrainStopsAtDeleted ==
    /\ drain # "none" /\ active = {} /\ service = "started"
    /\ \E t \in Tasks, p \in Projects : \E i \in DOMAIN runs[t][p] :
         /\ IsNext(t, p, i) /\ Exists(t)
         /\ runs' = SetRun(runs, t, p, i, "running", "none")
         /\ active' = {[task |-> t, project |-> p, index |-> i,
                        held |-> tasks[t], aborted |-> FALSE]}
    /\ UNCHANGED <<tasks, now, service, timer, drain>>

\* The head of the loop: start the run, or skip it when its task is gone.
DrainStep ==
    /\ drain # "none" /\ active = {} /\ service = "started"
    /\ \E t \in Tasks, p \in Projects : \E i \in DOMAIN runs[t][p] :
         /\ IsNext(t, p, i)
         /\ IF Exists(t)
              THEN /\ runs' = SetRun(runs, t, p, i, "running", "none")
                   /\ active' = {[task |-> t, project |-> p, index |-> i,
                                  held |-> tasks[t], aborted |-> FALSE]}
              ELSE /\ runs' = SetRun(runs, t, p, i, "skipped", "deleted")
                   /\ UNCHANGED active
    /\ UNCHANGED <<tasks, now, service, timer, drain>>

\* The loop finds no run or the service was stopped; a waiting tick goes on.
DrainEnds ==
    /\ drain # "none" /\ active = {}
    /\ service = "started" => ~AnyDue
    /\ drain' = "none"
    /\ IF drain = "tick" THEN ScheduleTick ELSE UNCHANGED timer
    /\ UNCHANGED <<store, now, service, active>>

\* Fault: the task read before the execution is written back after it.
Fault_WriteHeldTask(c) ==
    /\ service = "started"
    /\ runs' = SetRun(runs, c.task, c.project, c.index, "succeeded", "none")
    /\ tasks' = [tasks EXCEPT ![c.task] = c.held]
    /\ active' = {}
    /\ UNCHANGED <<now, service, timer, drain>>

\* The turn completed.  The task is read again and only lastRunAt and threadIds,
\* which no property tells apart, are written back.
ExecuteSucceeds(c) ==
    /\ service = "started"
    /\ runs' = SetRun(runs, c.task, c.project, c.index, "succeeded", "none")
    /\ active' = {}
    /\ UNCHANGED <<tasks, now, service, timer, drain>>

\* Fault: a cancelled run is retried like a failed one.
Fault_RetryCancelled(c) ==
    runs[c.task][c.project][c.index].attempt < c.held.maxAttempts

\* Whether a failed execution is retried.
Retries(c) ==
    ~c.aborted /\ runs[c.task][c.project][c.index].attempt < c.held.maxAttempts

Finish(c) ==
    IF c.aborted
      THEN SetRun(runs, c.task, c.project, c.index, "cancelled", "cancelled")
      ELSE SetRun(runs, c.task, c.project, c.index, "failed", "error")

RetryRun(c) ==
    NewRun(now + Backoff, runs[c.task][c.project][c.index].attempt + 1, "queued", "none")

\* The turn failed, was interrupted or ran into the 6 hour limit.  A retry queues
\* every project of the task as it was when the run began.
ExecuteFails(c) ==
    /\ service = "started"
    /\ runs' = IF Retries(c) THEN Record(Finish(c), c.task, c.held.projectIds, RetryRun(c))
               ELSE Finish(c)
    /\ active' = {}
    /\ UNCHANGED <<tasks, now, service, timer, drain>>

\* After stop() an execution that ends writes nothing.
ExecuteAfterStop(c) ==
    /\ service = "stopping"
    /\ active' = {}
    /\ UNCHANGED <<store, now, service, timer, drain>>

-----------------------------------------------------------------------------
(* The process.                                                            *)

\* recoverInterruptedScheduledRuns.
Recovered ==
    [t \in Tasks |-> [p \in Projects |-> [i \in DOMAIN runs[t][p] |->
        IF runs[t][p][i].status = "running"
          THEN Mark(runs[t][p][i], "failed", "interrupted")
          ELSE runs[t][p][i]]]]

\* The constructor.
Boot ==
    /\ service = "down"
    /\ service' = "booted"
    /\ runs' = Recovered
    /\ UNCHANGED <<tasks, now, memory>>

\* start(), once the agent runtime has answered its first start.
StartService ==
    /\ service = "booted"
    /\ service' = "started"
    /\ TickBody
    /\ UNCHANGED <<now, active>>

Stop ==
    /\ service = "started" /\ Settled
    /\ service' = "stopping"
    /\ timer' = Never
    /\ active' = {[c EXCEPT !.aborted = TRUE] : c \in active}
    /\ UNCHANGED <<store, now, drain>>

ProcessGone == service' = "down" /\ timer' = Never /\ drain' = "none" /\ active' = {}

\* The process exits or is killed between two writes of the database.
Kill ==
    /\ service # "down"
    /\ ProcessGone
    /\ UNCHANGED <<store, now>>

\* Killed inside a tick: some runs of a due task are queued, nextRunAt is not
\* written yet.
KilledInTick ==
    /\ service = "booted" \/ (service = "started" /\ Settled /\ timer <= now)
    /\ \E t \in Tasks : \E ps \in SUBSET tasks[t].projectIds :
         /\ IsDue(t)
         /\ HasRoom
         /\ runs' = Record(runs, t, ps, TickRun(t))
    /\ ProcessGone
    /\ UNCHANGED <<tasks, now>>

\* Killed between the record of a failure and its retries.
KilledInRetry(c) ==
    /\ service = "started" /\ Retries(c)
    /\ \E ps \in SUBSET c.held.projectIds :
         runs' = Record(Finish(c), c.task, ps, RetryRun(c))
    /\ ProcessGone
    /\ UNCHANGED <<tasks, now>>

\* Time passes, but not beyond a timer the event loop still has to serve.
Advance ==
    /\ now < MaxTime
    /\ service = "started" => Settled /\ now < timer
    /\ now' = now + 1
    /\ UNCHANGED <<store, service, memory>>

Execution == \E c \in active : ExecuteSucceeds(c) \/ ExecuteFails(c) \/ ExecuteAfterStop(c)

Next ==
    \/ \E t \in Tasks :
         SaveTask(t) \/ SetPaused(t, TRUE) \/ SetPaused(t, FALSE) \/ DeleteTask(t) \/ RunNow(t)
    \/ CancelRun
    \/ Tick \/ DrainStep \/ DrainEnds
    \/ Execution
    \/ Boot \/ StartService \/ Stop \/ Kill \/ KilledInTick
    \/ \E c \in active : KilledInRetry(c)
    \/ Advance

Spec == Init /\ [][Next]_vars

\* Timers fire, the drain loop runs on, the clock moves and an execution ends,
\* by the 6 hour limit if by nothing else.  Users and crashes owe nothing.
Fairness ==
    WF_vars(Tick) /\ WF_vars(DrainStep) /\ WF_vars(DrainEnds)
        /\ WF_vars(Execution) /\ WF_vars(Advance)

FairSpec == Spec /\ Fairness

-----------------------------------------------------------------------------
(* Properties.                                                             *)

\* docs/SCHEDULED_TASKS.md: the queue is served serially and a task never
\* overlaps itself.  While the service runs, a record says 'running' only for
\* the one execution in memory, also after crashes and concurrent ticks.
OneRunAtATime ==
    /\ \A c, d \in active : c = d
    /\ service = "started" =>
         \A t \in Tasks, p \in Projects : \A i \in DOMAIN runs[t][p] :
            runs[t][p][i].status = "running" =>
               \E c \in active : c.task = t /\ c.project = p /\ c.index = i

Rank(status) ==
    CASE status = "queued" -> 0
      [] status = "running" -> 1
      [] OTHER -> 2

\* A run only moves forward: an interrupted run is never queued or executed
\* again, and the result in the inbox does not change afterwards.
RunsMoveForward ==
    [][\A t \in Tasks, p \in Projects : \A i \in DOMAIN runs[t][p] :
         \/ runs'[t][p][i] = runs[t][p][i]
         \/ Rank(runs[t][p][i].status) < Rank(runs'[t][p][i].status)]_vars

\* A second attempt exists only because a first one of the task failed while the
\* service ran: neither a cancellation nor a crash leads to a retry.
RetriesAreJustified ==
    \A t \in Tasks, p \in Projects : \A i \in DOMAIN runs[t][p] :
        runs[t][p][i].attempt > 1 =>
            \E q \in Projects : \E j \in DOMAIN runs[t][q] :
                /\ runs[t][q][j].attempt = runs[t][p][i].attempt - 1
                /\ runs[t][q][j].status = "failed" /\ runs[t][q][j].cause = "error"

\* The end of an execution that ran for hours does not undo what the user did to
\* the task meanwhile: paused it, edited it, resumed it.
FinishKeepsEdits ==
    [][active # {} /\ active' = {} => tasks' = tasks]_vars

\* A paused task has no next run, so no tick queues it, however saves, resumes
\* and finishing runs interleave.
PausedNeverScheduled ==
    \A t \in Tasks : tasks[t].status = "paused" => tasks[t].nextRunAt = Never

\* The scheduler never falls silent: unless a tick is waiting for the drain, the
\* next tick is armed.
TickStaysArmed == service = "started" /\ drain # "tick" => timer # Never

\* A due run leaves the queue while the service runs: it is executed, or skipped
\* when its task is gone.
DueRunLeavesQueue ==
    \A t \in Tasks, p \in Projects, i \in 1 .. MaxRuns + 1 :
        (service = "started" /\ Due(t, p, i)) ~> (service # "started" \/ ~Due(t, p, i))

\* docs/SCHEDULED_TASKS.md: a failed run is attempted again, up to the configured
\* number of attempts.  So a project has no more attempts k+1 than failures at k.
RetryOnlyFailed ==
    \A t \in Tasks, p \in Projects : \A k \in 1 .. MaxAttempts - 1 :
        Cardinality({i \in DOMAIN runs[t][p] : runs[t][p][i].attempt = k + 1})
          <= Cardinality({i \in DOMAIN runs[t][p] :
                 runs[t][p][i].attempt = k /\ runs[t][p][i].status = "failed"})
=============================================================================
