------------------------------ MODULE Scripts ------------------------------
(***************************************************************************)
(* Script executions: the API handler that saves an execution and runs it  *)
(* or submits it, the runner with its bounded channel and workers          *)
(* (internal/scripts/runner.go), the container executor, the cron          *)
(* scheduler with its own copy of the scripts (scheduler.go), and the      *)
(* tables they share (internal/storage/scripts.go).                        *)
(*                                                                         *)
(* An execution has a row (its status) and a place: where its job is.      *)
(* Parameters, output and exit codes are left out, and with them how an    *)
(* execution ends; MaxScriptFaults bounds the statements that fail and the *)
(* restarts.                                                               *)
(***************************************************************************)
EXTENDS Naturals, Sequences, FiniteSets

CONSTANTS ScriptIds,         \* identifiers of scripts
          ExecIds,           \* identifiers of executions
          ScheduleIds,       \* identifiers of schedules
          WorkerCount,       \* workers of the runner
          RunnerQueueSize,   \* capacity of Runner.queue
          MaxScriptFaults    \* bound: statements that fail, and restarts

ASSUME ScriptsAssumption == /\ WorkerCount \in Nat \ {0}
                            /\ RunnerQueueSize \in Nat \ {0}
                            /\ MaxScriptFaults \in Nat

VARIABLES scriptRows,     \* scripts registered in the table
          scheduleRow,    \* schedule -> its row
          execRow,        \* execution -> status of its row, or "absent"
          task,           \* execution -> who runs it and its script
          place,          \* execution -> where its job is
          faulted,        \* executions a statement or Docker call of which failed
          box,            \* executions with a container in Docker
          runnerQueue,    \* Runner.queue
          runnerPhase,    \* "started", "stopping", "closed", "stopped"
          scheduler,      \* the scheduler's loop and its copy of the scripts
          scriptFaults    \* failed statements and restarts so far

execVars == <<execRow, task, place, faulted, box>>
runnerVars == <<runnerQueue, runnerPhase>>
scriptsVars == <<scriptRows, scheduleRow, execVars, runnerVars, scheduler,
                 scriptFaults>>

\* "ended" stands for completed, failed, timeout and cancelled.
ExecutionStatus == {"pending", "running", "ended"}
Mode == {"none", "async", "sync", "cron"}
\* The way of a job: its script read, saved and checked in the handler, queued
\* in the channel, taken, running, returned and recorded at whoever executes it.
Place == {"none", "read", "saved", "checked", "queued", "taken", "running",
          "returned", "recorded", "done", "refused", "lost", "unrecorded"}
AtExecutor == {"taken", "running", "returned", "recorded"}
NoTask == [mode |-> "none", script |-> "none"]
NoRun == [schedule |-> "none", exec |-> "none"]

ScriptsInit ==
  /\ scriptRows \in SUBSET ScriptIds
  /\ scheduleRow = [c \in ScheduleIds |-> [state |-> "absent", script |-> "none"]]
  /\ execRow = [e \in ExecIds |-> "absent"]
  /\ task = [e \in ExecIds |-> NoTask]
  /\ place = [e \in ExecIds |-> "none"]
  /\ faulted = {} /\ box = {}
  /\ runnerQueue = <<>> /\ runnerPhase = "started"
  /\ scheduler = [phase |-> "running", todo |-> {}, cur |-> NoRun,
                  scripts |-> scriptRows]
  /\ scriptFaults = 0

(***************************************************************************)
(* The tables.                                                             *)
(***************************************************************************)
\* A statement succeeds, or fails within the bound.
Statement(ok) == /\ ~ok => scriptFaults < MaxScriptFaults
                 /\ scriptFaults' = IF ok THEN scriptFaults ELSE scriptFaults + 1

\* UPDATE script_executions SET status WHERE id: nothing without the row.
UpdateExecutionStatus(e, status) ==
  [execRow EXCEPT ![e] = IF @ = "absent" THEN @ ELSE status]

ListScripts == scriptRows

\* Rows of enabled schedules that are due; the API has no way to disable one.
DueSchedules == {c \in ScheduleIds : scheduleRow[c].state = "due"}

(***************************************************************************)
(* The API.                                                                *)
(***************************************************************************)
RegisterScript(s) ==
  /\ s \notin scriptRows
  /\ scriptRows' = scriptRows \cup {s}
  /\ UNCHANGED <<scheduleRow, execVars, runnerVars, scheduler, scriptFaults>>

\* The rows of its executions go with it where the connection enforces the
\* foreign key (cascade); schedules and the scheduler's copy stay.
DeleteScript(s, cascade) ==
  /\ s \in scriptRows
  /\ scriptRows' = scriptRows \ {s}
  /\ execRow' = [e \in ExecIds |-> IF cascade /\ task[e].script = s
                                   THEN "absent" ELSE execRow[e]]
  /\ UNCHANGED <<scheduleRow, task, place, faulted, box, runnerVars,
                 scheduler, scriptFaults>>

CreateSchedule(c, s) ==
  /\ scheduleRow[c].state = "absent"
  /\ scheduleRow' = [scheduleRow EXCEPT ![c] = [state |-> "waiting", script |-> s]]
  /\ UNCHANGED <<scriptRows, execVars, runnerVars, scheduler, scriptFaults>>

DeleteSchedule(c) ==
  /\ scheduleRow[c].state # "absent"
  /\ scheduleRow' = [scheduleRow EXCEPT ![c].state = "absent"]
  /\ UNCHANGED <<scriptRows, execVars, runnerVars, scheduler, scriptFaults>>

\* The next run time of a schedule comes.
ScheduleComesDue(c) ==
  /\ scheduleRow[c].state = "waiting"
  /\ scheduleRow' = [scheduleRow EXCEPT ![c].state = "due"]
  /\ UNCHANGED <<scriptRows, execVars, runnerVars, scheduler, scriptFaults>>

MoveJob(e, from, to) == /\ place[e] = from
                        /\ place' = [place EXCEPT ![e] = to]

\* The row is saved as pending; its job goes on to p.
SaveExecution(e, mode, s, from, p) ==
  /\ MoveJob(e, from, p)
  /\ execRow' = [execRow EXCEPT ![e] = "pending"]
  /\ task' = [task EXCEPT ![e] = [mode |-> mode, script |-> s]]
  /\ UNCHANGED <<faulted, box>>

\* GetScript: the request has its script, whatever becomes of the script's row.
ExecuteScript(e, s, mode) ==
  /\ s \in scriptRows
  /\ MoveJob(e, "none", "read")
  /\ task' = [task EXCEPT ![e] = [mode |-> mode, script |-> s]]
  /\ UNCHANGED <<scriptRows, scheduleRow, execRow, faulted, box, runnerVars,
                 scheduler, scriptFaults>>

\* The execution is saved and goes to Submit or, if the request waits for it,
\* is executed by the handler.
SaveRequest(e) ==
  /\ SaveExecution(e, task[e].mode, task[e].script, "read",
                   IF task[e].mode = "async" THEN "saved" ELSE "taken")
  /\ UNCHANGED <<scriptRows, scheduleRow, runnerVars, scheduler, scriptFaults>>

\* SaveExecution fails: for a script deleted since it was read by the foreign
\* key, where it is enforced. The request ends without a row.
SaveRequestFails(e) ==
  /\ MoveJob(e, "read", "none")
  /\ Statement(task[e].script \notin scriptRows)
  /\ task' = [task EXCEPT ![e] = NoTask]
  /\ UNCHANGED <<scriptRows, scheduleRow, execRow, faulted, box, runnerVars,
                 scheduler>>

(***************************************************************************)
(* The runner.                                                             *)
(***************************************************************************)
\* Submit reads "started" under the lock and releases it.
SubmitCheck(e) ==
  /\ MoveJob(e, "saved", IF runnerPhase = "started" THEN "checked" ELSE "refused")
  /\ UNCHANGED <<scriptRows, scheduleRow, execRow, task, faulted, box,
                 runnerVars, scheduler, scriptFaults>>

SubmitSend(e) ==
  /\ runnerPhase \in {"started", "stopping"}
  /\ Len(runnerQueue) < RunnerQueueSize
  /\ MoveJob(e, "checked", "queued")
  /\ runnerQueue' = Append(runnerQueue, e)
  /\ UNCHANGED <<scriptRows, scheduleRow, execRow, task, faulted, box,
                 runnerPhase, scheduler, scriptFaults>>

\* The channel is full, or closed: a send on it panics, and the HTTP server
\* recovers. The row of the execution stays pending in both cases.
SubmitRefused(e) ==
  /\ \/ Len(runnerQueue) = RunnerQueueSize
     \/ runnerPhase \in {"closed", "stopped"}
  /\ MoveJob(e, "checked", "refused")
  /\ UNCHANGED <<scriptRows, scheduleRow, execRow, task, faulted, box,
                 runnerVars, scheduler, scriptFaults>>

Busy == {e \in ExecIds : task[e].mode = "async" /\ place[e] \in AtExecutor}

\* Mutant: a worker takes nothing once Stop has begun.
RunnerTakeWhileStarted ==
  /\ runnerPhase = "started"
  /\ runnerQueue # <<>>
  /\ Cardinality(Busy) < WorkerCount
  /\ MoveJob(Head(runnerQueue), "queued", "taken")
  /\ runnerQueue' = Tail(runnerQueue)
  /\ UNCHANGED <<scriptRows, scheduleRow, execRow, task, faulted, box,
                 runnerPhase, scheduler, scriptFaults>>

RunnerTake ==
  /\ runnerPhase # "stopped"
  /\ runnerQueue # <<>>
  /\ Cardinality(Busy) < WorkerCount
  /\ MoveJob(Head(runnerQueue), "queued", "taken")
  /\ runnerQueue' = Tail(runnerQueue)
  /\ UNCHANGED <<scriptRows, scheduleRow, execRow, task, faulted, box,
                 runnerPhase, scheduler, scriptFaults>>

RunnerStop ==
  /\ scheduler.phase = "stopped"
  /\ runnerPhase = "started"
  /\ runnerPhase' = "stopping"
  /\ UNCHANGED <<scriptRows, scheduleRow, execVars, runnerQueue, scheduler,
                 scriptFaults>>

RunnerClose ==
  /\ runnerPhase = "stopping"
  /\ runnerPhase' = "closed"
  /\ UNCHANGED <<scriptRows, scheduleRow, execVars, runnerQueue, scheduler,
                 scriptFaults>>

\* Mutant: workers return although jobs are left in the channel.
WorkersIdle == Busy = {}

\* wg.Wait: the workers have drained the closed channel and returned.
WorkersDone == runnerQueue = <<>> /\ Busy = {}

RunnerStopped ==
  /\ runnerPhase = "closed"
  /\ WorkersDone
  /\ runnerPhase' = "stopped"
  /\ UNCHANGED <<scriptRows, scheduleRow, execVars, runnerQueue, scheduler,
                 scriptFaults>>

(***************************************************************************)
(* Executing: the same three statements at a worker, at the handler of a   *)
(* request that waits and at the scheduler.                                *)
(***************************************************************************)
MarkRunning(e) ==
  /\ MoveJob(e, "taken", "running")
  /\ \E ok \in BOOLEAN :
       /\ Statement(ok)
       /\ execRow' = IF ok THEN UpdateExecutionStatus(e, "running") ELSE execRow
       /\ faulted' = IF ok THEN faulted ELSE faulted \cup {e}
  /\ UNCHANGED <<scriptRows, scheduleRow, task, box, runnerVars,
                 scheduler>>

\* A worker runs the script in a container of its own.
ContainerCreate(e) ==
  /\ place[e] = "running" /\ task[e].mode = "async" /\ e \notin box
  /\ box' = box \cup {e}
  /\ UNCHANGED <<scriptRows, scheduleRow, execRow, task, place, faulted,
                 runnerVars, scheduler, scriptFaults>>

\* What the deferred removal takes away, unless Docker refuses.
RemoveContainer(e) == box \ {e}

\* The script ends, fails, times out or is cancelled, whether or not its
\* container could be created.
ExecuteReturns(e) ==
  /\ MoveJob(e, "running", "returned")
  /\ \E ok \in BOOLEAN :
       /\ ~ok => e \in box
       /\ Statement(ok)
       /\ box' = IF ok THEN RemoveContainer(e) ELSE box
       /\ faulted' = IF ok THEN faulted ELSE faulted \cup {e}
  /\ UNCHANGED <<scriptRows, scheduleRow, execRow, task, runnerVars, scheduler>>

RecordOutcome(e) ==
  /\ MoveJob(e, "returned", IF task[e].mode = "sync" THEN "done" ELSE "recorded")
  /\ \E ok \in BOOLEAN :
       /\ Statement(ok)
       /\ execRow' = IF ok THEN UpdateExecutionStatus(e, "ended") ELSE execRow
       /\ faulted' = IF ok THEN faulted ELSE faulted \cup {e}
  /\ UNCHANGED <<scriptRows, scheduleRow, task, box, runnerVars, scheduler>>

\* The worker reads the row back and announces the end if it is still there:
\* to every client for a request of the web interface, otherwise through the
\* notification queue (NotificationQueue.tla), or live when that refuses.
NotifyExecution(e) ==
  /\ task[e].mode = "async"
  /\ MoveJob(e, "recorded", "done")
  /\ UNCHANGED <<scriptRows, scheduleRow, execRow, task, faulted, box,
                 runnerVars, scheduler, scriptFaults>>

(***************************************************************************)
(* The scheduler.                                                          *)
(***************************************************************************)
\* At the start and at every tick the due schedules are read at once.
CheckSchedules ==
  /\ scheduler.phase = "running"
  /\ scheduler.todo = {} /\ scheduler.cur = NoRun
  /\ DueSchedules # {}
  /\ scheduler' = [scheduler EXCEPT !.todo = DueSchedules]
  /\ UNCHANGED <<scriptRows, scheduleRow, execVars, runnerVars, scriptFaults>>

\* The script is not among those loaded at the start, or its execution cannot
\* be saved: the schedule stays due.
SkipSchedule(c) ==
  /\ c \in scheduler.todo /\ scheduler.cur = NoRun
  /\ Statement(scheduleRow[c].script \notin scheduler.scripts \cap scriptRows)
  /\ scheduler' = [scheduler EXCEPT !.todo = @ \ {c}]
  /\ UNCHANGED <<scriptRows, scheduleRow, execVars, runnerVars>>

\* Schedules are executed one after the other, the ones deleted since the list
\* was read and the ones left when the context was cancelled included.
ExecuteSchedule(c, e) ==
  /\ c \in scheduler.todo /\ scheduler.cur = NoRun
  /\ scheduleRow[c].script \in scheduler.scripts
  /\ SaveExecution(e, "cron", scheduleRow[c].script, "none", "taken")
  /\ scheduler' = [scheduler EXCEPT !.todo = @ \ {c},
                                    !.cur = [schedule |-> c, exec |-> e]]
  /\ UNCHANGED <<scriptRows, scheduleRow, runnerVars, scriptFaults>>

\* UpdateScheduleLastRun moves the next run time, counted from now.
UpdateScheduleLastRun ==
  LET c == scheduler.cur.schedule IN
  /\ scheduler.cur # NoRun
  /\ MoveJob(scheduler.cur.exec, "recorded", "done")
  /\ \E ok \in BOOLEAN :
       /\ Statement(ok)
       /\ scheduleRow' = IF ok /\ scheduleRow[c].state = "due"
                         THEN [scheduleRow EXCEPT ![c].state = "waiting"]
                         ELSE scheduleRow
  /\ scheduler' = [scheduler EXCEPT !.cur = NoRun]
  /\ UNCHANGED <<scriptRows, execRow, task, faulted, box, runnerVars>>

SchedulerStop ==
  /\ scheduler.phase = "running"
  /\ scheduler' = [scheduler EXCEPT !.phase = "cancelled"]
  /\ UNCHANGED <<scriptRows, scheduleRow, execVars, runnerVars, scriptFaults>>

SchedulerStopped ==
  /\ scheduler.phase = "cancelled"
  /\ scheduler.todo = {} /\ scheduler.cur = NoRun
  /\ scheduler' = [scheduler EXCEPT !.phase = "stopped"]
  /\ UNCHANGED <<scriptRows, scheduleRow, execVars, runnerVars, scriptFaults>>

\* Mutant: what a row calls under way is queued again.
PlaceRequeued == [e \in ExecIds |-> IF execRow[e] \in {"pending", "running"}
                                   THEN "queued" ELSE place[e]]

\* The jobs a process takes with it when it ends: a script that had returned
\* was run, though nobody recorded it.
PlaceAfterRestart ==
  [e \in ExecIds |-> CASE place[e] = "read" -> "none"
                       [] place[e] = "returned" -> "unrecorded"
                       [] place[e] = "recorded" -> "done"
                       [] place[e] \in {"saved", "checked", "queued", "taken",
                                       "running"} -> "lost"
                       [] OTHER -> place[e]]

\* The process ends at any time and starts again: rows and containers stay,
\* jobs do not, and the scheduler loads the scripts of the table.
ScriptsRestart ==
  /\ Statement(FALSE)
  /\ place' = PlaceAfterRestart
  /\ task' = [e \in ExecIds |-> IF place[e] = "read" THEN NoTask ELSE task[e]]
  /\ runnerQueue' = <<>> /\ runnerPhase' = "started"
  /\ scheduler' = [phase |-> "running", todo |-> {}, cur |-> NoRun,
                   scripts |-> ListScripts]
  /\ UNCHANGED <<scriptRows, scheduleRow, execRow, faulted, box>>

\* What a goroutine of the program does with an execution.
JobStep(e) == \/ SaveRequest(e) \/ SaveRequestFails(e)
              \/ SubmitCheck(e) \/ SubmitSend(e) \/ SubmitRefused(e)
              \/ MarkRunning(e) \/ ContainerCreate(e)
              \/ ExecuteReturns(e) \/ RecordOutcome(e) \/ NotifyExecution(e)

SchedulerStep == \/ CheckSchedules
                 \/ \E c \in ScheduleIds : SkipSchedule(c)
                 \/ \E c \in ScheduleIds, e \in ExecIds : ExecuteSchedule(c, e)
                 \/ UpdateScheduleLastRun
                 \/ SchedulerStopped

ScriptsNext ==
  \/ \E s \in ScriptIds : \/ RegisterScript(s)
                          \/ \E k \in BOOLEAN : DeleteScript(s, k)
                          \/ \E c \in ScheduleIds : CreateSchedule(c, s)
                          \/ \E e \in ExecIds, m \in {"async", "sync"} :
                               ExecuteScript(e, s, m)
  \/ \E c \in ScheduleIds : DeleteSchedule(c) \/ ScheduleComesDue(c)
  \/ \E e \in ExecIds : JobStep(e)
  \/ SchedulerStep
  \/ RunnerTake \/ RunnerStop \/ RunnerClose \/ RunnerStopped
  \/ SchedulerStop \/ ScriptsRestart

\* Whoever holds a job goes on with it, and workers take from the channel. A
\* script ends, by its timeout at the latest.
ScriptsFairness ==
  /\ \A e \in ExecIds : WF_scriptsVars(JobStep(e))
  /\ WF_scriptsVars(RunnerTake)

ScriptsSpec == ScriptsInit /\ [][ScriptsNext]_scriptsVars
ScriptsFairSpec == ScriptsSpec /\ ScriptsFairness

(***************************************************************************)
(* Properties.                                                             *)
(***************************************************************************)
ScriptsTypeOK ==
  /\ scriptRows \subseteq ScriptIds
  /\ scheduleRow \in [ScheduleIds -> [state : {"absent", "waiting", "due"},
                                      script : ScriptIds \cup {"none"}]]
  /\ execRow \in [ExecIds -> ExecutionStatus \cup {"absent"}]
  /\ task \in [ExecIds -> [mode : Mode, script : ScriptIds \cup {"none"}]]
  /\ place \in [ExecIds -> Place]
  /\ faulted \subseteq ExecIds /\ box \subseteq ExecIds
  /\ runnerQueue \in Seq(ExecIds) /\ Len(runnerQueue) <= RunnerQueueSize
  /\ runnerPhase \in {"started", "stopping", "closed", "stopped"}
  /\ scheduler.todo \subseteq ScheduleIds
  /\ scriptFaults \in 0..MaxScriptFaults

\* Every row that says pending or running has a job that will change it: in the
\* handler, the channel, at a worker or the scheduler, after Stop included.
\* The exceptions are exactly the executions the runner refused, the ones a
\* process took with it when it ended (lost, or executed and not recorded), and
\* those whose status could not be written.
RowsAreOwned ==
  \A e \in ExecIds :
    /\ execRow[e] = "pending" =>
         \/ place[e] \in {"saved", "checked", "queued", "taken", "refused", "lost"}
         \/ e \in faulted
    /\ execRow[e] = "running" =>
         \/ place[e] \in {"running", "returned", "lost", "unrecorded"}
         \/ e \in faulted
    /\ runnerPhase = "stopped" =>
         ~(task[e].mode = "async" /\ place[e] \in {"queued"} \cup AtExecutor)

\* A script container exists only while a worker runs its script, unless the
\* process ended in between or Docker refused to remove it.
ContainersAreOwned == \A e \in box \ faulted : place[e] \in {"running", "lost"}

\* Nothing a job leaves behind is without an owner: neither the row that says it
\* is under way nor its container.
NothingIsOrphaned == RowsAreOwned /\ ContainersAreOwned

\* An execution in the terms of ExecutionLife.
executionLife ==
  [e \in ExecIds |->
     CASE place[e] \in {"none", "read"} -> "new"
       [] place[e] \in {"saved", "checked"} -> "submitted"
       [] place[e] \in {"queued", "taken"} -> "accepted"
       [] place[e] = "running" -> "running"
       [] place[e] \in {"refused", "lost"} -> place[e]
       [] OTHER -> "finished"]

Life == INSTANCE ExecutionLife WITH life <- executionLife, row <- execRow

\* The handler, the runner, its workers and the scheduler implement
\* ExecutionLife: whoever holds the job, and whatever Stop or a restart does in
\* between, an accepted execution is run once and a refused one never, and the
\* row of an execution never claims more than has happened, nor goes back.
ExecutionsRunOnce == Life!LifeSpec

\* An accepted execution comes to an end unless the process ends first: the
\* workers drain the channel while Stop waits for them.
AcceptedEnds == Life!AcceptedEnds
============================================================================
