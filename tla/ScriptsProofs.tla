---------------------------- MODULE ScriptsProofs ----------------------------
(* Proofs about Scripts, for any number of scripts, executions, schedules    *)
(* and workers and any capacity of the channel.                              *)
EXTENDS Scripts, TLAPS

(* The channel holds exactly the executions whose job is queued, each once:  *)
(* a job is not lost between a caller and a worker, and not run twice.       *)
QueueAgrees ==
  /\ \A i \in 1..Len(runnerQueue) : place[runnerQueue[i]] = "queued"
  /\ \A i, j \in 1..Len(runnerQueue) : runnerQueue[i] = runnerQueue[j] => i = j
  /\ \A e \in ExecIds : place[e] = "queued" =>
       \E i \in 1..Len(runnerQueue) : runnerQueue[i] = e

(* Only what a caller submitted goes through the channel.                    *)
OnlySubmittedWait ==
  \A e \in ExecIds : place[e] \in {"saved", "checked", "queued"} =>
                       task[e].mode = "async"

(* The scheduler waits for an execution of its own.                          *)
SchedulerAgrees ==
  /\ scheduler \in [phase : {"running", "cancelled", "stopped"},
                    todo : SUBSET ScheduleIds,
                    cur : [schedule : ScheduleIds \cup {"none"},
                           exec : ExecIds \cup {"none"}],
                    scripts : SUBSET ScriptIds]
  /\ scheduler.cur # NoRun => scheduler.cur.schedule \in ScheduleIds
                              /\ scheduler.cur.exec \in ExecIds

(* The inductive invariant.                                                  *)
ScriptsIInv == /\ ScriptsTypeOK
        /\ SchedulerAgrees
        /\ QueueAgrees
        /\ OnlySubmittedWait
        /\ RowsAreOwned
        /\ ContainersAreOwned

(* A step that neither sends on the channel nor receives from it keeps the   *)
(* channel and the queued places in agreement.                               *)
LEMMA OffTheChannel ==
    ASSUME ScriptsTypeOK, QueueAgrees, NEW e \in ExecIds, NEW to \in Place,
           place[e] # "queued", to # "queued",
           place' = [place EXCEPT ![e] = to], runnerQueue' = runnerQueue
    PROVE  QueueAgrees'
<1>1. \A i \in 1..Len(runnerQueue) : runnerQueue[i] \in ExecIds
    BY DEF ScriptsTypeOK
<1>2. \A x \in ExecIds : place'[x] = "queued" <=> place[x] = "queued"
    BY DEF ScriptsTypeOK
<1> QED BY <1>1, <1>2 DEF QueueAgrees

(* A script registered changes no execution (RegisterScript). *)
LEMMA RegisterScriptPreserves ==
    ASSUME ScriptsIInv, NEW s \in ScriptIds, RegisterScript(s)
    PROVE  ScriptsIInv'
<1> USE ScriptsAssumption DEF ScriptsIInv, execVars, runnerVars
<1>1. ScriptsTypeOK'
    BY DEF ScriptsTypeOK, RegisterScript, ExecutionStatus, Mode, Place, SchedulerAgrees
<1>2. SchedulerAgrees'
    BY DEF ScriptsTypeOK, SchedulerAgrees, NoRun, RegisterScript
<1>3. QueueAgrees'
    BY DEF ScriptsTypeOK, QueueAgrees, RegisterScript
<1>4. OnlySubmittedWait'
    BY DEF ScriptsTypeOK, OnlySubmittedWait, RegisterScript
<1>5. RowsAreOwned'
    BY DEF ScriptsTypeOK, RowsAreOwned, OnlySubmittedWait, QueueAgrees, AtExecutor, Mode,
           RegisterScript
<1>6. ContainersAreOwned'
    BY DEF ScriptsTypeOK, ContainersAreOwned, RegisterScript
<1> QED BY <1>1, <1>2, <1>3, <1>4, <1>5, <1>6

(* Rows that go with their script say nothing any more (DeleteScript, ON *)
(* DELETE CASCADE).                                                      *)
LEMMA DeleteScriptPreserves ==
    ASSUME ScriptsIInv, NEW s \in ScriptIds, NEW k \in BOOLEAN, DeleteScript(s, k)
    PROVE  ScriptsIInv'
<1> USE ScriptsAssumption DEF ScriptsIInv, execVars, runnerVars
<1>1. ScriptsTypeOK'
    BY DEF ScriptsTypeOK, DeleteScript, ExecutionStatus, Mode, Place, SchedulerAgrees
<1>2. SchedulerAgrees'
    BY DEF ScriptsTypeOK, SchedulerAgrees, NoRun, DeleteScript
<1>3. QueueAgrees'
    BY DEF ScriptsTypeOK, QueueAgrees, DeleteScript
<1>4. OnlySubmittedWait'
    BY DEF ScriptsTypeOK, OnlySubmittedWait, DeleteScript
<1>5. RowsAreOwned'
    BY DEF ScriptsTypeOK, RowsAreOwned, OnlySubmittedWait, QueueAgrees, AtExecutor, Mode,
           DeleteScript
<1>6. ContainersAreOwned'
    BY DEF ScriptsTypeOK, ContainersAreOwned, DeleteScript
<1> QED BY <1>1, <1>2, <1>3, <1>4, <1>5, <1>6

(* Schedules come, go and come due without touching an execution. *)
LEMMA SchedulesPreserves ==
    ASSUME ScriptsIInv, NEW c \in ScheduleIds,
           \/ \E s \in ScriptIds : CreateSchedule(c, s)
           \/ DeleteSchedule(c)
           \/ ScheduleComesDue(c)
    PROVE  ScriptsIInv'
<1> USE ScriptsAssumption DEF ScriptsIInv, execVars, runnerVars
<1>s. \A st \in {"waiting", "due", "absent"} :
        [scheduleRow EXCEPT ![c].state = st] \in
            [ScheduleIds -> [state : {"absent", "waiting", "due"},
                             script : ScriptIds \cup {"none"}]]
    BY DEF ScriptsTypeOK
<1>c. \A s \in ScriptIds :
        [scheduleRow EXCEPT ![c] = [state |-> "waiting", script |-> s]] \in
            [ScheduleIds -> [state : {"absent", "waiting", "due"},
                             script : ScriptIds \cup {"none"}]]
    BY DEF ScriptsTypeOK
<1>1. ScriptsTypeOK'
    BY <1>s, <1>c DEF ScriptsTypeOK, CreateSchedule, DeleteSchedule, ScheduleComesDue
<1>2. SchedulerAgrees'
    BY DEF ScriptsTypeOK, SchedulerAgrees, NoRun, CreateSchedule, DeleteSchedule,
           ScheduleComesDue
<1>3. QueueAgrees'
    BY DEF ScriptsTypeOK, QueueAgrees, CreateSchedule, DeleteSchedule, ScheduleComesDue
<1>4. OnlySubmittedWait'
    BY DEF ScriptsTypeOK, OnlySubmittedWait, CreateSchedule, DeleteSchedule,
           ScheduleComesDue
<1>5. RowsAreOwned'
    BY DEF ScriptsTypeOK, RowsAreOwned, OnlySubmittedWait, QueueAgrees, AtExecutor, Mode,
           CreateSchedule, DeleteSchedule, ScheduleComesDue
<1>6. ContainersAreOwned'
    BY DEF ScriptsTypeOK, ContainersAreOwned, CreateSchedule, DeleteSchedule,
           ScheduleComesDue
<1> QED BY <1>1, <1>2, <1>3, <1>4, <1>5, <1>6

(* A request reads its script before it has a row (ExecuteScript). *)
LEMMA ExecuteScriptPreserves ==
    ASSUME ScriptsIInv, NEW e \in ExecIds, NEW s \in ScriptIds, NEW m \in {"async", "sync"},
           ExecuteScript(e, s, m)
    PROVE  ScriptsIInv'
<1> USE ScriptsAssumption DEF ScriptsIInv, execVars, runnerVars
<1>1. ScriptsTypeOK'
    BY DEF ScriptsTypeOK, ExecuteScript, MoveJob, ExecutionStatus, Mode, Place,
           SchedulerAgrees
<1>2. SchedulerAgrees'
    BY DEF ScriptsTypeOK, SchedulerAgrees, NoRun, ExecuteScript, MoveJob
<1>3. QueueAgrees'
    BY OffTheChannel DEF ExecuteScript, MoveJob, Place
<1>4. OnlySubmittedWait'
    BY DEF ScriptsTypeOK, OnlySubmittedWait, ExecuteScript, MoveJob
<1>5. RowsAreOwned'
    BY DEF ScriptsTypeOK, RowsAreOwned, OnlySubmittedWait, QueueAgrees, AtExecutor, Mode,
           ExecuteScript, MoveJob
<1>6. ContainersAreOwned'
    BY DEF ScriptsTypeOK, ContainersAreOwned, ExecuteScript, MoveJob
<1> QED BY <1>1, <1>2, <1>3, <1>4, <1>5, <1>6

(* A new execution has its row and its job in one step, at the handler or, *)
(* for a request that waits, at once under way; or it has neither          *)
(* (SaveExecution in ExecuteScript).                                       *)
LEMMA SaveRequestPreserves ==
    ASSUME ScriptsIInv, NEW e \in ExecIds, SaveRequest(e) \/ SaveRequestFails(e)
    PROVE  ScriptsIInv'
<1> USE ScriptsAssumption DEF ScriptsIInv, execVars, runnerVars
<1>a. {NoTask, task[e]} \subseteq [mode : Mode, script : ScriptIds \cup {"none"}]
    BY DEF ScriptsTypeOK, NoTask, Mode
<1>b. place' \in [ExecIds -> Place] /\ execRow' \in [ExecIds -> ExecutionStatus \cup {"absent"}]
    BY DEF ScriptsTypeOK, SaveRequest, SaveRequestFails, SaveExecution, MoveJob,
           ExecutionStatus, Place
<1>c. task' \in [ExecIds -> [mode : Mode, script : ScriptIds \cup {"none"}]]
    <2>1. PICK t \in {NoTask, task[e]} : task' = [task EXCEPT ![e] = t]
        BY <1>a DEF ScriptsTypeOK, SaveRequest, SaveRequestFails, SaveExecution
    <2> QED BY <1>a, <2>1 DEF ScriptsTypeOK
<1>1. ScriptsTypeOK'
    BY <1>b, <1>c DEF ScriptsTypeOK, SaveRequest, SaveRequestFails, SaveExecution, Statement
<1>2. SchedulerAgrees'
    BY DEF ScriptsTypeOK, SchedulerAgrees, NoRun,
           SaveRequest, SaveRequestFails, SaveExecution, MoveJob, Statement, NoTask
<1>3. QueueAgrees'
    BY OffTheChannel
    DEF SaveRequest, SaveRequestFails, SaveExecution, MoveJob, Statement, NoTask, Place
<1>4. OnlySubmittedWait'
    BY DEF ScriptsTypeOK, OnlySubmittedWait,
           SaveRequest, SaveRequestFails, SaveExecution, MoveJob, Statement, NoTask
<1>5. RowsAreOwned'
    BY DEF ScriptsTypeOK, RowsAreOwned, OnlySubmittedWait, QueueAgrees, AtExecutor, Mode,
           SaveRequest, SaveRequestFails, SaveExecution, MoveJob, Statement, NoTask
<1>6. ContainersAreOwned'
    BY DEF ScriptsTypeOK, ContainersAreOwned,
           SaveRequest, SaveRequestFails, SaveExecution, MoveJob, Statement, NoTask
<1> QED BY <1>1, <1>2, <1>3, <1>4, <1>5, <1>6

(* Submit's check of `started` refuses the job or leaves it to be sent. *)
LEMMA SubmitCheckPreserves ==
    ASSUME ScriptsIInv, NEW e \in ExecIds, SubmitCheck(e)
    PROVE  ScriptsIInv'
<1> USE ScriptsAssumption DEF ScriptsIInv, execVars, runnerVars
<1>1. ScriptsTypeOK'
    BY DEF ScriptsTypeOK, SubmitCheck, MoveJob, ExecutionStatus, Mode, Place,
           SchedulerAgrees
<1>2. SchedulerAgrees'
    BY DEF ScriptsTypeOK, SchedulerAgrees, NoRun, SubmitCheck, MoveJob
<1>3. QueueAgrees'
    BY OffTheChannel DEF SubmitCheck, MoveJob, Place
<1>4. OnlySubmittedWait'
    BY DEF ScriptsTypeOK, OnlySubmittedWait, SubmitCheck, MoveJob
<1>5. RowsAreOwned'
    BY DEF ScriptsTypeOK, RowsAreOwned, OnlySubmittedWait, QueueAgrees, AtExecutor, Mode,
           SubmitCheck, MoveJob
<1>6. ContainersAreOwned'
    BY DEF ScriptsTypeOK, ContainersAreOwned, SubmitCheck, MoveJob
<1> QED BY <1>1, <1>2, <1>3, <1>4, <1>5, <1>6

(* A send puts the one job that was checked behind the others. *)
LEMMA SubmitSendPreserves ==
    ASSUME ScriptsIInv, NEW e \in ExecIds, SubmitSend(e)
    PROVE  ScriptsIInv'
<1> USE ScriptsAssumption DEF ScriptsIInv, execVars, runnerVars
<1>1. ScriptsTypeOK'
    BY DEF ScriptsTypeOK, SubmitSend, MoveJob, ExecutionStatus, Mode, Place,
           SchedulerAgrees
<1>2. SchedulerAgrees'
    BY DEF ScriptsTypeOK, SchedulerAgrees, NoRun, SubmitSend, MoveJob
<1>q. /\ runnerQueue \in Seq(ExecIds) /\ Len(runnerQueue) \in Nat
      /\ Len(runnerQueue') = Len(runnerQueue) + 1
      /\ runnerQueue'[Len(runnerQueue) + 1] = e
      /\ \A i \in 1..Len(runnerQueue) : /\ runnerQueue'[i] = runnerQueue[i]
                                        /\ runnerQueue[i] \in ExecIds
    BY DEF ScriptsTypeOK, SubmitSend
<1>p. \A x \in ExecIds : place'[x] = IF x = e THEN "queued" ELSE place[x]
    BY DEF ScriptsTypeOK, SubmitSend, MoveJob
<1>c. \A i \in 1..Len(runnerQueue) : runnerQueue[i] # e
    BY <1>q DEF QueueAgrees, SubmitSend, MoveJob
<1>3. QueueAgrees'
    <2>1. \A i \in 1..Len(runnerQueue') : i \in 1..Len(runnerQueue) \/ i = Len(runnerQueue) + 1
        BY <1>q
    <2>2. \A i \in 1..Len(runnerQueue') : place'[runnerQueue'[i]] = "queued"
        BY <1>q, <1>p, <2>1 DEF QueueAgrees
    <2>3. \A i, j \in 1..Len(runnerQueue') : runnerQueue'[i] = runnerQueue'[j] => i = j
        BY <1>q, <1>c, <2>1 DEF QueueAgrees
    <2>4. \A x \in ExecIds : place'[x] = "queued" =>
            \E i \in 1..Len(runnerQueue') : runnerQueue'[i] = x
        BY <1>q, <1>p DEF QueueAgrees
    <2> QED BY <2>2, <2>3, <2>4 DEF QueueAgrees
<1>4. OnlySubmittedWait'
    BY DEF ScriptsTypeOK, OnlySubmittedWait, SubmitSend, MoveJob
<1>5. RowsAreOwned'
    BY DEF ScriptsTypeOK, RowsAreOwned, OnlySubmittedWait, QueueAgrees, AtExecutor, Mode,
           SubmitSend, MoveJob
<1>6. ContainersAreOwned'
    BY DEF ScriptsTypeOK, ContainersAreOwned, SubmitSend, MoveJob
<1> QED BY <1>1, <1>2, <1>3, <1>4, <1>5, <1>6

(* A full or closed channel refuses the job: the row stays pending. *)
LEMMA SubmitRefusedPreserves ==
    ASSUME ScriptsIInv, NEW e \in ExecIds, SubmitRefused(e)
    PROVE  ScriptsIInv'
<1> USE ScriptsAssumption DEF ScriptsIInv, execVars, runnerVars
<1>1. ScriptsTypeOK'
    BY DEF ScriptsTypeOK, SubmitRefused, MoveJob, ExecutionStatus, Mode, Place,
           SchedulerAgrees
<1>2. SchedulerAgrees'
    BY DEF ScriptsTypeOK, SchedulerAgrees, NoRun, SubmitRefused, MoveJob
<1>3. QueueAgrees'
    BY OffTheChannel DEF SubmitRefused, MoveJob, Place
<1>4. OnlySubmittedWait'
    BY DEF ScriptsTypeOK, OnlySubmittedWait, SubmitRefused, MoveJob
<1>5. RowsAreOwned'
    BY DEF ScriptsTypeOK, RowsAreOwned, OnlySubmittedWait, QueueAgrees, AtExecutor, Mode,
           SubmitRefused, MoveJob
<1>6. ContainersAreOwned'
    BY DEF ScriptsTypeOK, ContainersAreOwned, SubmitRefused, MoveJob
<1> QED BY <1>1, <1>2, <1>3, <1>4, <1>5, <1>6

(* A worker takes the oldest job, and nobody else can take it again. *)
LEMMA RunnerTakePreserves ==
    ASSUME ScriptsIInv, RunnerTake
    PROVE  ScriptsIInv'
<1> USE ScriptsAssumption DEF ScriptsIInv, execVars, runnerVars
<1>1. ScriptsTypeOK'
    BY DEF ScriptsTypeOK, RunnerTake, MoveJob, ExecutionStatus, Mode, Place,
           SchedulerAgrees
<1>2. SchedulerAgrees'
    BY DEF ScriptsTypeOK, SchedulerAgrees, NoRun, RunnerTake, MoveJob
<1>q. /\ runnerQueue \in Seq(ExecIds) /\ Len(runnerQueue) \in Nat \ {0}
      /\ Len(runnerQueue') = Len(runnerQueue) - 1
      /\ Head(runnerQueue) = runnerQueue[1]
      /\ \A i \in 1..Len(runnerQueue') : runnerQueue'[i] = runnerQueue[i + 1]
      /\ \A i \in 1..Len(runnerQueue) : runnerQueue[i] \in ExecIds
    BY DEF ScriptsTypeOK, RunnerTake
<1>p. \A x \in ExecIds : place'[x] = IF x = runnerQueue[1] THEN "taken" ELSE place[x]
    BY <1>q DEF ScriptsTypeOK, RunnerTake, MoveJob
<1>3. QueueAgrees'
    <2>1. \A i \in 1..Len(runnerQueue') : /\ i + 1 \in 1..Len(runnerQueue)
                                          /\ runnerQueue[i + 1] # runnerQueue[1]
        BY <1>q DEF QueueAgrees
    <2>2. \A i \in 1..Len(runnerQueue') : place'[runnerQueue'[i]] = "queued"
        BY <1>q, <1>p, <2>1 DEF QueueAgrees
    <2>3. \A i, j \in 1..Len(runnerQueue') : runnerQueue'[i] = runnerQueue'[j] => i = j
        BY <1>q, <2>1 DEF QueueAgrees
    <2>4. ASSUME NEW x \in ExecIds, place'[x] = "queued"
          PROVE  \E i \in 1..Len(runnerQueue') : runnerQueue'[i] = x
        <3>1. PICK j \in 1..Len(runnerQueue) : runnerQueue[j] = x
            BY <1>p, <2>4 DEF QueueAgrees
        <3>2. j - 1 \in 1..Len(runnerQueue') /\ (j - 1) + 1 = j
            BY <1>p, <1>q, <2>4, <3>1
        <3> QED BY <1>q, <3>1, <3>2
    <2> QED BY <2>2, <2>3, <2>4 DEF QueueAgrees
<1>4. OnlySubmittedWait'
    BY DEF ScriptsTypeOK, OnlySubmittedWait, RunnerTake, MoveJob
<1>5. RowsAreOwned'
    BY DEF ScriptsTypeOK, RowsAreOwned, OnlySubmittedWait, QueueAgrees, AtExecutor, Mode,
           RunnerTake, MoveJob
<1>6. ContainersAreOwned'
    BY DEF ScriptsTypeOK, ContainersAreOwned, RunnerTake, MoveJob
<1> QED BY <1>1, <1>2, <1>3, <1>4, <1>5, <1>6

(* Stop closes the channel and waits: when the runner has stopped no job *)
(* is left in the channel or with a worker.                              *)
LEMMA RunnerPhasePreserves ==
    ASSUME ScriptsIInv, RunnerStop \/ RunnerClose \/ RunnerStopped
    PROVE  ScriptsIInv'
<1> USE ScriptsAssumption DEF ScriptsIInv, execVars, runnerVars
<1>1. ScriptsTypeOK'
    BY DEF ScriptsTypeOK, RunnerStop, RunnerClose, RunnerStopped, WorkersDone, Busy,
           ExecutionStatus, Mode, Place, SchedulerAgrees
<1>2. SchedulerAgrees'
    BY DEF ScriptsTypeOK, SchedulerAgrees, NoRun, RunnerStop, RunnerClose, RunnerStopped,
           WorkersDone, Busy
<1>3. QueueAgrees'
    BY DEF ScriptsTypeOK, QueueAgrees, RunnerStop, RunnerClose, RunnerStopped,
           WorkersDone, Busy
<1>4. OnlySubmittedWait'
    BY DEF ScriptsTypeOK, OnlySubmittedWait, RunnerStop, RunnerClose, RunnerStopped,
           WorkersDone, Busy
<1>5. RowsAreOwned'
    BY DEF ScriptsTypeOK, RowsAreOwned, OnlySubmittedWait, QueueAgrees, AtExecutor, Mode,
           RunnerStop, RunnerClose, RunnerStopped, WorkersDone, Busy
<1>6. ContainersAreOwned'
    BY DEF ScriptsTypeOK, ContainersAreOwned, RunnerStop, RunnerClose, RunnerStopped,
           WorkersDone, Busy
<1> QED BY <1>1, <1>2, <1>3, <1>4, <1>5, <1>6

(* The row says running when the job runs, or the statement failed. *)
LEMMA MarkRunningPreserves ==
    ASSUME ScriptsIInv, NEW e \in ExecIds, MarkRunning(e)
    PROVE  ScriptsIInv'
<1> USE ScriptsAssumption DEF ScriptsIInv, execVars, runnerVars
<1>1. ScriptsTypeOK'
    BY DEF ScriptsTypeOK, MarkRunning, MoveJob, Statement, UpdateExecutionStatus,
           ExecutionStatus, Mode, Place, SchedulerAgrees
<1>2. SchedulerAgrees'
    BY DEF ScriptsTypeOK, SchedulerAgrees, NoRun, MarkRunning, MoveJob, Statement,
           UpdateExecutionStatus
<1>3. QueueAgrees'
    BY OffTheChannel DEF MarkRunning, MoveJob, Place
<1>4. OnlySubmittedWait'
    BY DEF ScriptsTypeOK, OnlySubmittedWait, MarkRunning, MoveJob, Statement,
           UpdateExecutionStatus
<1>5. RowsAreOwned'
    BY DEF ScriptsTypeOK, RowsAreOwned, OnlySubmittedWait, QueueAgrees, AtExecutor, Mode,
           MarkRunning, MoveJob, Statement, UpdateExecutionStatus
<1>6. ContainersAreOwned'
    BY DEF ScriptsTypeOK, ContainersAreOwned, MarkRunning, MoveJob, Statement,
           UpdateExecutionStatus
<1> QED BY <1>1, <1>2, <1>3, <1>4, <1>5, <1>6

(* A container is created while its script runs. *)
LEMMA ContainerCreatePreserves ==
    ASSUME ScriptsIInv, NEW e \in ExecIds, ContainerCreate(e)
    PROVE  ScriptsIInv'
<1> USE ScriptsAssumption DEF ScriptsIInv, execVars, runnerVars
<1>1. ScriptsTypeOK'
    BY DEF ScriptsTypeOK, ContainerCreate, ExecutionStatus, Mode, Place, SchedulerAgrees
<1>2. SchedulerAgrees'
    BY DEF ScriptsTypeOK, SchedulerAgrees, NoRun, ContainerCreate
<1>3. QueueAgrees'
    BY DEF ScriptsTypeOK, QueueAgrees, ContainerCreate
<1>4. OnlySubmittedWait'
    BY DEF ScriptsTypeOK, OnlySubmittedWait, ContainerCreate
<1>5. RowsAreOwned'
    BY DEF ScriptsTypeOK, RowsAreOwned, OnlySubmittedWait, QueueAgrees, AtExecutor, Mode,
           ContainerCreate
<1>6. ContainersAreOwned'
    BY DEF ScriptsTypeOK, ContainersAreOwned, ContainerCreate
<1> QED BY <1>1, <1>2, <1>3, <1>4, <1>5, <1>6

(* The container goes with the script, or Docker refused to remove it. *)
LEMMA ExecuteReturnsPreserves ==
    ASSUME ScriptsIInv, NEW e \in ExecIds, ExecuteReturns(e)
    PROVE  ScriptsIInv'
<1> USE ScriptsAssumption DEF ScriptsIInv, execVars, runnerVars
<1>1. ScriptsTypeOK'
    BY DEF ScriptsTypeOK, ExecuteReturns, MoveJob, Statement, RemoveContainer,
           ExecutionStatus, Mode, Place, SchedulerAgrees
<1>2. SchedulerAgrees'
    BY DEF ScriptsTypeOK, SchedulerAgrees, NoRun, ExecuteReturns, MoveJob, Statement,
           RemoveContainer
<1>3. QueueAgrees'
    BY OffTheChannel DEF ExecuteReturns, MoveJob, Place
<1>4. OnlySubmittedWait'
    BY DEF ScriptsTypeOK, OnlySubmittedWait, ExecuteReturns, MoveJob, Statement,
           RemoveContainer
<1>5. RowsAreOwned'
    BY DEF ScriptsTypeOK, RowsAreOwned, OnlySubmittedWait, QueueAgrees, AtExecutor, Mode,
           ExecuteReturns, MoveJob, Statement, RemoveContainer
<1>6. ContainersAreOwned'
    BY DEF ScriptsTypeOK, ContainersAreOwned, ExecuteReturns, MoveJob, Statement,
           RemoveContainer
<1> QED BY <1>1, <1>2, <1>3, <1>4, <1>5, <1>6

(* The row says how the execution ended, or the statement failed. *)
LEMMA RecordOutcomePreserves ==
    ASSUME ScriptsIInv, NEW e \in ExecIds, RecordOutcome(e)
    PROVE  ScriptsIInv'
<1> USE ScriptsAssumption DEF ScriptsIInv, execVars, runnerVars
<1>1. ScriptsTypeOK'
    BY DEF ScriptsTypeOK, RecordOutcome, MoveJob, Statement, UpdateExecutionStatus,
           ExecutionStatus, Mode, Place, SchedulerAgrees
<1>2. SchedulerAgrees'
    BY DEF ScriptsTypeOK, SchedulerAgrees, NoRun, RecordOutcome, MoveJob, Statement,
           UpdateExecutionStatus
<1>3. QueueAgrees'
    BY OffTheChannel DEF RecordOutcome, MoveJob, Place
<1>4. OnlySubmittedWait'
    BY DEF ScriptsTypeOK, OnlySubmittedWait, RecordOutcome, MoveJob, Statement,
           UpdateExecutionStatus
<1>5. RowsAreOwned'
    BY DEF ScriptsTypeOK, RowsAreOwned, OnlySubmittedWait, QueueAgrees, AtExecutor, Mode,
           RecordOutcome, MoveJob, Statement, UpdateExecutionStatus
<1>6. ContainersAreOwned'
    BY DEF ScriptsTypeOK, ContainersAreOwned, RecordOutcome, MoveJob, Statement,
           UpdateExecutionStatus
<1> QED BY <1>1, <1>2, <1>3, <1>4, <1>5, <1>6

(* The announcement ends a worker's job. *)
LEMMA NotifyExecutionPreserves ==
    ASSUME ScriptsIInv, NEW e \in ExecIds, NotifyExecution(e)
    PROVE  ScriptsIInv'
<1> USE ScriptsAssumption DEF ScriptsIInv, execVars, runnerVars
<1>1. ScriptsTypeOK'
    BY DEF ScriptsTypeOK, NotifyExecution, MoveJob, ExecutionStatus, Mode, Place,
           SchedulerAgrees
<1>2. SchedulerAgrees'
    BY DEF ScriptsTypeOK, SchedulerAgrees, NoRun, NotifyExecution, MoveJob
<1>3. QueueAgrees'
    BY OffTheChannel DEF NotifyExecution, MoveJob, Place
<1>4. OnlySubmittedWait'
    BY DEF ScriptsTypeOK, OnlySubmittedWait, NotifyExecution, MoveJob
<1>5. RowsAreOwned'
    BY DEF ScriptsTypeOK, RowsAreOwned, OnlySubmittedWait, QueueAgrees, AtExecutor, Mode,
           NotifyExecution, MoveJob
<1>6. ContainersAreOwned'
    BY DEF ScriptsTypeOK, ContainersAreOwned, NotifyExecution, MoveJob
<1> QED BY <1>1, <1>2, <1>3, <1>4, <1>5, <1>6

(* Reading, skipping and stopping touch no execution. *)
LEMMA SchedulerPreserves ==
    ASSUME ScriptsIInv, 
           \/ \E c \in ScheduleIds : SkipSchedule(c)
           \/ CheckSchedules \/ SchedulerStop \/ SchedulerStopped
    PROVE  ScriptsIInv'
<1> USE ScriptsAssumption DEF ScriptsIInv, execVars, runnerVars
<1>1. ScriptsTypeOK'
    BY DEF ScriptsTypeOK, CheckSchedules, DueSchedules, SkipSchedule, Statement,
           SchedulerStop, SchedulerStopped, ExecutionStatus, Mode, Place, SchedulerAgrees
<1>2. SchedulerAgrees'
    <2>1. CASE CheckSchedules
        BY <2>1 DEF SchedulerAgrees, CheckSchedules, DueSchedules
    <2>2. CASE \E c \in ScheduleIds : SkipSchedule(c)
        BY <2>2 DEF SchedulerAgrees, SkipSchedule
    <2>3. CASE SchedulerStop \/ SchedulerStopped
        BY <2>3 DEF SchedulerAgrees, SchedulerStop, SchedulerStopped
    <2> QED BY <2>1, <2>2, <2>3
<1>3. QueueAgrees'
    <2>1. UNCHANGED <<place, runnerQueue>>
        BY DEF CheckSchedules, SkipSchedule, SchedulerStop, SchedulerStopped
    <2> QED BY <2>1 DEF QueueAgrees
<1>4. OnlySubmittedWait'
    BY DEF ScriptsTypeOK, OnlySubmittedWait, CheckSchedules, DueSchedules, SkipSchedule,
           Statement, SchedulerStop, SchedulerStopped
<1>5. RowsAreOwned'
    BY DEF ScriptsTypeOK, RowsAreOwned, OnlySubmittedWait, QueueAgrees, AtExecutor, Mode,
           CheckSchedules, DueSchedules, SkipSchedule, Statement, SchedulerStop,
           SchedulerStopped
<1>6. ContainersAreOwned'
    BY DEF ScriptsTypeOK, ContainersAreOwned, CheckSchedules, DueSchedules, SkipSchedule,
           Statement, SchedulerStop, SchedulerStopped
<1> QED BY <1>1, <1>2, <1>3, <1>4, <1>5, <1>6

(* The scheduler saves an execution and waits for it (executeSchedule). *)
LEMMA ExecuteSchedulePreserves ==
    ASSUME ScriptsIInv, NEW c \in ScheduleIds, NEW e \in ExecIds, ExecuteSchedule(c, e)
    PROVE  ScriptsIInv'
<1> USE ScriptsAssumption DEF ScriptsIInv, execVars, runnerVars
<1>1. ScriptsTypeOK'
    BY DEF ScriptsTypeOK, ExecuteSchedule, SaveExecution, MoveJob, ExecutionStatus, Mode, Place,
           SchedulerAgrees
<1>2. SchedulerAgrees'
    BY DEF ScriptsTypeOK, SchedulerAgrees, NoRun, ExecuteSchedule, SaveExecution, MoveJob
<1>3. QueueAgrees'
    BY OffTheChannel DEF ExecuteSchedule, SaveExecution, MoveJob, Place
<1>4. OnlySubmittedWait'
    BY DEF ScriptsTypeOK, OnlySubmittedWait, ExecuteSchedule, SaveExecution, MoveJob
<1>5. RowsAreOwned'
    BY DEF ScriptsTypeOK, RowsAreOwned, OnlySubmittedWait, QueueAgrees, AtExecutor, Mode,
           ExecuteSchedule, SaveExecution, MoveJob
<1>6. ContainersAreOwned'
    BY DEF ScriptsTypeOK, ContainersAreOwned, ExecuteSchedule, SaveExecution, MoveJob
<1> QED BY <1>1, <1>2, <1>3, <1>4, <1>5, <1>6

(* The next run time moves when the execution is recorded. *)
LEMMA UpdateScheduleLastRunPreserves ==
    ASSUME ScriptsIInv, UpdateScheduleLastRun
    PROVE  ScriptsIInv'
<1> USE ScriptsAssumption DEF ScriptsIInv, execVars, runnerVars
<1>s. \A c \in ScheduleIds : [scheduleRow EXCEPT ![c].state = "waiting"] \in
            [ScheduleIds -> [state : {"absent", "waiting", "due"},
                             script : ScriptIds \cup {"none"}]]
    BY DEF ScriptsTypeOK
<1>c. scheduler.cur.schedule \in ScheduleIds
    BY DEF SchedulerAgrees, UpdateScheduleLastRun
<1>1. ScriptsTypeOK'
    BY <1>s, <1>c
    DEF ScriptsTypeOK, UpdateScheduleLastRun, MoveJob, Statement, Place, SchedulerAgrees
<1>2. SchedulerAgrees'
    BY DEF ScriptsTypeOK, SchedulerAgrees, NoRun, UpdateScheduleLastRun, MoveJob,
           Statement
<1>3. QueueAgrees'
    BY OffTheChannel DEF UpdateScheduleLastRun, MoveJob, SchedulerAgrees, Place
<1>4. OnlySubmittedWait'
    BY DEF ScriptsTypeOK, OnlySubmittedWait, UpdateScheduleLastRun, MoveJob, Statement
<1>5. RowsAreOwned'
    BY DEF ScriptsTypeOK, RowsAreOwned, OnlySubmittedWait, QueueAgrees, AtExecutor, Mode,
           UpdateScheduleLastRun, MoveJob, Statement
<1>6. ContainersAreOwned'
    BY DEF ScriptsTypeOK, ContainersAreOwned, UpdateScheduleLastRun, MoveJob, Statement
<1> QED BY <1>1, <1>2, <1>3, <1>4, <1>5, <1>6

(* A restart takes every job that had not returned and leaves rows and *)
(* containers.                                                         *)
LEMMA RestartPreserves ==
    ASSUME ScriptsIInv, ScriptsRestart
    PROVE  ScriptsIInv'
<1> USE ScriptsAssumption DEF ScriptsIInv, execVars, runnerVars
<1>1. ScriptsTypeOK'
    BY DEF ScriptsTypeOK, ScriptsRestart, PlaceAfterRestart, Statement, ListScripts,
           NoTask, ExecutionStatus, Mode, Place, SchedulerAgrees
<1>2. SchedulerAgrees'
    BY DEF ScriptsTypeOK, SchedulerAgrees, NoRun, ScriptsRestart, PlaceAfterRestart,
           Statement, ListScripts
<1>3. QueueAgrees'
    BY DEF ScriptsTypeOK, QueueAgrees, ScriptsRestart, PlaceAfterRestart, Statement,
           ListScripts
<1>4. OnlySubmittedWait'
    BY DEF ScriptsTypeOK, OnlySubmittedWait, ScriptsRestart, PlaceAfterRestart, Statement,
           ListScripts
<1>5. RowsAreOwned'
    BY DEF ScriptsTypeOK, RowsAreOwned, OnlySubmittedWait, QueueAgrees, AtExecutor, Mode,
           ScriptsRestart, PlaceAfterRestart, Statement, ListScripts, NoTask
<1>6. ContainersAreOwned'
    BY DEF ScriptsTypeOK, ContainersAreOwned, ScriptsRestart, PlaceAfterRestart,
           Statement, ListScripts
<1> QED BY <1>1, <1>2, <1>3, <1>4, <1>5, <1>6

(* A new instance has scripts and nothing else. *)
LEMMA ScriptsInitially == ScriptsInit => ScriptsIInv
<1> SUFFICES ASSUME ScriptsInit PROVE ScriptsIInv
    OBVIOUS
<1>1. ScriptsTypeOK /\ SchedulerAgrees
    BY ScriptsAssumption
    DEF ScriptsInit, ScriptsTypeOK, SchedulerAgrees, NoTask, NoRun, ExecutionStatus, Mode,
       Place
<1>2. QueueAgrees /\ OnlySubmittedWait
    BY DEF ScriptsInit, QueueAgrees, OnlySubmittedWait
<1>3. RowsAreOwned /\ ContainersAreOwned
    BY DEF ScriptsInit, RowsAreOwned, ContainersAreOwned
<1> QED BY <1>1, <1>2, <1>3 DEF ScriptsIInv

(* Every step keeps the invariant. *)
LEMMA ScriptsPreserves == ScriptsIInv /\ [ScriptsNext]_scriptsVars => ScriptsIInv'
<1> SUFFICES ASSUME ScriptsIInv, [ScriptsNext]_scriptsVars PROVE ScriptsIInv'
    OBVIOUS
<1>1. CASE UNCHANGED scriptsVars
    BY <1>1 DEF scriptsVars, execVars, runnerVars, ScriptsIInv, ScriptsTypeOK, SchedulerAgrees,
                QueueAgrees, OnlySubmittedWait, RowsAreOwned, ContainersAreOwned
<1>2. CASE \E s \in ScriptIds :
             \/ RegisterScript(s)
             \/ \E k \in BOOLEAN : DeleteScript(s, k)
             \/ \E c \in ScheduleIds : CreateSchedule(c, s)
             \/ \E e \in ExecIds, m \in {"async", "sync"} : ExecuteScript(e, s, m)
    BY <1>2, RegisterScriptPreserves, DeleteScriptPreserves, SchedulesPreserves,
       ExecuteScriptPreserves
<1>3. CASE \E c \in ScheduleIds : DeleteSchedule(c) \/ ScheduleComesDue(c)
    BY <1>3, SchedulesPreserves
<1>4. CASE \E e \in ExecIds : JobStep(e)
    BY <1>4, SaveRequestPreserves, SubmitCheckPreserves, SubmitSendPreserves, SubmitRefusedPreserves,
       MarkRunningPreserves, ContainerCreatePreserves, ExecuteReturnsPreserves,
       RecordOutcomePreserves, NotifyExecutionPreserves DEF JobStep
<1>5. CASE SchedulerStep \/ SchedulerStop
    BY <1>5, SchedulerPreserves, ExecuteSchedulePreserves,
       UpdateScheduleLastRunPreserves DEF SchedulerStep
<1>6. CASE RunnerTake \/ RunnerStop \/ RunnerClose \/ RunnerStopped \/ ScriptsRestart
    BY <1>6, RunnerTakePreserves, RunnerPhasePreserves, RestartPreserves
<1> QED BY <1>1, <1>2, <1>3, <1>4, <1>5, <1>6 DEF ScriptsNext

(* The types of the tables, the channel and the scheduler's list             *)
(* (internal/scripts/runner.go, scheduler.go), the channel within its        *)
(* capacity.                                                                 *)
THEOREM ScriptsTypeCorrect == ScriptsSpec => []ScriptsTypeOK
<1>1. ScriptsIInv => ScriptsTypeOK
    BY DEF ScriptsIInv
<1> QED BY <1>1, ScriptsInitially, ScriptsPreserves, PTL DEF ScriptsSpec

(* No row says pending or running, and no container runs, without a job that *)
(* will change it, whatever Stop, a restart or a failed statement does in    *)
(* between: the exceptions are the refused, the lost and the ones a          *)
(* statement of which failed (Runner.Submit, Runner.Stop, executeJob).       *)
THEOREM NothingIsOrphanedHolds == ScriptsSpec => []NothingIsOrphaned
<1>1. ScriptsIInv => NothingIsOrphaned
    BY DEF ScriptsIInv, NothingIsOrphaned
<1> QED BY <1>1, ScriptsInitially, ScriptsPreserves, PTL DEF ScriptsSpec

(* What a row may say of an execution whose job is at a place: nothing before *)
(* it is saved, "running" only once it began, the outcome only once recorded. *)
RowAt(p) == CASE p \in {"none", "read"} -> {"absent"}
              [] p \in {"running", "returned", "unrecorded", "lost"}
                   -> {"absent", "pending", "running"}
              [] p \in {"recorded", "done"} -> {"absent", "pending", "running", "ended"}
              [] OTHER -> {"absent", "pending"}

RowsFit == \A e \in ExecIds : execRow[e] \in RowAt(place[e])

(* No statement writes a status before its time, and no restart moves a job  *)
(* to a place its row does not fit.                                          *)
LEMMA RowsKeepFitting ==
    ASSUME ScriptsIInv, RowsFit, [ScriptsNext]_scriptsVars
    PROVE  RowsFit'
<1> USE DEF ScriptsIInv, ScriptsTypeOK, ExecutionStatus, RowsFit, RowAt
<1>0. ASSUME NEW e \in ExecIds,
             \/ \E s \in ScriptIds, m \in {"async", "sync"} : ExecuteScript(e, s, m)
             \/ SaveRequestFails(e)
      PROVE  RowsFit'
    BY <1>0 DEF ExecuteScript, SaveRequestFails, MoveJob
<1>1. ASSUME NEW e \in ExecIds,
             \/ SaveRequest(e)
             \/ \E c \in ScheduleIds : ExecuteSchedule(c, e)
      PROVE  RowsFit'
    <2>1. PICK to \in {"saved", "taken"} : place' = [place EXCEPT ![e] = to]
        BY <1>1 DEF SaveRequest, ExecuteSchedule, SaveExecution, MoveJob
    <2>2. execRow' = [execRow EXCEPT ![e] = "pending"]
        BY <1>1 DEF SaveRequest, ExecuteSchedule, SaveExecution
    <2> QED BY <2>1, <2>2
<1>2. ASSUME NEW e \in ExecIds, SubmitCheck(e) \/ SubmitSend(e) \/ SubmitRefused(e)
      PROVE  RowsFit'
    BY <1>2 DEF SubmitCheck, SubmitSend, SubmitRefused, MoveJob
<1>3. ASSUME NEW e \in ExecIds, MarkRunning(e) PROVE RowsFit'
    BY <1>3 DEF MarkRunning, MoveJob, UpdateExecutionStatus
<1>4. ASSUME NEW e \in ExecIds, ContainerCreate(e) \/ ExecuteReturns(e) \/ NotifyExecution(e)
      PROVE  RowsFit'
    BY <1>4 DEF ContainerCreate, ExecuteReturns, NotifyExecution, MoveJob
<1>5. ASSUME NEW e \in ExecIds, RecordOutcome(e) PROVE RowsFit'
    BY <1>5 DEF RecordOutcome, MoveJob, UpdateExecutionStatus
<1>6. CASE RunnerTake
    <2>1. Head(runnerQueue) \in ExecIds
        BY <1>6 DEF RunnerTake
    <2> QED BY <1>6, <2>1 DEF RunnerTake, MoveJob
<1>7. CASE UpdateScheduleLastRun
    <2>1. scheduler.cur.exec \in ExecIds
        BY <1>7 DEF SchedulerAgrees, UpdateScheduleLastRun
    <2> QED BY <1>7, <2>1 DEF UpdateScheduleLastRun, MoveJob
<1>8. CASE ScriptsRestart
    BY <1>8 DEF ScriptsRestart, PlaceAfterRestart, Place
<1>9. ASSUME NEW s \in ScriptIds, NEW k \in BOOLEAN, DeleteScript(s, k) PROVE RowsFit'
    BY <1>9 DEF DeleteScript
<1>10. CASE UNCHANGED <<execRow, place>>
    BY <1>10
<1> QED
    BY <1>0, <1>1, <1>2, <1>3, <1>4, <1>5, <1>6, <1>7, <1>8, <1>9, <1>10
    DEF ScriptsNext, JobStep, SchedulerStep, scriptsVars, execVars, runnerVars, RegisterScript,
        CreateSchedule, DeleteSchedule, ScheduleComesDue, CheckSchedules,
        SkipSchedule, SchedulerStopped, SchedulerStop, RunnerStop, RunnerClose,
        RunnerStopped

(* Where a job is, in the terms of ExecutionLife.                            *)
LifeAt(p) == CASE p \in {"none", "read"} -> "new"
               [] p \in {"saved", "checked"} -> "submitted"
               [] p \in {"queued", "taken"} -> "accepted"
               [] p = "running" -> "running"
               [] p \in {"refused", "lost"} -> p
               [] OTHER -> "finished"

(* The refinement mapping looks at the place alone. *)
LEMMA LifeIsAtPlace == executionLife = [e \in ExecIds |-> LifeAt(place[e])]
BY DEF executionLife, LifeAt

(* A job that moves moves the life of its execution and of no other.         *)
LEMMA MoveMovesLife ==
    ASSUME ScriptsTypeOK, NEW e \in ExecIds, NEW from \in Place, NEW to \in Place,
           place[e] = from, place' = [place EXCEPT ![e] = to]
    PROVE  /\ executionLife[e] = LifeAt(from)
           /\ executionLife' = [executionLife EXCEPT ![e] = LifeAt(to)]
<1>1. \A x \in ExecIds : place'[x] = IF x = e THEN to ELSE place[x]
    BY DEF ScriptsTypeOK
<1>2. executionLife' = [x \in ExecIds |-> LifeAt(place'[x])]
    BY DEF executionLife, LifeAt
<1>3. executionLife' = [x \in ExecIds |-> IF x = e THEN LifeAt(to) ELSE LifeAt(place[x])]
    BY <1>1, <1>2
<1> QED BY <1>3, LifeIsAtPlace

(* A move within one stage of a life is not seen in it.                      *)
LEMMA MoveWithinALife ==
    ASSUME ScriptsTypeOK, NEW e \in ExecIds, NEW from \in Place, NEW to \in Place,
           place[e] = from, place' = [place EXCEPT ![e] = to], LifeAt(from) = LifeAt(to)
    PROVE  executionLife' = executionLife
<1>1. \A x \in ExecIds : LifeAt(place'[x]) = LifeAt(place[x])
    BY DEF ScriptsTypeOK
<1>2. executionLife' = [x \in ExecIds |-> LifeAt(place'[x])]
    BY DEF executionLife, LifeAt
<1> QED BY <1>1, <1>2, LifeIsAtPlace

(* No execution has begun when the program starts. *)
LEMMA InitIsLifeInit == ScriptsInit => Life!LifeInit
BY LifeIsAtPlace DEF ScriptsInit, LifeAt, Life!LifeInit

(* What a caller, a worker or the scheduler does with an execution is at *)
(* most one step of its life.                                            *)
LEMMA CallerStepsAreLife ==
    ASSUME ScriptsIInv, RowsFit, NEW e \in ExecIds,
           <<executionLife, execRow>>' # <<executionLife, execRow>>,
           \/ \E s \in ScriptIds, m \in {"async", "sync"} : ExecuteScript(e, s, m)
           \/ \E c \in ScheduleIds : ExecuteSchedule(c, e)
           \/ JobStep(e)
    PROVE  Life!LifeNext
<1> USE DEF ScriptsIInv, Place, LifeAt, RowsFit, RowAt, Life!Move, Life!Write
<1>0. CASE \/ \E s \in ScriptIds, m \in {"async", "sync"} : ExecuteScript(e, s, m)
           \/ SaveRequestFails(e)
    <2>1. UNCHANGED executionLife
        BY <1>0, MoveWithinALife DEF ExecuteScript, SaveRequestFails, MoveJob
    <2> QED BY <1>0, <2>1 DEF ExecuteScript, SaveRequestFails
<1>1. CASE SaveRequest(e) \/ \E c \in ScheduleIds : ExecuteSchedule(c, e)
    <2>1. Life!Submit(e) \/ Life!RunDirectly(e)
        BY <1>1, MoveMovesLife
        DEF SaveRequest, ExecuteSchedule, SaveExecution, MoveJob, Life!Submit, Life!RunDirectly
    <2> QED BY <2>1 DEF Life!LifeNext
<1>2. CASE SubmitCheck(e) \/ SubmitRefused(e)
    <2>1. place' = [place EXCEPT ![e] = "refused"] \/ place' = [place EXCEPT ![e] = "checked"]
        BY <1>2 DEF SubmitCheck, SubmitRefused, MoveJob
    <2>2. place' = [place EXCEPT ![e] = "refused"] /\ UNCHANGED execRow
        BY <1>2, <2>1, MoveWithinALife DEF SubmitCheck, SubmitRefused, MoveJob
    <2>3. Life!Refuse(e)
        BY <1>2, <2>2, MoveMovesLife DEF SubmitCheck, SubmitRefused, MoveJob, Life!Refuse
    <2> QED BY <2>3 DEF Life!LifeNext
<1>3. CASE SubmitSend(e)
    <2>1. Life!Accept(e)
        BY <1>3, MoveMovesLife DEF SubmitSend, MoveJob, Life!Accept
    <2> QED BY <2>1 DEF Life!LifeNext
<1>4. CASE MarkRunning(e)
    <2>1. Life!Begin(e)
        <3>1. Life!Move(e, "accepted", "running")
            BY <1>4, MoveMovesLife DEF MarkRunning, MoveJob
        <3>2. Life!Write(e, {"pending"}, "running") \/ UNCHANGED execRow
            BY <1>4 DEF MarkRunning, MoveJob, UpdateExecutionStatus, ScriptsTypeOK
        <3> QED BY <3>1, <3>2 DEF Life!Begin
    <2> QED BY <2>1 DEF Life!LifeNext
<1>5. CASE ExecuteReturns(e)
    <2>1. Life!Finish(e)
        BY <1>5, MoveMovesLife DEF ExecuteReturns, MoveJob, Life!Finish
    <2> QED BY <2>1 DEF Life!LifeNext
<1>6. CASE ContainerCreate(e) \/ RecordOutcome(e) \/ NotifyExecution(e)
    <2>1. CASE ContainerCreate(e)
        BY <2>1 DEF ContainerCreate, executionLife
    <2>2. CASE NotifyExecution(e)
        BY <2>2, MoveWithinALife DEF NotifyExecution, MoveJob
    <2>3. CASE RecordOutcome(e)
        <3>1. UNCHANGED executionLife
            <4>1. PICK to \in {"done", "recorded"} :
                     place[e] = "returned" /\ place' = [place EXCEPT ![e] = to]
                BY <2>3 DEF RecordOutcome, MoveJob
            <4> QED BY <4>1, MoveWithinALife
        <3>2. executionLife[e] = "finished"
            BY <2>3, LifeIsAtPlace DEF RecordOutcome, MoveJob
        <3>3. Life!Write(e, {"pending", "running"}, "ended")
            BY <2>3, <3>1 DEF RecordOutcome, MoveJob, UpdateExecutionStatus, ScriptsTypeOK
        <3> QED BY <3>1, <3>2, <3>3 DEF Life!Record, Life!LifeNext
    <2> QED BY <1>6, <2>1, <2>2, <2>3
<1> QED BY <1>0, <1>1, <1>2, <1>3, <1>4, <1>5, <1>6 DEF JobStep

(* A restart is the end of the process, for every execution at once. *)
LEMMA RestartIsProcessEnds ==
    ASSUME ScriptsIInv, ScriptsRestart
    PROVE  Life!ProcessEnds
<1>1. executionLife' = [x \in ExecIds |-> LifeAt(place'[x])]
    BY DEF executionLife, LifeAt
<1>2. \A x \in ExecIds : LifeAt(place'[x]) =
         IF LifeAt(place[x]) \in {"submitted", "accepted", "running"}
         THEN "lost" ELSE LifeAt(place[x])
    BY DEF ScriptsIInv, ScriptsTypeOK, Place, ScriptsRestart, PlaceAfterRestart, LifeAt
<1> QED BY <1>1, <1>2, LifeIsAtPlace DEF ScriptsRestart, Life!ProcessEnds

(* Every step is a step of ExecutionLife or leaves every life alone.         *)
LEMMA NextIsLifeNext ==
    ScriptsIInv /\ RowsFit /\ [ScriptsNext]_scriptsVars
        => [Life!LifeNext]_<<executionLife, execRow>>
<1> SUFFICES ASSUME ScriptsIInv, RowsFit, [ScriptsNext]_scriptsVars,
                    <<executionLife, execRow>>' # <<executionLife, execRow>>
             PROVE  Life!LifeNext
    OBVIOUS
<1>1. ~UNCHANGED <<place, execRow>>
    BY DEF executionLife
<1>2. CASE \E e \in ExecIds :
             \/ \E s \in ScriptIds, m \in {"async", "sync"} : ExecuteScript(e, s, m)
             \/ \E c \in ScheduleIds : ExecuteSchedule(c, e)
             \/ JobStep(e)
    BY <1>2, CallerStepsAreLife
<1>3. CASE RunnerTake \/ UpdateScheduleLastRun
    <2>1. PICK e \in ExecIds, from \in Place, to \in Place :
            /\ place[e] = from /\ place' = [place EXCEPT ![e] = to]
            /\ LifeAt(from) = LifeAt(to)
        <3>1. CASE RunnerTake
            <4>1. Head(runnerQueue) \in ExecIds
                BY <3>1 DEF ScriptsIInv, ScriptsTypeOK, RunnerTake
            <4> QED BY <3>1, <4>1 DEF RunnerTake, MoveJob, Place, LifeAt
        <3>2. CASE UpdateScheduleLastRun
            <4>1. /\ scheduler.cur.exec \in ExecIds
                  /\ place[scheduler.cur.exec] = "recorded"
                  /\ place' = [place EXCEPT ![scheduler.cur.exec] = "done"]
                BY <3>2 DEF ScriptsIInv, SchedulerAgrees, UpdateScheduleLastRun, MoveJob
            <4> QED BY <4>1 DEF Place, LifeAt
        <3> QED BY <1>3, <3>1, <3>2
    <2>2. executionLife' = executionLife
        BY <2>1, MoveWithinALife DEF ScriptsIInv
    <2> QED BY <1>3, <2>2 DEF RunnerTake, UpdateScheduleLastRun
<1>4. CASE ScriptsRestart
    BY <1>4, RestartIsProcessEnds DEF Life!LifeNext
<1>5. ASSUME NEW s \in ScriptIds, NEW k \in BOOLEAN, DeleteScript(s, k) PROVE Life!LifeNext
    <2> DEFINE S == {e \in ExecIds : k /\ task[e].script = s}
    <2>1. S \in SUBSET ExecIds /\ UNCHANGED executionLife
        BY <1>5 DEF DeleteScript, executionLife
    <2>2. execRow' = [e \in ExecIds |-> IF e \in S THEN "absent" ELSE execRow[e]]
        BY <1>5 DEF DeleteScript
    <2> QED BY <2>1, <2>2 DEF Life!Remove, Life!LifeNext
<1> QED
    BY <1>1, <1>2, <1>3, <1>4, <1>5
    DEF ScriptsNext, SchedulerStep, scriptsVars, execVars, runnerVars, RegisterScript,
        CreateSchedule, DeleteSchedule, ScheduleComesDue, CheckSchedules,
        SkipSchedule, SchedulerStopped, SchedulerStop, RunnerStop, RunnerClose,
        RunnerStopped

(* The handler, the runner, its workers and the scheduler implement            *)
(* ExecutionLife for any number of workers and schedules: an accepted          *)
(* execution begins once, a refused or lost one never does, and the status in  *)
(* its row only advances and never ahead of it, whatever Stop or a restart     *)
(* does in between (Runner.Submit, worker, Scheduler.executeSchedule).         *)
THEOREM ExecutionsRunOnceHolds == ScriptsSpec => ExecutionsRunOnce
<1>1. ScriptsSpec => []ScriptsIInv
    BY ScriptsInitially, ScriptsPreserves, PTL DEF ScriptsSpec
<1>2. ScriptsInit => RowsFit
    BY DEF ScriptsInit, RowsFit, RowAt
<1>3. ScriptsIInv /\ RowsFit /\ [ScriptsNext]_scriptsVars => RowsFit'
    BY RowsKeepFitting
<1>4. ScriptsSpec => []RowsFit
    BY <1>1, <1>2, <1>3, PTL DEF ScriptsSpec
<1> QED BY <1>1, <1>4, InitIsLifeInit, NextIsLifeNext, PTL
        DEF ScriptsSpec, ExecutionsRunOnce, Life!LifeSpec
=============================================================================
