----------------------------- MODULE Containers -----------------------------
(***************************************************************************)
(* Starting, stopping and restarting containers over the API: single       *)
(* requests, answered with 202 and carried out by a goroutine that tells   *)
(* the requesting device the outcome, and bulk requests, carried out by    *)
(* one goroutine per container under a semaphore and answered with a count *)
(* of successes.  Both go through the runtime registry to Docker or to     *)
(* Kubernetes, where a pod is stopped by scaling its deployment to zero    *)
(* (or, without one, by deleting it) and restarted by deleting it.         *)
(*                                                                         *)
(* A pod that a deployment creates anew has another name: it is another    *)
(* container.  Everything else in Docker and Kubernetes is external.       *)
(***************************************************************************)
EXTENDS Naturals, Sequences, FiniteSets

CONSTANTS DockerIds, ManagedPods, LonePods,  \* container IDs by kind
          SingleOps,            \* single requests
          MaxConcurrentBulkOps, \* maxConcurrentBulkOps
          MaxBatch,             \* bound on the entries of a batch
          MaxRuntimeFaults      \* bound on failing runtime calls

ContainerIds == DockerIds \cup ManagedPods \cup LonePods
ContainerActions == {"start", "stop", "restart"}

\* What a bulk request does: an operation for each entry of its list, which
\* is the n-th to name its container. Entries are taken in any order.
BulkOperation == ContainerIds \X (1..MaxBatch)
ContainerOf(o) == o[1]

ASSUME ContainersAssumption ==
    /\ IsFiniteSet(ContainerIds) /\ ContainerIds # {}
    /\ MaxConcurrentBulkOps \in Nat /\ MaxRuntimeFaults \in Nat
    /\ MaxBatch \in Nat \ {0}

VARIABLES runtimes,   \* the registry's runtimes, the primary one first
          containerState,
          ops,          \* the goroutine of each single request
          markedDown,   \* apps MarkAppUnhealthy was called for, by container
          told,         \* outcomes sent to the requesting devices
          bulk,         \* the bulk request
          runtimeFaults

containerVars == <<runtimes, containerState, ops, markedDown, told, bulk, runtimeFaults>>

NoBulk == [pc |-> "none", action |-> "start", waiting |-> {}, inFlight |-> {},
           ok |-> {}, failed |-> {}, total |-> 0, success |-> 0]

ContainersTypeOK ==
    /\ runtimes \in {<<"docker">>, <<"kubernetes">>, <<"docker", "kubernetes">>}
    /\ containerState \in [ContainerIds -> {"running", "stopped", "gone"}]
    /\ ops \in [SingleOps -> [pc : {"idle", "inspect", "act", "mark", "tell", "over"},
                              action : ContainerActions, id : ContainerIds,
                              app : BOOLEAN, device : BOOLEAN,
                              outcome : {"none", "completed", "failed"}]]
    /\ markedDown \subseteq ContainerIds
    /\ told \in [SingleOps -> {"none", "completed", "failed"}]
    /\ bulk \in [pc : {"none", "running", "answered"}, action : ContainerActions,
                 waiting : SUBSET BulkOperation, inFlight : SUBSET BulkOperation,
                 ok : SUBSET BulkOperation, failed : SUBSET BulkOperation,
                 total : Nat, success : Nat]
    /\ runtimeFaults \in 0..MaxRuntimeFaults

---------------------------------------------------------------------------
(* The runtime registry and the runtimes *)

RuntimeOf(c) == IF c \in DockerIds THEN "docker" ELSE "kubernetes"

\* BuildContainerComponents: Docker is registered before Kubernetes, the first
\* one becomes the primary; without any there are no container handlers.
BuildRegistry(docker, kubernetes) ==
    (IF docker THEN <<"docker">> ELSE <<>>) \o (IF kubernetes THEN <<"kubernetes">> ELSE <<>>)

GetPrimary == runtimes[1]
GetRuntime(type) == \E i \in DOMAIN runtimes : runtimes[i] = type

\* List of the primary runtime.
ListContainers(all) ==
    {c \in ContainerIds : /\ RuntimeOf(c) = GetPrimary
                          /\ containerState[c] # "gone"
                          /\ all \/ containerState[c] = "running"}

\* Whether the call can succeed, and what it makes of the container: Start
\* needs a pod with a deployment to scale.
CanPerform(action, c) ==
    /\ containerState[c] # "gone"
    /\ ~(action = "start" /\ c \in LonePods)
StateAfter(action, c) ==
    IF action = "start" THEN "running"
    ELSE IF c \in DockerIds THEN IF action = "stop" THEN "stopped" ELSE "running"
    ELSE "gone"

RuntimeFault == runtimeFaults < MaxRuntimeFaults /\ runtimeFaults' = runtimeFaults + 1

\* One runtime call for container c; ok says whether it succeeded.
Perform(action, c, ok) ==
    \/ /\ ok /\ CanPerform(action, c)
       /\ containerState' = [containerState EXCEPT ![c] = StateAfter(action, c)]
       /\ UNCHANGED runtimeFaults
    \/ /\ ~ok
       /\ IF CanPerform(action, c) THEN RuntimeFault ELSE UNCHANGED runtimeFaults
       /\ UNCHANGED containerState

---------------------------------------------------------------------------
(* Single requests *)

ContainersInit ==
    /\ \E docker, kubernetes \in BOOLEAN :
          (docker \/ kubernetes) /\ runtimes = BuildRegistry(docker, kubernetes)
    /\ containerState \in [ContainerIds -> {"running", "stopped"}]
    /\ ops = [r \in SingleOps |-> [pc |-> "idle", action |-> "start",
                 id |-> CHOOSE c \in ContainerIds : TRUE,
                 app |-> FALSE, device |-> FALSE, outcome |-> "none"]]
    /\ markedDown = {}
    /\ told = [r \in SingleOps |-> "none"]
    /\ bulk = NoBulk
    /\ runtimeFaults = 0

\* HandleStartContainer, HandleStopContainer, HandleRestartContainer: 202, then
\* a goroutine.  Only a stop first asks for the app behind the container.
HandleContainer(r, action, c, device) ==
    /\ ops[r].pc = "idle"
    /\ ops' = [ops EXCEPT ![r] =
          [pc |-> IF action = "stop" THEN "inspect" ELSE "act", action |-> action,
           id |-> c, app |-> FALSE, device |-> device, outcome |-> "none"]]
    /\ UNCHANGED <<runtimes, containerState, markedDown, told, bulk, runtimeFaults>>

\* The request names its runtime, or it goes to the primary one.
Reaches(c) == GetRuntime(RuntimeOf(c))

\* getAppIDFromContainer: an error means no app.
InspectApp(r) ==
    /\ ops[r].pc = "inspect"
    /\ ops' = [ops EXCEPT ![r].pc = "act",
                          ![r].app = Reaches(ops[r].id) /\ containerState[ops[r].id] # "gone"]
    /\ UNCHANGED <<runtimes, containerState, markedDown, told, bulk, runtimeFaults>>

\* A runtime that is not registered is a failure like any other.
ExecuteContainer(r) ==
    /\ ops[r].pc = "act"
    /\ \E ok \in BOOLEAN :
          /\ IF Reaches(ops[r].id) THEN Perform(ops[r].action, ops[r].id, ok)
             ELSE ~ok /\ UNCHANGED <<containerState, runtimeFaults>>
          /\ ops' = [ops EXCEPT
                ![r].pc = IF ok /\ ops[r].action = "stop" /\ ops[r].app THEN "mark" ELSE "tell",
                ![r].outcome = IF ok THEN "completed" ELSE "failed"]
    /\ UNCHANGED <<runtimes, markedDown, told, bulk>>

MarkAppUnhealthy(r) ==
    /\ ops[r].pc = "mark"
    /\ markedDown' = markedDown \cup {ops[r].id}
    /\ ops' = [ops EXCEPT ![r].pc = "tell"]
    /\ UNCHANGED <<runtimes, containerState, told, bulk, runtimeFaults>>

\* SendToDevice: nothing is kept for a device that is not connected.
TellDevice(r) ==
    /\ ops[r].pc = "tell"
    /\ ops' = [ops EXCEPT ![r].pc = "over"]
    /\ \E sent \in BOOLEAN :
          told' = IF sent /\ ops[r].device THEN [told EXCEPT ![r] = ops[r].outcome] ELSE told
    /\ UNCHANGED <<runtimes, containerState, markedDown, bulk, runtimeFaults>>

---------------------------------------------------------------------------
(* Bulk requests *)

BulkStarts(action, operations) ==
    /\ bulk.pc = "none"
    /\ bulk' = [NoBulk EXCEPT !.pc = "running", !.action = action,
                              !.waiting = operations, !.total = Cardinality(operations)]
    /\ UNCHANGED <<runtimes, containerState, ops, markedDown, told, runtimeFaults>>

Once(ids) == ids \X {1}

\* All containers are restarted, the running ones stopped, the others started.
HandleRestartAll == BulkStarts("restart", Once(ListContainers(TRUE)))
HandleStopAll == BulkStarts("stop", Once(ListContainers(FALSE)))
HandleStartAll == BulkStarts("start", Once(ListContainers(TRUE) \ ListContainers(FALSE)))

\* A batch names containers, each any number of times; all of them go to the
\* primary runtime.
HandleBatchOperation ==
    \E action \in ContainerActions, times \in [ContainerIds -> 0..MaxBatch] :
        LET operations == {o \in BulkOperation : o[2] <= times[ContainerOf(o)]} IN
        /\ Cardinality(operations) \in 1..MaxBatch
        /\ BulkStarts(action, operations)

BulkAcquire(o) ==
    /\ bulk.pc = "running" /\ o \in bulk.waiting
    /\ Cardinality(bulk.inFlight) < MaxConcurrentBulkOps
    /\ bulk' = [bulk EXCEPT !.waiting = @ \ {o}, !.inFlight = @ \cup {o}]
    /\ UNCHANGED <<runtimes, containerState, ops, markedDown, told, runtimeFaults>>

\* The call, the result and the release of the semaphore; the count is kept
\* under a mutex.  No app is marked unhealthy here.
BulkPerform(o) ==
    /\ o \in bulk.inFlight
    /\ \E ok \in BOOLEAN :
          /\ IF RuntimeOf(ContainerOf(o)) = GetPrimary
             THEN Perform(bulk.action, ContainerOf(o), ok)
             ELSE ~ok /\ UNCHANGED <<containerState, runtimeFaults>>
          /\ bulk' = [bulk EXCEPT !.inFlight = @ \ {o},
                        !.ok = IF ok THEN @ \cup {o} ELSE @,
                        !.failed = IF ok THEN @ ELSE @ \cup {o},
                        !.success = IF ok THEN @ + 1 ELSE @]
    /\ UNCHANGED <<runtimes, ops, markedDown, told>>

\* Mutant: the answer does not wait for operations that hold the semaphore.
BulkAllDoneEarly == bulk.waiting = {}

\* wg.Wait.
BulkAllDone == bulk.waiting = {} /\ bulk.inFlight = {}

BulkAnswer ==
    /\ bulk.pc = "running" /\ BulkAllDone
    /\ bulk' = [bulk EXCEPT !.pc = "answered"]
    /\ UNCHANGED <<runtimes, containerState, ops, markedDown, told, runtimeFaults>>

ContainersNext ==
    \/ \E r \in SingleOps :
          \/ \E action \in ContainerActions, c \in ContainerIds, device \in BOOLEAN :
                HandleContainer(r, action, c, device)
          \/ InspectApp(r) \/ ExecuteContainer(r) \/ MarkAppUnhealthy(r) \/ TellDevice(r)
    \/ HandleRestartAll \/ HandleStopAll \/ HandleStartAll \/ HandleBatchOperation
    \/ \E o \in BulkOperation : BulkAcquire(o) \/ BulkPerform(o)
    \/ BulkAnswer

ContainersSpec == ContainersInit /\ [][ContainersNext]_containerVars

---------------------------------------------------------------------------
(* Properties *)

\* The answer to a bulk request accounts for every entry of its list, the ones
\* that name a container again included: for each one there was an operation,
\* in at most maxConcurrentBulkOps calls at a time, and the successes and the
\* failures it reports add up to the total although single requests, and the
\* other entries, act on the same containers meanwhile.
BulkAnswerIsComplete ==
    /\ Cardinality(bulk.inFlight) <= MaxConcurrentBulkOps
    /\ bulk.pc = "answered" =>
          /\ Cardinality(bulk.ok \cup bulk.failed) = bulk.total
          /\ bulk.success = Cardinality(bulk.ok)
          /\ bulk.total - bulk.success = Cardinality(bulk.failed)
=============================================================================
