------------------------------ MODULE Toolbox ------------------------------
(***************************************************************************)
(* Toolbox deployments: the catalog, the deployment rows, the goroutine    *)
(* that carries a deployment out (performDeployment) and the removal of a  *)
(* deployment.  A catalog is either a directory of Compose files or a YAML *)
(* file of single containers, so all templates of a process have one kind. *)
(*                                                                         *)
(* Docker is external: a container is known by the deployment that created *)
(* it and by its part (a Compose service, or the container's name).  Names *)
(* of single containers are unique in Docker, as are deployment IDs        *)
(* ("deploy_<nanoseconds>").  ServiceNames stands for sanitized names: the *)
(* sanitizer turns "_" into "-", so none of them starts with "deploy_".    *)
(* Requests refused without any change (validation, an occupied port) are  *)
(* not steps.                                                              *)
(***************************************************************************)
EXTENDS Naturals, FiniteSets

CONSTANTS DeploymentIds,     \* generated deployment IDs
          ServiceNames,      \* sanitized service names
          ComposeServices,   \* the services of a Compose project
          MaxToolboxFaults   \* bound on failing Docker calls

NoContainerID == ""

ASSUME ToolboxConstants ==
    /\ MaxToolboxFaults \in Nat
    /\ ServiceNames \cap DeploymentIds = {}
    /\ NoContainerID \notin DeploymentIds

VARIABLES catalog,      \* "compose" or "single": the kind of the loaded templates
          deployments,  \* table toolbox_deployments
          jobs,         \* the performDeployment goroutine of each deployment
          removals,     \* the RemoveDeployment request of each deployment
          containers,   \* Docker's containers
          networks,     \* projects whose network exists in Docker
          dockerFaults

toolboxVars == <<catalog, deployments, jobs, removals, containers, networks, dockerFaults>>

NoDeployment == [name |-> "", status |-> "absent", containerID |-> NoContainerID,
                 containerName |-> "", routeID |-> ""]
NoDeployJob == [pc |-> "idle", todo |-> {}, expired |-> FALSE, dirty |-> FALSE]
NoRemoval == [pc |-> "idle", row |-> NoDeployment, failed |-> FALSE]

DeploymentStatus == {"pending", "deploying", "deployed", "failed"}
DeploymentRow ==
    [name : ServiceNames, status : DeploymentStatus,
     containerID : DeploymentIds \cup {NoContainerID},
     containerName : ServiceNames \cup DeploymentIds,
     routeID : DeploymentIds \cup {""}]

ToolboxTypeOK ==
    /\ catalog \in {"compose", "single"}
    /\ deployments \in [DeploymentIds -> DeploymentRow \cup {NoDeployment}]
    /\ jobs \in [DeploymentIds ->
          [pc : {"idle", "mark", "network", "create", "clean", "record", "list",
                 "start", "finish", "deployFailed", "startFailed", "over"},
           todo : SUBSET (ComposeServices \cup ServiceNames),
           expired : BOOLEAN, dirty : BOOLEAN]]
    /\ removals \in [DeploymentIds ->
          [pc : {"idle", "resources", "row", "done", "cut"},
           row : DeploymentRow \cup {NoDeployment}, failed : BOOLEAN]]
    /\ containers \subseteq [by : DeploymentIds, part : ComposeServices \cup ServiceNames,
                             up : BOOLEAN]
    /\ networks \subseteq DeploymentIds
    /\ dockerFaults \in 0..MaxToolboxFaults

\* LoadCatalog: a directory holds Compose files, a file single containers.
ToolboxInit ==
    /\ catalog \in {"compose", "single"}
    /\ deployments = [d \in DeploymentIds |-> NoDeployment]
    /\ jobs = [d \in DeploymentIds |-> NoDeployJob]
    /\ removals = [d \in DeploymentIds |-> NoRemoval]
    /\ containers = {}
    /\ networks = {}
    /\ dockerFaults = 0

DockerFault == dockerFaults < MaxToolboxFaults /\ dockerFaults' = dockerFaults + 1
NoDockerFault == UNCHANGED dockerFaults

\* A Docker call under the job's context fails at once after the deadline.
CallFails(d) == IF jobs[d].expired THEN NoDockerFault ELSE DockerFault

ContainersOf(d) == {c \in containers : c.by = d}

DeployGoto(d, pc, todo) == jobs' = [jobs EXCEPT ![d].pc = pc, ![d].todo = todo]

\* The goroutine returns and cancels its context.
JobOver == [NoDeployJob EXCEPT !.pc = "over"]
JobEnds(d) == jobs' = [jobs EXCEPT ![d] = JobOver]

\* An UPDATE of a row that is gone affects no row; the error is only logged.
UpdateDeploymentStatus(d, status) ==
    deployments' = IF deployments[d] = NoDeployment THEN deployments
                   ELSE [deployments EXCEPT ![d].status = status]

\* The second and third parameter go to container_id and route_id.
UpdateDeploymentContainer(d, containerID, routeID) ==
    deployments' = IF deployments[d] = NoDeployment THEN deployments
                   ELSE [deployments EXCEPT ![d].containerID = containerID,
                                            ![d].routeID = routeID]

---------------------------------------------------------------------------
(* Requesting a deployment *)

\* The row is written before the goroutine starts; without autoStart none does.
DeployService(d, name, autoStart) ==
    /\ deployments[d] = NoDeployment
    /\ jobs[d].pc = "idle" /\ removals[d].pc = "idle"
    /\ deployments' = [deployments EXCEPT ![d] =
          [name |-> name, status |-> "pending", containerID |-> NoContainerID,
           containerName |-> name, routeID |-> ""]]
    /\ jobs' = [jobs EXCEPT ![d] = IF autoStart
                                   THEN [NoDeployJob EXCEPT !.pc = "mark", !.todo = {name}]
                                   ELSE JobOver]
    /\ UNCHANGED <<catalog, removals, containers, networks, dockerFaults>>

---------------------------------------------------------------------------
(* performDeployment *)

MarkDeploying(d) ==
    /\ jobs[d].pc = "mark"
    /\ UpdateDeploymentStatus(d, "deploying")
    /\ IF catalog = "compose" THEN DeployGoto(d, "network", ComposeServices)
                              ELSE DeployGoto(d, "create", jobs[d].todo)
    /\ UNCHANGED <<catalog, removals, containers, networks, dockerFaults>>

\* DeploymentTimeout runs out.
DeadlinePasses(d) ==
    /\ jobs[d].pc \notin {"idle", "over"} /\ ~jobs[d].expired
    /\ jobs' = [jobs EXCEPT ![d].expired = TRUE]
    /\ UNCHANGED <<catalog, deployments, removals, containers, networks, dockerFaults>>

\* A network that cannot be created ends the deployment without cleaning up.
NetworkCreate(d) ==
    /\ jobs[d].pc = "network"
    /\ \/ /\ ~jobs[d].expired /\ NoDockerFault
          /\ networks' = networks \cup {d}
          /\ DeployGoto(d, "create", jobs[d].todo)
       \/ /\ CallFails(d)
          /\ DeployGoto(d, "deployFailed", {})
          /\ UNCHANGED networks
    /\ UNCHANGED <<catalog, deployments, removals, containers>>

\* Mutant: a failed creation leaves the services created before it.
AfterCreateFailsDirty(d) == DeployGoto(d, "deployFailed", {})

\* What follows a failed pull or creation: a project is cleaned up.
AfterCreateFails(d) ==
    DeployGoto(d, IF catalog = "compose" THEN "clean" ELSE "deployFailed", {})

\* Docker refuses a second container of the same name; the container names of
\* a project carry the project's.
NameTaken(part) == catalog = "single" /\ \E c \in containers : c.part = part

\* One service is pulled and created, in the order of a Go map.
CreatePart(d) ==
    /\ jobs[d].pc = "create"
    /\ \E part \in jobs[d].todo :
          \/ /\ ~jobs[d].expired /\ ~NameTaken(part) /\ NoDockerFault
             /\ containers' = containers \cup {[by |-> d, part |-> part, up |-> FALSE]}
             /\ IF jobs[d].todo = {part} THEN DeployGoto(d, "record", {part})
                                         ELSE DeployGoto(d, "create", jobs[d].todo \ {part})
          \/ /\ IF NameTaken(part) THEN NoDockerFault ELSE CallFails(d)
             /\ AfterCreateFails(d)
             /\ UNCHANGED containers
    /\ UNCHANGED <<catalog, deployments, removals, networks>>

\* RemoveComposeProject under the context of the deployment: it does nothing
\* once the deadline has passed, and stops at the first container that stays.
CleanUpProject(d) ==
    /\ jobs[d].pc = "clean"
    /\ \/ /\ ~jobs[d].expired /\ NoDockerFault
          /\ containers' = containers \ ContainersOf(d)
          /\ networks' = networks \ {d}
          /\ DeployGoto(d, "deployFailed", {})
       \/ /\ CallFails(d)
          /\ \E kept \in SUBSET ContainersOf(d) :
                /\ jobs[d].expired => kept = ContainersOf(d)
                /\ containers' = (containers \ ContainersOf(d)) \cup kept
          /\ jobs' = [jobs EXCEPT ![d].pc = "deployFailed", ![d].dirty = TRUE]
          /\ UNCHANGED networks
    /\ UNCHANGED <<catalog, deployments, removals>>

\* updateDeploymentIdentifier: the project name is handed over as the route.
RecordIdentifier(d) ==
    /\ jobs[d].pc = "record"
    /\ IF catalog = "compose"
       THEN UpdateDeploymentContainer(d, NoContainerID, d) /\ DeployGoto(d, "list", {})
       ELSE UpdateDeploymentContainer(d, d, "") /\ DeployGoto(d, "start", jobs[d].todo)
    /\ UNCHANGED <<catalog, removals, containers, networks, dockerFaults>>

\* StartComposeProject lists the project's containers, then starts each one.
ListProject(d) ==
    /\ jobs[d].pc = "list"
    /\ \/ /\ ~jobs[d].expired /\ NoDockerFault
          /\ LET listed == {c.part : c \in ContainersOf(d)}
             IN  DeployGoto(d, IF listed = {} THEN "finish" ELSE "start", listed)
       \/ CallFails(d) /\ DeployGoto(d, "startFailed", {})
    /\ UNCHANGED <<catalog, deployments, removals, containers, networks>>

\* Starting a container that was removed in the meantime is an error.
StartPart(d) ==
    /\ jobs[d].pc = "start"
    /\ \E part \in jobs[d].todo :
          LET created == {c \in ContainersOf(d) : c.part = part}
          IN  \/ /\ ~jobs[d].expired /\ created # {} /\ NoDockerFault
                 /\ containers' = (containers \ created)
                                  \cup {[c EXCEPT !.up = TRUE] : c \in created}
                 /\ IF jobs[d].todo = {part} THEN DeployGoto(d, "finish", {})
                                             ELSE DeployGoto(d, "start", jobs[d].todo \ {part})
              \/ /\ IF created = {} THEN NoDockerFault ELSE CallFails(d)
                 /\ DeployGoto(d, "startFailed", {})
                 /\ UNCHANGED containers
    /\ UNCHANGED <<catalog, deployments, removals, networks>>

\* handleDeploymentError: whatever was created before stays in Docker.
HandleDeploymentError(d) ==
    /\ jobs[d].pc \in {"deployFailed", "startFailed"}
    /\ UpdateDeploymentStatus(d, "failed")
    /\ JobEnds(d)
    /\ UNCHANGED <<catalog, removals, containers, networks, dockerFaults>>

MarkDeploymentSuccess(d) ==
    /\ jobs[d].pc = "finish"
    /\ UpdateDeploymentStatus(d, "deployed")
    /\ JobEnds(d)
    /\ UNCHANGED <<catalog, removals, containers, networks, dockerFaults>>

---------------------------------------------------------------------------
(* RemoveDeployment *)

RemovalBegins(d) ==
    /\ removals[d].pc \in {"idle", "cut"} /\ deployments[d] # NoDeployment
    /\ removals' = [removals EXCEPT ![d] =
          [pc |-> "resources", row |-> deployments[d], failed |-> FALSE]]
    /\ UNCHANGED <<catalog, deployments, jobs, containers, networks, dockerFaults>>

\* The name of a project is a deployment ID.
IsComposeProject(containerName) == containerName \in DeploymentIds

\* Mutant: the container is removed by its name.
RemovedByName(row) ==
    IF IsComposeProject(row.containerName) THEN ContainersOf(row.containerName)
    ELSE {c \in containers : c.part = row.containerName}

\* The containers and networks the handler asks Docker to remove, from the row
\* it read before.
RemovedContainers(row) ==
    IF IsComposeProject(row.containerName) THEN ContainersOf(row.containerName)
    ELSE {c \in containers : row.containerID # NoContainerID /\ c.by = row.containerID}
RemovedNetworks(row) ==
    IF IsComposeProject(row.containerName) THEN {row.containerName} ELSE {}

\* A Docker error is logged and the removal goes on.
RemoveResources(d) ==
    /\ removals[d].pc = "resources"
    /\ \/ /\ NoDockerFault
          /\ containers' = containers \ RemovedContainers(removals[d].row)
          /\ networks' = networks \ RemovedNetworks(removals[d].row)
          /\ removals' = [removals EXCEPT ![d].pc = "row"]
       \/ /\ DockerFault
          /\ removals' = [removals EXCEPT ![d].pc = "row", ![d].failed = TRUE]
          /\ UNCHANGED <<containers, networks>>
    /\ UNCHANGED <<catalog, deployments, jobs>>

DeleteDeployment(d) ==
    /\ removals[d].pc = "row"
    /\ deployments' = [deployments EXCEPT ![d] = NoDeployment]
    /\ removals' = [removals EXCEPT ![d].pc = "done"]
    /\ UNCHANGED <<catalog, jobs, containers, networks, dockerFaults>>

\* The process ends and starts again: goroutines and requests are gone, rows
\* and containers stay.  Nothing resumes a deployment.
ToolboxRestart ==
    /\ \E d \in DeploymentIds : \/ jobs[d].pc \notin {"idle", "over"}
                                \/ removals[d].pc \in {"resources", "row"}
    /\ jobs' = [d \in DeploymentIds |->
                  IF jobs[d].pc = "idle" THEN NoDeployJob ELSE JobOver]
    /\ removals' = [d \in DeploymentIds |->
                      IF removals[d].pc \in {"resources", "row"}
                      THEN [NoRemoval EXCEPT !.pc = "cut"] ELSE removals[d]]
    /\ UNCHANGED <<catalog, deployments, containers, networks, dockerFaults>>

ToolboxNext ==
    \/ \E d \in DeploymentIds :
          \/ \E name \in ServiceNames, auto \in BOOLEAN : DeployService(d, name, auto)
          \/ MarkDeploying(d) \/ DeadlinePasses(d) \/ NetworkCreate(d) \/ CreatePart(d)
          \/ CleanUpProject(d) \/ RecordIdentifier(d) \/ ListProject(d) \/ StartPart(d)
          \/ HandleDeploymentError(d) \/ MarkDeploymentSuccess(d)
          \/ RemovalBegins(d) \/ RemoveResources(d) \/ DeleteDeployment(d)
    \/ ToolboxRestart

ToolboxSpec == ToolboxInit /\ [][ToolboxNext]_toolboxVars

---------------------------------------------------------------------------
(* Properties *)

\* A deployment shown as deployed has all its containers running until its own
\* removal begins: neither the removal of another deployment of the same
\* service name nor one that failed takes them away.
DeployedRuns ==
    \A d \in DeploymentIds :
        /\ deployments[d] # NoDeployment
        /\ deployments[d].status = "deployed"
        /\ removals[d].pc = "idle"
        => LET parts == IF catalog = "compose" THEN ComposeServices ELSE {deployments[d].name}
           IN  \A part \in parts : [by |-> d, part |-> part, up |-> TRUE] \in containers

\* DeployComposeProject cleans up what it made before it reports an error: a
\* deployment that failed while its containers were being created leaves none
\* behind, unless Docker refused the cleanup, the deadline passed before it or
\* the process ended.
FailedCreationLeavesNothing ==
    \A d \in DeploymentIds :
        /\ jobs[d].pc = "deployFailed" /\ ~jobs[d].dirty
        => ContainersOf(d) = {}

\* A deployment is there as a whole or not at all: what is shown as deployed runs,
\* and what failed to be created is cleaned up.
DeploymentsAreWhole == DeployedRuns /\ FailedCreationLeavesNothing

---------------------------------------------------------------------------
(* What a comment claims and the code does not do *)

\* RemoveDeployment: "Remove Docker container/project if it exists".  Once the
\* removal of a finished deployment is answered, with no Docker error, nothing
\* of the deployment is left in Docker.
RemovedIsGone ==
    \A d \in DeploymentIds :
        /\ removals[d].pc = "done"
        /\ removals[d].row.status = "deployed"
        /\ ~removals[d].failed
        => ContainersOf(d) = {}

\* Where it does hold: the row of a single container has the container's ID before
\* it says "deployed", and the removal acts on the row it read.
RemovedContainerIsGone == catalog = "single" => RemovedIsGone
=============================================================================
