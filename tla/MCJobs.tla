------------------------------- MODULE MCJobs -------------------------------
(***************************************************************************)
(* The background jobs of one instance, for TLC: scripts and their         *)
(* schedule, the two health checks, the backups and discovery.  They share *)
(* no state, so a behaviour runs one of them, chosen at the start, and the *)
(* others stay in one of their initial states: the states add up where an  *)
(* interleaving of all would multiply them and show nothing else.          *)
(***************************************************************************)
EXTENDS Scripts, Cron, ServiceHealth, SystemHealth, Backup, Discovery, DiscoveryWorkers

VARIABLE focus  \* the job that runs

\* Two months of three and two days.
MCDaysBefore == <<0, 3, 5>>

JobsInit ==
  /\ focus \in {"scripts", "cron", "services", "system", "backup", "discovery", "workers",
               "alerts", "overrun"}
  /\ IF focus = "scripts" THEN TRUE ELSE scriptRows = {}
  /\ IF focus \in {"discovery", "overrun"} THEN TRUE
     ELSE world = [p \in ProposalIds |-> [cid |-> 0, addr |-> 1]]
  /\ IF focus = "cron" THEN TRUE
     ELSE cronText = [f \in 1..5 |-> <<StarPart>>] /\ cronAfter = 0
  /\ IF focus = "workers" THEN TRUE
     ELSE seen = [kind |-> "ingress", enable |-> "none", nsEnable |-> "none", systemNs |-> FALSE,
                  named |-> FALSE, backend |-> FALSE, backendEnable |-> "none"]
  /\ ScriptsInit /\ HealthInit /\ SystemHealthInit /\ BackupInit
  /\ DiscoveryInit /\ CronInit /\ WorkersInit

\* The health checks run twice, to keep their product small: with reloads,
\* restarts and saves, where alerts are sent before anything else happens; and
\* with alerts in every order on one checker, where no save succeeds.
AlertsGoFirst ==
  (\E k \in 1..MaxAlerts : alerting[k] # NoAlert) =>
    \E k \in 1..MaxAlerts : MarkAnnounces(k) \/ PublishHealthChange(k)
OneChecker ==
  /\ UNCHANGED <<checker, healthRow>>
  /\ (\E k \in 1..MaxSaves : saving[k] # NoSave) =>
       \E k \in 1..MaxSaves : SaveReads(k) \/ SaveServiceHealth(k, FALSE)

\* So does discovery: with reloads that wait for the old manager; and with reloads
\* that do not, without rediscoveries and scans that fail.
ReloadsWait == leftover' = NoLeftover
ScansGoOn == UNCHANGED <<scanner, rediscovering>>

JobsNext ==
  /\ UNCHANGED focus
  /\ \/ /\ focus = "scripts" /\ ScriptsNext
        /\ UNCHANGED <<cronVars, healthVars, systemVars, backupVars, discoveryVars, workerVars>>
     \/ /\ focus = "cron" /\ CronNext
        /\ UNCHANGED <<scriptsVars, healthVars, systemVars, backupVars, discoveryVars, workerVars>>
     \/ /\ focus \in {"services", "alerts"} /\ HealthNext
        /\ focus = "services" => AlertsGoFirst
        /\ focus = "alerts" => OneChecker
        /\ UNCHANGED <<scriptsVars, cronVars, systemVars, backupVars, discoveryVars, workerVars>>
     \/ /\ focus = "system" /\ SystemHealthNext
        /\ UNCHANGED <<scriptsVars, cronVars, healthVars, backupVars, discoveryVars, workerVars>>
     \/ /\ focus = "backup" /\ BackupNext
        /\ UNCHANGED <<scriptsVars, cronVars, healthVars, systemVars, discoveryVars, workerVars>>
     \/ /\ focus \in {"discovery", "overrun"} /\ DiscoveryNext
        /\ IF focus = "discovery" THEN ReloadsWait ELSE ScansGoOn
        /\ UNCHANGED <<scriptsVars, cronVars, healthVars, systemVars, backupVars, workerVars>>
     \/ /\ focus = "workers" /\ WorkersNext
        /\ UNCHANGED <<scriptsVars, cronVars, healthVars, systemVars, backupVars, discoveryVars>>

jobsVars == <<focus, scriptsVars, cronVars, healthVars, systemVars, backupVars,
              discoveryVars, workerVars>>

JobsSpec == JobsInit /\ [][JobsNext]_jobsVars

\* The type invariant of the job that runs; the others have not moved.
JobsTypeOK ==
  CASE focus = "scripts" -> ScriptsTypeOK
    [] focus = "cron" -> CronTypeOK
    [] focus \in {"services", "alerts"} -> HealthTypeOK
    [] focus = "system" -> SystemHealthTypeOK
    [] focus = "backup" -> BackupTypeOK
    [] focus \in {"discovery", "overrun"} -> DiscoveryTypeOK
    [] focus = "workers" -> WorkersTypeOK
=============================================================================
