---------------------------- MODULE ServiceHealth ----------------------------
(***************************************************************************)
(* Health of the services behind the proxy                                 *)
(* (internal/health/service_checker.go): probes that run concurrently and  *)
(* count consecutive failures, the container handler that marks an app     *)
(* unhealthy, the alerts a change of status gives rise to, each sent by a  *)
(* goroutine of its own, the rows that goroutines save behind the lock,    *)
(* and a configuration reload that replaces the checker while probes of    *)
(* the old one are under way.                                              *)
(*                                                                         *)
(* A checker is a generation: the reload makes the next one, but the       *)
(* container handler keeps the first. Addresses, timeouts and expected     *)
(* status codes only decide the outcome of a probe, which is a choice.     *)
(***************************************************************************)
EXTENDS Naturals

CONSTANTS HealthApps,           \* apps of the route registry
          UnhealthyThreshold,   \* consecutive failures that make an app unhealthy
          MaxFailures,          \* bound on the failures counted
          MaxGenerations,       \* bound on reloads and restarts
          MaxProbes,            \* bound on probes of an app under way
          MaxSaves,             \* bound on saves under way
          MaxAlerts             \* bound on alerts and marks under way

ASSUME HealthAssumption == /\ UnhealthyThreshold \in Nat \ {0}
                           /\ MaxFailures \in Nat
                           /\ MaxGenerations \in Nat \ {0}
                           /\ MaxProbes \in Nat \ {0}
                           /\ MaxSaves \in Nat \ {0}
                           /\ MaxAlerts \in Nat \ {0}

VARIABLES checker,        \* generation app.jobs.ServiceHealth points to
          marker,         \* generation the container handler points to
          checkLoop,      \* generation -> "none", "running", "cancelled", "stopped"
          healthStatus,   \* generation -> app -> status and failures
          probing,        \* generation -> app -> probes under way
          alerting,       \* alerts under way, and marks past their unlock
          told,           \* generation -> app -> status of the last alert sent
          alertsCrossed,  \* generation -> app -> its newest alert arose beside another
          saving,         \* saves under way
          healthRow       \* app -> row of service_health

alertVars == <<alerting, told, alertsCrossed>>
healthVars == <<checker, marker, checkLoop, healthStatus, probing, alertVars, saving,
                healthRow>>

Generations == 1..MaxGenerations
HealthStates == {"healthy", "unhealthy", "unknown"}
NoHealth == [status |-> "none", fails |-> 0]
NoSave == [app |-> "none", gen |-> 0, mark |-> FALSE, read |-> FALSE, val |-> NoHealth]
\* A mark past its unlock is "due": it will start the alert, if there is a
\* status to announce.
NoAlert == [app |-> "none", gen |-> 0, status |-> "none", due |-> FALSE]

\* A checker as NewServiceHealthChecker makes it, with the rows Start loads.
LoadHealthStatuses == [a \in HealthApps |-> healthRow[a]]

HealthInit ==
  /\ checker = 1 /\ marker = 1
  /\ checkLoop = [g \in Generations |-> IF g = 1 THEN "running" ELSE "none"]
  /\ healthStatus = [g \in Generations |-> [a \in HealthApps |-> NoHealth]]
  /\ probing = [g \in Generations |-> [a \in HealthApps |-> 0]]
  /\ alerting = [k \in 1..MaxAlerts |-> NoAlert]
  /\ told = [g \in Generations |-> [a \in HealthApps |-> "none"]]
  /\ alertsCrossed = [g \in Generations |-> [a \in HealthApps |-> FALSE]]
  /\ saving = [k \in 1..MaxSaves |-> NoSave]
  /\ healthRow = [a \in HealthApps |-> NoHealth]

(***************************************************************************)
(* The entry of an app: get or create, update, alert, save.                *)
(***************************************************************************)
Previous(g, a) == IF healthStatus[g][a] = NoHealth THEN "unknown"
                  ELSE healthStatus[g][a].status

\* The status and the counter after a probe with this outcome.
AfterProbe(g, a, outcome) ==
  LET fails == healthStatus[g][a].fails IN
  CASE outcome = "healthy" -> [status |-> "healthy", fails |-> 0]
    [] outcome = "unhealthy" ->
         [status |-> IF fails + 1 >= UnhealthyThreshold THEN "unhealthy" ELSE "healthy",
          fails |-> fails + 1]
    [] OTHER -> [status |-> "unknown", fails |-> fails]

\* A change is announced unless the previous status was unknown.
Announces(g, a, status) == Previous(g, a) \notin {status, "unknown"}

\* Alerts of an app that arose and were not sent yet.
AlertsUnderWay(g, a) ==
  {k \in 1..MaxAlerts : /\ alerting[k].gen = g /\ alerting[k].app = a
                        /\ alerting[k].status # "none"}

\* A new alert or mark; two alerts under way at once may be sent in either
\* order, which alertsCrossed remembers until one arises alone (history only).
NewAlert(g, a, status, due) ==
  \E k \in 1..MaxAlerts :
    /\ alerting[k] = NoAlert /\ \A l \in 1..(k - 1) : alerting[l] # NoAlert
    /\ alerting' = [alerting EXCEPT
         ![k] = [app |-> a, gen |-> g, status |-> status, due |-> due]]
    /\ alertsCrossed' = [alertsCrossed EXCEPT
         ![g][a] = IF status = "none" THEN @ ELSE AlertsUnderWay(g, a) # {}]

\* Mutant: recoveries are not announced.
AlertOutagesOnly(g, a, status) ==
  IF Announces(g, a, status) /\ status = "unhealthy" THEN NewAlert(g, a, status, FALSE)
  ELSE UNCHANGED <<alerting, alertsCrossed>>

\* The goroutine that will tell the devices. (The copies for the notification
\* queue are put there by one more, started at the same place.)
Alert(g, a, status) ==
  IF Announces(g, a, status) THEN NewAlert(g, a, status, FALSE)
  ELSE UNCHANGED <<alerting, alertsCrossed>>

\* A goroutine that will save the entry. A mark saves "unhealthy" whatever the
\* entry says by then. Beyond the bound a save is one that failed.
FreeSlots == {k \in 1..MaxSaves : saving[k] = NoSave}
SpawnSave(g, a, mark) ==
  IF FreeSlots = {} THEN saving' = saving
  ELSE LET k == CHOOSE k \in FreeSlots : \A l \in FreeSlots : k <= l
       IN  saving' = [saving EXCEPT ![k] = [NoSave EXCEPT !.app = a, !.gen = g,
                                                          !.mark = mark]]

UpdateHealthStatus(g, a, outcome) ==
  /\ healthStatus' = [healthStatus EXCEPT ![g][a] = AfterProbe(g, a, outcome)]
  /\ healthStatus'[g][a].fails <= MaxFailures
  /\ Alert(g, a, AfterProbe(g, a, outcome).status)
  /\ SpawnSave(g, a, FALSE)
  /\ told' = told

(***************************************************************************)
(* The probes.                                                             *)
(***************************************************************************)
\* One goroutine per app, at the start of the loop and at every tick; a tick
\* can still win against the cancelled context.
CheckAllServices(g) ==
  /\ checkLoop[g] \in {"running", "cancelled"}
  /\ \A a \in HealthApps : probing[g][a] < MaxProbes
  /\ probing' = [probing EXCEPT ![g] = [a \in HealthApps |-> probing[g][a] + 1]]
  /\ UNCHANGED <<checker, marker, checkLoop, healthStatus, alertVars, saving, healthRow>>

\* Healthy: an expected status code, or a route that skips the check. Unknown:
\* no route at this moment, or an address that cannot be parsed. Anything else
\* is a failure, a cancelled context too.
ProbeReturns(g, a, outcome) ==
  /\ probing[g][a] > 0
  /\ probing' = [probing EXCEPT ![g][a] = @ - 1]
  /\ UpdateHealthStatus(g, a, outcome)
  /\ UNCHANGED <<checker, marker, checkLoop, healthRow>>

(***************************************************************************)
(* The container handler after a container was stopped.                    *)
(***************************************************************************)
\* What it does under the lock.
MarkAppUnhealthy(a) ==
  LET g == marker IN
  /\ healthStatus[g][a].fails < MaxFailures
  /\ healthStatus' = [healthStatus EXCEPT ![g][a] =
                        [status |-> "unhealthy", fails |-> @.fails + 1]]
  /\ NewAlert(g, a, IF Announces(g, a, "unhealthy") THEN "unhealthy" ELSE "none", TRUE)
  /\ UNCHANGED <<checker, marker, checkLoop, probing, told, saving, healthRow>>

\* What it does after the unlock: the alert, if the status changed, and the save.
MarkAnnounces(k) ==
  LET m == alerting[k] IN
  /\ m.due
  /\ alerting' = [alerting EXCEPT ![k] = IF m.status = "none" THEN NoAlert
                                         ELSE [m EXCEPT !.due = FALSE]]
  /\ SpawnSave(m.gen, m.app, TRUE)
  /\ UNCHANGED <<checker, marker, checkLoop, healthStatus, probing, told, alertsCrossed,
                 healthRow>>

\* A goroutine tells the devices: in any order.
PublishHealthChange(k) ==
  LET m == alerting[k] IN
  /\ m # NoAlert /\ ~m.due
  /\ told' = [told EXCEPT ![m.gen][m.app] = m.status]
  /\ alerting' = [alerting EXCEPT ![k] = NoAlert]
  /\ UNCHANGED <<checker, marker, checkLoop, healthStatus, probing, alertsCrossed,
                 saving, healthRow>>

(***************************************************************************)
(* Saving: the goroutine reads the entry without the lock, then writes.    *)
(***************************************************************************)
SaveReads(k) ==
  LET s == saving[k] IN
  /\ s # NoSave /\ ~s.read
  /\ saving' = [saving EXCEPT
       ![k].read = TRUE,
       ![k].val = IF s.mark THEN [healthStatus[s.gen][s.app] EXCEPT !.status = "unhealthy"]
                  ELSE healthStatus[s.gen][s.app]]
  /\ UNCHANGED <<checker, marker, checkLoop, healthStatus, probing, alertVars,
                 healthRow>>

\* INSERT ... ON CONFLICT DO UPDATE; a refused statement is only logged.
SaveServiceHealth(k, ok) ==
  /\ saving[k].read
  /\ healthRow' = IF ok THEN [healthRow EXCEPT ![saving[k].app] = saving[k].val]
                  ELSE healthRow
  /\ saving' = [saving EXCEPT ![k] = NoSave]
  /\ UNCHANGED <<checker, marker, checkLoop, healthStatus, probing, alertVars>>

(***************************************************************************)
(* Reload and restart.                                                     *)
(***************************************************************************)
StopChecker ==
  /\ checkLoop[checker] = "running"
  /\ checkLoop' = [checkLoop EXCEPT ![checker] = "cancelled"]
  /\ UNCHANGED <<checker, marker, healthStatus, probing, alertVars, saving,
                 healthRow>>

\* Stop waits for the loop alone; the reload then makes the next checker, and
\* its loop runs. A shutdown ends here.
NewChecker ==
  /\ checkLoop[checker] = "cancelled"
  /\ checker < MaxGenerations
  /\ checker' = checker + 1
  /\ checkLoop' = [checkLoop EXCEPT ![checker] = "stopped", ![checker + 1] = "running"]
  /\ healthStatus' = [healthStatus EXCEPT ![checker + 1] = LoadHealthStatuses]
  /\ UNCHANGED <<marker, probing, alertVars, saving, healthRow>>

\* The process starts again: the rows are all that is left, and the handler
\* gets the checker of the new process.
HealthRestart ==
  /\ checker < MaxGenerations
  /\ checker' = checker + 1 /\ marker' = checker + 1
  /\ checkLoop' = [g \in Generations |-> CASE g = checker + 1 -> "running"
                                           [] g <= checker -> "stopped"
                                           [] OTHER -> "none"]
  /\ healthStatus' = [g \in Generations |->
                        IF g = checker + 1 THEN LoadHealthStatuses
                        ELSE [a \in HealthApps |-> NoHealth]]
  /\ alerting' = [k \in 1..MaxAlerts |-> NoAlert]
  /\ told' = [g \in Generations |-> [a \in HealthApps |-> "none"]]
  /\ alertsCrossed' = [g \in Generations |-> [a \in HealthApps |-> FALSE]]
  /\ probing' = [g \in Generations |-> [a \in HealthApps |-> 0]]
  /\ saving' = [k \in 1..MaxSaves |-> NoSave]
  /\ UNCHANGED healthRow

HealthNext ==
  \/ \E g \in Generations :
       \/ CheckAllServices(g)
       \/ \E a \in HealthApps, outcome \in HealthStates : ProbeReturns(g, a, outcome)
  \/ \E a \in HealthApps : MarkAppUnhealthy(a)
  \/ \E k \in 1..MaxSaves :
       SaveReads(k) \/ \E ok \in BOOLEAN : SaveServiceHealth(k, ok)
  \/ \E k \in 1..MaxAlerts : MarkAnnounces(k) \/ PublishHealthChange(k)
  \/ StopChecker \/ NewChecker \/ HealthRestart

HealthSpec == HealthInit /\ [][HealthNext]_healthVars

(***************************************************************************)
(* Properties.                                                             *)
(***************************************************************************)
HealthEntry == [status : HealthStates \cup {"none"}, fails : 0..MaxFailures]
HealthTypeOK ==
  /\ checker \in Generations /\ marker \in 1..checker
  /\ checkLoop \in [Generations -> {"none", "running", "cancelled", "stopped"}]
  /\ healthStatus \in [Generations -> [HealthApps -> HealthEntry]]
  /\ probing \in [Generations -> [HealthApps -> 0..MaxProbes]]
  /\ alerting \in [1..MaxAlerts -> [app : HealthApps \cup {"none"}, gen : 0..MaxGenerations,
                                  status : HealthStates \cup {"none"}, due : BOOLEAN]]
  /\ told \in [Generations -> [HealthApps -> HealthStates \cup {"none"}]]
  /\ alertsCrossed \in [Generations -> [HealthApps -> BOOLEAN]]
  /\ healthRow \in [HealthApps -> HealthEntry]

\* No change of status is lost on the devices, whatever probes and marks race,
\* a mark being stopped between its unlock and its alert: once the alerts that
\* arose are sent, the last outage or recovery announced is the status of the
\* app, and while one is under way it is that one which tells it. The exception
\* is two alerts of the app under way at once: they are goroutines nobody
\* orders, the older may be sent last, and what the devices show then stays
\* wrong until the next change. An app announced as unknown (its route was
\* gone) can have changed silently since.
AlertsFollowStatus ==
  \A g \in Generations, a \in HealthApps : ~alertsCrossed[g][a] =>
    IF AlertsUnderWay(g, a) = {}
    THEN told[g][a] \in {"healthy", "unhealthy"} => healthStatus[g][a].status = told[g][a]
    ELSE \A k \in AlertsUnderWay(g, a) :
           alerting[k].status \in {"healthy", "unhealthy"} =>
             healthStatus[g][a].status = alerting[k].status
=============================================================================
