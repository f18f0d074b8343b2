----------------------------- MODULE JobsProofs -----------------------------
(* Proofs about the jobs that run in the background: the checks of the apps   *)
(* behind the routes, the checks of the system itself, discovery and what its *)
(* scans propose, backups, and when a schedule runs next, for any number of   *)
(* apps, probes, components, containers, backups and rows and any calendar;   *)
(* and about their composition.                                               *)
EXTENDS MCJobs, ScriptsProofs,
        SequenceTheorems, FiniteSetTheorems, WellFoundedInduction, TLAPS

-----------------------------------------------------------------------------
(* The health checker of the services. *)

SaveSlot == [app : HealthApps \cup {"none"}, gen : 0..MaxGenerations, mark : BOOLEAN,
             read : BOOLEAN, val : HealthEntry]
AlertSlot == [app : HealthApps \cup {"none"}, gen : 0..MaxGenerations,
              status : HealthStates \cup {"none"}, due : BOOLEAN]

(* A save under way is about an app and a checker there is. *)
SavesAreMeant ==
    /\ saving \in [1..MaxSaves -> SaveSlot]
    /\ \A k \in 1..MaxSaves :
          saving[k] # NoSave => saving[k].app \in HealthApps /\ saving[k].gen \in Generations

(* So is an alert, and only a mark past its unlock may have nothing to tell. *)
AlertsAreMeant ==
    /\ alerting \in [1..MaxAlerts -> AlertSlot]
    /\ alertsCrossed \in [Generations -> [HealthApps -> BOOLEAN]]
    /\ \A k \in 1..MaxAlerts : alerting[k] # NoAlert =>
          /\ alerting[k].app \in HealthApps
          /\ alerting[k].gen \in Generations /\ alerting[k].gen <= checker
          /\ alerting[k].status = "none" => alerting[k].due

(* Where none crossed, one alert of the app is under way at most. *)
AlertsAreSingle ==
    \A g \in Generations, a \in HealthApps : ~alertsCrossed[g][a] =>
        \A k, l \in AlertsUnderWay(g, a) : k = l

(* A checker that is not made yet runs nothing and has announced nothing. *)
NextCheckersAreIdle ==
    \A g \in Generations : g > checker =>
        /\ checkLoop[g] = "none"
        /\ \A a \in HealthApps : probing[g][a] = 0 /\ told[g][a] = "none"

HealthIInv ==
    /\ HealthTypeOK /\ SavesAreMeant /\ AlertsAreMeant
    /\ AlertsAreSingle /\ NextCheckersAreIdle /\ AlertsFollowStatus

(* At the start every app is unknown and nobody probes. *)
LEMMA HealthInitIsSafe == HealthInit => HealthIInv
<1> SUFFICES ASSUME HealthInit PROVE HealthIInv
  OBVIOUS
<1>1. NoHealth \in HealthEntry /\ NoSave \in SaveSlot /\ NoAlert \in AlertSlot
  BY HealthAssumption DEF NoHealth, NoSave, NoAlert, HealthEntry, SaveSlot, AlertSlot
<1>2. HealthTypeOK
  BY <1>1, HealthAssumption DEF HealthInit, HealthTypeOK, AlertSlot, Generations
<1>3. SavesAreMeant /\ AlertsAreMeant
  BY <1>1 DEF HealthInit, SavesAreMeant, AlertsAreMeant
<1>4. ASSUME NEW g \in Generations, NEW a \in HealthApps PROVE AlertsUnderWay(g, a) = {}
  BY <1>1 DEF HealthInit, AlertsUnderWay, NoAlert
<1>5. NextCheckersAreIdle /\ AlertsFollowStatus /\ AlertsAreSingle
  BY <1>4, HealthAssumption
  DEF HealthInit, NextCheckersAreIdle, AlertsFollowStatus, AlertsAreSingle, Generations
<1> QED BY <1>2, <1>3, <1>5 DEF HealthIInv

(* A save that is spawned takes a free slot, or there is none left. *)
LEMMA SpawnIsMeant ==
    ASSUME SavesAreMeant, NEW g \in Generations, NEW a \in HealthApps, NEW mark \in BOOLEAN,
           SpawnSave(g, a, mark)
    PROVE  SavesAreMeant'
<1>1. CASE FreeSlots = {}
  BY <1>1 DEF SpawnSave, SavesAreMeant
<1>2. CASE FreeSlots # {}
  <2> DEFINE k == CHOOSE i \in FreeSlots : \A j \in FreeSlots : i <= j
             save == [NoSave EXCEPT !.app = a, !.gen = g, !.mark = mark]
  <2>1. NoSave \in SaveSlot /\ g \in 0..MaxGenerations
    BY HealthAssumption DEF NoSave, SaveSlot, NoHealth, HealthEntry, Generations
  <2>2. save \in SaveSlot
    BY <2>1 DEF SaveSlot
  <2>3. save.app = a /\ save.gen = g
    BY <2>1 DEF SaveSlot
  <2>4. saving' = [saving EXCEPT ![k] = save]
    BY <1>2 DEF SpawnSave
  <2> HIDE DEF k, save
  <2> QED BY <2>2, <2>3, <2>4 DEF SavesAreMeant
<1> QED BY <1>1, <1>2

(* A new alert takes a free slot; the alerts of other apps are as before. *)
LEMMA NewAlertIsMeant ==
    ASSUME AlertsAreMeant, NEW g \in Generations, g <= checker, NEW a \in HealthApps,
           NEW status \in HealthStates \cup {"none"}, NEW due \in BOOLEAN,
           status = "none" => due, NewAlert(g, a, status, due), checker' = checker
    PROVE  /\ AlertsAreMeant'
           /\ \A h \in Generations, b \in HealthApps : h # g \/ b # a =>
                /\ AlertsUnderWay(h, b)' = AlertsUnderWay(h, b)
                /\ alertsCrossed'[h][b] = alertsCrossed[h][b]
           /\ status = "none" => \A h \in Generations, b \in HealthApps :
                /\ AlertsUnderWay(h, b)' = AlertsUnderWay(h, b)
                /\ alertsCrossed'[h][b] = alertsCrossed[h][b]
           /\ \A h \in Generations, b \in HealthApps : \A l \in AlertsUnderWay(h, b) :
                alerting'[l] = alerting[l]
           /\ status # "none" =>
                /\ alertsCrossed'[g][a] = (AlertsUnderWay(g, a) # {})
                /\ \E k \in 1..MaxAlerts :
                     /\ AlertsUnderWay(g, a)' = AlertsUnderWay(g, a) \cup {k}
                     /\ alerting'[k].status = status
<1> DEFINE slot == [app |-> a, gen |-> g, status |-> status, due |-> due]
           mixed == [alertsCrossed EXCEPT
                       ![g][a] = IF status = "none" THEN @ ELSE AlertsUnderWay(g, a) # {}]
<1>1. PICK k \in 1..MaxAlerts :
           /\ alerting[k] = NoAlert
           /\ alerting' = [alerting EXCEPT ![k] = slot] /\ alertsCrossed' = mixed
  BY DEF NewAlert
<1>2. slot \in AlertSlot /\ slot.app = a /\ slot.gen = g /\ slot.status = status
      /\ slot.due = due
  BY HealthAssumption DEF AlertSlot, Generations
<1>3. NoAlert.status = "none"
  BY DEF NoAlert
<1>4. (AlertsUnderWay(g, a) # {}) \in BOOLEAN
  OBVIOUS
<1>5. /\ mixed \in [Generations -> [HealthApps -> BOOLEAN]]
      /\ \A h \in Generations, b \in HealthApps :
            h # g \/ b # a \/ status = "none" => mixed[h][b] = alertsCrossed[h][b]
      /\ status # "none" => mixed[g][a] = (AlertsUnderWay(g, a) # {})
  BY <1>4 DEF AlertsAreMeant
<1> HIDE DEF slot, mixed
<1>6. /\ alerting' \in [1..MaxAlerts -> AlertSlot] /\ alerting'[k] = slot
      /\ \A l \in 1..MaxAlerts : l # k => alerting'[l] = alerting[l]
  BY <1>1, <1>2 DEF AlertsAreMeant
<1>7. AlertsAreMeant'
  BY <1>1, <1>2, <1>5, <1>6 DEF AlertsAreMeant
<1>8. \A h \in Generations, b \in HealthApps :
        h # g \/ b # a \/ status = "none" => AlertsUnderWay(h, b)' = AlertsUnderWay(h, b)
  BY <1>1, <1>2, <1>3, <1>6 DEF AlertsUnderWay
<1>9. \A h \in Generations, b \in HealthApps : \A l \in AlertsUnderWay(h, b) :
        alerting'[l] = alerting[l]
  BY <1>1, <1>3, <1>6 DEF AlertsUnderWay
<1>10. status # "none" => AlertsUnderWay(g, a)' = AlertsUnderWay(g, a) \cup {k}
  BY <1>1, <1>2, <1>3, <1>6 DEF AlertsUnderWay
<1> QED BY <1>1, <1>2, <1>5, <1>6, <1>7, <1>8, <1>9, <1>10

(* A change of an entry under the lock: it is announced, by an alert or a     *)
(* mark, exactly if the previous status was another one and known.            *)
LEMMA EntryChangeIsSafe ==
    ASSUME HealthIInv, NEW g \in Generations, g <= checker, NEW a \in HealthApps,
           NEW entry \in HealthEntry, entry.status \in HealthStates,
           healthStatus' = [healthStatus EXCEPT ![g][a] = entry],
           \/ /\ ~Announces(g, a, entry.status)
              /\ UNCHANGED <<alerting, alertsCrossed>> \/ NewAlert(g, a, "none", TRUE)
           \/ /\ Announces(g, a, entry.status)
              /\ \E due \in BOOLEAN : NewAlert(g, a, entry.status, due),
           SavesAreMeant', probing' \in [Generations -> [HealthApps -> 0..MaxProbes]],
           \A h \in Generations, b \in HealthApps :
              h > checker => probing'[h][b] = probing[h][b],
           UNCHANGED <<checker, marker, checkLoop, told, healthRow>>
    PROVE  HealthIInv'
<1>1. /\ healthStatus' \in [Generations -> [HealthApps -> HealthEntry]]
      /\ healthStatus'[g][a] = entry
      /\ \A h \in Generations, b \in HealthApps :
            h # g \/ b # a => healthStatus'[h][b] = healthStatus[h][b]
  BY DEF HealthIInv, HealthTypeOK
<1>2. NextCheckersAreIdle'
  BY DEF HealthIInv, NextCheckersAreIdle
<1>3. ASSUME AlertsAreMeant' PROVE HealthTypeOK'
  BY <1>1, <1>3 DEF HealthIInv, HealthTypeOK, AlertsAreMeant, AlertSlot
<1>4. entry.status # "none"
  BY DEF HealthStates
<1>5. Previous(g, a) # "unknown" =>
        healthStatus[g][a].status = Previous(g, a)
  BY DEF Previous
<1>6. NoHealth.status = "none"
  BY DEF NoHealth
<1>7. CASE /\ ~Announces(g, a, entry.status)
           /\ UNCHANGED <<alerting, alertsCrossed>> \/ NewAlert(g, a, "none", TRUE)
  <2>1. /\ AlertsAreMeant'
        /\ \A h \in Generations, b \in HealthApps :
             /\ AlertsUnderWay(h, b)' = AlertsUnderWay(h, b)
             /\ alertsCrossed'[h][b] = alertsCrossed[h][b]
             /\ \A l \in AlertsUnderWay(h, b) : alerting'[l] = alerting[l]
    <3>1. CASE UNCHANGED <<alerting, alertsCrossed>>
      BY <3>1 DEF HealthIInv, AlertsAreMeant, AlertsUnderWay
    <3>2. CASE NewAlert(g, a, "none", TRUE)
      <4>1. AlertsAreMeant /\ checker' = checker /\ g <= checker
        BY DEF HealthIInv
      <4>2. PICK none \in HealthStates \cup {"none"}, due \in BOOLEAN :
                 none = "none" /\ due /\ NewAlert(g, a, none, due)
        BY <3>2
      <4>3. AlertsAreMeant'
        BY <4>1, <4>2, NewAlertIsMeant
      <4>4. \A h \in Generations, b \in HealthApps :
              /\ AlertsUnderWay(h, b)' = AlertsUnderWay(h, b)
              /\ alertsCrossed'[h][b] = alertsCrossed[h][b]
        BY <4>1, <4>2, NewAlertIsMeant
      <4>5. \A h \in Generations, b \in HealthApps : \A l \in AlertsUnderWay(h, b) :
              alerting'[l] = alerting[l]
        BY <4>1, <4>2, NewAlertIsMeant
      <4> QED BY <4>3, <4>4, <4>5
    <3> QED BY <1>7, <3>1, <3>2
  <2>2. AlertsAreSingle'
    BY <2>1 DEF HealthIInv, AlertsAreSingle
  <2>3. healthStatus[g][a].status \in {"healthy", "unhealthy"} =>
           entry.status = healthStatus[g][a].status
    BY <1>5, <1>6, <1>7 DEF Announces, Previous
  <2>4. \A h \in Generations, b \in HealthApps :
          healthStatus[h][b].status \in {"healthy", "unhealthy"} =>
            healthStatus'[h][b].status = healthStatus[h][b].status
    BY <1>1, <2>3
  <2>5. AlertsFollowStatus'
    <3> SUFFICES ASSUME NEW h \in Generations, NEW b \in HealthApps, ~alertsCrossed'[h][b]
                 PROVE  IF AlertsUnderWay(h, b)' = {}
                        THEN told'[h][b] \in {"healthy", "unhealthy"} =>
                               healthStatus'[h][b].status = told'[h][b]
                        ELSE \A k \in AlertsUnderWay(h, b)' :
                               alerting'[k].status \in {"healthy", "unhealthy"} =>
                                 healthStatus'[h][b].status = alerting'[k].status
      BY DEF AlertsFollowStatus
    <3>1. ~alertsCrossed[h][b]
      BY <2>1
    <3>2. CASE AlertsUnderWay(h, b) = {}
      BY <2>1, <2>4, <3>1, <3>2 DEF HealthIInv, AlertsFollowStatus
    <3>3. CASE AlertsUnderWay(h, b) # {}
      BY <2>1, <2>4, <3>1, <3>3 DEF HealthIInv, AlertsFollowStatus
    <3> QED BY <3>2, <3>3
  <2> QED BY <1>2, <1>3, <2>1, <2>2, <2>5 DEF HealthIInv
<1>8. ASSUME NEW due \in BOOLEAN, NewAlert(g, a, entry.status, due)
      PROVE  HealthIInv'
  <2>1. /\ AlertsAreMeant'
        /\ \A h \in Generations, b \in HealthApps : h # g \/ b # a =>
             /\ AlertsUnderWay(h, b)' = AlertsUnderWay(h, b)
             /\ alertsCrossed'[h][b] = alertsCrossed[h][b]
        /\ \A h \in Generations, b \in HealthApps : \A l \in AlertsUnderWay(h, b) :
             alerting'[l] = alerting[l]
        /\ alertsCrossed'[g][a] = (AlertsUnderWay(g, a) # {})
        /\ \E k \in 1..MaxAlerts :
             /\ AlertsUnderWay(g, a)' = AlertsUnderWay(g, a) \cup {k}
             /\ alerting'[k].status = entry.status
    BY <1>4, <1>8, NewAlertIsMeant DEF HealthIInv
  <2>2. PICK k \in 1..MaxAlerts :
             /\ AlertsUnderWay(g, a)' = AlertsUnderWay(g, a) \cup {k}
             /\ alerting'[k].status = entry.status
    BY <2>1
  <2>3. ~alertsCrossed'[g][a] => AlertsUnderWay(g, a)' = {k}
    BY <2>1, <2>2
  <2>4. AlertsAreSingle'
    BY <2>1, <2>3 DEF HealthIInv, AlertsAreSingle
  <2>5. AlertsFollowStatus'
    <3> SUFFICES ASSUME NEW h \in Generations, NEW b \in HealthApps, ~alertsCrossed'[h][b]
                 PROVE  IF AlertsUnderWay(h, b)' = {}
                        THEN told'[h][b] \in {"healthy", "unhealthy"} =>
                               healthStatus'[h][b].status = told'[h][b]
                        ELSE \A l \in AlertsUnderWay(h, b)' :
                               alerting'[l].status \in {"healthy", "unhealthy"} =>
                                 healthStatus'[h][b].status = alerting'[l].status
      BY DEF AlertsFollowStatus
    <3>1. CASE h = g /\ b = a
      BY <1>1, <2>2, <2>3, <3>1
    <3>2. CASE h # g \/ b # a
      <4>1. /\ ~alertsCrossed[h][b] /\ healthStatus'[h][b] = healthStatus[h][b]
            /\ AlertsUnderWay(h, b)' = AlertsUnderWay(h, b)
        BY <1>1, <2>1, <3>2
      <4>2. CASE AlertsUnderWay(h, b) = {}
        BY <4>1, <4>2 DEF HealthIInv, AlertsFollowStatus
      <4>3. CASE AlertsUnderWay(h, b) # {}
        BY <2>1, <4>1, <4>3 DEF HealthIInv, AlertsFollowStatus
      <4> QED BY <4>2, <4>3
    <3> QED BY <3>1, <3>2
  <2> QED BY <1>2, <1>3, <2>1, <2>4, <2>5 DEF HealthIInv
<1> QED BY <1>7, <1>8

(* Probes are sent, and each changes the entry of its app. *)
LEMMA ProbesAreSafe ==
    ASSUME HealthIInv, NEW g \in Generations,
           \/ CheckAllServices(g)
           \/ \E a \in HealthApps, outcome \in HealthStates : ProbeReturns(g, a, outcome)
    PROVE  HealthIInv'
<1>1. /\ probing \in [Generations -> [HealthApps -> 0..MaxProbes]]
      /\ healthStatus \in [Generations -> [HealthApps -> HealthEntry]]
      /\ checker \in Generations /\ marker \in 1..checker
  BY DEF HealthIInv, HealthTypeOK
<1>2. CASE CheckAllServices(g)
  <2> DEFINE counts == [a \in HealthApps |-> probing[g][a] + 1]
  <2>1. g <= checker
    BY <1>2, <1>1, HealthAssumption
    DEF CheckAllServices, HealthIInv, NextCheckersAreIdle, Generations
  <2>2. counts \in [HealthApps -> 0..MaxProbes]
    <3>1. \A a \in HealthApps : probing[g][a] \in 0..MaxProbes /\ probing[g][a] < MaxProbes
      BY <1>1, <1>2 DEF CheckAllServices
    <3> QED BY <3>1, HealthAssumption
  <2>3. probing' = [probing EXCEPT ![g] = counts]
    BY <1>2 DEF CheckAllServices
  <2> HIDE DEF counts
  <2>4. /\ probing' \in [Generations -> [HealthApps -> 0..MaxProbes]]
        /\ \A h \in Generations : h > checker => probing'[h] = probing[h]
    <3>1. \A h \in Generations : h > checker => h # g
      BY <1>1, <2>1, HealthAssumption DEF Generations
    <3> QED BY <1>1, <2>2, <2>3, <3>1
  <2>5. UNCHANGED <<checker, marker, checkLoop, healthStatus, alertVars, saving, healthRow>>
    BY <1>2 DEF CheckAllServices
  <2>6. HealthTypeOK' /\ SavesAreMeant' /\ AlertsAreMeant' /\ NextCheckersAreIdle'
    BY <2>4, <2>5
    DEF alertVars, HealthIInv, HealthTypeOK, SavesAreMeant, AlertsAreMeant,
        NextCheckersAreIdle
  <2>7. AlertsAreSingle' /\ AlertsFollowStatus'
    BY <2>5
    DEF alertVars, HealthIInv, AlertsAreSingle, AlertsFollowStatus, AlertsUnderWay
  <2> QED BY <2>6, <2>7 DEF HealthIInv
<1>3. ASSUME NEW a \in HealthApps, NEW outcome \in HealthStates,
             ProbeReturns(g, a, outcome)
      PROVE  HealthIInv'
  <2> DEFINE entry == AfterProbe(g, a, outcome)
  <2>1. /\ healthStatus' = [healthStatus EXCEPT ![g][a] = entry]
        /\ healthStatus'[g][a].fails <= MaxFailures
        /\ Alert(g, a, entry.status) /\ SpawnSave(g, a, FALSE) /\ told' = told
        /\ probing[g][a] > 0 /\ probing' = [probing EXCEPT ![g][a] = @ - 1]
        /\ UNCHANGED <<checker, marker, checkLoop, healthRow>>
    BY <1>3 DEF ProbeReturns, UpdateHealthStatus
  <2>2. g <= checker
    BY <1>1, <2>1, HealthAssumption DEF HealthIInv, NextCheckersAreIdle, Generations
  <2>3. entry.fails <= MaxFailures
    BY <1>1, <2>1
  <2>4. entry \in HealthEntry /\ entry.status \in HealthStates
    <3>1. /\ healthStatus[g][a].fails \in Nat /\ healthStatus[g][a].fails <= MaxFailures
          /\ MaxFailures \in Nat
      BY <1>1, HealthAssumption DEF HealthEntry
    <3>2. CASE outcome = "healthy"
      BY <3>1, <3>2 DEF AfterProbe, HealthEntry, HealthStates
    <3>3. CASE outcome = "unhealthy"
      BY <3>1, <3>3, <2>3 DEF AfterProbe, HealthEntry, HealthStates
    <3>4. CASE outcome = "unknown"
      BY <3>1, <3>4 DEF AfterProbe, HealthEntry, HealthStates
    <3> QED BY <3>2, <3>3, <3>4 DEF HealthStates
  <2> HIDE DEF entry
  <2>5. /\ probing' \in [Generations -> [HealthApps -> 0..MaxProbes]]
        /\ \A h \in Generations, b \in HealthApps :
              h > checker => probing'[h][b] = probing[h][b]
    <3>1. \A h \in Generations : h > checker => h # g
      BY <1>1, <2>2, HealthAssumption DEF Generations
    <3>2. probing[g][a] - 1 \in 0..MaxProbes
      <4>1. probing[g][a] \in 0..MaxProbes
        BY <1>1
      <4> QED BY <2>1, <4>1, HealthAssumption
    <3> QED BY <1>1, <2>1, <3>1, <3>2
  <2>6. SavesAreMeant'
    BY <2>1, SpawnIsMeant DEF HealthIInv
  <2>7. \/ /\ ~Announces(g, a, entry.status)
           /\ UNCHANGED <<alerting, alertsCrossed>> \/ NewAlert(g, a, "none", TRUE)
        \/ /\ Announces(g, a, entry.status)
           /\ \E due \in BOOLEAN : NewAlert(g, a, entry.status, due)
    BY <2>1 DEF Alert
  <2> QED BY <2>1, <2>2, <2>4, <2>5, <2>6, <2>7, EntryChangeIsSafe
<1> QED BY <1>2, <1>3

(* The container handler marks an app in the checker it was given. *)
LEMMA MarkIsSafe ==
    ASSUME HealthIInv, NEW a \in HealthApps, MarkAppUnhealthy(a)
    PROVE  HealthIInv'
<1> DEFINE entry == [status |-> "unhealthy", fails |-> healthStatus[marker][a].fails + 1]
<1>1. /\ healthStatus \in [Generations -> [HealthApps -> HealthEntry]]
      /\ checker \in Generations /\ marker \in 1..checker
      /\ probing \in [Generations -> [HealthApps -> 0..MaxProbes]]
  BY DEF HealthIInv, HealthTypeOK
<1>2. marker \in Generations /\ marker <= checker
  BY <1>1, HealthAssumption DEF Generations
<1>3. entry \in HealthEntry /\ entry.status \in HealthStates /\ entry.status = "unhealthy"
  BY <1>1, <1>2, HealthAssumption DEF MarkAppUnhealthy, HealthEntry, HealthStates
<1>4. /\ healthStatus' = [healthStatus EXCEPT ![marker][a] = entry]
      /\ NewAlert(marker, a, IF Announces(marker, a, "unhealthy") THEN "unhealthy"
                             ELSE "none", TRUE)
      /\ UNCHANGED <<checker, marker, checkLoop, probing, told, saving, healthRow>>
  BY <1>1, <1>2 DEF MarkAppUnhealthy
<1>5. SavesAreMeant'
  BY <1>4 DEF HealthIInv, SavesAreMeant
<1>6. \/ /\ ~Announces(marker, a, entry.status)
         /\ UNCHANGED <<alerting, alertsCrossed>> \/ NewAlert(marker, a, "none", TRUE)
      \/ /\ Announces(marker, a, entry.status)
         /\ \E due \in BOOLEAN : NewAlert(marker, a, entry.status, due)
  <2>1. CASE Announces(marker, a, "unhealthy")
    BY <1>3, <1>4, <2>1
  <2>2. CASE ~Announces(marker, a, "unhealthy")
    BY <1>3, <1>4, <2>2
  <2> QED BY <2>1, <2>2
<1> HIDE DEF entry
<1> QED BY <1>1, <1>2, <1>3, <1>4, <1>5, <1>6, EntryChangeIsSafe

(* A mark goes on after its unlock, and an alert is sent. *)
LEMMA AlertsAreSafe ==
    ASSUME HealthIInv, NEW k \in 1..MaxAlerts, MarkAnnounces(k) \/ PublishHealthChange(k)
    PROVE  HealthIInv'
<1> DEFINE m == alerting[k]
<1>1. /\ alerting \in [1..MaxAlerts -> AlertSlot] /\ m \in AlertSlot
      /\ m # NoAlert => /\ m.app \in HealthApps /\ m.gen \in Generations /\ m.gen <= checker
                        /\ m.status = "none" => m.due
      /\ NoAlert \in AlertSlot /\ NoAlert.status = "none" /\ ~NoAlert.due
      /\ checker \in Generations
      /\ told \in [Generations -> [HealthApps -> HealthStates \cup {"none"}]]
  BY HealthAssumption
  DEF HealthIInv, AlertsAreMeant, NoAlert, AlertSlot, HealthTypeOK
<1>2. CASE MarkAnnounces(k)
  <2> DEFINE next == IF m.status = "none" THEN NoAlert ELSE [m EXCEPT !.due = FALSE]
  <2>1. /\ m.due /\ alerting' = [alerting EXCEPT ![k] = next]
        /\ SpawnSave(m.gen, m.app, TRUE)
        /\ UNCHANGED <<checker, marker, checkLoop, healthStatus, probing, told,
                       alertsCrossed, healthRow>>
    BY <1>2 DEF MarkAnnounces
  <2>2. /\ next \in AlertSlot /\ next.status = m.status
        /\ m.status # "none" => next.gen = m.gen /\ next.app = m.app
        /\ next # NoAlert => m.status # "none"
    BY <1>1 DEF AlertSlot
  <2> HIDE DEF next
  <2>3. m # NoAlert
    BY <1>1, <2>1
  <2>4. SavesAreMeant'
    BY <1>1, <2>1, <2>3, SpawnIsMeant DEF HealthIInv
  <2>5. /\ alerting' \in [1..MaxAlerts -> AlertSlot] /\ alerting'[k] = next
        /\ \A l \in 1..MaxAlerts : l # k => alerting'[l] = alerting[l]
    BY <1>1, <2>1, <2>2
  <2>6. AlertsAreMeant'
    BY <1>1, <2>1, <2>2, <2>3, <2>5 DEF HealthIInv, AlertsAreMeant
  <2>7. /\ \A h \in Generations, b \in HealthApps :
              AlertsUnderWay(h, b)' = AlertsUnderWay(h, b)
        /\ \A l \in 1..MaxAlerts : alerting'[l].status = alerting[l].status
    <3>1. \A l \in 1..MaxAlerts :
            /\ alerting'[l].status = alerting[l].status
            /\ alerting[l].status # "none" => /\ alerting'[l].gen = alerting[l].gen
                                              /\ alerting'[l].app = alerting[l].app
      BY <2>2, <2>5
    <3> QED BY <3>1 DEF AlertsUnderWay
  <2>8. AlertsAreSingle'
    BY <2>1, <2>7 DEF HealthIInv, AlertsAreSingle
  <2>9. AlertsFollowStatus'
    <3>1. \A h \in Generations, b \in HealthApps :
            AlertsUnderWay(h, b) \subseteq 1..MaxAlerts
      BY DEF AlertsUnderWay
    <3> QED BY <2>1, <2>7, <3>1 DEF HealthIInv, AlertsFollowStatus
  <2>10. HealthTypeOK'
    BY <2>1, <2>6 DEF HealthIInv, HealthTypeOK, AlertsAreMeant, AlertSlot
  <2>11. NextCheckersAreIdle'
    BY <2>1 DEF HealthIInv, NextCheckersAreIdle
  <2> QED BY <2>4, <2>6, <2>8, <2>9, <2>10, <2>11 DEF HealthIInv
<1>3. CASE PublishHealthChange(k)
  <2>1. /\ m # NoAlert /\ ~m.due /\ alerting' = [alerting EXCEPT ![k] = NoAlert]
        /\ told' = [told EXCEPT ![m.gen][m.app] = m.status]
        /\ UNCHANGED <<checker, marker, checkLoop, healthStatus, probing, alertsCrossed,
                       saving, healthRow>>
    BY <1>3 DEF PublishHealthChange
  <2>2. /\ m.app \in HealthApps /\ m.gen \in Generations /\ m.gen <= checker
        /\ m.status \in HealthStates /\ m.status # "none"
    BY <1>1, <2>1 DEF AlertSlot
  <2>3. /\ alerting' \in [1..MaxAlerts -> AlertSlot] /\ alerting'[k] = NoAlert
        /\ \A l \in 1..MaxAlerts : l # k => alerting'[l] = alerting[l]
    BY <1>1, <2>1
  <2>4. /\ told' \in [Generations -> [HealthApps -> HealthStates \cup {"none"}]]
        /\ told'[m.gen][m.app] = m.status
        /\ \A h \in Generations, b \in HealthApps :
             h # m.gen \/ b # m.app => told'[h][b] = told[h][b]
    BY <1>1, <2>1, <2>2
  <2>5. AlertsAreMeant' /\ SavesAreMeant'
    BY <2>1, <2>3 DEF HealthIInv, AlertsAreMeant, SavesAreMeant
  <2>6. HealthTypeOK'
    BY <2>1, <2>4, <2>5 DEF HealthIInv, HealthTypeOK, AlertsAreMeant, AlertSlot
  <2>7. NextCheckersAreIdle'
    <3>1. \A h \in Generations : h > checker => h # m.gen
      BY <1>1, <2>2, HealthAssumption DEF Generations
    <3> QED BY <2>1, <2>4, <3>1 DEF HealthIInv, NextCheckersAreIdle
  <2>8. \A h \in Generations, b \in HealthApps :
          AlertsUnderWay(h, b)' = AlertsUnderWay(h, b) \ {k}
    BY <1>1, <2>3 DEF AlertsUnderWay
  <2>9. \A h \in Generations, b \in HealthApps :
          k \in AlertsUnderWay(h, b) => h = m.gen /\ b = m.app
    BY DEF AlertsUnderWay
  <2>10. k \in AlertsUnderWay(m.gen, m.app)
    BY <2>2 DEF AlertsUnderWay
  <2>11. \A h \in Generations, b \in HealthApps : \A l \in AlertsUnderWay(h, b) :
           l \in 1..MaxAlerts
    BY DEF AlertsUnderWay
  <2>12. AlertsAreSingle'
    BY <2>1, <2>8 DEF HealthIInv, AlertsAreSingle
  <2>13. AlertsFollowStatus'
    <3> SUFFICES ASSUME NEW h \in Generations, NEW b \in HealthApps, ~alertsCrossed'[h][b]
                 PROVE  IF AlertsUnderWay(h, b)' = {}
                        THEN told'[h][b] \in {"healthy", "unhealthy"} =>
                               healthStatus'[h][b].status = told'[h][b]
                        ELSE \A l \in AlertsUnderWay(h, b)' :
                               alerting'[l].status \in {"healthy", "unhealthy"} =>
                                 healthStatus'[h][b].status = alerting'[l].status
      BY DEF AlertsFollowStatus
    <3>1. ~alertsCrossed[h][b] /\ healthStatus' = healthStatus
      BY <2>1
    <3>2. CASE h = m.gen /\ b = m.app
      <4>1. AlertsUnderWay(h, b)' = {}
        BY <2>8, <2>10, <3>1, <3>2 DEF HealthIInv, AlertsAreSingle
      <4>2. alerting[k].status \in {"healthy", "unhealthy"} =>
              healthStatus[h][b].status = alerting[k].status
        BY <2>10, <3>1, <3>2 DEF HealthIInv, AlertsFollowStatus
      <4> QED BY <2>4, <3>1, <3>2, <4>1, <4>2
    <3>3. CASE h # m.gen \/ b # m.app
      <4>1. k \notin AlertsUnderWay(h, b)
        BY <2>9, <3>3
      <4>a. AlertsUnderWay(h, b)' = AlertsUnderWay(h, b)
        BY <2>8, <4>1
      <4>b. told'[h][b] = told[h][b]
        BY <2>4, <3>3
      <4>2. \A l \in AlertsUnderWay(h, b) : alerting'[l] = alerting[l]
        BY <2>3, <2>9, <2>11, <3>3
      <4>3. CASE AlertsUnderWay(h, b) = {}
        BY <3>1, <4>a, <4>b, <4>3 DEF HealthIInv, AlertsFollowStatus
      <4>4. CASE AlertsUnderWay(h, b) # {}
        BY <3>1, <4>a, <4>2, <4>4 DEF HealthIInv, AlertsFollowStatus
      <4> QED BY <4>3, <4>4
    <3> QED BY <3>2, <3>3
  <2> QED BY <2>5, <2>6, <2>7, <2>12, <2>13 DEF HealthIInv
<1> QED BY <1>2, <1>3

(* A goroutine reads the entry, and writes what it read. *)
LEMMA SavesAreSafe ==
    ASSUME HealthIInv, NEW k \in 1..MaxSaves,
           SaveReads(k) \/ \E ok \in BOOLEAN : SaveServiceHealth(k, ok)
    PROVE  HealthIInv'
<1>1. /\ saving \in [1..MaxSaves -> SaveSlot] /\ saving[k] \in SaveSlot
      /\ saving[k] # NoSave => saving[k].app \in HealthApps /\ saving[k].gen \in Generations
      /\ healthStatus \in [Generations -> [HealthApps -> HealthEntry]]
      /\ healthRow \in [HealthApps -> HealthEntry]
  BY DEF HealthIInv, HealthTypeOK, SavesAreMeant
<1>2. UNCHANGED <<checker, marker, checkLoop, healthStatus, probing, alertVars>>
  BY DEF SaveReads, SaveServiceHealth
<1>3. healthRow' \in [HealthApps -> HealthEntry]
  <2>1. CASE SaveReads(k)
    BY <2>1, <1>1 DEF SaveReads
  <2>2. ASSUME NEW ok \in BOOLEAN, SaveServiceHealth(k, ok)
        PROVE  healthRow' \in [HealthApps -> HealthEntry]
    <3>1. saving[k].val \in HealthEntry
      BY <1>1 DEF SaveSlot
    <3> QED BY <2>2, <3>1, <1>1 DEF SaveServiceHealth
  <2> QED BY <2>1, <2>2
<1>4. SavesAreMeant'
  <2>1. ASSUME NEW s \in SaveSlot, saving' = [saving EXCEPT ![k] = s],
               s # NoSave => s.app \in HealthApps /\ s.gen \in Generations
        PROVE  SavesAreMeant'
    BY <2>1, <1>1 DEF HealthIInv, SavesAreMeant
  <2>2. CASE SaveReads(k)
    <3> DEFINE v == IF saving[k].mark
                    THEN [healthStatus[saving[k].gen][saving[k].app] EXCEPT !.status = "unhealthy"]
                    ELSE healthStatus[saving[k].gen][saving[k].app]
               s == [saving[k] EXCEPT !.read = TRUE, !.val = v]
    <3>1. saving[k].app \in HealthApps /\ saving[k].gen \in Generations
      BY <2>2, <1>1 DEF SaveReads
    <3>2. v \in HealthEntry
      BY <3>1, <1>1 DEF HealthEntry, HealthStates
    <3>3. saving' = [saving EXCEPT ![k] = s]
      BY <2>2 DEF SaveReads
    <3> HIDE DEF v
    <3>4. s \in SaveSlot /\ s.app = saving[k].app /\ s.gen = saving[k].gen
      BY <3>2, <1>1 DEF SaveSlot
    <3> HIDE DEF s
    <3> QED BY <3>1, <3>3, <3>4, <2>1
  <2>3. ASSUME NEW ok \in BOOLEAN, SaveServiceHealth(k, ok)
        PROVE  SavesAreMeant'
    <3>1. NoSave \in SaveSlot
      BY HealthAssumption DEF NoSave, SaveSlot, NoHealth, HealthEntry
    <3>2. saving' = [saving EXCEPT ![k] = NoSave]
      BY <2>3 DEF SaveServiceHealth
    <3> QED BY <3>1, <3>2, <2>1
  <2> QED BY <2>2, <2>3
<1>5. HealthTypeOK' /\ NextCheckersAreIdle' /\ AlertsAreMeant'
  BY <1>2, <1>3 DEF alertVars, HealthIInv, HealthTypeOK, NextCheckersAreIdle, AlertsAreMeant
<1>6. AlertsAreSingle' /\ AlertsFollowStatus'
  BY <1>2 DEF alertVars, HealthIInv, AlertsAreSingle, AlertsFollowStatus, AlertsUnderWay
<1> QED BY <1>4, <1>5, <1>6 DEF HealthIInv

(* The next checker starts with the rows, and announces nothing at first. *)
LEMMA CheckersAreSafe ==
    ASSUME HealthIInv, StopChecker \/ NewChecker \/ HealthRestart
    PROVE  HealthIInv'
<1>1. /\ checker \in Generations /\ marker \in 1..checker
      /\ checkLoop \in [Generations -> {"none", "running", "cancelled", "stopped"}]
      /\ healthStatus \in [Generations -> [HealthApps -> HealthEntry]]
      /\ told \in [Generations -> [HealthApps -> HealthStates \cup {"none"}]]
      /\ healthRow \in [HealthApps -> HealthEntry]
      /\ healthRow' = healthRow
      /\ LoadHealthStatuses \in [HealthApps -> HealthEntry]
      /\ LoadHealthStatuses = [a \in HealthApps |-> healthRow[a]]
  BY DEF HealthIInv, HealthTypeOK, StopChecker, NewChecker, HealthRestart,
         LoadHealthStatuses
<1>2. CASE StopChecker
  <2>1. /\ checkLoop' = [checkLoop EXCEPT ![checker] = "cancelled"]
        /\ UNCHANGED <<checker, marker, healthStatus, probing, alertVars, saving>>
    BY <1>2 DEF StopChecker
  <2>2. NextCheckersAreIdle'
    BY <2>1, <1>1, HealthAssumption
    DEF alertVars, HealthIInv, NextCheckersAreIdle, Generations
  <2>3. HealthTypeOK' /\ SavesAreMeant' /\ AlertsAreMeant'
    BY <2>1, <1>1 DEF alertVars, HealthIInv, HealthTypeOK, SavesAreMeant, AlertsAreMeant
  <2>4. AlertsAreSingle' /\ AlertsFollowStatus'
    BY <2>1 DEF alertVars, HealthIInv, AlertsAreSingle, AlertsFollowStatus, AlertsUnderWay
  <2> QED BY <2>2, <2>3, <2>4 DEF HealthIInv
<1>3. CASE NewChecker
  <2>1. /\ checker < MaxGenerations /\ checker' = checker + 1
        /\ checkLoop' = [checkLoop EXCEPT ![checker] = "stopped", ![checker + 1] = "running"]
        /\ healthStatus' = [healthStatus EXCEPT ![checker + 1] = LoadHealthStatuses]
        /\ UNCHANGED <<marker, probing, alertVars, saving>>
    BY <1>3 DEF NewChecker
  <2>2. checker + 1 \in Generations /\ checker \in Nat /\ marker \in 1..checker + 1
    BY <2>1, <1>1, HealthAssumption DEF Generations
  <2>3. /\ checkLoop' \in [Generations -> {"none", "running", "cancelled", "stopped"}]
        /\ healthStatus' \in [Generations -> [HealthApps -> HealthEntry]]
        /\ \A g \in Generations : g # checker + 1 => healthStatus'[g] = healthStatus[g]
    BY <2>1, <2>2, <1>1
  <2>4. \A g \in Generations : g > checker + 1 => g > checker /\ checkLoop'[g] = checkLoop[g]
    BY <2>1, <2>2, <1>1, HealthAssumption DEF Generations
  <2>5. NextCheckersAreIdle'
    BY <2>1, <2>4 DEF alertVars, HealthIInv, NextCheckersAreIdle
  <2>6. SavesAreMeant' /\ AlertsAreMeant'
    <3>1. \A g \in Generations : g <= checker => g <= checker + 1
      BY <2>2, HealthAssumption DEF Generations
    <3> QED BY <2>1, <3>1 DEF alertVars, HealthIInv, SavesAreMeant, AlertsAreMeant
  <2>7. /\ AlertsAreSingle'
        /\ \A g \in Generations, a \in HealthApps : AlertsUnderWay(g, a)' = AlertsUnderWay(g, a)
    BY <2>1 DEF alertVars, HealthIInv, AlertsAreSingle, AlertsUnderWay
  <2>8. AlertsFollowStatus'
    <3> SUFFICES ASSUME NEW g \in Generations, NEW a \in HealthApps, ~alertsCrossed[g][a]
                 PROVE  IF AlertsUnderWay(g, a) = {}
                        THEN told[g][a] \in {"healthy", "unhealthy"} =>
                               healthStatus'[g][a].status = told[g][a]
                        ELSE \A l \in AlertsUnderWay(g, a) :
                               alerting[l].status \in {"healthy", "unhealthy"} =>
                                 healthStatus'[g][a].status = alerting[l].status
      BY <2>1, <2>7 DEF alertVars, AlertsFollowStatus
    <3>1. CASE g = checker + 1
      <4>1. g > checker
        BY <2>2, <3>1
      <4>2. told[g][a] = "none"
        BY <4>1 DEF HealthIInv, NextCheckersAreIdle
      <4>3. AlertsUnderWay(g, a) = {}
        <5> SUFFICES ASSUME NEW l \in AlertsUnderWay(g, a) PROVE FALSE
          OBVIOUS
        <5>1. l \in 1..MaxAlerts /\ alerting[l].gen = g /\ alerting[l].status # "none"
          BY DEF AlertsUnderWay
        <5>2. NoAlert.status = "none"
          BY DEF NoAlert
        <5>3. g <= checker
          BY <5>1, <5>2 DEF HealthIInv, AlertsAreMeant
        <5> QED BY <2>2, <3>1, <5>3
      <4> QED BY <4>2, <4>3
    <3>2. CASE g # checker + 1
      BY <2>3, <3>2 DEF HealthIInv, AlertsFollowStatus
    <3> QED BY <3>1, <3>2
  <2>9. HealthTypeOK'
    BY <2>1, <2>2, <2>3, <1>1 DEF alertVars, HealthIInv, HealthTypeOK
  <2> QED BY <2>5, <2>6, <2>7, <2>8, <2>9 DEF HealthIInv
<1>4. CASE HealthRestart
  <2>1. /\ checker < MaxGenerations /\ checker' = checker + 1 /\ marker' = checker + 1
        /\ checkLoop' = [g \in Generations |-> CASE g = checker + 1 -> "running"
                                           [] g <= checker -> "stopped"
                                           [] OTHER -> "none"]
        /\ healthStatus' = [g \in Generations |->
                               IF g = checker + 1 THEN LoadHealthStatuses
                               ELSE [a \in HealthApps |-> NoHealth]]
        /\ alerting' = [k \in 1..MaxAlerts |-> NoAlert]
        /\ told' = [g \in Generations |-> [a \in HealthApps |-> "none"]]
        /\ alertsCrossed' = [g \in Generations |-> [a \in HealthApps |-> FALSE]]
        /\ probing' = [g \in Generations |-> [a \in HealthApps |-> 0]]
        /\ saving' = [k \in 1..MaxSaves |-> NoSave]
    BY <1>4 DEF HealthRestart
  <2>2. checker + 1 \in Generations /\ checker + 1 \in 1..checker + 1 /\ checker \in Nat
    BY <2>1, <1>1, HealthAssumption DEF Generations
  <2>3. NoHealth \in HealthEntry /\ NoSave \in SaveSlot /\ NoAlert \in AlertSlot
    BY HealthAssumption
    DEF NoHealth, NoSave, NoAlert, HealthEntry, SaveSlot, AlertSlot
  <2>4. \A g \in Generations : g > checker + 1 => checkLoop'[g] = "none"
    BY <2>1, <2>2, HealthAssumption DEF Generations
  <2>5. NextCheckersAreIdle' /\ SavesAreMeant' /\ AlertsAreMeant'
    BY <2>1, <2>3, <2>4 DEF NextCheckersAreIdle, SavesAreMeant, AlertsAreMeant
  <2>6. \A g \in Generations, a \in HealthApps : AlertsUnderWay(g, a)' = {}
    BY <2>1 DEF AlertsUnderWay, NoAlert
  <2>7. AlertsAreSingle' /\ AlertsFollowStatus'
    BY <2>1, <2>6 DEF AlertsAreSingle, AlertsFollowStatus
  <2>8. HealthTypeOK'
    BY <2>1, <2>2, <2>3, <2>5, <1>1, HealthAssumption
    DEF HealthIInv, HealthTypeOK, AlertsAreMeant, AlertSlot
  <2> QED BY <2>5, <2>7, <2>8 DEF HealthIInv
<1> QED BY <1>2, <1>3, <1>4

(* Every probe, mark, alert, save, reload and restart keeps the invariant. *)
LEMMA HealthIInvInductive == HealthIInv /\ [HealthNext]_healthVars => HealthIInv'
<1> SUFFICES ASSUME HealthIInv, [HealthNext]_healthVars PROVE HealthIInv'
  OBVIOUS
<1>1. CASE UNCHANGED healthVars
  <2>1. HealthTypeOK' /\ SavesAreMeant' /\ AlertsAreMeant' /\ NextCheckersAreIdle'
    BY <1>1 DEF healthVars, alertVars, HealthIInv, HealthTypeOK, SavesAreMeant,
                AlertsAreMeant, NextCheckersAreIdle
  <2>2. AlertsAreSingle' /\ AlertsFollowStatus'
    BY <1>1 DEF healthVars, alertVars, HealthIInv, AlertsAreSingle, AlertsFollowStatus,
                AlertsUnderWay
  <2> QED BY <2>1, <2>2 DEF HealthIInv
<1> QED BY <1>1, ProbesAreSafe, MarkIsSafe, AlertsAreSafe, SavesAreSafe, CheckersAreSafe
DEF HealthNext

(* The types of the checker of services, for any number of apps, checkers,   *)
(* probes and saves under way.                                               *)
THEOREM HealthTypeCorrect == HealthSpec => []HealthTypeOK
<1>1. HealthIInv => HealthTypeOK
  BY DEF HealthIInv
<1> QED BY <1>1, HealthInitIsSafe, HealthIInvInductive, PTL DEF HealthSpec

(* No change of status is lost on the devices, whatever probes, marks, saves *)
(* and reloads interleave, as long as no two alerts of the app are under way *)
(* at once: AlertsFollowStatus in every state, for any number of apps,       *)
(* checkers and alerts.                                                      *)
THEOREM AlertsFollowStatusHolds == HealthSpec => []AlertsFollowStatus
<1>1. HealthIInv => AlertsFollowStatus
  BY DEF HealthIInv
<1> QED BY <1>1, HealthInitIsSafe, HealthIInvInductive, PTL DEF HealthSpec
-----------------------------------------------------------------------------
(* The health of the system. *)

Verdicts == {"healthy", "degraded", "unhealthy"}
CheckState == [pc : {"none", "submitted", "looked", "done"},
               status : Verdicts \cup {"none"}, age : 0..CheckTimeout]
Running(r, c) == checkCall[r][c].pc \in {"submitted", "looked"}
SaysHealthy(r, c, pc) == checkCall[r][c].pc = pc /\ checkCall[r][c].status = "healthy"

ChecksAreTyped ==
    /\ checkCall \in [HealthCalls -> [SystemComponents -> CheckState]]
    /\ \A r \in HealthCalls, c \in SystemComponents :
          checkCall[r][c].pc \in {"looked", "done"} => checkCall[r][c].status \in Verdicts
    /\ condition = [c \in SystemComponents |-> condition[c]]

(* The checks of a request begin together: those that still run are equally  *)
(* old, and no other one of the request is older.                            *)
ChecksBeginTogether ==
    \A r \in HealthCalls, c, d \in SystemComponents :
        /\ checkCall[r][c].pc = "none" => checkCall[r][d].pc = "none"
        /\ Running(r, c) => checkCall[r][d].age <= checkCall[r][c].age

(* What a checker saw of a component is as old as its check, ... *)
LookedIsRecent ==
    \A r \in HealthCalls, c \in SystemComponents :
        SaysHealthy(r, c, "looked") => illFor[c] <= checkCall[r][c].age

(* ... what the cache says of it a timeout older than the entry, ... *)
CacheIsRecent ==
    \A c \in SystemComponents :
        resultCache[c].status = "healthy" => illFor[c] <= resultCache[c].age + CheckTimeout

(* ... and a result that waits for the other checks of its request was at    *)
(* most that old when they began.                                            *)
DoneIsRecent ==
    \A r \in HealthCalls, c \in SystemComponents :
        SaysHealthy(r, c, "done") =>
            /\ illFor[c] <= Staleness
            /\ \A d \in SystemComponents :
                  Running(r, d) => illFor[c] <= CacheTTL + CheckTimeout + checkCall[r][d].age

FineIsNow == \A c \in SystemComponents : Fine(c) => illFor[c] = 0

SystemIInv ==
    /\ SystemHealthTypeOK /\ ChecksAreTyped /\ ChecksBeginTogether
    /\ LookedIsRecent /\ CacheIsRecent /\ DoneIsRecent /\ FineIsNow
    /\ HealthyIsRecent

(* A checker says one of three things, whatever it sees. *)
LEMMA CheckersSayAVerdict ==
    ASSUME NEW c \in SystemComponents, NEW what
    PROVE  CheckerOf(c, what) \in Verdicts
BY DEF CheckerOf, StorageCheck, DiscoveryCheck, CertificateCheck, Verdicts

(* At the start everything is fine and nothing is asked. *)
LEMMA SystemInitIsSafe == SystemHealthInit => SystemIInv
<1> SUFFICES ASSUME SystemHealthInit PROVE SystemIInv
  OBVIOUS
<1>1. /\ AgeLimit \in Nat /\ Staleness \in Nat /\ 0 \in 0..AgeLimit /\ 0 \in 0..CheckTimeout
  BY SystemHealthAssumption DEF AgeLimit, Staleness
<1>2. NoCheck \in CheckState /\ NoCheck.pc = "none" /\ NoCheck.status = "none"
  BY <1>1 DEF NoCheck, CheckState
<1>3. \A c \in SystemComponents : condition[c] \in Conditions(c)
  BY SystemHealthAssumption DEF SystemHealthInit, Conditions
<1>4. SystemHealthTypeOK
  BY <1>1, <1>3 DEF SystemHealthInit, SystemHealthTypeOK
<1>5. /\ checkCall = [r \in HealthCalls |-> [c \in SystemComponents |-> NoCheck]]
      /\ illFor = [c \in SystemComponents |-> 0]
      /\ resultCache = [c \in SystemComponents |-> [status |-> "none", age |-> 0]]
      /\ overall = [r \in HealthCalls |-> "none"]
  BY DEF SystemHealthInit
<1>6. ChecksAreTyped
  BY <1>2, <1>5 DEF ChecksAreTyped, SystemHealthInit
<1>7. ChecksBeginTogether /\ LookedIsRecent /\ DoneIsRecent
  BY <1>2, <1>5
  DEF ChecksBeginTogether, LookedIsRecent, DoneIsRecent, Running, SaysHealthy
<1>8. CacheIsRecent /\ FineIsNow /\ HealthyIsRecent
  BY <1>5 DEF CacheIsRecent, FineIsNow, HealthyIsRecent
<1> QED BY <1>4, <1>6, <1>7, <1>8 DEF SystemIInv

(* A check of a request moves on, and takes no time to do so. *)
LEMMA OneCheckMoves ==
    ASSUME SystemIInv, NEW r \in HealthCalls, NEW c \in SystemComponents,
           NEW pc \in {"looked", "done"}, NEW status \in Verdicts,
           Running(r, c), SetCheck(r, c, pc, status), UNCHANGED <<condition, illFor, overall>>,
           pc = "looked" /\ status = "healthy" => illFor[c] <= checkCall[r][c].age,
           pc = "done" /\ status = "healthy" => illFor[c] <= CacheTTL + CheckTimeout,
           SystemHealthTypeOK', CacheIsRecent'
    PROVE  SystemIInv'
<1> DEFINE check == [checkCall[r][c] EXCEPT !.pc = pc, !.status = status]
<1>1. /\ checkCall \in [HealthCalls -> [SystemComponents -> CheckState]]
      /\ illFor \in [SystemComponents -> 0..AgeLimit]
      /\ CacheTTL \in Nat /\ CheckTimeout \in Nat
  BY SystemHealthAssumption DEF SystemIInv, ChecksAreTyped, SystemHealthTypeOK
<1>2. /\ check \in CheckState /\ check.pc = pc /\ check.status = status
      /\ check.age = checkCall[r][c].age
  <2>1. checkCall[r][c] \in CheckState
    BY <1>1
  <2>2. pc \in {"none", "submitted", "looked", "done"} /\ status \in Verdicts \cup {"none"}
    OBVIOUS
  <2> QED BY <2>1, <2>2 DEF CheckState
<1>3. checkCall' = [checkCall EXCEPT ![r][c] = check]
  BY DEF SetCheck
<1> HIDE DEF check
<1>4. /\ checkCall' \in [HealthCalls -> [SystemComponents -> CheckState]]
      /\ checkCall'[r][c] = check
      /\ \A q \in HealthCalls, d \in SystemComponents :
            q # r \/ d # c => checkCall'[q][d] = checkCall[q][d]
      /\ \A q \in HealthCalls, d \in SystemComponents :
            checkCall'[q][d].age = checkCall[q][d].age
  BY <1>1, <1>2, <1>3
<1>5. ChecksAreTyped'
  <2>1. \A q \in HealthCalls, d \in SystemComponents :
           checkCall'[q][d].pc \in {"looked", "done"} => checkCall'[q][d].status \in Verdicts
    BY <1>2, <1>4 DEF SystemIInv, ChecksAreTyped
  <2> QED BY <2>1, <1>4 DEF SystemIInv, ChecksAreTyped
<1>6. \A q \in HealthCalls, d \in SystemComponents :
         /\ Running(q, d)' => Running(q, d)
         /\ checkCall'[q][d].pc = "none" <=> checkCall[q][d].pc = "none"
  BY <1>2, <1>4 DEF Running
<1>7. ChecksBeginTogether'
  BY <1>4, <1>6 DEF SystemIInv, ChecksBeginTogether
<1>8. LookedIsRecent'
  <2> SUFFICES ASSUME NEW q \in HealthCalls, NEW d \in SystemComponents,
                      SaysHealthy(q, d, "looked")'
               PROVE  illFor[d] <= checkCall'[q][d].age
    BY DEF LookedIsRecent
  <2>1. CASE q = r /\ d = c
    BY <2>1, <1>2, <1>4 DEF SaysHealthy
  <2>2. CASE q # r \/ d # c
    BY <2>2, <1>4 DEF SaysHealthy, SystemIInv, LookedIsRecent
  <2> QED BY <2>1, <2>2
<1>9. DoneIsRecent'
  <2> SUFFICES ASSUME NEW q \in HealthCalls, NEW d \in SystemComponents,
                      SaysHealthy(q, d, "done")'
               PROVE  /\ illFor[d] <= Staleness
                      /\ \A e \in SystemComponents :
                            Running(q, e)' =>
                              illFor[d] <= CacheTTL + CheckTimeout + checkCall'[q][e].age
    BY DEF DoneIsRecent
  <2>1. CASE q = r /\ d = c
    <3>1. illFor[d] \in Nat /\ illFor[d] <= CacheTTL + CheckTimeout
      BY <2>1, <1>1, <1>2, <1>4 DEF SaysHealthy
    <3>2. \A e \in SystemComponents : checkCall'[q][e].age \in Nat
      BY <1>1, <1>4 DEF CheckState
    <3> QED BY <3>1, <3>2, <1>1 DEF Staleness
  <2>2. CASE q # r \/ d # c
    <3>1. SaysHealthy(q, d, "done")
      BY <2>2, <1>4 DEF SaysHealthy
    <3> QED BY <3>1, <1>4, <1>6 DEF SystemIInv, DoneIsRecent
  <2> QED BY <2>1, <2>2
<1>10. FineIsNow' /\ HealthyIsRecent'
  BY DEF SystemIInv, FineIsNow, HealthyIsRecent, Fine
<1> QED BY <1>5, <1>7, <1>8, <1>9, <1>10 DEF SystemIInv

(* The three steps of a check. *)
LEMMA ChecksAreSafe ==
    ASSUME SystemIInv, NEW r \in HealthCalls, NEW c \in SystemComponents,
           CachedResult(r, c) \/ CheckerLooks(r, c) \/ CheckerReturns(r, c)
    PROVE  SystemIInv'
<1>1. /\ checkCall[r][c] \in CheckState /\ illFor[c] \in Nat /\ resultCache[c].age \in Nat
      /\ checkCall[r][c].age \in Nat /\ checkCall[r][c].age <= CheckTimeout
      /\ CacheTTL \in Nat /\ CheckTimeout \in Nat /\ AgeLimit \in Nat
      /\ resultCache \in [SystemComponents ->
            [status : {"none", "healthy", "degraded", "unhealthy"}, age : 0..AgeLimit]]
      /\ illFor \in [SystemComponents -> 0..AgeLimit]
  BY SystemHealthAssumption
  DEF SystemIInv, ChecksAreTyped, SystemHealthTypeOK, CheckState, AgeLimit, Staleness
<1>2. CASE CachedResult(r, c)
  <2>1. /\ SetCheck(r, c, "done", "healthy") /\ resultCache[c].status = "healthy"
        /\ resultCache[c].age < CacheTTL /\ Running(r, c)
        /\ UNCHANGED <<condition, illFor, resultCache, overall>>
    BY <1>2 DEF CachedResult, Servable, Running
  <2>2. illFor[c] <= CacheTTL + CheckTimeout
    BY <1>1, <2>1 DEF SystemIInv, CacheIsRecent
  <2>3. SystemHealthTypeOK' /\ CacheIsRecent'
    BY <2>1 DEF SystemIInv, SystemHealthTypeOK, CacheIsRecent
  <2> QED BY <2>1, <2>2, <2>3, OneCheckMoves DEF Verdicts
<1>3. CASE CheckerLooks(r, c)
  <2> DEFINE verdict == CheckerOf(c, condition[c])
  <2>1. /\ SetCheck(r, c, "looked", verdict) /\ Running(r, c)
        /\ UNCHANGED <<condition, illFor, resultCache, overall>>
    BY <1>3 DEF CheckerLooks, Running
  <2>2. verdict \in Verdicts
    BY CheckersSayAVerdict
  <2>3. verdict = "healthy" => illFor[c] <= checkCall[r][c].age
    BY <1>1 DEF SystemIInv, FineIsNow, Fine
  <2>4. SystemHealthTypeOK' /\ CacheIsRecent'
    BY <2>1 DEF SystemIInv, SystemHealthTypeOK, CacheIsRecent
  <2> HIDE DEF verdict
  <2> QED BY <2>1, <2>2, <2>3, <2>4, OneCheckMoves
<1>4. CASE CheckerReturns(r, c)
  <2> DEFINE status == checkCall[r][c].status
             entry == [status |-> status, age |-> 0]
  <2>1. /\ checkCall[r][c].pc = "looked" /\ SetCheck(r, c, "done", status)
        /\ resultCache' = [resultCache EXCEPT ![c] = entry]
        /\ UNCHANGED <<condition, illFor, overall>>
    BY <1>4 DEF CheckerReturns
  <2>2. status \in Verdicts /\ Running(r, c)
    BY <2>1 DEF SystemIInv, ChecksAreTyped, Running
  <2>3. status = "healthy" => illFor[c] <= CheckTimeout
    BY <1>1, <2>1 DEF SystemIInv, LookedIsRecent, SaysHealthy
  <2>4. entry \in [status : {"none", "healthy", "degraded", "unhealthy"}, age : 0..AgeLimit]
        /\ entry.status = status /\ entry.age = 0
    BY <2>2, <1>1 DEF Verdicts
  <2> HIDE DEF status, entry
  <2>5. SystemHealthTypeOK'
    BY <2>1, <2>4, <1>1 DEF SystemIInv, SystemHealthTypeOK
  <2>6. CacheIsRecent'
    <3> SUFFICES ASSUME NEW d \in SystemComponents, resultCache'[d].status = "healthy"
                 PROVE  illFor[d] <= resultCache'[d].age + CheckTimeout
      BY <2>1 DEF CacheIsRecent
    <3>1. CASE d = c
      BY <3>1, <2>1, <2>3, <2>4, <1>1
    <3>2. CASE d # c
      BY <3>2, <2>1, <1>1 DEF SystemIInv, CacheIsRecent
    <3> QED BY <3>1, <3>2
  <2>7. illFor[c] <= CheckTimeout => illFor[c] <= CacheTTL + CheckTimeout
    BY <1>1
  <2> QED BY <2>1, <2>2, <2>3, <2>5, <2>6, <2>7, OneCheckMoves
<1> QED BY <1>2, <1>3, <1>4

(* A request begins, gets its answer, and is over. *)
LEMMA RequestsAreSafe ==
    ASSUME SystemIInv, NEW r \in HealthCalls, CheckBegins(r) \/ CheckEnds(r) \/ Answered(r)
    PROVE  SystemIInv'
<1>1. /\ checkCall \in [HealthCalls -> [SystemComponents -> CheckState]]
      /\ overall \in [HealthCalls -> {"none", "healthy", "degraded", "unhealthy", "unknown"}]
      /\ CheckTimeout \in Nat
      /\ UNCHANGED <<condition, illFor, resultCache>>
  BY SystemHealthAssumption
  DEF SystemIInv, ChecksAreTyped, SystemHealthTypeOK, CheckBegins, CheckEnds, Answered
<1>2. ASSUME NEW pc \in {"none", "submitted"},
             checkCall' = [checkCall EXCEPT ![r] = [c \in SystemComponents |->
                             [pc |-> pc, status |-> "none", age |-> 0]]],
             overall' = overall \/ overall' = [overall EXCEPT ![r] = "none"]
      PROVE  SystemIInv'
  <2> DEFINE new == [pc |-> pc, status |-> "none", age |-> 0]
             news == [c \in SystemComponents |-> new]
  <2>1. new \in CheckState /\ new.pc = pc /\ new.age = 0
    BY <1>1 DEF CheckState
  <2>2. checkCall' = [checkCall EXCEPT ![r] = news]
    BY <1>2
  <2>3. news \in [SystemComponents -> CheckState] /\ \A c \in SystemComponents : news[c] = new
    BY <2>1
  <2> HIDE DEF new, news
  <2>4. /\ checkCall' \in [HealthCalls -> [SystemComponents -> CheckState]]
        /\ \A c \in SystemComponents : checkCall'[r][c] = new
        /\ \A q \in HealthCalls : q # r => checkCall'[q] = checkCall[q]
    BY <2>2, <2>3, <1>1
  <2>5. SystemHealthTypeOK' /\ HealthyIsRecent' /\ CacheIsRecent' /\ FineIsNow'
    BY <1>1, <1>2
    DEF SystemIInv, SystemHealthTypeOK, HealthyIsRecent, CacheIsRecent, FineIsNow, Fine
  <2>6. ChecksAreTyped'
    BY <1>1, <2>1, <2>4 DEF SystemIInv, ChecksAreTyped
  <2>7. ChecksBeginTogether'
    <3> SUFFICES ASSUME NEW q \in HealthCalls, NEW c \in SystemComponents,
                        NEW d \in SystemComponents
                 PROVE  /\ checkCall'[q][c].pc = "none" => checkCall'[q][d].pc = "none"
                        /\ Running(q, c)' => checkCall'[q][d].age <= checkCall'[q][c].age
      BY DEF ChecksBeginTogether
    <3>1. CASE q = r
      BY <3>1, <2>1, <2>4
    <3>2. CASE q # r
      BY <3>2, <2>4 DEF SystemIInv, ChecksBeginTogether, Running
    <3> QED BY <3>1, <3>2
  <2>8. LookedIsRecent'
    BY <1>1, <2>1, <2>4 DEF SystemIInv, LookedIsRecent, SaysHealthy
  <2>9. DoneIsRecent'
    <3> SUFFICES ASSUME NEW q \in HealthCalls, NEW c \in SystemComponents,
                        SaysHealthy(q, c, "done")'
                 PROVE  /\ illFor[c] <= Staleness
                        /\ \A d \in SystemComponents : Running(q, d)' =>
                              illFor[c] <= CacheTTL + CheckTimeout + checkCall'[q][d].age
      BY <1>1 DEF DoneIsRecent
    <3>1. q # r
      BY <2>1, <2>4 DEF SaysHealthy
    <3> QED BY <3>1, <2>4 DEF SystemIInv, DoneIsRecent, SaysHealthy, Running
  <2> QED BY <2>5, <2>6, <2>7, <2>8, <2>9 DEF SystemIInv
<1>3. CASE CheckBegins(r)
  BY <1>3, <1>2 DEF CheckBegins
<1>4. CASE Answered(r)
  BY <1>4, <1>2 DEF Answered, NoCheck
<1>5. CASE CheckEnds(r)
  <2> DEFINE results == {checkCall[r][c].status : c \in SystemComponents}
             answer == CalculateOverallStatus(results)
  <2>1. /\ \A c \in SystemComponents : checkCall[r][c].pc = "done"
        /\ overall' = [overall EXCEPT ![r] = answer] /\ checkCall' = checkCall
    BY <1>5 DEF CheckEnds
  <2>2. answer \in {"healthy", "degraded", "unhealthy", "unknown"}
    BY DEF CalculateOverallStatus
  <2>3. answer = "healthy" => "unhealthy" \notin results /\ "degraded" \notin results
    BY DEF CalculateOverallStatus
  <2>4. ASSUME answer = "healthy", NEW c \in SystemComponents
        PROVE  illFor[c] <= Staleness
    <3>1. checkCall[r][c].status \in Verdicts /\ checkCall[r][c].status \in results
      BY <2>1 DEF SystemIInv, ChecksAreTyped
    <3>2. SaysHealthy(r, c, "done")
      BY <3>1, <2>1, <2>3, <2>4 DEF SaysHealthy, Verdicts
    <3> QED BY <3>2 DEF SystemIInv, DoneIsRecent
  <2> HIDE DEF answer, results
  <2>5. SystemHealthTypeOK'
    BY <2>1, <2>2, <1>1 DEF SystemIInv, SystemHealthTypeOK
  <2>6. HealthyIsRecent'
    BY <2>1, <2>4, <1>1 DEF SystemIInv, HealthyIsRecent
  <2> QED BY <2>1, <2>5, <2>6, <1>1
       DEF SystemIInv, ChecksAreTyped, ChecksBeginTogether, LookedIsRecent, CacheIsRecent,
           DoneIsRecent, FineIsNow, Fine, Running, SaysHealthy
<1> QED BY <1>3, <1>4, <1>5

(* What a checker would see changes. *)
LEMMA ConditionsAreSafe ==
    ASSUME SystemIInv, NEW c \in SystemComponents, NEW what \in Conditions(c),
           ConditionChanges(c, what)
    PROVE  SystemIInv'
<1>1. /\ condition' = [condition EXCEPT ![c] = what]
      /\ illFor' = [illFor EXCEPT ![c] = IF CheckerOf(c, what) = "healthy" THEN 0 ELSE @]
      /\ UNCHANGED <<resultCache, checkCall, overall>>
  BY DEF ConditionChanges
<1>2. /\ illFor \in [SystemComponents -> 0..AgeLimit] /\ AgeLimit \in Nat /\ Staleness \in Nat
      /\ CacheTTL \in Nat /\ CheckTimeout \in Nat
  BY SystemHealthAssumption DEF SystemIInv, SystemHealthTypeOK, AgeLimit, Staleness
<1>3. /\ illFor' \in [SystemComponents -> 0..AgeLimit]
      /\ \A d \in SystemComponents : illFor'[d] = illFor[d] \/ illFor'[d] = 0
  BY <1>1, <1>2
<1>4. \A d \in SystemComponents : illFor'[d] <= illFor[d]
  BY <1>2, <1>3
<1>5. /\ condition' = [d \in SystemComponents |-> condition'[d]]
      /\ condition'[c] = what
      /\ \A d \in SystemComponents : d # c => condition'[d] = condition[d]
  BY <1>1 DEF SystemIInv, ChecksAreTyped
<1>6. SystemHealthTypeOK'
  BY <1>1, <1>3, <1>5 DEF SystemIInv, SystemHealthTypeOK, Conditions
<1>7. ChecksAreTyped' /\ ChecksBeginTogether'
  BY <1>1, <1>5 DEF SystemIInv, ChecksAreTyped, ChecksBeginTogether, Running
<1>8. /\ \A r \in HealthCalls, d \in SystemComponents : checkCall[r][d].age \in Nat
      /\ \A d \in SystemComponents : resultCache[d].age \in Nat
      /\ \A d \in SystemComponents : illFor[d] \in Nat /\ illFor'[d] \in Nat
  BY <1>2, <1>3 DEF SystemIInv, ChecksAreTyped, CheckState, SystemHealthTypeOK
<1>9. LookedIsRecent'
  <2> SUFFICES ASSUME NEW r \in HealthCalls, NEW d \in SystemComponents,
                      SaysHealthy(r, d, "looked")
               PROVE  illFor'[d] <= checkCall[r][d].age
    BY <1>1 DEF LookedIsRecent, SaysHealthy
  <2>1. illFor[d] <= checkCall[r][d].age
    BY DEF SystemIInv, LookedIsRecent
  <2> QED BY <2>1, <1>4, <1>8
<1>10. CacheIsRecent'
  <2> SUFFICES ASSUME NEW d \in SystemComponents, resultCache[d].status = "healthy"
               PROVE  illFor'[d] <= resultCache[d].age + CheckTimeout
    BY <1>1 DEF CacheIsRecent
  <2>1. illFor[d] <= resultCache[d].age + CheckTimeout
    BY DEF SystemIInv, CacheIsRecent
  <2> QED BY <2>1, <1>2, <1>4, <1>8
<1>11. DoneIsRecent'
  <2> SUFFICES ASSUME NEW r \in HealthCalls, NEW d \in SystemComponents,
                      SaysHealthy(r, d, "done")
               PROVE  /\ illFor'[d] <= Staleness
                      /\ \A e \in SystemComponents : Running(r, e) =>
                            illFor'[d] <= CacheTTL + CheckTimeout + checkCall[r][e].age
    BY <1>1 DEF DoneIsRecent, SaysHealthy, Running
  <2>1. /\ illFor[d] <= Staleness
        /\ \A e \in SystemComponents : Running(r, e) =>
              illFor[d] <= CacheTTL + CheckTimeout + checkCall[r][e].age
    BY DEF SystemIInv, DoneIsRecent
  <2> QED BY <2>1, <1>2, <1>4, <1>8
<1>12. HealthyIsRecent'
  <2> SUFFICES ASSUME NEW r \in HealthCalls, overall[r] = "healthy", NEW d \in SystemComponents
               PROVE  illFor'[d] <= Staleness
    BY <1>1 DEF HealthyIsRecent
  <2>1. illFor[d] <= Staleness
    BY DEF SystemIInv, HealthyIsRecent
  <2> QED BY <2>1, <1>2, <1>4, <1>8
<1>13. FineIsNow'
  <2> SUFFICES ASSUME NEW d \in SystemComponents, CheckerOf(d, condition'[d]) = "healthy"
               PROVE  illFor'[d] = 0
    BY DEF FineIsNow, Fine
  <2>1. CASE d = c
    BY <2>1, <1>1, <1>2, <1>5
  <2>2. CASE d # c
    <3>1. Fine(d)
      BY <2>2, <1>5 DEF Fine
    <3> QED BY <3>1, <1>3 DEF SystemIInv, FineIsNow
  <2> QED BY <2>1, <2>2
<1> QED BY <1>6, <1>7, <1>9, <1>10, <1>11, <1>12, <1>13 DEF SystemIInv

(* A second passes for the conditions, the cache and the checks that run.    *)
LEMMA SecondsAreSafe ==
    ASSUME SystemIInv, SecondPasses
    PROVE  SystemIInv'
<1>1. /\ \A r \in HealthCalls :
            /\ overall[r] = "none"
            /\ \E c \in SystemComponents : checkCall[r][c].pc # "done"
            /\ \A c \in SystemComponents : Running(r, c) => checkCall[r][c].age < CheckTimeout
      /\ UNCHANGED <<condition, overall>>
  BY DEF SecondPasses, Running
<1>2. /\ illFor \in [SystemComponents -> 0..AgeLimit] /\ AgeLimit \in Nat /\ Staleness \in Nat
      /\ CacheTTL \in Nat /\ CheckTimeout \in Nat
      /\ checkCall \in [HealthCalls -> [SystemComponents -> CheckState]]
      /\ resultCache \in [SystemComponents ->
            [status : {"none", "healthy", "degraded", "unhealthy"}, age : 0..AgeLimit]]
  BY SystemHealthAssumption
  DEF SystemIInv, ChecksAreTyped, SystemHealthTypeOK, AgeLimit, Staleness
<1>3. ASSUME NEW age \in 0..AgeLimit
      PROVE  /\ Older(age) \in 0..AgeLimit /\ age <= Older(age) /\ Older(age) <= age + 1
             /\ age < AgeLimit => Older(age) = age + 1
  BY <1>2 DEF Older
<1>4. /\ illFor' = [c \in SystemComponents |-> IF Fine(c) THEN 0 ELSE Older(illFor[c])]
      /\ illFor' \in [SystemComponents -> 0..AgeLimit]
      /\ \A c \in SystemComponents : illFor'[c] <= illFor[c] + 1 /\ illFor'[c] \in Nat
      /\ \A c \in SystemComponents : illFor[c] \in Nat
  BY <1>2, <1>3 DEF SecondPasses
<1>5. /\ resultCache' \in [SystemComponents ->
            [status : {"none", "healthy", "degraded", "unhealthy"}, age : 0..AgeLimit]]
      /\ \A c \in SystemComponents :
            /\ resultCache'[c].status = resultCache[c].status
            /\ resultCache[c].status = "healthy" => resultCache'[c].age = Older(resultCache[c].age)
  <2> SUFFICES ASSUME NEW c \in SystemComponents
               PROVE  LET e == resultCache[c]
                          f == IF e.status # "healthy" THEN e ELSE [e EXCEPT !.age = Older(@)]
                      IN  /\ f \in [status : {"none", "healthy", "degraded", "unhealthy"},
                                    age : 0..AgeLimit]
                          /\ f.status = e.status
                          /\ e.status = "healthy" => f.age = Older(e.age)
    BY DEF SecondPasses
  <2> QED BY <1>2, <1>3
<1>6. /\ checkCall' \in [HealthCalls -> [SystemComponents -> CheckState]]
      /\ \A r \in HealthCalls, c \in SystemComponents :
            /\ checkCall'[r][c].pc = checkCall[r][c].pc
            /\ checkCall'[r][c].status = checkCall[r][c].status
            /\ checkCall[r][c].age \in Nat /\ checkCall'[r][c].age \in Nat
            /\ Running(r, c) => checkCall'[r][c].age = checkCall[r][c].age + 1
            /\ ~Running(r, c) => checkCall'[r][c].age = checkCall[r][c].age
  <2>1. ASSUME NEW r \in HealthCalls, NEW c \in SystemComponents
        PROVE  LET e == checkCall[r][c]
                   f == IF e.pc \in {"none", "done"} THEN e ELSE [e EXCEPT !.age = @ + 1]
               IN  /\ f \in CheckState /\ f.pc = e.pc /\ f.status = e.status
                   /\ e.age \in Nat /\ f.age \in Nat
                   /\ e.pc \notin {"none", "done"} => f.age = e.age + 1
                   /\ e.pc \in {"none", "done"} => f.age = e.age
    <3>1. checkCall[r][c] \in CheckState
      BY <1>2
    <3>2. checkCall[r][c].pc \notin {"none", "done"} => checkCall[r][c].age < CheckTimeout
      BY <3>1, <1>1 DEF CheckState, Running
    <3>3. CASE checkCall[r][c].pc \in {"none", "done"}
      BY <3>1, <3>3, <1>2 DEF CheckState
    <3>4. CASE checkCall[r][c].pc \notin {"none", "done"}
      <4> DEFINE f == [checkCall[r][c] EXCEPT !.age = @ + 1]
      <4>1. checkCall[r][c].age + 1 \in 0..CheckTimeout /\ checkCall[r][c].age \in Nat
        BY <3>1, <3>2, <3>4, <1>2 DEF CheckState
      <4>2. /\ f \in CheckState /\ f.pc = checkCall[r][c].pc /\ f.status = checkCall[r][c].status
            /\ f.age = checkCall[r][c].age + 1
        BY <3>1, <4>1 DEF CheckState
      <4> QED BY <3>4, <4>1, <4>2
    <3> QED BY <3>3, <3>4
  <2>2. \A r \in HealthCalls, c \in SystemComponents :
           Running(r, c) <=> checkCall[r][c].pc \notin {"none", "done"}
    BY <1>2 DEF Running, CheckState
  <2>3. \A r \in HealthCalls, c \in SystemComponents :
           checkCall'[r][c] = IF checkCall[r][c].pc \in {"none", "done"} THEN checkCall[r][c]
                              ELSE [checkCall[r][c] EXCEPT !.age = @ + 1]
    BY DEF SecondPasses
  <2>4. checkCall' \in [HealthCalls -> [SystemComponents -> CheckState]]
    BY <2>1 DEF SecondPasses
  <2>5. ASSUME NEW r \in HealthCalls, NEW c \in SystemComponents
        PROVE  /\ checkCall'[r][c].pc = checkCall[r][c].pc
               /\ checkCall'[r][c].status = checkCall[r][c].status
               /\ checkCall[r][c].age \in Nat /\ checkCall'[r][c].age \in Nat
               /\ Running(r, c) => checkCall'[r][c].age = checkCall[r][c].age + 1
               /\ ~Running(r, c) => checkCall'[r][c].age = checkCall[r][c].age
    <3> DEFINE e == checkCall[r][c]
               f == IF e.pc \in {"none", "done"} THEN e ELSE [e EXCEPT !.age = @ + 1]
    <3>1. /\ f \in CheckState /\ f.pc = e.pc /\ f.status = e.status
          /\ e.age \in Nat /\ f.age \in Nat
          /\ e.pc \notin {"none", "done"} => f.age = e.age + 1
          /\ e.pc \in {"none", "done"} => f.age = e.age
      BY <2>1
    <3>2. checkCall'[r][c] = f
      BY <2>3
    <3>3. Running(r, c) <=> e.pc \notin {"none", "done"}
      BY <2>2
    <3> HIDE DEF f
    <3> QED BY <3>1, <3>2, <3>3
  <2> QED BY <2>4, <2>5
<1>7. \A r \in HealthCalls, c \in SystemComponents : Running(r, c)' <=> Running(r, c)
  BY <1>6 DEF Running
<1>8. SystemHealthTypeOK'
  BY <1>1, <1>4, <1>5 DEF SystemIInv, SystemHealthTypeOK
<1>9. ChecksAreTyped'
  BY <1>1, <1>6 DEF SystemIInv, ChecksAreTyped
<1>10. ChecksBeginTogether'
  <2> SUFFICES ASSUME NEW r \in HealthCalls, NEW c \in SystemComponents,
                      NEW d \in SystemComponents
               PROVE  /\ checkCall'[r][c].pc = "none" => checkCall'[r][d].pc = "none"
                      /\ Running(r, c)' => checkCall'[r][d].age <= checkCall'[r][c].age
    BY DEF ChecksBeginTogether
  <2>1. /\ checkCall[r][c].pc = "none" => checkCall[r][d].pc = "none"
        /\ Running(r, c) => checkCall[r][d].age <= checkCall[r][c].age
    BY DEF SystemIInv, ChecksBeginTogether
  <2> QED BY <2>1, <1>6, <1>7
<1>11. LookedIsRecent'
  <2> SUFFICES ASSUME NEW r \in HealthCalls, NEW c \in SystemComponents,
                      SaysHealthy(r, c, "looked")'
               PROVE  illFor'[c] <= checkCall'[r][c].age
    BY DEF LookedIsRecent
  <2>1. SaysHealthy(r, c, "looked") /\ Running(r, c)
    BY <1>6 DEF SaysHealthy, Running
  <2>2. illFor[c] <= checkCall[r][c].age
    BY <2>1 DEF SystemIInv, LookedIsRecent
  <2> QED BY <2>1, <2>2, <1>4, <1>6
<1>12. CacheIsRecent'
  <2> SUFFICES ASSUME NEW c \in SystemComponents, resultCache'[c].status = "healthy"
               PROVE  illFor'[c] <= resultCache'[c].age + CheckTimeout
    BY DEF CacheIsRecent
  <2>1. /\ illFor[c] <= resultCache[c].age + CheckTimeout
        /\ resultCache'[c].age = Older(resultCache[c].age) /\ resultCache[c].age \in 0..AgeLimit
    BY <1>2, <1>5 DEF SystemIInv, CacheIsRecent
  <2>2. CASE resultCache[c].age < AgeLimit
    BY <2>1, <2>2, <1>2, <1>3, <1>4
  <2>3. CASE ~(resultCache[c].age < AgeLimit)
    BY <2>1, <2>3, <1>2, <1>3, <1>4
  <2> QED BY <2>2, <2>3
<1>13. DoneIsRecent'
  <2> SUFFICES ASSUME NEW r \in HealthCalls, NEW c \in SystemComponents,
                      SaysHealthy(r, c, "done")'
               PROVE  /\ illFor'[c] <= Staleness
                      /\ \A d \in SystemComponents : Running(r, d)' =>
                            illFor'[c] <= CacheTTL + CheckTimeout + checkCall'[r][d].age
    BY DEF DoneIsRecent
  <2>1. SaysHealthy(r, c, "done") /\ checkCall[r][c].pc # "none"
    BY <1>6 DEF SaysHealthy
  <2>2. PICK d \in SystemComponents : checkCall[r][d].pc # "done"
    BY <1>1
  <2>3. Running(r, d)
    <3>1. checkCall[r][d].pc # "none"
      BY <2>1 DEF SystemIInv, ChecksBeginTogether
    <3> QED BY <3>1, <2>2, <1>2 DEF CheckState, Running
  <2>4. checkCall[r][d].age + 1 <= CheckTimeout
    BY <2>3, <1>1, <1>2, <1>6
  <2>5. \A e \in SystemComponents : Running(r, e) =>
           illFor[c] <= CacheTTL + CheckTimeout + checkCall[r][e].age
    BY <2>1 DEF SystemIInv, DoneIsRecent
  <2>6. illFor'[c] <= Staleness
    <3>1. illFor[c] <= CacheTTL + CheckTimeout + checkCall[r][d].age
      BY <2>3, <2>5
    <3> QED BY <3>1, <2>4, <1>2, <1>4, <1>6 DEF Staleness
  <2>7. ASSUME NEW e \in SystemComponents, Running(r, e)'
        PROVE  illFor'[c] <= CacheTTL + CheckTimeout + checkCall'[r][e].age
    <3>1. /\ checkCall'[r][e].age = checkCall[r][e].age + 1
          /\ illFor[c] <= CacheTTL + CheckTimeout + checkCall[r][e].age
      BY <2>5, <2>7, <1>6, <1>7
    <3> QED BY <3>1, <1>2, <1>4, <1>6
  <2> QED BY <2>6, <2>7
<1>14. FineIsNow' /\ HealthyIsRecent'
  BY <1>1, <1>4 DEF FineIsNow, HealthyIsRecent, Fine
<1> QED BY <1>8, <1>9, <1>10, <1>11, <1>12, <1>13, <1>14 DEF SystemIInv

(* Every step of a request, every change and every second keeps the          *)
(* invariant.                                                                *)
LEMMA SystemIInvInductive == SystemIInv /\ [SystemHealthNext]_systemVars => SystemIInv'
<1> SUFFICES ASSUME SystemIInv, [SystemHealthNext]_systemVars PROVE SystemIInv'
  OBVIOUS
<1>1. CASE UNCHANGED systemVars
  BY <1>1
  DEF systemVars, SystemIInv, SystemHealthTypeOK, ChecksAreTyped, ChecksBeginTogether,
     LookedIsRecent, CacheIsRecent, DoneIsRecent, FineIsNow, HealthyIsRecent, Fine, Running,
     SaysHealthy
<1> QED BY <1>1, ChecksAreSafe, RequestsAreSafe, ConditionsAreSafe, SecondsAreSafe
     DEF SystemHealthNext

(* The types of the system's health, for any number of requests and any      *)
(* lifetimes.                                                                *)
THEOREM SystemHealthTypeCorrect == SystemHealthSpec => []SystemHealthTypeOK
<1>1. SystemIInv => SystemHealthTypeOK
  BY DEF SystemIInv
<1> QED BY <1>1, SystemInitIsSafe, SystemIInvInductive, PTL DEF SystemHealthSpec

(* An answer "healthy" is never older than CacheTTL and two timeouts allow,  *)
(* whatever requests share the cache: HealthyIsRecent in every state.        *)
THEOREM HealthyIsRecentHolds == SystemHealthSpec => []HealthyIsRecent
<1>1. SystemIInv => HealthyIsRecent
  BY DEF SystemIInv
<1> QED BY <1>1, SystemInitIsSafe, SystemIInvInductive, PTL DEF SystemHealthSpec
-----------------------------------------------------------------------------
(* Discovery. *)

RealSight == {s \in Sight : s.addr > 0}
Sighting == [id : ProposalIds, sight : RealSight]

(* What is seen is somewhere, and a container is recreated where it moves.   *)
SightsAreReal ==
    /\ \A p \in ProposalIds : world[p] \in RealSight /\ world[p].cid <= world[p].addr
    /\ proposalCh \in Seq(Sighting)

ProcessorJob == [pc : {"idle", "add", "reconcile", "upsert"},
                 id : ProposalIds \cup {"none"}, sight : Sight]
Leftover == [ch : Seq(Sighting), job : ProcessorJob, proposals : SUBSET ProposalIds,
             dismissed : SUBSET ProposalIds]
DecisionJob == [pc : {"idle", "approve", "dismiss", "delete", "forget"},
                id : ProposalIds \cup {"none"}, sight : Sight]

(* The processor and the handler work on a proposal when they do.            *)
WorkIsTyped ==
    /\ processor \in ProcessorJob
    /\ processor.pc # "idle" => processor.id \in ProposalIds /\ processor.sight \in RealSight
    /\ decision \in DecisionJob
    /\ decision.pc # "idle" => decision.id \in ProposalIds
    /\ leftover \in Leftover
    /\ leftover.job.pc # "idle" =>
          leftover.job.id \in ProposalIds /\ leftover.job.sight \in RealSight

Adding(p) == processor.pc = "add" /\ processor.id = p
Forgetting(p) == decision.pc = "forget" /\ decision.id = p

(* A dismissed proposal has no row and gets none. *)
DismissedStaysOut ==
    \A p \in dismissed \ crossed : proposalRow[p] = NoSight /\ ~Adding(p)

(* An active one has its row, will get it, or is on its way out. *)
ActiveHasRow ==
    \A p \in proposals \ crossed : proposalRow[p] # NoSight \/ Adding(p) \/ Forgetting(p)

(* What is added between the maps and the rows of a rediscovery is marked. *)
RediscoveryMarks == rediscovering => proposals \subseteq crossed

DiscoveryIInv ==
    /\ DiscoveryTypeOK /\ SightsAreReal /\ WorkIsTyped /\ rediscovering \in BOOLEAN
    /\ DismissedStaysOut /\ ActiveHasRow /\ RediscoveryMarks

(* The bounds of a sighting. *)
LEMMA SightBounds ==
    /\ NoSight \in Sight /\ NoSight \notin RealSight /\ RealSight \subseteq Sight
    /\ \A s \in Sight : s.cid \in Nat /\ s.addr \in Nat
BY DiscoveryAssumption DEF NoSight, Sight, RealSight

(* At the start nothing was seen. *)
LEMMA DiscoveryInitIsSafe == DiscoveryInit => DiscoveryIInv
<1> SUFFICES ASSUME DiscoveryInit PROVE DiscoveryIInv
  OBVIOUS
<1>1. \A c \in {0, 1} : [cid |-> c, addr |-> 1] \in RealSight
  BY DiscoveryAssumption DEF RealSight, Sight
<1>2. \A p \in ProposalIds : world[p] \in RealSight /\ world[p].cid <= world[p].addr
  BY <1>1 DEF DiscoveryInit
<1>3. DiscoveryTypeOK /\ SightsAreReal
  BY <1>1, <1>2, SightBounds, DiscoveryAssumption
  DEF DiscoveryInit, DiscoveryTypeOK, SightsAreReal, NoLeftover
<1>4. WorkIsTyped
  <2>1. NoJob \in ProcessorJob /\ NoJob \in DecisionJob /\ NoJob.pc = "idle"
    BY SightBounds DEF NoJob, ProcessorJob, DecisionJob
  <2>2. NoLeftover \in Leftover /\ NoLeftover.job.pc = "idle"
    BY <2>1 DEF NoLeftover, Leftover
  <2> QED BY <2>1, <2>2 DEF DiscoveryInit, WorkIsTyped
<1> QED BY <1>3, <1>4
     DEF DiscoveryInit, DiscoveryIInv, DismissedStaysOut, ActiveHasRow, RediscoveryMarks

(* A step that touches neither the maps nor the rows nor who works on them. *)
LEMMA ElsewhereIsSafe ==
    ASSUME DiscoveryIInv, DiscoveryTypeOK', SightsAreReal',
           UNCHANGED <<processor, proposals, dismissed, proposalRow, decision, rediscovering,
                       leftover, crossed>>
    PROVE  DiscoveryIInv'
BY DEF DiscoveryIInv, WorkIsTyped, DismissedStaysOut, ActiveHasRow, RediscoveryMarks,
       Adding,
   Forgetting

(* The workers, and the containers they look at. *)
LEMMA WorkersAreSafe ==
    ASSUME DiscoveryIInv, NEW p \in ProposalIds,
           SubmitProposal(p) \/ DebounceEnds(p) \/ \E again \in BOOLEAN : ContainerMoves(p, again)
    PROVE  DiscoveryIInv'
<1>1. /\ world \in [ProposalIds -> Sight] /\ proposalCh \in Seq(Sighting)
      /\ world[p] \in RealSight /\ world[p] \in Sight
      /\ Len(proposalCh) \in Nat /\ ProposalChSize \in Nat
  BY DiscoveryAssumption DEF DiscoveryIInv, DiscoveryTypeOK, SightsAreReal
<1>2. CASE SubmitProposal(p)
  <2> DEFINE s == [id |-> p, sight |-> world[p]]
  <2>1. s \in Sighting
    BY <1>1 DEF Sighting
  <2> HIDE DEF s
  <2>2. proposalCh' \in Seq(Sighting) /\ Len(proposalCh') <= ProposalChSize
    <3>1. proposalCh' = IF Len(proposalCh) < ProposalChSize THEN Append(proposalCh, s)
                        ELSE proposalCh
      BY <1>2 DEF SubmitProposal, s
    <3> QED BY <1>1, <2>1, <3>1 DEF DiscoveryIInv, DiscoveryTypeOK
  <2>3. DiscoveryTypeOK' /\ SightsAreReal'
    BY <1>2, <2>2, DiscoveryAssumption
    DEF SubmitProposal, DiscoveryIInv, DiscoveryTypeOK, SightsAreReal
  <2> QED BY <1>2, <2>3, ElsewhereIsSafe DEF SubmitProposal
<1>3. CASE DebounceEnds(p)
  <2>1. DiscoveryTypeOK' /\ SightsAreReal'
    BY <1>3 DEF DebounceEnds, DiscoveryIInv, DiscoveryTypeOK, SightsAreReal
  <2> QED BY <1>3, <2>1, ElsewhereIsSafe DEF DebounceEnds
<1>4. ASSUME NEW again \in BOOLEAN, ContainerMoves(p, again)
      PROVE  DiscoveryIInv'
  <2> DEFINE s == [world[p] EXCEPT !.addr = @ + 1, !.cid = IF again THEN @ + 1 ELSE @]
  <2>1. /\ world[p].addr <= MaxMoves /\ world[p].cid <= world[p].addr
        /\ world[p].addr \in Nat /\ world[p].cid \in Nat /\ MaxMoves \in Nat
    BY <1>1, <1>4, SightBounds, DiscoveryAssumption
    DEF ContainerMoves, DiscoveryIInv, SightsAreReal
  <2>2. s \in Sight /\ s.addr > 0 /\ s.cid <= s.addr
    <3> DEFINE addr == world[p].addr + 1
               cid == IF again THEN world[p].cid + 1 ELSE world[p].cid
    <3>1. addr \in 0..MaxMoves + 1 /\ cid \in 0..MaxMoves + 1 /\ addr > 0 /\ cid <= addr
      BY <2>1
    <3>2. s = [world[p] EXCEPT !.addr = addr, !.cid = cid]
      OBVIOUS
    <3> HIDE DEF s, addr, cid
    <3>3. s \in Sight
      BY <3>1, <3>2, <1>1 DEF Sight
    <3>4. s.addr = addr /\ s.cid = cid
      BY <3>2, <1>1 DEF Sight
    <3> QED BY <3>1, <3>3, <3>4
  <2>3. world' = [world EXCEPT ![p] = s]
    BY <1>4 DEF ContainerMoves
  <2> HIDE DEF s
  <2>4. world' \in [ProposalIds -> Sight]
    BY <1>1, <2>2, <2>3
  <2>5. UNCHANGED <<recent, scanner, proposalCh, channelOpen, processor, proposals,
                    dismissed, proposalRow, appRoute, decision, rediscovering, crossed,
                    discoveryFaults, leftover>>
    BY <1>4 DEF ContainerMoves
  <2>6. DiscoveryTypeOK'
    BY <2>4, <2>5 DEF DiscoveryIInv, DiscoveryTypeOK
  <2>7. SightsAreReal'
    <3>1. ASSUME NEW q \in ProposalIds
          PROVE  world'[q] \in RealSight /\ world'[q].cid <= world'[q].addr
      <4>1. CASE q = p
        BY <4>1, <1>1, <2>2, <2>3 DEF RealSight
      <4>2. CASE q # p
        BY <4>2, <1>1, <2>3 DEF DiscoveryIInv, SightsAreReal
      <4> QED BY <4>1, <4>2
    <3> QED BY <3>1, <2>5, <1>1 DEF SightsAreReal
  <2> QED BY <2>5, <2>6, <2>7, ElsewhereIsSafe
<1> QED BY <1>2, <1>3, <1>4

(* The processor takes a sighting, adds a proposal or moves a route. *)
LEMMA ProcessorIsSafe ==
    ASSUME DiscoveryIInv,
           \/ ProcessProposal \/ ReconcileReads
           \/ \E ok \in BOOLEAN : AddProposal(ok) \/ ReconcileRouteTarget(ok)
    PROVE  DiscoveryIInv'
<1>1. /\ proposalCh \in Seq(Sighting) /\ MaxDiscoveryFaults \in Nat
      /\ proposalRow \in [ProposalIds -> Sight] /\ appRoute \in Sight
      /\ processor \in ProcessorJob
      /\ processor.pc # "idle" => processor.id \in ProposalIds /\ processor.sight \in RealSight
  BY DiscoveryAssumption DEF DiscoveryIInv, DiscoveryTypeOK, SightsAreReal, WorkIsTyped
<1>2. ASSUME NEW ok \in BOOLEAN, Works(ok)
      PROVE  discoveryFaults' \in 0..MaxDiscoveryFaults
  BY <1>1, <1>2 DEF Works, DiscoveryIInv, DiscoveryTypeOK
<1>3. NoJob.pc = "idle"
  BY DEF NoJob
<1>4. NoJob \in ProcessorJob
  BY SightBounds DEF NoJob, ProcessorJob
<1>5. CASE ProcessProposal
  <2> DEFINE head == Head(proposalCh)
             p == head.id
             next == Sorted(p, proposals, dismissed)
             job == [pc |-> next, id |-> p, sight |-> head.sight]
  <2>1. /\ head \in Sighting /\ Tail(proposalCh) \in Seq(Sighting)
        /\ Len(Tail(proposalCh)) <= ProposalChSize
    <3>1. proposalCh # <<>> /\ Len(proposalCh) <= ProposalChSize
      BY <1>5 DEF ProcessProposal, DiscoveryIInv, DiscoveryTypeOK
    <3>2. Len(proposalCh) \in Nat /\ ProposalChSize \in Nat
      BY <1>1, DiscoveryAssumption
    <3> QED BY <1>1, <3>1, <3>2, HeadTailProperties
  <2>2. /\ next \in {"idle", "add", "reconcile"}
        /\ next = "add" => p \notin dismissed
    BY DEF Sorted
  <2>3. /\ processor = NoJob /\ proposalCh' = Tail(proposalCh)
        /\ processor' = IF next = "idle" THEN NoJob ELSE job
        /\ proposals' = IF next = "add" THEN proposals \cup {p} ELSE proposals
        /\ crossed' = IF next = "add" /\ rediscovering THEN crossed \cup {p} ELSE crossed
        /\ UNCHANGED <<world, recent, scanner, channelOpen, dismissed, proposalRow,
                       appRoute, decision, rediscovering, discoveryFaults, leftover>>
    BY <1>5 DEF ProcessProposal
  <2>4. p \in ProposalIds /\ head.sight \in RealSight /\ head.sight \in Sight
    BY <2>1, SightBounds DEF Sighting
  <2>5. /\ job \in ProcessorJob
        /\ job.pc = next /\ job.id = p /\ job.sight = head.sight
    BY <2>2, <2>4 DEF ProcessorJob
  <2> HIDE DEF head, p, next, job
  <2>6. DiscoveryTypeOK' /\ SightsAreReal'
    BY <2>1, <2>3, <2>4 DEF DiscoveryIInv, DiscoveryTypeOK, SightsAreReal
  <2>7. WorkIsTyped'
    BY <1>3, <1>4, <2>3, <2>4, <2>5 DEF DiscoveryIInv, WorkIsTyped
  <2>8. DismissedStaysOut'
    BY <1>3, <2>2, <2>3, <2>5 DEF DiscoveryIInv, DismissedStaysOut, Adding
  <2>9. ActiveHasRow'
    BY <1>3, <2>3, <2>5 DEF DiscoveryIInv, ActiveHasRow, Adding, Forgetting
  <2>10. RediscoveryMarks'
    BY <2>3 DEF DiscoveryIInv, RediscoveryMarks
  <2> QED BY <2>3, <2>6, <2>7, <2>8, <2>9, <2>10 DEF DiscoveryIInv
<1>6. ASSUME NEW ok \in BOOLEAN, AddProposal(ok)
      PROVE  DiscoveryIInv'
  <2> DEFINE p == processor.id
  <2>1. /\ Adding(p) /\ p \in ProposalIds /\ processor.sight \in RealSight
        /\ processor.sight \in Sight /\ processor.sight # NoSight
        /\ processor' = NoJob /\ discoveryFaults' \in 0..MaxDiscoveryFaults
        /\ proposalRow' = IF ok THEN [proposalRow EXCEPT ![p] = processor.sight] ELSE proposalRow
        /\ crossed' = IF ok THEN crossed ELSE crossed \cup {p}
        /\ UNCHANGED <<world, recent, scanner, proposalCh, channelOpen, proposals, dismissed,
                       appRoute, decision, rediscovering, leftover>>
    BY <1>1, <1>2, <1>6, SightBounds DEF AddProposal, Adding
  <2>2. DiscoveryTypeOK' /\ SightsAreReal'
    BY <1>1, <2>1 DEF DiscoveryIInv, DiscoveryTypeOK, SightsAreReal
  <2>3. WorkIsTyped' /\ RediscoveryMarks'
    BY <1>3, <1>4, <2>1 DEF DiscoveryIInv, WorkIsTyped, RediscoveryMarks
  <2>4. \A q \in ProposalIds \ {p} : ~Adding(q) /\ proposalRow'[q] = proposalRow[q]
    BY <1>1, <2>1 DEF Adding
  <2>5. proposals \subseteq ProposalIds /\ dismissed \subseteq ProposalIds
    BY DEF DiscoveryIInv, DiscoveryTypeOK
  <2>6. ~\E q \in ProposalIds : Adding(q)'
    BY <1>3, <2>1 DEF Adding
  <2>7. DismissedStaysOut'
    BY <2>1, <2>4, <2>5, <2>6 DEF DiscoveryIInv, DismissedStaysOut
  <2>8. ActiveHasRow'
    <3> SUFFICES ASSUME NEW q \in proposals \ crossed'
                 PROVE  proposalRow'[q] # NoSight \/ Forgetting(q)
      BY <2>1 DEF ActiveHasRow, Forgetting
    <3>1. CASE q = p
      BY <3>1, <1>1, <2>1
    <3>2. CASE q # p
      BY <3>2, <2>1, <2>4, <2>5 DEF DiscoveryIInv, ActiveHasRow
    <3> QED BY <3>1, <3>2
  <2> QED BY <2>1, <2>2, <2>3, <2>7, <2>8 DEF DiscoveryIInv
<1>7. ASSUME processor.pc \in {"reconcile", "upsert"}, appRoute' \in Sight,
             processor' = NoJob \/ processor' = [processor EXCEPT !.pc = "upsert"],
             discoveryFaults' \in 0..MaxDiscoveryFaults,
             UNCHANGED <<world, recent, scanner, proposalCh, channelOpen, proposals, dismissed,
                         proposalRow, decision, rediscovering, crossed, leftover>>
      PROVE  DiscoveryIInv'
  <2>1. DiscoveryTypeOK' /\ SightsAreReal'
    BY <1>7 DEF DiscoveryIInv, DiscoveryTypeOK, SightsAreReal
  <2>2. /\ processor' \in ProcessorJob
        /\ processor'.pc # "add" /\ processor.pc # "add"
        /\ processor'.pc # "idle" => /\ processor'.id = processor.id
                                     /\ processor'.sight = processor.sight
    <3>1. CASE processor' = NoJob
      BY <3>1, <1>3, <1>4, <1>7
    <3>2. CASE processor' = [processor EXCEPT !.pc = "upsert"]
      BY <3>2, <1>1, <1>7 DEF ProcessorJob
    <3> QED BY <3>1, <3>2, <1>7
  <2>3. WorkIsTyped'
    BY <1>1, <1>7, <2>2 DEF DiscoveryIInv, WorkIsTyped
  <2> QED BY <1>7, <2>1, <2>2, <2>3
       DEF DiscoveryIInv, DismissedStaysOut, ActiveHasRow, RediscoveryMarks, Adding,
          Forgetting
<1>8. CASE ReconcileReads
  BY <1>1, <1>7, <1>8 DEF ReconcileReads, HasMoved, DiscoveryIInv, DiscoveryTypeOK
<1>9. ASSUME NEW ok \in BOOLEAN, ReconcileRouteTarget(ok)
      PROVE  DiscoveryIInv'
  <2>1. appRoute' \in Sight /\ discoveryFaults' \in 0..MaxDiscoveryFaults
    BY <1>1, <1>2, <1>9 DEF ReconcileRouteTarget, ProcessorJob
  <2> QED BY <1>7, <1>9, <2>1 DEF ReconcileRouteTarget
<1> QED BY <1>5, <1>6, <1>8, <1>9

(* A user decides on a proposal: its row, then the maps. *)
LEMMA DecisionsAreSafe ==
    ASSUME DiscoveryIInv,
           \/ \E p \in ProposalIds, kind \in {"approve", "dismiss"} : DecisionBegins(p, kind)
           \/ \E ok \in BOOLEAN : ApproveRegisters(ok) \/ DecisionDeletes(ok)
           \/ DecisionDismisses
    PROVE  DiscoveryIInv'
<1> DEFINE p == decision.id
<1>1. /\ proposalRow \in [ProposalIds -> Sight] /\ appRoute \in Sight
      /\ decision \in DecisionJob
      /\ decision.pc # "idle" => p \in ProposalIds
      /\ proposals \subseteq ProposalIds /\ dismissed \subseteq ProposalIds
      /\ crossed \subseteq ProposalIds
  BY DEF DiscoveryIInv, DiscoveryTypeOK, WorkIsTyped
<1>2. ASSUME NEW ok \in BOOLEAN, Works(ok)
      PROVE  discoveryFaults' \in 0..MaxDiscoveryFaults
  BY <1>2, DiscoveryAssumption DEF Works, DiscoveryIInv, DiscoveryTypeOK
<1>3. NoJob.pc = "idle" /\ NoJob \in DecisionJob
  BY SightBounds DEF NoJob, DecisionJob
<1>4. ASSUME decision.pc # "forget", decision' \in DecisionJob, appRoute' \in Sight,
             decision'.pc # "idle" => decision'.id \in ProposalIds,
             decision'.pc # "forget", discoveryFaults' \in 0..MaxDiscoveryFaults,
             UNCHANGED <<world, recent, scanner, proposalCh, channelOpen, processor, proposals,
                         dismissed, proposalRow, rediscovering, crossed, leftover>>
      PROVE  DiscoveryIInv'
  <2>1. DiscoveryTypeOK' /\ SightsAreReal' /\ WorkIsTyped'
    BY <1>4 DEF DiscoveryIInv, DiscoveryTypeOK, SightsAreReal, WorkIsTyped
  <2> QED BY <1>4, <2>1
       DEF DiscoveryIInv, DismissedStaysOut, ActiveHasRow, RediscoveryMarks, Adding,
          Forgetting
<1>5. ASSUME NEW q \in ProposalIds, NEW kind \in {"approve", "dismiss"}, DecisionBegins(q, kind)
      PROVE  DiscoveryIInv'
  <2> DEFINE job == [pc |-> kind, id |-> q, sight |-> proposalRow[q]]
  <2>1. decision.pc = "idle"
    BY <1>3, <1>5 DEF DecisionBegins
  <2>2. job \in DecisionJob /\ job.pc = kind /\ job.id = q
    BY <1>1 DEF DecisionJob
  <2>3. decision' = job
    BY <1>5 DEF DecisionBegins, GetProposal
  <2> HIDE DEF job
  <2>4. /\ discoveryFaults' \in 0..MaxDiscoveryFaults
        /\ UNCHANGED <<world, recent, scanner, proposalCh, channelOpen, processor, proposals,
                       dismissed, proposalRow, rediscovering, crossed, appRoute, leftover>>
    BY <1>5 DEF DecisionBegins, DiscoveryIInv, DiscoveryTypeOK
  <2> QED BY <1>1, <1>4, <2>1, <2>2, <2>3, <2>4
<1>6. ASSUME NEW ok \in BOOLEAN, ApproveRegisters(ok)
      PROVE  DiscoveryIInv'
  <2>1. /\ decision.pc = "approve"
        /\ appRoute' = IF ok THEN decision.sight ELSE appRoute
        /\ decision' = IF ok THEN [decision EXCEPT !.pc = "delete"] ELSE NoJob
        /\ discoveryFaults' \in 0..MaxDiscoveryFaults
        /\ UNCHANGED <<world, recent, scanner, proposalCh, channelOpen, processor, proposals,
                       dismissed, proposalRow, rediscovering, crossed, leftover>>
    BY <1>2, <1>6 DEF ApproveRegisters
  <2>2. /\ decision' \in DecisionJob /\ decision'.pc # "forget"
        /\ decision'.pc # "idle" => decision'.id \in ProposalIds
    <3>1. [decision EXCEPT !.pc = "delete"] \in DecisionJob
      BY <1>1 DEF DecisionJob
    <3>2. /\ [decision EXCEPT !.pc = "delete"].pc = "delete"
          /\ [decision EXCEPT !.pc = "delete"].id = decision.id
      BY <1>1 DEF DecisionJob
    <3> QED BY <1>1, <1>3, <2>1, <3>1, <3>2
  <2>3. appRoute' \in Sight
    BY <1>1, <2>1 DEF DecisionJob
  <2> QED BY <1>4, <2>1, <2>2, <2>3
<1>7. ASSUME NEW ok \in BOOLEAN, DecisionDeletes(ok)
      PROVE  DiscoveryIInv'
  <2>0. decision.pc \in {"delete", "dismiss"} /\ p \in ProposalIds /\ Works(ok)
    BY <1>1, <1>7 DEF DecisionDeletes
  <2>1. /\ decision.pc \in {"delete", "dismiss"} /\ p \in ProposalIds
        /\ proposalRow' = IF ok THEN [proposalRow EXCEPT ![p] = NoSight] ELSE proposalRow
        /\ crossed' = IF ok THEN crossed ELSE crossed \cup {p}
        /\ decision' = [decision EXCEPT !.pc = "forget"]
        /\ discoveryFaults' \in 0..MaxDiscoveryFaults
        /\ UNCHANGED <<world, recent, scanner, proposalCh, channelOpen, processor, proposals,
                       dismissed, appRoute, rediscovering, leftover>>
    BY <2>0, <1>2, <1>7 DEF DecisionDeletes, DeleteProposal
  <2>2. decision' \in DecisionJob /\ decision'.pc = "forget" /\ decision'.id = p
    BY <1>1, <2>1 DEF DecisionJob
  <2>3. DiscoveryTypeOK' /\ SightsAreReal'
    BY <1>1, <2>1, SightBounds DEF DiscoveryIInv, DiscoveryTypeOK, SightsAreReal
  <2>4. WorkIsTyped' /\ RediscoveryMarks'
    BY <2>1, <2>2 DEF DiscoveryIInv, WorkIsTyped, RediscoveryMarks
  <2>5. \A q \in ProposalIds : Forgetting(q)' <=> q = p
    BY <2>2 DEF Forgetting
  <2>6. ~\E q \in ProposalIds : Forgetting(q)
    BY <2>1 DEF Forgetting
  <2>7. \A q \in ProposalIds : /\ q # p => proposalRow'[q] = proposalRow[q]
                              /\ proposalRow[q] = NoSight => proposalRow'[q] = NoSight
    BY <1>1, <2>1
  <2>8. \A q : Adding(q)' <=> Adding(q)
    BY <2>1 DEF Adding
  <2>9. DismissedStaysOut'
    BY <1>1, <2>1, <2>7, <2>8 DEF DiscoveryIInv, DismissedStaysOut
  <2>10. ActiveHasRow'
    <3> SUFFICES ASSUME NEW q \in proposals \ crossed'
                 PROVE  proposalRow'[q] # NoSight \/ Adding(q) \/ q = p
      BY <1>1, <2>1, <2>5, <2>8 DEF ActiveHasRow
    <3> QED BY <1>1, <2>1, <2>6, <2>7 DEF DiscoveryIInv, ActiveHasRow
  <2> QED BY <2>1, <2>3, <2>4, <2>9, <2>10 DEF DiscoveryIInv
<1>8. CASE DecisionDismisses
  <2>0. decision.pc = "forget" /\ p \in ProposalIds
    BY <1>1, <1>8 DEF DecisionDismisses
  <2>1. /\ decision.pc = "forget" /\ p \in ProposalIds /\ decision' = NoJob
        /\ proposals' = proposals \ {p} /\ dismissed' = dismissed \cup {p}
        /\ crossed' = IF proposalRow[p] # NoSight \/ Adding(p) THEN crossed \cup {p} ELSE crossed
        /\ UNCHANGED <<world, recent, scanner, proposalCh, channelOpen, processor,
                       proposalRow, appRoute, rediscovering, discoveryFaults, leftover>>
    BY <2>0, <1>8 DEF DecisionDismisses, DismissProposal, Adding
  <2>2. DiscoveryTypeOK' /\ SightsAreReal'
    BY <1>1, <2>1 DEF DiscoveryIInv, DiscoveryTypeOK, SightsAreReal
  <2>3. WorkIsTyped' /\ RediscoveryMarks'
    BY <1>3, <2>1 DEF DiscoveryIInv, WorkIsTyped, RediscoveryMarks
  <2>4. \A q : Adding(q)' <=> Adding(q)
    BY <2>1 DEF Adding
  <2>5. DismissedStaysOut'
    BY <2>1, <2>4 DEF DiscoveryIInv, DismissedStaysOut
  <2>6. ActiveHasRow'
    <3> SUFFICES ASSUME NEW q \in proposals' \ crossed'
                 PROVE  proposalRow[q] # NoSight \/ Adding(q)
      BY <2>1, <2>4 DEF ActiveHasRow
    <3>1. q # p /\ q \in proposals \ crossed
      BY <2>1
    <3>2. ~Forgetting(q)
      BY <3>1 DEF Forgetting
    <3> QED BY <3>1, <3>2 DEF DiscoveryIInv, ActiveHasRow
  <2> QED BY <2>1, <2>2, <2>3, <2>5, <2>6 DEF DiscoveryIInv
<1> QED BY <1>5, <1>6, <1>7, <1>8

(* A rediscovery empties the maps and then the rows. *)
LEMMA RediscoveryIsSafe ==
    ASSUME DiscoveryIInv, Rediscover \/ \E ok \in BOOLEAN : ClearProposals(ok)
    PROVE  DiscoveryIInv'
<1>1. CASE Rediscover
  BY <1>1 DEF Rediscover, DiscoveryIInv, DiscoveryTypeOK, SightsAreReal, WorkIsTyped,
     DismissedStaysOut, ActiveHasRow, RediscoveryMarks
<1>2. ASSUME NEW ok \in BOOLEAN, ClearProposals(ok)
      PROVE  DiscoveryIInv'
  <2>1. /\ rediscovering /\ rediscovering' = FALSE /\ Works(ok)
        /\ proposalRow' = IF ok THEN [p \in ProposalIds |-> NoSight] ELSE proposalRow
        /\ crossed' = IF ok THEN crossed \cap (proposals \cup {processor.id}) ELSE crossed
        /\ UNCHANGED <<world, recent, scanner, proposalCh, channelOpen, processor, proposals,
                       dismissed, appRoute, decision, leftover>>
    BY <1>2 DEF ClearProposals
  <2>2. discoveryFaults' \in 0..MaxDiscoveryFaults
    BY <2>1, DiscoveryAssumption DEF Works, DiscoveryIInv, DiscoveryTypeOK
  <2>3. DiscoveryTypeOK' /\ SightsAreReal'
    BY <2>1, <2>2, SightBounds DEF DiscoveryIInv, DiscoveryTypeOK, SightsAreReal
  <2>4. WorkIsTyped' /\ RediscoveryMarks'
    BY <2>1 DEF DiscoveryIInv, WorkIsTyped, RediscoveryMarks
  <2>5. (\A q : Adding(q)' <=> Adding(q)) /\ (\A q : Forgetting(q)' <=> Forgetting(q))
    BY <2>1 DEF Adding, Forgetting
  <2>6. dismissed \subseteq ProposalIds
    BY DEF DiscoveryIInv, DiscoveryTypeOK
  <2>7. DismissedStaysOut'
    <3> SUFFICES ASSUME NEW q \in dismissed \ crossed'
                 PROVE  proposalRow'[q] = NoSight /\ ~Adding(q)
      BY <2>1, <2>5 DEF DismissedStaysOut
    <3>1. CASE q \in crossed
      BY <3>1, <2>1, <2>6 DEF Adding
    <3>2. CASE q \notin crossed
      BY <3>2, <2>1, <2>6 DEF DiscoveryIInv, DismissedStaysOut
    <3> QED BY <3>1, <3>2
  <2>8. ActiveHasRow'
    BY <2>1, <2>5 DEF DiscoveryIInv, ActiveHasRow, RediscoveryMarks
  <2> QED BY <2>1, <2>3, <2>4, <2>7, <2>8 DEF DiscoveryIInv
<1> QED BY <1>1, <1>2

(* What a stopped manager has left is typed as the manager was. *)
LeftoverFits(l) ==
    /\ l \in Leftover /\ Len(l.ch) <= ProposalChSize
    /\ l.job.pc # "idle" => l.job.id \in ProposalIds /\ l.job.sight \in RealSight

LEMMA LeftoverStaysTyped ==
    ASSUME NEW l, LeftoverFits(l), LeftoverIs(l)
    PROVE  LeftoverFits(leftover')
<1> DEFINE ids == {l.ch[i].id : i \in DOMAIN l.ch}
<1>1. leftover' = [l EXCEPT !.proposals = @ \cap ids, !.dismissed = @ \cap ids]
  BY DEF LeftoverIs
<1> HIDE DEF ids
<1> QED BY <1>1 DEF LeftoverFits, Leftover

(* The old processor goes on: it may add a row, and nothing else the users   *)
(* or the new manager work on.                                               *)
LEMMA LeftoverIsSafe ==
    ASSUME DiscoveryIInv,
           \/ LeftoverProcesses
           \/ \E ok \in BOOLEAN : LeftoverAdds(ok) \/ LeftoverReconciles(ok)
    PROVE  DiscoveryIInv'
<1> DEFINE job == leftover.job
<1>1. /\ leftover \in Leftover /\ job \in ProcessorJob /\ leftover.ch \in Seq(Sighting)
      /\ job.pc # "idle" => job.id \in ProposalIds /\ job.sight \in RealSight
      /\ Len(leftover.ch) <= ProposalChSize /\ Len(leftover.ch) \in Nat
      /\ proposalRow \in [ProposalIds -> Sight] /\ appRoute \in Sight
      /\ ProposalChSize \in Nat
  BY DiscoveryAssumption DEF DiscoveryIInv, DiscoveryTypeOK, WorkIsTyped, Leftover
<1>2. NoJob \in ProcessorJob /\ NoJob.pc = "idle"
  BY SightBounds DEF NoJob, ProcessorJob
<1>3. ASSUME NEW ok \in BOOLEAN, Works(ok)
      PROVE  discoveryFaults' \in 0..MaxDiscoveryFaults
  BY <1>3, DiscoveryAssumption DEF Works, DiscoveryIInv, DiscoveryTypeOK
<1>4. ASSUME NEW l, LeftoverFits(l), LeftoverIs(l),
             appRoute' \in Sight, discoveryFaults' \in 0..MaxDiscoveryFaults,
             proposalRow' \in [ProposalIds -> Sight],
             \A q \in ProposalIds : /\ proposalRow[q] # NoSight => proposalRow'[q] # NoSight
                                    /\ proposalRow'[q] = proposalRow[q]
                                       \/ q \notin dismissed \/ q \in crossed',
             crossed \subseteq crossed', crossed' \subseteq ProposalIds,
             UNCHANGED <<world, recent, scanner, proposalCh, channelOpen, processor, proposals,
                         dismissed, decision, rediscovering>>
      PROVE  DiscoveryIInv'
  <2>a. LeftoverFits(leftover')
    BY <1>4, LeftoverStaysTyped
  <2>1. /\ leftover' \in Leftover /\ Len(leftover'.ch) <= ProposalChSize
        /\ leftover'.proposals \cup leftover'.dismissed \subseteq ProposalIds
        /\ leftover'.job.pc # "idle" =>
             leftover'.job.id \in ProposalIds /\ leftover'.job.sight \in RealSight
    BY <2>a DEF LeftoverFits, Leftover
  <2>2. DiscoveryTypeOK' /\ SightsAreReal'
    BY <1>4, <2>1 DEF DiscoveryIInv, DiscoveryTypeOK, SightsAreReal
  <2>3. WorkIsTyped' /\ RediscoveryMarks'
    BY <1>4, <2>1 DEF DiscoveryIInv, WorkIsTyped, RediscoveryMarks
  <2>4. proposals \subseteq ProposalIds /\ dismissed \subseteq ProposalIds
    BY DEF DiscoveryIInv, DiscoveryTypeOK
  <2>5. DismissedStaysOut'
    BY <1>4, <2>4 DEF DiscoveryIInv, DismissedStaysOut, Adding
  <2>6. ActiveHasRow'
    BY <1>4, <2>4 DEF DiscoveryIInv, ActiveHasRow, Adding, Forgetting
  <2> QED BY <1>4, <2>2, <2>3, <2>5, <2>6 DEF DiscoveryIInv
<1>5. crossed \subseteq ProposalIds /\ discoveryFaults \in 0..MaxDiscoveryFaults
  BY DEF DiscoveryIInv, DiscoveryTypeOK
<1>6. [leftover EXCEPT !.job = NoJob] \in Leftover
      /\ [leftover EXCEPT !.job = NoJob].job = NoJob
      /\ [leftover EXCEPT !.job = NoJob].ch = leftover.ch
  BY <1>1, <1>2 DEF Leftover
<1>7. CASE LeftoverProcesses
  <2> DEFINE head == Head(leftover.ch)
             p == head.id
             next == Sorted(p, leftover.proposals, leftover.dismissed)
             made == [pc |-> next, id |-> p, sight |-> head.sight]
             now == IF next = "idle" THEN NoJob ELSE made
             known == IF next = "add" THEN leftover.proposals \cup {p} ELSE leftover.proposals
             l == [leftover EXCEPT !.ch = Tail(@), !.job = now, !.proposals = known]
  <2>1. /\ LeftoverIs(l) /\ leftover.ch # <<>>
        /\ UNCHANGED <<world, recent, scanner, proposalCh, channelOpen, processor, proposals,
                       dismissed, proposalRow, appRoute, decision, rediscovering, crossed,
                       discoveryFaults>>
    BY <1>7 DEF LeftoverProcesses
  <2>2. /\ head \in Sighting /\ Tail(leftover.ch) \in Seq(Sighting)
        /\ Len(Tail(leftover.ch)) <= ProposalChSize
    BY <1>1, <2>1, HeadTailProperties
  <2>3. p \in ProposalIds /\ head.sight \in RealSight /\ head.sight \in Sight
    BY <2>2, SightBounds DEF Sighting
  <2>4. next \in {"idle", "add", "reconcile"}
    BY DEF Sorted
  <2>5. made \in ProcessorJob /\ made.id = p /\ made.sight = head.sight
    BY <2>3, <2>4 DEF ProcessorJob
  <2> HIDE DEF head, p, next, made
  <2>6. /\ now \in ProcessorJob /\ known \in SUBSET ProposalIds
        /\ now.pc # "idle" => now.id \in ProposalIds /\ now.sight \in RealSight
    BY <1>1, <1>2, <2>3, <2>5 DEF Leftover
  <2> HIDE DEF now, known
  <2>7. l \in Leftover /\ l.ch = Tail(leftover.ch) /\ l.job = now
    BY <1>1, <2>2, <2>6 DEF Leftover
  <2> HIDE DEF l
  <2>8. LeftoverFits(l)
    <3>1. Len(l.ch) <= ProposalChSize
      BY ONLY <2>2, <2>7, Zenon
    <3>2. l.job.pc # "idle" => l.job.id \in ProposalIds /\ l.job.sight \in RealSight
      BY ONLY <2>6, <2>7, Zenon
    <3> QED BY ONLY <2>7, <3>1, <3>2, Zenon DEF LeftoverFits
  <2>9. /\ appRoute' \in Sight /\ discoveryFaults' \in 0..MaxDiscoveryFaults
        /\ proposalRow' \in [ProposalIds -> Sight] /\ proposalRow' = proposalRow
        /\ crossed' = crossed /\ crossed' \subseteq ProposalIds
    BY <1>1, <1>5, <2>1
  <2> QED BY <1>4, <2>1, <2>8, <2>9
<1>8. ASSUME NEW ok \in BOOLEAN, LeftoverAdds(ok) PROVE DiscoveryIInv'
  <2> DEFINE p == job.id
             l == [leftover EXCEPT !.job = NoJob]
  <2>1. /\ p \in ProposalIds /\ job.sight \in Sight /\ job.sight # NoSight
        /\ discoveryFaults' \in 0..MaxDiscoveryFaults /\ LeftoverIs(l)
        /\ proposalRow' = IF ok THEN [proposalRow EXCEPT ![p] = job.sight] ELSE proposalRow
        /\ crossed' = IF ok /\ p \in dismissed THEN crossed \cup {p} ELSE crossed
        /\ UNCHANGED <<world, recent, scanner, proposalCh, channelOpen, processor, proposals,
                       dismissed, appRoute, decision, rediscovering>>
    BY <1>1, <1>3, <1>8, SightBounds DEF LeftoverAdds
  <2>2. /\ proposalRow' \in [ProposalIds -> Sight]
        /\ \A q \in ProposalIds : /\ proposalRow[q] # NoSight => proposalRow'[q] # NoSight
                                  /\ proposalRow'[q] = proposalRow[q]
                                     \/ q \notin dismissed \/ q \in crossed'
        /\ crossed \subseteq crossed' /\ crossed' \subseteq ProposalIds
    BY <1>1, <1>5, <2>1
  <2>3. LeftoverFits(l) /\ appRoute' = appRoute /\ appRoute \in Sight
    BY <1>1, <1>2, <1>6, <2>1 DEF LeftoverFits
  <2> HIDE DEF l
  <2> QED BY <1>4, <2>1, <2>2, <2>3
<1>9. ASSUME NEW ok \in BOOLEAN, LeftoverReconciles(ok) PROVE DiscoveryIInv'
  <2> DEFINE l(j) == [leftover EXCEPT !.job = j]
  <2>1. /\ discoveryFaults' \in 0..MaxDiscoveryFaults /\ appRoute' \in Sight
        /\ \E j \in {NoJob, [job EXCEPT !.pc = "upsert"]} :
              LeftoverIs(l(j)) /\ (j # NoJob => job.pc = "reconcile")
        /\ UNCHANGED <<world, recent, scanner, proposalCh, channelOpen, processor, proposals,
                       dismissed, proposalRow, decision, rediscovering, crossed>>
    BY <1>1, <1>3, <1>9 DEF LeftoverReconciles, ProcessorJob
  <2>2. PICK j \in {NoJob, [job EXCEPT !.pc = "upsert"]} :
              LeftoverIs(l(j)) /\ (j # NoJob => job.pc = "reconcile")
    BY <2>1
  <2>3. /\ j \in ProcessorJob
        /\ j.pc # "idle" => j.id \in ProposalIds /\ j.sight \in RealSight
    <3>1. CASE j = NoJob
      BY <1>2, <3>1
    <3>2. CASE j # NoJob
      BY <1>1, <2>2, <3>2 DEF ProcessorJob
    <3> QED BY <3>1, <3>2
  <2>4. l(j) \in Leftover /\ l(j).job = j /\ l(j).ch = leftover.ch
    BY <1>1, <2>3 DEF Leftover
  <2> HIDE DEF l
  <2>5. LeftoverFits(l(j))
    BY <1>1, <2>3, <2>4 DEF LeftoverFits
  <2>6. /\ proposalRow' \in [ProposalIds -> Sight] /\ proposalRow' = proposalRow
        /\ crossed' = crossed /\ crossed' \subseteq ProposalIds
    BY <1>1, <1>5, <2>1
  <2> QED BY <1>4, <2>1, <2>2, <2>5, <2>6
<1> QED BY <1>7, <1>8, <1>9

(* A manager that knows nothing has nothing wrong. *)
LEMMA NewManagersAreSafe ==
    ASSUME DiscoveryIInv, DiscoveryReload \/ DiscoveryRestart
    PROVE  DiscoveryIInv'
<1>1. /\ NewDiscoveryManager /\ Works(FALSE)
      /\ \/ UNCHANGED <<decision, rediscovering>>
         \/ decision' = NoJob /\ rediscovering' = FALSE
      /\ UNCHANGED <<world, proposalRow, appRoute>>
  BY DEF DiscoveryReload, DiscoveryRestart
<1>2. /\ recent' = {} /\ scanner' = 0 /\ proposalCh' = <<>> /\ processor' = NoJob
      /\ proposals' = {} /\ dismissed' = {} /\ crossed' = {}
  BY <1>1 DEF NewDiscoveryManager
<1>3. discoveryFaults' \in 0..MaxDiscoveryFaults
  BY <1>1, DiscoveryAssumption DEF Works, DiscoveryIInv, DiscoveryTypeOK
<1>j. NoJob.pc = "idle" /\ NoJob \in ProcessorJob /\ NoJob \in DecisionJob
  BY SightBounds DEF NoJob, ProcessorJob, DecisionJob
<1>l. /\ leftover' \in Leftover /\ Len(leftover'.ch) <= ProposalChSize
      /\ leftover'.proposals \cup leftover'.dismissed \subseteq ProposalIds
      /\ leftover'.job.pc # "idle" =>
           leftover'.job.id \in ProposalIds /\ leftover'.job.sight \in RealSight
  <2>1. CASE DiscoveryReload
    <3> DEFINE l == [ch |-> proposalCh, job |-> processor, proposals |-> proposals,
                     dismissed |-> dismissed]
    <3>1. LeftoverIs(l)
      BY <2>1 DEF DiscoveryReload
    <3>2. l \in Leftover
      BY DEF DiscoveryIInv, DiscoveryTypeOK, SightsAreReal, WorkIsTyped, Leftover
    <3>3. /\ Len(l.ch) <= ProposalChSize
          /\ l.job.pc # "idle" => l.job.id \in ProposalIds /\ l.job.sight \in RealSight
      BY DEF DiscoveryIInv, DiscoveryTypeOK, WorkIsTyped
    <3> HIDE DEF l
    <3>4. LeftoverFits(l)
      BY ONLY <3>2, <3>3, Zenon DEF LeftoverFits
    <3>5. LeftoverFits(leftover')
      BY <3>1, <3>4, LeftoverStaysTyped
    <3> QED BY <3>5 DEF LeftoverFits, Leftover
  <2>2. CASE leftover' = NoLeftover
    <3>1. NoLeftover \in Leftover /\ NoLeftover.job = NoJob /\ Len(NoLeftover.ch) = 0
          /\ NoLeftover.proposals \cup NoLeftover.dismissed = {}
      BY <1>j DEF NoLeftover, Leftover
    <3> QED BY <1>j, <2>2, <3>1, DiscoveryAssumption
  <2> QED BY <2>1, <2>2 DEF DiscoveryRestart
<1>4. DiscoveryTypeOK' /\ SightsAreReal'
  BY <1>1, <1>2, <1>3, <1>l, DiscoveryAssumption
  DEF DiscoveryIInv, DiscoveryTypeOK, SightsAreReal
<1>5. WorkIsTyped' /\ rediscovering' \in BOOLEAN
  BY <1>j, <1>l, <1>1, <1>2 DEF DiscoveryIInv, WorkIsTyped
<1> QED BY <1>2, <1>4, <1>5
     DEF DiscoveryIInv, DismissedStaysOut, ActiveHasRow, RediscoveryMarks

(* Every step of the workers, the processor and the users keeps the          *)
(* invariant.                                                                *)
LEMMA DiscoveryIInvInductive == DiscoveryIInv /\ [DiscoveryNext]_discoveryVars => DiscoveryIInv'
<1> SUFFICES ASSUME DiscoveryIInv, [DiscoveryNext]_discoveryVars PROVE DiscoveryIInv'
  OBVIOUS
<1>1. CASE UNCHANGED discoveryVars
  BY <1>1, ElsewhereIsSafe
  DEF discoveryVars, DiscoveryIInv, DiscoveryTypeOK, SightsAreReal
<1>2. ASSUME NEW first \in BOOLEAN, ScanFails(first)
      PROVE  DiscoveryIInv'
  <2>1. DiscoveryTypeOK' /\ SightsAreReal'
    BY <1>2, DiscoveryAssumption
    DEF ScanFails, DiscoveryIInv, DiscoveryTypeOK, SightsAreReal
  <2> QED BY <1>2, <2>1, ElsewhereIsSafe DEF ScanFails
<1>3. CASE RouteRemoved \/ DiscoveryStop
  <2>1. DiscoveryTypeOK' /\ SightsAreReal'
    BY <1>3, SightBounds DEF RouteRemoved, DiscoveryStop, DiscoveryIInv, DiscoveryTypeOK,
       SightsAreReal
  <2> QED BY <1>3, <2>1, ElsewhereIsSafe DEF RouteRemoved, DiscoveryStop
<1> QED BY <1>1, <1>2, <1>3, WorkersAreSafe, ProcessorIsSafe, DecisionsAreSafe,
     RediscoveryIsSafe, NewManagersAreSafe, LeftoverIsSafe DEF DiscoveryNext

(* The types of discovery, for any proposals, channel, moves and faults. *)
THEOREM DiscoveryTypeCorrect == DiscoverySpec => []DiscoveryTypeOK
<1>1. DiscoveryIInv => DiscoveryTypeOK
  BY DEF DiscoveryIInv
<1> QED BY <1>1, DiscoveryInitIsSafe, DiscoveryIInvInductive, PTL DEF DiscoverySpec

(* The maps and the rows agree on every proposal nobody works on, under any  *)
(* interleaving of scans, decisions, rediscoveries, reloads and restarts:    *)
(* ActiveIsListed in every state.                                            *)
THEOREM ActiveIsListedHolds == DiscoverySpec => []ActiveIsListed
<1>1. DiscoveryIInv => ActiveIsListed
  BY DEF DiscoveryIInv, ActiveIsListed, DismissedStaysOut, ActiveHasRow, Adding,
         Forgetting
<1> QED BY <1>1, DiscoveryInitIsSafe, DiscoveryIInvInductive, PTL DEF DiscoverySpec
-----------------------------------------------------------------------------
(* What a scan proposes. *)

NetworkSettings == [include : Lists, exclude : SUBSET Networks,
                    mode : {"all", "first", "preferred"}]

WorkersIInv == WorkersTypeOK /\ settings \in NetworkSettings /\ ProposalsAreAllowed

(* The fields of a container that a scan comes across. *)
LEMMA ContainerFields ==
    ASSUME NEW c \in Containers
    PROVE  /\ c.kind = "container" /\ c.nets \subseteq Networks
           /\ c.enable \in {"none", "false"}
           /\ c.self \in BOOLEAN /\ c.skip \in BOOLEAN /\ c.test \in BOOLEAN
           /\ c.infra \in BOOLEAN /\ c.valid \in BOOLEAN
           /\ c.primary \in {0, OtherPort}
           /\ \A p \in MergePorts(c) : p.private \in {HttpPort, OtherPort, NonHTTPPort}
<1>1. /\ c.kind = "container" /\ c.nets \subseteq Networks
      /\ c.enable \in {"none", "false"}
      /\ c.self \in BOOLEAN /\ c.skip \in BOOLEAN /\ c.test \in BOOLEAN
      /\ c.infra \in BOOLEAN /\ c.valid \in BOOLEAN
      /\ c.primary \in {0, OtherPort}
  BY DEF Containers
<1>2. c.exposed \subseteq {HttpPort, NonHTTPPort}
  BY DEF Containers
<1>3. c.mapped \subseteq Published
  <2>1. c.mapped \in {{}} \cup {{p} : p \in Published}
    BY DEF Containers
  <2> QED BY <2>1
<1>4. \A p \in Published : p.private \in {HttpPort, OtherPort}
  BY DEF Published
<1>5. ASSUME NEW p \in MergePorts(c)
      PROVE  p.private \in {HttpPort, OtherPort, NonHTTPPort}
  <2>1. CASE p \in c.mapped
    BY <2>1, <1>3, <1>4
  <2>2. CASE p \notin c.mapped
    <3>1. PICK e \in c.exposed : p = [private |-> e, public |-> 0]
      BY <2>2 DEF MergePorts
    <3> QED BY <3>1, <1>2
  <2> QED BY <2>1, <2>2
<1> QED BY <1>1, <1>5

(* A host is taken from the networks the lists leave, and in mode            *)
(* "preferred" none before it in the list is usable.                         *)
LEMMA HostsAreAllowed ==
    ASSUME settings \in NetworkSettings, NEW c \in Containers,
           NEW nets \in FilterNetworks(c), NEW host \in nets
    PROVE  /\ host \in c.nets /\ host \notin settings.exclude
           /\ settings.include # <<>> =>
                 \E k \in 1..Len(settings.include) : host = settings.include[k]
           /\ host \in Allowed(c)
           /\ settings.mode = "preferred" =>
                 \A k \in 1..Len(settings.include) :
                    /\ host = settings.include[k]
                    /\ \A j \in 1..k - 1 : settings.include[j] # host
                    => \A j \in 1..k - 1 : settings.include[j] \in settings.exclude
                                           \/ settings.include[j] \notin c.nets
<1> DEFINE include == settings.include
<1>1. host \in Allowed(c)
  BY DEF FilterNetworks, Preferred
<1>2. Len(include) \in 0..2
  <2>1. include \in Lists
    BY DEF NetworkSettings
  <2> QED BY <2>1 DEF Lists
<1>3. ASSUME settings.mode = "preferred", NEW k \in 1..Len(include), host = include[k],
             \A j \in 1..k - 1 : include[j] # host, NEW j \in 1..k - 1
      PROVE  include[j] \in settings.exclude \/ include[j] \notin c.nets
  <2>1. k \in 1..2 /\ j \in 1..Len(include) /\ 1 \in 1..Len(include) /\ j = 1
    BY <1>2, <1>3
  <2>2. SUFFICES include[1] \notin Allowed(c)
    BY <2>1 DEF Allowed
  <2>3. ASSUME include[1] \in Allowed(c)
        PROVE  FALSE
    <3>1. include[1] \in Preferred(c)
      BY <2>1, <2>3 DEF Preferred
    <3>2. nets = Preferred(c)
      BY <3>1, <1>1, <1>3 DEF FilterNetworks
    <3>3. PICK i \in 1..Len(include) :
             include[i] = host /\ \A l \in 1..i - 1 : include[l] \notin Allowed(c)
      BY <3>2 DEF Preferred
    <3>4. i # 1
      BY <3>3, <1>3, <2>1
    <3> QED BY <3>3, <3>4, <2>3, <1>2
  <2> QED BY <2>3
<1> QED BY <1>1, <1>3 DEF Allowed

(* Only mode "all" leaves more than one network to choose from. *)
LEMMA OtherModesLeaveOne ==
    ASSUME settings \in NetworkSettings, NEW c \in Containers, settings.mode # "all",
           NEW nets \in FilterNetworks(c), NEW probed \in nets, NEW host \in nets
    PROVE  host = probed
<1> DEFINE include == settings.include
<1>1. CASE Allowed(c) # {} /\ settings.mode = "preferred" /\ Preferred(c) # {}
  <2>1. nets = Preferred(c)
    BY <1>1 DEF FilterNetworks
  <2>2. Len(include) \in 0..2
    <3>1. include \in Lists
      BY DEF NetworkSettings
    <3> QED BY <3>1 DEF Lists
  <2>3. PICK i \in 1..Len(include) :
          include[i] = host /\ \A l \in 1..i - 1 : include[l] \notin Allowed(c)
    BY <2>1 DEF Preferred
  <2>4. PICK j \in 1..Len(include) :
          include[j] = probed /\ \A l \in 1..j - 1 : include[l] \notin Allowed(c)
    BY <2>1 DEF Preferred
  <2>5. host \in Allowed(c) /\ probed \in Allowed(c)
    BY <2>1 DEF Preferred
  <2>6. ~(i \in 1..j - 1) /\ ~(j \in 1..i - 1)
    BY <2>3, <2>4, <2>5
  <2>7. i = j
    BY <2>2, <2>6
  <2> QED BY <2>3, <2>4, <2>7
<1>2. CASE ~(Allowed(c) # {} /\ settings.mode = "preferred" /\ Preferred(c) # {})
  <2>1. Allowed(c) # {}
    <3>1. Allowed(c) = {} => Preferred(c) = {}
      BY DEF Preferred
    <3>2. Allowed(c) = {} => FilterNetworks(c) = {Allowed(c)}
      BY <3>1 DEF FilterNetworks
    <3> QED BY ONLY <3>2, nets \in FilterNetworks(c), host \in nets
  <2>2. nets \in {{n} : n \in Allowed(c)}
    BY <1>2, <2>1 DEF FilterNetworks
  <2> QED BY ONLY <2>2
<1> QED BY <1>1, <1>2

(* A container that is proposed is allowed to be. *)
LEMMA ContainersAreAllowed ==
    ASSUME WorkersIInv, ProcessContainer
    PROVE  WorkersIInv'
<1>1. /\ seen \in Containers /\ ~Skips(seen) /\ UNCHANGED <<seen, settings>>
      /\ settings \in NetworkSettings
  <2>1. seen \in Containers \cup Services \cup Ingresses /\ seen.kind = "container"
    BY DEF WorkersIInv, WorkersTypeOK, ProcessContainer
  <2>2. \A s \in Services \cup Ingresses : s.kind # "container"
    BY DEF Services, Ingresses
  <2> QED BY <2>1, <2>2 DEF ProcessContainer, WorkersIInv
<1>2. PICK nets \in FilterNetworks(seen) :
         \E probed, host \in nets : \E p \in FilterPorts(seen, probed) :
           scan' = [outcome |-> "proposed", probed |-> probed, host |-> host, port |-> p.private]
  BY DEF ProcessContainer
<1>3. PICK probed \in nets, host \in nets : \E p \in FilterPorts(seen, probed) :
       scan' = [outcome |-> "proposed", probed |-> probed, host |-> host, port |-> p.private]
  BY <1>2
<1>4. PICK p \in FilterPorts(seen, probed) :
         scan' = [outcome |-> "proposed", probed |-> probed, host |-> host, port |-> p.private]
  BY <1>3
<1>5. probed \in seen.nets /\ host \in seen.nets
  BY <1>1, HostsAreAllowed
<1>6. /\ p \in MergePorts(seen) /\ (seen.primary # 0 => p.private = seen.primary)
      /\ seen.primary = 0 /\ ~seen.allPorts => probed \in seen.answers
  BY DEF FilterPorts
<1>7. p.private \in {0, HttpPort, OtherPort, NonHTTPPort} /\ seen.nets \subseteq Networks
  BY <1>1, <1>6, ContainerFields
<1>8. WorkersTypeOK'
  BY <1>1, <1>4, <1>5, <1>7 DEF WorkersIInv, WorkersTypeOK
<1>9. /\ seen.kind = "container" /\ seen.enable # "false" /\ ~seen.self /\ (seen.skip => seen.test)
  BY <1>1, ContainerFields DEF Skips, IsSystemContainer
<1>10. ProposalsAreAllowed'
  <2>1. /\ scan'.outcome = "proposed" /\ scan'.host = host /\ scan'.port = p.private
        /\ scan'.probed = probed
    BY <1>4
  <2>2. HostIsAllowed'
    BY <1>1, <2>1, HostsAreAllowed DEF HostIsAllowed
  <2>3. HostWasProbed'
    <3>1. Allowed(seen)' = Allowed(seen)
      BY <1>1 DEF Allowed
    <3>2. probed \in Allowed(seen)
      BY <1>1, HostsAreAllowed
    <3>3. host # probed => settings.mode = "all"
      BY <1>1, OtherModesLeaveOne
    <3> QED BY <1>1, <1>6, <2>1, <3>1, <3>2, <3>3 DEF HostWasProbed
  <2> QED BY <1>1, <1>6, <1>9, <2>1, <2>2, <2>3 DEF ProposalsAreAllowed
<1> QED BY <1>1, <1>8, <1>10 DEF WorkersIInv

(* Nothing is proposed of a container that is skipped. *)
LEMMA SkippedIsSafe ==
    ASSUME WorkersIInv, SkipContainer
    PROVE  WorkersIInv'
<1>1. /\ scan' = [NoProposal EXCEPT !.outcome = "skipped"] /\ UNCHANGED <<seen, settings>>
      /\ seen.kind = "container"
  BY DEF SkipContainer
<1>2. /\ scan' \in [outcome : {"seen", "skipped", "proposed"}, probed : Networks \cup {"none"},
                    host : Networks \cup {"none"}, port : {0, HttpPort, OtherPort, NonHTTPPort}]
      /\ scan'.outcome = "skipped"
  BY <1>1 DEF NoProposal
<1> QED BY <1>1, <1>2 DEF WorkersIInv, WorkersTypeOK, ProposalsAreAllowed

(* A service or an ingress that is proposed is allowed to be, and one that   *)
(* was asked for is not skipped.                                             *)
LEMMA ServicesAreAllowed ==
    ASSUME WorkersIInv, ProcessService \/ ProcessIngress
    PROVE  WorkersIInv'
<1>1. PICK proposed \in BOOLEAN :
        /\ scan' = [NoProposal EXCEPT !.outcome = IF proposed THEN "proposed" ELSE "skipped"]
        /\ \/ seen.kind = "service" /\ (proposed <=> IsEnabled(seen) /\ ~seen.headless)
           \/ seen.kind = "ingress" /\ (proposed <=> IsIngressEnabled(seen) /\ seen.backend)
        /\ UNCHANGED <<seen, settings>>
  <2>1. CASE ProcessService
    <3> DEFINE b == IF IsEnabled(seen) /\ ~seen.headless THEN TRUE ELSE FALSE
    <3>1. b \in BOOLEAN
      OBVIOUS
    <3> QED BY <3>1, <2>1 DEF ProcessService
  <2>2. CASE ProcessIngress
    <3> DEFINE b == IF IsIngressEnabled(seen) /\ seen.backend THEN TRUE ELSE FALSE
    <3>1. b \in BOOLEAN
      OBVIOUS
    <3> QED BY <3>1, <2>2 DEF ProcessIngress
  <2> QED BY <2>1, <2>2
<1>2. /\ scan' \in [outcome : {"seen", "skipped", "proposed"}, probed : Networks \cup {"none"},
                    host : Networks \cup {"none"}, port : {0, HttpPort, OtherPort, NonHTTPPort}]
      /\ scan'.outcome = IF proposed THEN "proposed" ELSE "skipped"
  BY <1>1 DEF NoProposal
<1>3. WorkersTypeOK'
  BY <1>1, <1>2 DEF WorkersIInv, WorkersTypeOK
<1>4. CASE seen.kind = "service"
  <2>1. proposed <=> IsEnabled(seen) /\ ~seen.headless
    BY <1>1, <1>4
  <2>2. seen.enable = "true" => IsEnabled(seen)
    BY DEF IsEnabled, NamespaceEnable
  <2>s. seen.nsEnable \in Setting /\ seen.cached \in BOOLEAN
    <3>1. seen \in Services
      BY <1>4 DEF WorkersIInv, WorkersTypeOK, Containers, Ingresses
    <3> QED BY <3>1 DEF Services
  <2>3. IsEnabled(seen) => seen.enable # "false"
    <3>1. NamespaceEnable(seen) \in Setting
      BY <2>s DEF NamespaceEnable, Setting
    <3> QED BY <3>1 DEF IsEnabled, Setting
  <2>4. IsEnabled(seen) /\ seen.systemNs =>
           seen.enable = "true" \/ (seen.cached /\ seen.nsEnable = "true")
    BY DEF IsEnabled, NamespaceEnable, Inferred
  <2>5. IsEnabled(seen) => (seen.nsEnable = "false" => seen.enable = "true" \/ ~seen.cached)
    BY DEF IsEnabled, NamespaceEnable
  <2>6. IsEnabled(seen) => ServiceIsNotOff
    BY <2>3, <2>4, <2>5 DEF ServiceIsNotOff
  <2>7. ServiceIsNotOff' <=> ServiceIsNotOff
    BY <1>1 DEF ServiceIsNotOff
  <2>8. ProposalsAreAllowed'
    BY <1>1, <1>2, <1>4, <2>1, <2>2, <2>6, <2>7 DEF ProposalsAreAllowed
  <2> QED BY <1>1, <1>3, <2>8 DEF WorkersIInv
<1>5. CASE seen.kind = "ingress"
  <2>1. ProposalsAreAllowed'
    BY <1>1, <1>2, <1>5 DEF ProposalsAreAllowed, IngressIsNotOff, IsIngressEnabled
  <2> QED BY <1>1, <1>3, <2>1 DEF WorkersIInv
<1> QED BY <1>1, <1>4, <1>5

(* The invariant holds of what is seen, and of what is made of it. *)
LEMMA WorkersIInvInductive ==
    /\ WorkersInit => WorkersIInv
    /\ WorkersIInv /\ [WorkersNext]_workerVars => WorkersIInv'
<1>1. ASSUME WorkersInit PROVE WorkersIInv
  <2>1. scan = NoProposal /\ scan.outcome = "seen"
    BY <1>1 DEF WorkersInit, NoProposal
  <2>2. scan \in [outcome : {"seen", "skipped", "proposed"}, probed : Networks \cup {"none"},
                  host : Networks \cup {"none"}, port : {0, HttpPort, OtherPort, NonHTTPPort}]
    BY <2>1 DEF NoProposal
  <2>3. settings \in NetworkSettings /\ seen \in Containers \cup Services \cup Ingresses
    BY <1>1 DEF WorkersInit, NetworkSettings, Lists
  <2> QED BY <2>1, <2>2, <2>3 DEF WorkersIInv, WorkersTypeOK, ProposalsAreAllowed
<1>2. ASSUME WorkersIInv, UNCHANGED workerVars PROVE WorkersIInv'
  BY <1>2 DEF workerVars, WorkersIInv, WorkersTypeOK, ProposalsAreAllowed, HostIsAllowed,
              HostWasProbed, Allowed, ServiceIsNotOff, IngressIsNotOff
<1> QED BY <1>1, <1>2, ContainersAreAllowed, SkippedIsSafe, ServicesAreAllowed
DEF WorkersNext

(* The types of a scan, for any networks and ports. *)
THEOREM WorkersTypeCorrect == WorkersSpec => []WorkersTypeOK
<1>1. WorkersIInv => WorkersTypeOK
  BY DEF WorkersIInv
<1> QED BY <1>1, WorkersIInvInductive, PTL DEF WorkersSpec

(* What is switched off where the code looks is never proposed, and a         *)
(* container is proposed for a network the lists allow, and in the modes that *)
(* leave one network for the one that was probed: ProposalsAreAllowed in      *)
(* every state, for any networks and ports.                                   *)
THEOREM ProposalsAreAllowedHolds == WorkersSpec => []ProposalsAreAllowed
<1>1. WorkersIInv => ProposalsAreAllowed
  BY DEF WorkersIInv
<1> QED BY <1>1, WorkersIInvInductive, PTL DEF WorkersSpec
-----------------------------------------------------------------------------
(* Backups. *)

MakerState == [pc : {"idle", "reading", "saving", "saved", "cleaning"}, id : 0..MaxBackups,
               table : 1..3, victims : Seq(BackupIds)]
RestoreState == [pc : {"none", "saving", "ok", "failed"}, id : 0..MaxBackups, table : 1..3,
                 todo : SUBSET TableItems, missed : SUBSET (Tables \X TableItems)]

BackupWorkIsTyped == maker \in [Makers -> MakerState] /\ restore \in RestoreState

(* A file belongs to a snapshot that was begun, a whole one to a saved one.  *)
FilesAreBegun ==
    /\ \A b \in BackupIds : backupFile[b] # "absent" => b <= lastBackup
    /\ \A b \in BackupIds : backupFile[b] = "valid" => b \in saved

(* Who makes a backup works on a number of its own that nobody has saved.    *)
Making(m) == maker[m].pc \in {"reading", "saving"}
NumbersAreOwn ==
    \A m \in Makers : Making(m) =>
        /\ maker[m].id \in 1..lastBackup /\ maker[m].id \notin saved
        /\ \A n \in Makers \ {m} : Making(n) => maker[n].id # maker[m].id

Newer(b) == {c \in saved : c > b}

(* The retention policy is about to delete what Retention newer ones cover.  *)
VictimsMayGo ==
    \A k \in 1..Len(maker["scheduler"].victims) :
        Cardinality(Newer(maker["scheduler"].victims[k])) >= Retention

(* Row i of the snapshot is back, or somebody else deleted it since. *)
Restored(t, i) == i \in tables[t] \/ <<t, i>> \in restore.missed

(* A restore is of a saved snapshot, and the tables before the one it saves  *)
(* are back, and the rows of that one that are not left to do.               *)
RestoreIsUnderWay ==
    restore.pc \in {"saving", "ok"} =>
        /\ restore.id \in saved
        /\ \A j \in 1..3 : \A i \in snapshots[restore.id][TableNames[j]] :
              restore.pc = "ok" \/ j < restore.table
              \/ (j = restore.table /\ i \notin restore.todo)
              => Restored(TableNames[j], i)

BackupIInv ==
    /\ BackupTypeOK /\ BackupWorkIsTyped /\ FilesAreBegun /\ NumbersAreOwn
    /\ VictimsMayGo /\ NewestAreKept /\ RestoreIsUnderWay

(* The tables by number. *)
LEMMA TablesAreThree ==
    /\ Tables = {"apps", "routes", "devices"}
    /\ TableNames[1] = "apps" /\ TableNames[2] = "routes" /\ TableNames[3] = "devices"
    /\ \A j \in 1..3 : TableNames[j] \in Tables
<1>1. /\ TableNames[1] = "apps" /\ TableNames[2] = "routes" /\ TableNames[3] = "devices"
      /\ 1..3 = {1, 2, 3}
  BY DEF TableNames
<1>2. Tables = {TableNames[t] : t \in {1, 2, 3}}
  BY <1>1 DEF Tables
<1> QED BY <1>1, <1>2

(* Backups are numbered. *)
LEMMA BackupIdsAreNumbers == IsFiniteSet(BackupIds) /\ BackupIds \subseteq Nat
<1>1. IsFiniteSet(1..MaxBackups)
  BY BackupAssumption, FS_Interval
<1> QED BY <1>1 DEF BackupIds

(* Only so many snapshots are ever begun. *)
LEMMA SavedAreFinite ==
    ASSUME BackupTypeOK
    PROVE  /\ IsFiniteSet(saved) /\ saved \subseteq BackupIds
           /\ \A b \in BackupIds : Cardinality(Newer(b)) \in Nat
<1>1. saved \subseteq BackupIds /\ IsFiniteSet(BackupIds)
  BY BackupAssumption, FS_Interval DEF BackupTypeOK, BackupIds
<1>2. ASSUME NEW T \in SUBSET saved PROVE IsFiniteSet(T) /\ Cardinality(T) \in Nat
  <2>1. IsFiniteSet(T)
    BY <1>1, FS_Subset
  <2> QED BY <2>1, FS_CardinalityType
<1>3. \A b \in BackupIds : Newer(b) \subseteq saved
  BY DEF Newer
<1> QED BY <1>1, <1>2, <1>3

(* ListBackups finds every valid backup, the k-th of them with k valid ones  *)
(* that are no older than it.                                                *)
LEMMA ListIsRanked ==
    ASSUME NEW valid \in SUBSET BackupIds, NEW k \in 1..Cardinality(valid)
    PROVE  /\ Cardinality(valid) \in Nat
           /\ \E b \in valid : Cardinality({c \in valid : c >= b}) = k
<1> DEFINE rank(b) == Cardinality({c \in valid : c >= b})
           N == Cardinality(valid)
           f == [b \in valid |-> rank(b)]
<1>1. IsFiniteSet(valid) /\ valid \subseteq Nat
  BY BackupIdsAreNumbers, FS_Subset
<1>2. N \in Nat
  BY <1>1, FS_CardinalityType
<1>3. ASSUME NEW b \in valid
      PROVE  rank(b) \in 1..N
  <2> DEFINE S == {c \in valid : c >= b}
  <2>1. IsFiniteSet(S) /\ Cardinality(S) <= N /\ Cardinality(S) \in Nat
    BY <1>1, FS_Subset, FS_CardinalityType
  <2>2. S # {}
    <3>1. b >= b
      BY <1>1
    <3> QED BY <3>1
  <2>3. Cardinality(S) # 0
    BY <2>1, <2>2, FS_EmptySet
  <2> QED BY <1>2, <2>1, <2>3
<1>4. ASSUME NEW b \in valid, NEW c \in valid, b < c
      PROVE  rank(b) # rank(c)
  <2> DEFINE S == {x \in valid : x >= b}
             T == {x \in valid : x >= c}
  <2>1. T \subseteq S /\ b \in S /\ b \notin T
    <3>1. b \in Nat /\ c \in Nat
      BY <1>1
    <3>2. \A x \in valid : x >= c => x >= b
      BY <1>1, <1>4, <3>1
    <3>3. b >= b /\ ~(b >= c)
      BY <1>4, <3>1
    <3> QED BY <3>2, <3>3
  <2>2. IsFiniteSet(S)
    BY <1>1, FS_Subset
  <2>3. Cardinality(S) # Cardinality(T)
    BY <2>1, <2>2, FS_Subset
  <2> QED BY <2>3
<1>5. f \in Injection(valid, 1..N)
  <2>1. f \in [valid -> 1..N]
    BY <1>3
  <2>2. ASSUME NEW b \in valid, NEW c \in valid, f[b] = f[c]
        PROVE  b = c
    <3>1. rank(b) = rank(c)
      BY <2>2
    <3>2. ~(b < c) /\ ~(c < b)
      BY <3>1, <1>4
    <3> HIDE DEF rank
    <3> QED BY <3>2, <1>1
  <2> HIDE DEF f, N
  <2>3. \A b, c \in valid : f[b] = f[c] => b = c
    BY <2>2
  <2> QED BY <2>1, <2>3 DEF Injection, IsInjective
<1>6. IsFiniteSet(1..N) /\ Cardinality(1..N) = N
  <2> HIDE DEF N
  <2>1. IsFiniteSet(1..N) /\ Cardinality(1..N) = IF 1 > N THEN 0 ELSE N - 1 + 1
    BY <1>2, FS_Interval
  <2> QED BY <1>2, <2>1
<1>7. f \in Surjection(valid, 1..N)
  <2> HIDE DEF f
  <2>1. Cardinality(valid) = Cardinality(1..N)
    BY <1>6
  <2> HIDE DEF N
  <2> QED BY <1>5, <1>6, <2>1, FS_Injection
<1>8. \E b \in valid : f[b] = k
  <2> HIDE DEF f
  <2> QED BY <1>7 DEF Surjection
<1> QED BY <1>2, <1>8

(* Whatever CleanupOldBackups is given, Retention newer backups were saved. *)
LEMMA VictimsAreOld ==
    ASSUME BackupTypeOK, FilesAreBegun
    PROVE  /\ Victims \in Seq(BackupIds)
           /\ \A k \in 1..Len(Victims) : Cardinality(Newer(Victims[k])) >= Retention
<1> DEFINE valid == {b \in BackupIds : backupFile[b] = "valid"}
           N == Cardinality(valid)
           list == ListBackups
<1>1. valid \in SUBSET BackupIds /\ valid \subseteq saved /\ IsFiniteSet(valid)
  BY BackupIdsAreNumbers, FS_Subset DEF FilesAreBegun
<1>2. N \in Nat
  BY <1>1, FS_CardinalityType
<1>3. list = [k \in 1..N |-> CHOOSE b \in valid : Cardinality({c \in valid : c >= b}) = k]
  BY DEF ListBackups
<1> HIDE DEF valid
<1>4. ASSUME NEW k \in 1..N
      PROVE  list[k] \in valid /\ Cardinality({c \in valid : c >= list[k]}) = k
  <2>1. \E b \in valid : Cardinality({c \in valid : c >= b}) = k
    BY <1>1, ListIsRanked
  <2>2. list[k] = CHOOSE b \in valid : Cardinality({c \in valid : c >= b}) = k
    BY <1>3
  <2> HIDE DEF list
  <2> QED BY <2>1, <2>2
<1>5. Len(list) = N
  BY <1>2, <1>3
<1>6. Victims = SubSeq(list, Retention + 1, N)
  BY <1>5 DEF Victims
<1> HIDE DEF list, N
<1>7. /\ Victims \in Seq(BackupIds)
      /\ Len(Victims) = IF Retention + 1 <= N THEN N - (Retention + 1) + 1 ELSE 0
      /\ \A i \in 1..N - (Retention + 1) + 1 : Victims[i] = list[Retention + 1 + i - 1]
  <2>1. \A i \in Retention + 1..N : list[i] \in BackupIds
    <3>1. \A i \in Retention + 1..N : i \in 1..N
      BY <1>2, BackupAssumption
    <3> QED BY <1>1, <1>4, <3>1
  <2> QED BY <1>2, <1>6, <2>1, BackupAssumption, SubSeqProperties
<1>8. ASSUME NEW k \in 1..Len(Victims)
      PROVE  Cardinality(Newer(Victims[k])) >= Retention
  <2> DEFINE v == list[Retention + k]
             newer == {c \in valid : c > v}
  <2>1. Retention + k \in 1..N /\ Victims[k] = v /\ k \in Nat /\ k >= 1
    BY <1>2, <1>7, BackupAssumption
  <2>2. v \in valid /\ Cardinality({c \in valid : c >= v}) = Retention + k
    BY <1>4, <2>1
  <2> HIDE DEF v
  <2>3. valid \subseteq Nat
    BY <1>1, BackupIdsAreNumbers
  <2>4. {c \in valid : c >= v} = newer \cup {v} /\ v \notin newer
    <3>1. v \in Nat
      BY <2>2, <2>3
    <3>2. \A c \in valid : c >= v <=> c > v \/ c = v
      BY <2>3, <3>1
    <3>3. {c \in valid : c >= v} = newer \cup {v}
      BY <2>2, <3>2
    <3>4. v \notin newer
      BY <3>1
    <3> QED BY <3>3, <3>4
  <2>5. IsFiniteSet(newer)
    BY <1>1, FS_Subset
  <2>6. Cardinality(newer) \in Nat /\ Cardinality(newer) + 1 = Retention + k
    BY <2>2, <2>4, <2>5, FS_AddElement, FS_CardinalityType
  <2>7. newer \subseteq Newer(v) /\ Newer(v) \subseteq saved
    BY <1>1 DEF Newer
  <2>8. Cardinality(newer) <= Cardinality(Newer(v)) /\ Cardinality(Newer(v)) \in Nat
    <3>1. IsFiniteSet(Newer(v)) /\ Cardinality(Newer(v)) \in Nat
      BY <2>7, SavedAreFinite, FS_Subset, FS_CardinalityType
    <3> QED BY <2>7, <3>1, FS_Subset
  <2> QED BY <2>1, <2>6, <2>8, BackupAssumption
<1> QED BY <1>7, <1>8

(* Only more backups are saved: what is covered stays covered. *)
LEMMA NewerGrows ==
    ASSUME BackupTypeOK, saved \subseteq saved', saved' \subseteq BackupIds, NEW b \in BackupIds,
           Cardinality(Newer(b)) >= Retention
    PROVE  Cardinality(Newer(b)') >= Retention
<1>1. Newer(b) \subseteq Newer(b)' /\ Newer(b)' \subseteq BackupIds
  BY DEF Newer
<1>2. IsFiniteSet(Newer(b)') /\ Cardinality(Newer(b)') \in Nat
  <2>1. IsFiniteSet(Newer(b)')
    BY <1>1, BackupIdsAreNumbers, FS_Subset
  <2> QED BY <2>1, FS_CardinalityType
<1>3. Cardinality(Newer(b)) <= Cardinality(Newer(b)') /\ Cardinality(Newer(b)) \in Nat
  BY <1>1, <1>2, FS_Subset, SavedAreFinite
<1> QED BY <1>2, <1>3, BackupAssumption

(* The same for every backup, when what is saved has its type. *)
LEMMA CoverageGrows ==
    ASSUME BackupIInv, BackupTypeOK', saved \subseteq saved'
    PROVE  \A b \in BackupIds : Cardinality(Newer(b)) >= Retention
                                => Cardinality(Newer(b)') >= Retention
<1>1. BackupTypeOK /\ saved' \subseteq BackupIds
  BY BackupAssumption DEF BackupIInv, BackupTypeOK, BackupIds
<1> QED BY <1>1, NewerGrows

(* A step that keeps the files and who makes backups. *)
LEMMA FilesAreSafe ==
    ASSUME BackupIInv, UNCHANGED <<fileVars, maker>>
    PROVE  FilesAreBegun' /\ NumbersAreOwn' /\ VictimsMayGo' /\ NewestAreKept'
BY DEF BackupIInv, fileVars, FilesAreBegun, NumbersAreOwn, Making, VictimsMayGo, Newer,
   NewestAreKept

(* A step of which the restore notices nothing. *)
LEMMA RestoreIsSafe ==
    ASSUME BackupIInv, UNCHANGED <<tables, restore>>, saved \subseteq saved',
           \A b \in saved : snapshots'[b] = snapshots[b]
    PROVE  RestoreIsUnderWay'
BY DEF BackupIInv, RestoreIsUnderWay, Restored

(* What a restore is doing, for any tables and any record of its own. *)
UnderWay(r, rows) ==
    r.pc \in {"saving", "ok"} =>
        /\ r.id \in saved
        /\ \A j \in 1..3 : \A i \in snapshots[r.id][TableNames[j]] :
              r.pc = "ok" \/ j < r.table \/ (j = r.table /\ i \notin r.todo)
              => i \in rows[TableNames[j]] \/ <<TableNames[j], i>> \in r.missed

(* A step of the restore or of the tables alone. *)
LEMMA OnlyRestoreMoves ==
    ASSUME BackupIInv, UNCHANGED <<fileVars, maker>>, BackupTypeOK',
           restore' \in RestoreState, UnderWay(restore', tables')
    PROVE  BackupIInv'
<1>1. RestoreIsUnderWay'
  BY DEF UnderWay, RestoreIsUnderWay, Restored, fileVars
<1>2. BackupWorkIsTyped'
  BY DEF BackupIInv, BackupWorkIsTyped
<1> QED BY <1>1, <1>2, FilesAreSafe DEF BackupIInv

(* The tables and the restore, as the steps use them. *)
LEMMA BackupFacts ==
    ASSUME BackupIInv
    PROVE  /\ restore \in RestoreState /\ UnderWay(restore, tables)
           /\ maker \in [Makers -> MakerState]
           /\ BackupTypeOK /\ FilesAreBegun /\ NumbersAreOwn /\ VictimsMayGo /\ NewestAreKept
BY DEF BackupIInv, BackupWorkIsTyped, RestoreIsUnderWay, Restored, UnderWay

(* Nothing was backed up at the start. *)
LEMMA BackupInitIsSafe == BackupInit => BackupIInv
<1> SUFFICES ASSUME BackupInit PROVE BackupIInv
  OBVIOUS
<1>1. IdleMaker \in MakerState /\ IdleMaker.pc = "idle" /\ Len(IdleMaker.victims) = 0
  BY BackupAssumption DEF IdleMaker, MakerState
<1>2. NoRestore \in RestoreState /\ NoRestore.pc = "none"
  BY BackupAssumption DEF NoRestore, RestoreState
<1>3. BackupTypeOK /\ BackupWorkIsTyped
  BY <1>1, <1>2, BackupAssumption
  DEF BackupInit, BackupTypeOK, BackupWorkIsTyped, EmptyTables, MakerState, RestoreState
<1>4. \A m \in Makers : maker[m] = IdleMaker
  BY DEF BackupInit
<1>5. VictimsMayGo /\ NumbersAreOwn
  BY <1>1, <1>4 DEF VictimsMayGo, NumbersAreOwn, Making, Makers
<1> QED BY <1>2, <1>3, <1>5
     DEF BackupInit, BackupIInv, FilesAreBegun, NewestAreKept, RestoreIsUnderWay

(* Somebody else saves a row: nothing that was restored gets lost. *)
LEMMA RowSavedIsSafe ==
    ASSUME BackupIInv, NEW t \in Tables, NEW i \in TableItems, NEW k \in BOOLEAN,
           RowSaved(t, i, k)
    PROVE  BackupIInv'
<1>1. /\ tables' = [tables EXCEPT ![t] = @ \cup {i}]
      /\ UNCHANGED <<fileVars, maker, backupLoop, restore, backupFaults>>
  BY DEF RowSaved, SaveRow, TableChange
<1>2. \A u \in Tables : tables[u] \subseteq tables'[u]
  BY <1>1, BackupFacts DEF BackupTypeOK
<1>3. BackupTypeOK'
  BY <1>1, BackupFacts DEF BackupTypeOK, fileVars
<1>4. UnderWay(restore', tables')
  BY <1>1, <1>2, BackupFacts, TablesAreThree DEF UnderWay
<1> QED BY <1>1, <1>3, <1>4, BackupFacts, OnlyRestoreMoves

(* Somebody else deletes a row, an app with its route perhaps: the restore   *)
(* no longer answers for it.                                                 *)
LEMMA RowDeletedIsSafe ==
    ASSUME BackupIInv, NEW t \in Tables, NEW i \in TableItems, NEW k \in BOOLEAN,
           RowDeleted(t, i, k)
    PROVE  BackupIInv'
<1> DEFINE gone == {<<u, i>> : u \in IF t = "apps" THEN {"apps", "routes"} ELSE {t}}
<1>1. /\ tables' = [u \in Tables |-> IF u = t \/ (t = "apps" /\ u = "routes" /\ k)
                                     THEN tables[u] \ {i} ELSE tables[u]]
      /\ restore' = IF restore.pc = "none" THEN restore
                    ELSE [restore EXCEPT !.missed = @ \cup gone]
      /\ UNCHANGED <<fileVars, maker, backupLoop, backupFaults>>
  BY DEF RowDeleted, TableChange
<1>2. gone \subseteq Tables \X TableItems
  BY TablesAreThree
<1>3. ASSUME NEW u \in Tables, NEW x \in tables[u], x \notin tables'[u]
      PROVE  <<u, x>> \in gone
  <2>1. x = i /\ (u = t \/ (t = "apps" /\ u = "routes"))
    BY <1>1, <1>3
  <2> QED BY <2>1
<1> HIDE DEF gone
<1>4. CASE restore.pc = "none"
  <2>1. restore' = restore
    BY <1>1, <1>4
  <2>2. BackupTypeOK'
    BY <1>1, <2>1, BackupFacts DEF BackupTypeOK, fileVars
  <2>3. UnderWay(restore', tables')
    BY <1>4, <2>1 DEF UnderWay
  <2> QED BY <1>1, <2>1, <2>2, <2>3, BackupFacts, OnlyRestoreMoves
<1>5. CASE restore.pc # "none"
  <2>1. restore' = [restore EXCEPT !.missed = @ \cup gone]
    BY <1>1, <1>5
  <2>2. restore' \in RestoreState
    BY <1>2, <2>1, BackupFacts DEF RestoreState
  <2>3. /\ restore'.pc = restore.pc /\ restore'.id = restore.id /\ restore'.table = restore.table
        /\ restore'.todo = restore.todo /\ restore'.missed = restore.missed \cup gone
    BY <2>1, BackupFacts DEF RestoreState
  <2>4. BackupTypeOK'
    BY <1>1, <2>3, BackupFacts DEF BackupTypeOK, fileVars
  <2>5. UnderWay(restore', tables')
    BY <1>3, <2>3, BackupFacts, TablesAreThree DEF UnderWay
  <2> QED BY <1>1, <2>2, <2>4, <2>5, OnlyRestoreMoves
<1> QED BY <1>4, <1>5

(* A restore begins, of a file that a user saw. *)
LEMMA RestoreBackupIsSafe ==
    ASSUME BackupIInv, NEW b \in BackupIds, RestoreBackup(b)
    PROVE  BackupIInv'
<1>1. /\ restore' = [NoRestore EXCEPT !.pc = "saving", !.id = b, !.todo = snapshots[b]["apps"]]
      /\ UNCHANGED <<tables, fileVars, maker, backupLoop, boundVars>>
      /\ b \in saved
  BY BackupFacts DEF RestoreBackup, FilesAreBegun
<1>2. snapshots[b]["apps"] \subseteq TableItems
  BY BackupFacts, TablesAreThree DEF BackupTypeOK
<1>3. /\ restore'.pc = "saving" /\ restore'.id = b /\ restore'.table = 1
      /\ restore'.todo = snapshots[b]["apps"]
  BY <1>1 DEF NoRestore
<1>4. restore' \in RestoreState
  <2>1. NoRestore \in RestoreState
    BY BackupAssumption DEF NoRestore, RestoreState
  <2>2. b \in 0..MaxBackups
    BY BackupAssumption DEF BackupIds
  <2> QED BY <1>1, <1>2, <2>1, <2>2 DEF RestoreState
<1>5. BackupTypeOK'
  BY <1>1, <1>3, BackupFacts DEF BackupTypeOK, fileVars, boundVars
<1>6. UnderWay(restore', tables')
  BY <1>1, <1>3, TablesAreThree DEF UnderWay
<1> QED BY <1>1, <1>4, <1>5, <1>6, OnlyRestoreMoves

(* A row is saved and taken off the list, or refused. *)
LEMMA RestoreRowIsSafe ==
    ASSUME BackupIInv, NEW i \in TableItems, NEW k \in BOOLEAN, RestoreRow(i, k)
    PROVE  BackupIInv'
<1> DEFINE t == TableNames[restore.table]
<1>1. restore \in RestoreState /\ restore.table \in 1..3 /\ t \in Tables
  BY BackupFacts, TablesAreThree DEF RestoreState
<1>2. restore.pc = "saving" /\ UNCHANGED <<fileVars, maker, backupLoop, boundVars>>
  BY DEF RestoreRow
<1>3. CASE RowFits(t, i, k)
  <2>1. /\ tables' = [tables EXCEPT ![t] = @ \cup {i}]
        /\ restore' = [restore EXCEPT !.todo = @ \ {i}, !.missed = @ \ {<<t, i>>}]
    BY <1>3 DEF RestoreRow, SaveRow
  <2> HIDE DEF t
  <2>2. restore' \in RestoreState
    BY <1>1, <2>1 DEF RestoreState
  <2>3. /\ restore'.pc = "saving" /\ restore'.id = restore.id /\ restore'.table = restore.table
        /\ restore'.todo = restore.todo \ {i} /\ restore'.missed = restore.missed \ {<<t, i>>}
    BY <1>1, <1>2, <2>1 DEF RestoreState
  <2>4. /\ \A u \in Tables : tables[u] \subseteq tables'[u]
        /\ i \in tables'[t] /\ tables' \in [Tables -> SUBSET TableItems]
    BY <1>1, <2>1, BackupFacts DEF BackupTypeOK
  <2>5. BackupTypeOK'
    BY <1>2, <2>3, <2>4, BackupFacts DEF BackupTypeOK, fileVars, boundVars
  <2>6. ASSUME NEW u \in Tables, NEW x \in TableItems
        PROVE  x \in tables[u] \/ <<u, x>> \in restore.missed
               => x \in tables'[u] \/ <<u, x>> \in restore'.missed
    <3>1. CASE <<u, x>> = <<t, i>>
      BY <3>1, <2>4
    <3>2. CASE <<u, x>> # <<t, i>>
      BY <3>2, <2>3, <2>4
    <3> QED BY <3>1, <3>2
  <2>7. ASSUME NEW j \in 1..3, NEW x \in snapshots[restore.id][TableNames[j]],
               j < restore'.table \/ (j = restore'.table /\ x \notin restore'.todo)
        PROVE  x \in tables'[TableNames[j]] \/ <<TableNames[j], x>> \in restore'.missed
    <3>1. x \in TableItems /\ TableNames[j] \in Tables
      <4>1. restore.id \in saved /\ saved \subseteq BackupIds
        BY <1>2, BackupFacts, SavedAreFinite DEF UnderWay
      <4> QED BY <4>1, BackupFacts, TablesAreThree DEF BackupTypeOK
    <3>2. CASE j = restore.table /\ x = i
      BY <3>2, <2>4 DEF t
    <3>3. CASE ~(j = restore.table /\ x = i)
      <4>1. x \in tables[TableNames[j]] \/ <<TableNames[j], x>> \in restore.missed
        BY <1>2, <2>3, <2>7, <3>3, BackupFacts DEF UnderWay
      <4> QED BY <3>1, <4>1, <2>6
    <3> QED BY <3>2, <3>3
  <2>8. UnderWay(restore', tables')
    BY <1>2, <2>3, <2>7, BackupFacts DEF UnderWay
  <2> QED BY <1>2, <2>2, <2>5, <2>8, OnlyRestoreMoves
<1>4. CASE ~RowFits(t, i, k)
  <2>1. restore' = [restore EXCEPT !.pc = "failed"] /\ UNCHANGED tables
    BY <1>4 DEF RestoreRow
  <2>2. restore' \in RestoreState /\ restore'.pc = "failed"
    BY <1>1, <2>1 DEF RestoreState
  <2>3. BackupTypeOK' /\ UnderWay(restore', tables')
    BY <1>2, <2>1, <2>2, BackupFacts DEF BackupTypeOK, fileVars, boundVars, UnderWay
  <2> QED BY <1>2, <2>2, <2>3, OnlyRestoreMoves
<1> QED BY <1>3, <1>4

(* A table is done, or the restore. *)
LEMMA TableDoneIsSafe ==
    ASSUME BackupIInv, RestoreTableDone
    PROVE  BackupIInv'
<1>1. /\ restore \in RestoreState /\ restore.pc = "saving" /\ restore.todo = {}
      /\ restore.table \in 1..3 /\ UNCHANGED <<tables, fileVars, maker, backupLoop, boundVars>>
  BY BackupFacts DEF RestoreTableDone, RestoreState
<1>2. ASSUME NEW j \in 1..3, j <= restore.table, NEW x \in snapshots[restore.id][TableNames[j]]
      PROVE  x \in tables[TableNames[j]] \/ <<TableNames[j], x>> \in restore.missed
  <2>1. j < restore.table \/ j = restore.table
    BY <1>1, <1>2
  <2> QED BY <1>1, <2>1, BackupFacts DEF UnderWay
<1>3. restore.id \in saved /\ restore.id \in BackupIds
  BY <1>1, BackupFacts, SavedAreFinite DEF UnderWay
<1>4. CASE restore.table = 3
  <2>1. restore' = [restore EXCEPT !.pc = "ok"]
    BY <1>4 DEF RestoreTableDone, NextTable
  <2>2. /\ restore' \in RestoreState /\ restore'.pc = "ok" /\ restore'.id = restore.id
        /\ restore'.missed = restore.missed
    BY <1>1, <2>1 DEF RestoreState
  <2>3. BackupTypeOK' /\ UnderWay(restore', tables')
    BY <1>1, <1>2, <1>3, <1>4, <2>2, BackupFacts
    DEF BackupTypeOK, fileVars, boundVars, UnderWay
  <2> QED BY <1>1, <2>2, <2>3, OnlyRestoreMoves
<1>5. CASE restore.table # 3
  <2> DEFINE next == restore.table + 1
             todo == snapshots[restore.id][TableNames[next]]
  <2>1. next \in 1..3 /\ todo \subseteq TableItems
    <3>1. next \in 1..3
      BY <1>1, <1>5
    <3> HIDE DEF next
    <3> QED BY <1>3, <3>1, BackupFacts, TablesAreThree DEF BackupTypeOK
  <2>2. restore' = [restore EXCEPT !.table = next, !.todo = todo]
    BY <1>5 DEF RestoreTableDone, NextTable
  <2> HIDE DEF todo
  <2>3. /\ restore' \in RestoreState /\ restore'.pc = "saving" /\ restore'.id = restore.id
        /\ restore'.missed = restore.missed /\ restore'.table = next /\ restore'.todo = todo
    BY <1>1, <2>1, <2>2 DEF RestoreState
  <2>4. \A j \in 1..3 : j < next => j <= restore.table
    BY <1>1
  <2> HIDE DEF next
  <2>5. UnderWay(restore', tables')
    BY <1>1, <1>2, <1>3, <2>3, <2>4 DEF UnderWay, todo
  <2>6. BackupTypeOK'
    BY <1>1, <2>3, BackupFacts DEF BackupTypeOK, fileVars, boundVars
  <2> QED BY <1>1, <2>3, <2>5, <2>6, OnlyRestoreMoves
<1> QED BY <1>4, <1>5

(* A restore that fails, or that was answered, promises nothing. *)
LEMMA RestoreEndIsSafe ==
    ASSUME BackupIInv, RestoreRowFails \/ RestoreAnswered
    PROVE  BackupIInv'
<1>1. /\ restore' \in RestoreState /\ restore'.pc \notin {"saving", "ok"}
      /\ UNCHANGED <<tables, fileVars, maker, backupLoop>> /\ backupFaults' \in 0..MaxBackupFaults
  <2>1. CASE RestoreRowFails
    BY <2>1, BackupFacts, BackupAssumption
    DEF RestoreRowFails, Fault, RestoreState, BackupTypeOK
  <2>2. CASE RestoreAnswered
    BY <2>2, BackupFacts, BackupAssumption
    DEF RestoreAnswered, NoRestore, RestoreState, BackupTypeOK, boundVars
  <2> QED BY <2>1, <2>2
<1>2. BackupTypeOK' /\ UnderWay(restore', tables')
  BY <1>1, BackupFacts DEF BackupTypeOK, fileVars, UnderWay, RestoreState
<1> QED BY <1>1, <1>2, OnlyRestoreMoves

(* A step of the makers that keeps the rows, the restore and the numbers.    *)
LEMMA OnlyMakersMove ==
    ASSUME BackupIInv, BackupTypeOK', maker' \in [Makers -> MakerState],
           UNCHANGED <<tables, restore>>, saved \subseteq saved',
           \A b \in saved : snapshots'[b] = snapshots[b],
           FilesAreBegun', NumbersAreOwn', VictimsMayGo', NewestAreKept'
    PROVE  BackupIInv'
<1>1. BackupWorkIsTyped'
  BY BackupFacts DEF BackupWorkIsTyped
<1> QED BY <1>1, RestoreIsSafe DEF BackupIInv

(* The victims of a scheduler whose list is as it was, or empty. *)
LEMMA VictimsStay ==
    ASSUME BackupIInv, BackupTypeOK', saved \subseteq saved',
           \/ maker'["scheduler"].victims = maker["scheduler"].victims
           \/ Len(maker'["scheduler"].victims) = 0
    PROVE  VictimsMayGo'
<1>1. maker["scheduler"].victims \in Seq(BackupIds)
  BY BackupFacts DEF MakerState, Makers
<1>2. ASSUME NEW k \in 1..Len(maker["scheduler"].victims)
      PROVE  Cardinality({c \in saved' : c > maker["scheduler"].victims[k]}) >= Retention
  <2>1. PICK v \in BackupIds : v = maker["scheduler"].victims[k]
    BY <1>1, <1>2
  <2>2. Cardinality(Newer(v)) >= Retention
    BY <1>2, <2>1, BackupFacts DEF VictimsMayGo
  <2>3. Cardinality(Newer(v)') >= Retention
    BY <2>2, CoverageGrows
  <2> QED BY <2>1, <2>3 DEF Newer
<1>3. CASE maker'["scheduler"].victims = maker["scheduler"].victims
  BY <1>2, <1>3 DEF VictimsMayGo, Newer
<1>4. CASE Len(maker'["scheduler"].victims) = 0
  BY <1>4 DEF VictimsMayGo
<1> QED BY <1>3, <1>4

(* A step after which no other file is absent than a user's. *)
LEMMA NewestStay ==
    ASSUME BackupIInv, BackupTypeOK', saved \subseteq saved', removedByUser \subseteq removedByUser',
           \A b \in saved' : backupFile'[b] = "absent" =>
              b \in removedByUser' \/ (b \in saved /\ backupFile[b] = "absent")
    PROVE  NewestAreKept'
<1> SUFFICES ASSUME NEW b \in saved', backupFile'[b] = "absent", b \notin removedByUser'
             PROVE  Cardinality(Newer(b)') >= Retention
  BY DEF NewestAreKept, Newer
<1>1. b \in saved /\ backupFile[b] = "absent" /\ b \notin removedByUser
  OBVIOUS
<1>2. b \in BackupIds /\ Cardinality(Newer(b)) >= Retention
  BY <1>1, BackupFacts, SavedAreFinite DEF NewestAreKept, Newer
<1> QED BY <1>2, CoverageGrows

(* A backup is begun under the next number. *)
LEMMA CreateIsSafe ==
    ASSUME BackupIInv, NEW m \in Makers, CreateBackup(m)
    PROVE  BackupIInv'
<1> DEFINE id == lastBackup + 1
           begun == [IdleMaker EXCEPT !.pc = "reading", !.id = id]
<1>1. /\ lastBackup \in 0..MaxBackups /\ lastBackup < MaxBackups /\ lastBackup' = id
      /\ maker' = [maker EXCEPT ![m] = begun]
      /\ UNCHANGED <<tables, snapshots, backupFile, saved, removedByUser, backupLoop,
                     restore, boundVars>>
  BY BackupFacts DEF CreateBackup, BackupTypeOK
<1>2. id \in 1..MaxBackups /\ id \in 0..MaxBackups /\ lastBackup \in Nat
  BY <1>1, BackupAssumption
<1>3. /\ begun \in MakerState /\ begun.pc = "reading" /\ begun.id = id
      /\ Len(begun.victims) = 0
  <2>1. /\ IdleMaker \in MakerState /\ Len(IdleMaker.victims) = 0
    BY BackupAssumption DEF IdleMaker, MakerState
  <2>2. begun \in MakerState
    BY <1>2, <2>1 DEF MakerState
  <2>3. begun.pc = "reading" /\ begun.id = id /\ begun.victims = IdleMaker.victims
    BY <2>1 DEF MakerState
  <2> QED BY <2>1, <2>2, <2>3
<1>4. maker \in [Makers -> MakerState]
  BY BackupFacts
<1> HIDE DEF begun
<1>5. maker' \in [Makers -> MakerState] /\ maker'[m] = begun
      /\ \A n \in Makers \ {m} : maker'[n] = maker[n]
  BY <1>1, <1>3, <1>4
<1>6. BackupTypeOK'
  <2>1. \A n \in Makers : maker'[n].pc \in {"idle", "reading", "saving", "saved", "cleaning"}
    BY <1>5 DEF MakerState
  <2>2. saved \subseteq 1..id /\ removedByUser \subseteq 1..id
    BY <1>2, BackupFacts DEF BackupTypeOK
  <2> QED BY <1>1, <1>2, <2>1, <2>2, BackupFacts DEF BackupTypeOK, boundVars
<1>7. FilesAreBegun'
  BY <1>1, <1>2, BackupFacts, BackupIdsAreNumbers DEF FilesAreBegun
<1>8. NumbersAreOwn'
  <2>1. id \notin saved
    BY <1>2, BackupFacts DEF BackupTypeOK
  <2>2. ASSUME NEW n \in Makers \ {m}, Making(n)
        PROVE  maker[n].id \in 1..id /\ maker[n].id # id /\ maker[n].id \notin saved
    BY <1>2, <2>2, BackupFacts DEF NumbersAreOwn
  <2> HIDE DEF id
  <2>3. id \in 1..id
    BY <1>2
  <2> QED BY <1>1, <1>3, <1>5, <2>1, <2>2, <2>3, BackupFacts DEF NumbersAreOwn, Making
<1>9. VictimsMayGo'
  <2>1. \/ maker'["scheduler"].victims = maker["scheduler"].victims
        \/ Len(maker'["scheduler"].victims) = 0
    BY <1>3, <1>5 DEF Makers
  <2> QED BY <1>1, <1>6, <2>1, VictimsStay
<1>10. NewestAreKept'
  BY <1>1, <1>6, NewestStay
<1> QED BY <1>1, <1>5, <1>6, <1>7, <1>8, <1>9, <1>10, OnlyMakersMove

(* A table is read: of the snapshots that were saved none changes. *)
LEMMA ListTableIsSafe ==
    ASSUME BackupIInv, NEW m \in Makers, ListTable(m)
    PROVE  BackupIInv'
<1> DEFINE t == TableNames[maker[m].table]
           id == maker[m].id
           next == IF maker[m].table = 3 THEN [maker[m] EXCEPT !.pc = "saving"]
                   ELSE [maker[m] EXCEPT !.table = @ + 1]
<1>1. /\ maker[m] \in MakerState /\ maker[m].table \in 1..3 /\ maker[m].pc = "reading"
      /\ maker \in [Makers -> MakerState]
      /\ snapshots' = [snapshots EXCEPT ![id][t] = tables[t]]
      /\ maker' = [maker EXCEPT ![m] = next]
      /\ UNCHANGED <<tables, backupFile, lastBackup, saved, removedByUser, backupLoop,
                     restore, boundVars>>
  <2>1. maker \in [Makers -> MakerState] /\ maker[m] \in MakerState
    BY BackupFacts
  <2>2. maker[m].table \in 1..3
    BY <2>1 DEF MakerState
  <2>3. maker' = [maker EXCEPT ![m] = next]
    <3>1. CASE maker[m].table = 3
      BY <3>1 DEF ListTable
    <3>2. CASE maker[m].table # 3
      BY <3>2 DEF ListTable
    <3> QED BY <3>1, <3>2
  <2> QED BY <2>1, <2>2, <2>3 DEF ListTable, MakerAt
<1>2. /\ next \in MakerState /\ next.id = id /\ next.pc \in {"reading", "saving"}
      /\ next.victims = maker[m].victims
  <2>1. CASE maker[m].table = 3
    BY <1>1, <2>1 DEF MakerState
  <2>2. CASE maker[m].table # 3
    <3>1. maker[m].table + 1 \in 1..3
      BY <1>1, <2>2
    <3> QED BY <1>1, <2>2, <3>1 DEF MakerState
  <2> QED BY <2>1, <2>2
<1>3. id \in 1..lastBackup /\ id \notin saved /\ id \in BackupIds /\ t \in Tables
  BY <1>1, BackupFacts, BackupAssumption, TablesAreThree
  DEF NumbersAreOwn, Making, BackupTypeOK, BackupIds
<1> HIDE DEF next, t, id
<1>4. /\ snapshots' \in [BackupIds -> [Tables -> SUBSET TableItems]]
      /\ \A b \in saved : snapshots'[b] = snapshots[b]
  BY <1>1, <1>3, BackupFacts, SavedAreFinite DEF BackupTypeOK
<1>5. /\ maker' \in [Makers -> MakerState] /\ maker'[m] = next
      /\ \A n \in Makers \ {m} : maker'[n] = maker[n]
  BY <1>1, <1>2
<1>6. BackupTypeOK'
  <2>1. \A n \in Makers : maker'[n].pc \in {"idle", "reading", "saving", "saved", "cleaning"}
    BY <1>5 DEF MakerState
  <2> QED BY <1>1, <1>4, <2>1, BackupFacts DEF BackupTypeOK, boundVars
<1>7. FilesAreBegun'
  BY <1>1, BackupFacts DEF FilesAreBegun
<1>8. NumbersAreOwn'
  BY <1>1, <1>2, <1>5, BackupFacts DEF NumbersAreOwn, Making, id
<1>9. VictimsMayGo'
  <2>1. maker'["scheduler"].victims = maker["scheduler"].victims
    BY <1>2, <1>5 DEF Makers
  <2> QED BY <1>1, <1>6, <2>1, VictimsStay
<1>10. NewestAreKept'
  BY <1>1, <1>6, NewestStay
<1> QED BY <1>1, <1>4, <1>5, <1>6, <1>7, <1>8, <1>9, <1>10, OnlyMakersMove

(* The file is whole, and its number counts as saved. *)
LEMMA SaveIsSafe ==
    ASSUME BackupIInv, NEW m \in Makers, SaveBackup(m) \/ SaveBackupFails(m)
    PROVE  BackupIInv'
<1> DEFINE id == maker[m].id
<1>1. /\ maker \in [Makers -> MakerState] /\ maker[m] \in MakerState /\ maker[m].pc = "saving"
      /\ UNCHANGED <<tables, snapshots, lastBackup, removedByUser, backupLoop, restore>>
      /\ backupFaults' \in 0..MaxBackupFaults
  BY BackupFacts, BackupAssumption
  DEF SaveBackup, SaveBackupFails, MakerAt, Fault, BackupTypeOK, boundVars, fileVars
<1>2. /\ id \in 1..lastBackup /\ id \notin saved /\ id \in BackupIds
  BY <1>1, BackupFacts, BackupAssumption
  DEF NumbersAreOwn, Making, BackupTypeOK, BackupIds
<1>3. PICK next \in MakerState : /\ maker' = [maker EXCEPT ![m] = next]
                                 /\ next.pc \in {"saved", "idle"}
                                 /\ next.victims = maker[m].victims \/ Len(next.victims) = 0
  <2>1. IdleMaker \in MakerState /\ IdleMaker.pc = "idle" /\ Len(IdleMaker.victims) = 0
    BY BackupAssumption DEF IdleMaker, MakerState
  <2>2. maker' = [maker EXCEPT ![m] = IdleMaker]
        \/ maker' = [maker EXCEPT ![m] = [maker[m] EXCEPT !.pc = "saved"]]
    BY DEF SaveBackup, SaveBackupFails
  <2>3. /\ [maker[m] EXCEPT !.pc = "saved"] \in MakerState
        /\ [maker[m] EXCEPT !.pc = "saved"].pc = "saved"
        /\ [maker[m] EXCEPT !.pc = "saved"].victims = maker[m].victims
    BY <1>1 DEF MakerState
  <2> QED BY <2>1, <2>2, <2>3
<1>4. /\ maker' \in [Makers -> MakerState] /\ maker'[m] = next
      /\ \A n \in Makers \ {m} : maker'[n] = maker[n]
  BY <1>1, <1>3
<1>5. \/ /\ backupFile' = [backupFile EXCEPT ![id] = "valid"] /\ saved' = saved \cup {id}
      \/ UNCHANGED <<backupFile, saved>>
  BY DEF SaveBackup, SaveBackupFails, fileVars
<1> HIDE DEF id
<1>6. /\ saved \subseteq saved' /\ saved' \subseteq 1..lastBackup
      /\ backupFile' \in [BackupIds -> {"absent", "valid", "corrupt"}]
      /\ saved' \subseteq saved \cup {id}
  BY <1>2, <1>5, BackupFacts DEF BackupTypeOK
<1>7. BackupTypeOK'
  <2>1. \A n \in Makers : maker'[n].pc \in {"idle", "reading", "saving", "saved", "cleaning"}
    BY <1>4 DEF MakerState
  <2> QED BY <1>1, <1>6, <2>1, BackupFacts DEF BackupTypeOK
<1>8. FilesAreBegun'
  <2>1. \A b \in BackupIds : backupFile'[b] = backupFile[b] \/ (b = id /\ id \in saved')
    BY <1>5, BackupFacts DEF BackupTypeOK
  <2>2. id <= lastBackup
    BY <1>2, BackupFacts, BackupAssumption DEF BackupTypeOK
  <2> QED BY <1>1, <1>6, <2>1, <2>2, BackupFacts DEF FilesAreBegun
<1>9. NumbersAreOwn'
  <2>1. ASSUME NEW n \in Makers, Making(n)'
        PROVE  n # m /\ maker'[n] = maker[n] /\ Making(n) /\ maker[n].id # id
    BY <1>1, <1>3, <1>4, <2>1, BackupFacts DEF Making, NumbersAreOwn, id
  <2>2. ASSUME NEW n \in Makers, Making(n)'
        PROVE  /\ maker'[n].id \in 1..lastBackup' /\ maker'[n].id \notin saved'
               /\ \A l \in Makers \ {n} : Making(l)' => maker'[l].id # maker'[n].id
    BY <1>1, <1>6, <2>1, <2>2, BackupFacts DEF NumbersAreOwn
  <2> QED BY <2>2 DEF NumbersAreOwn, Making
<1>10. VictimsMayGo'
  <2>1. \/ maker'["scheduler"].victims = maker["scheduler"].victims
        \/ Len(maker'["scheduler"].victims) = 0
    BY <1>3, <1>4 DEF Makers
  <2> QED BY <1>6, <1>7, <2>1, VictimsStay
<1>11. NewestAreKept'
  <2>1. \A b \in saved' : backupFile'[b] = "absent" => b \in saved /\ backupFile[b] = "absent"
    <3>1. backupFile'[id] = "absent" => saved' = saved /\ backupFile' = backupFile
      BY <1>2, <1>5, BackupFacts DEF BackupTypeOK
    <3>2. ASSUME NEW b \in saved', backupFile'[b] = "absent"
          PROVE  b \in saved /\ backupFile[b] = "absent"
      <4>1. CASE b = id
        BY <3>1, <3>2, <4>1
      <4>2. CASE b # id
        <5>1. b \in saved /\ b \in BackupIds
          BY <1>6, <3>2, <4>2, BackupFacts, SavedAreFinite
        <5> QED BY <1>5, <3>2, <4>2, <5>1, BackupFacts DEF BackupTypeOK
      <4> QED BY <4>1, <4>2
    <3> QED BY <3>2
  <2> QED BY <1>1, <1>6, <1>7, <2>1, NewestStay
<1> QED BY <1>1, <1>4, <1>6, <1>7, <1>8, <1>9, <1>10, <1>11, OnlyMakersMove

(* The scheduler decides what to delete, and deletes one after the other. *)
LEMMA CleanupIsSafe ==
    ASSUME BackupIInv, CleanupLists \/ CleanupOldBackups
    PROVE  BackupIInv'
<1> DEFINE s == maker["scheduler"]
<1>1. /\ maker \in [Makers -> MakerState] /\ s \in MakerState /\ "scheduler" \in Makers
      /\ s.victims \in Seq(BackupIds)
      /\ UNCHANGED <<tables, snapshots, lastBackup, saved, removedByUser, backupLoop,
                     restore, boundVars>>
  BY BackupFacts DEF CleanupLists, CleanupOldBackups, fileVars, MakerState, Makers
<1>2. /\ \A b \in BackupIds : backupFile'[b] # backupFile[b] =>
            backupFile'[b] = "absent" /\ Cardinality(Newer(b)) >= Retention
      /\ backupFile' \in [BackupIds -> {"absent", "valid", "corrupt"}]
      /\ \E next \in MakerState :
            /\ maker' = [maker EXCEPT !["scheduler"] = next] /\ next.pc \in {"idle", "cleaning"}
            /\ \A k \in 1..Len(next.victims) : Cardinality(Newer(next.victims[k])) >= Retention
  <2>1. CASE CleanupLists
    <3> DEFINE next == [s EXCEPT !.pc = "cleaning", !.victims = Victims]
    <3>1. maker' = [maker EXCEPT !["scheduler"] = next] /\ UNCHANGED backupFile
      BY <2>1 DEF CleanupLists, fileVars
    <3>2. /\ Victims \in Seq(BackupIds)
          /\ \A k \in 1..Len(Victims) : Cardinality(Newer(Victims[k])) >= Retention
      BY BackupFacts, VictimsAreOld
    <3>3. next \in MakerState /\ next.pc = "cleaning" /\ next.victims = Victims
      BY <1>1, <3>2 DEF MakerState
    <3> HIDE DEF next
    <3> QED BY <3>1, <3>2, <3>3, BackupFacts DEF BackupTypeOK
  <2>2. CASE CleanupOldBackups
    <3> DEFINE v == s.victims
               gone == v # <<>> /\ backupFile[Head(v)] = "absent"
    <3>1. CASE v = <<>> \/ gone
      <4>1. maker' = [maker EXCEPT !["scheduler"] = IdleMaker] /\ UNCHANGED backupFile
        BY <2>2, <3>1 DEF CleanupOldBackups
      <4>2. IdleMaker \in MakerState /\ IdleMaker.pc = "idle" /\ Len(IdleMaker.victims) = 0
        BY BackupAssumption DEF IdleMaker, MakerState
      <4>3. \A k \in 1..Len(IdleMaker.victims) :
               Cardinality(Newer(IdleMaker.victims[k])) >= Retention
        BY <4>2
      <4>4. backupFile' \in [BackupIds -> {"absent", "valid", "corrupt"}]
        BY <4>1, BackupFacts DEF BackupTypeOK
      <4> QED BY <4>1, <4>2, <4>3, <4>4
    <3>2. CASE ~(v = <<>> \/ gone)
      <4> DEFINE next == [s EXCEPT !.victims = Tail(v)]
      <4>1. /\ maker' = [maker EXCEPT !["scheduler"].victims = Tail(@)]
            /\ backupFile' = [backupFile EXCEPT ![Head(v)] = "absent"]
            /\ s.pc = "cleaning"
        BY <2>2, <3>2 DEF CleanupOldBackups, MakerAt
      <4>2. maker' = [maker EXCEPT !["scheduler"] = next]
        BY <1>1, <4>1
      <4>3. /\ Head(v) \in BackupIds /\ Tail(v) \in Seq(BackupIds) /\ Len(Tail(v)) = Len(v) - 1
            /\ Head(v) = v[1] /\ Len(v) \in Nat /\ Len(v) > 0
            /\ \A i \in 1..Len(Tail(v)) : Tail(v)[i] = v[i + 1]
        BY <1>1, <3>2, HeadTailProperties
      <4>4. \A k \in 1..Len(v) : Cardinality(Newer(v[k])) >= Retention
        BY BackupFacts DEF VictimsMayGo
      <4>5. next \in MakerState /\ next.pc = "cleaning" /\ next.victims = Tail(v)
        BY <1>1, <4>1, <4>3 DEF MakerState
      <4> HIDE DEF next, v
      <4>6. \A k \in 1..Len(Tail(v)) : Cardinality(Newer(Tail(v)[k])) >= Retention
        <5>1. \A k \in 1..Len(Tail(v)) : k + 1 \in 1..Len(v)
          BY <4>3
        <5> QED BY <4>3, <4>4, <5>1
      <4>7. /\ \A b \in BackupIds : backupFile'[b] # backupFile[b] => b = Head(v)
            /\ backupFile'[Head(v)] = "absent" /\ Cardinality(Newer(Head(v))) >= Retention
            /\ backupFile' \in [BackupIds -> {"absent", "valid", "corrupt"}]
        BY <4>1, <4>3, <4>4, BackupFacts DEF BackupTypeOK
      <4>8. \A b \in BackupIds : backupFile'[b] # backupFile[b] =>
               backupFile'[b] = "absent" /\ Cardinality(Newer(b)) >= Retention
        BY <4>7
      <4> QED BY <4>2, <4>5, <4>6, <4>7, <4>8
    <3> QED BY <3>1, <3>2
  <2> QED BY <2>1, <2>2
<1>3. PICK next \in MakerState :
        /\ maker' = [maker EXCEPT !["scheduler"] = next] /\ next.pc \in {"idle", "cleaning"}
        /\ \A k \in 1..Len(next.victims) : Cardinality(Newer(next.victims[k])) >= Retention
  BY <1>2
<1>4. /\ maker' \in [Makers -> MakerState] /\ maker'["scheduler"] = next
      /\ \A n \in Makers \ {"scheduler"} : maker'[n] = maker[n]
  BY <1>1, <1>3
<1>5. BackupTypeOK'
  <2>1. \A n \in Makers : maker'[n].pc \in {"idle", "reading", "saving", "saved", "cleaning"}
    BY <1>4 DEF MakerState
  <2> QED BY <1>1, <1>2, <2>1, BackupFacts DEF BackupTypeOK, boundVars
<1>6. FilesAreBegun'
  BY <1>1, <1>2, BackupFacts DEF FilesAreBegun
<1>7. NumbersAreOwn'
  <2>1. ~Making("scheduler")'
    BY <1>3, <1>4 DEF Making
  <2> QED BY <1>1, <1>4, <2>1, BackupFacts DEF NumbersAreOwn, Making
<1>8. VictimsMayGo'
  BY <1>1, <1>3, <1>4 DEF VictimsMayGo, Newer
<1>9. NewestAreKept'
  <2>1. ASSUME NEW b \in saved, backupFile'[b] = "absent", b \notin removedByUser
        PROVE  Cardinality(Newer(b)) >= Retention
    <3>1. b \in BackupIds
      BY BackupFacts, SavedAreFinite
    <3> QED BY <1>2, <2>1, <3>1, BackupFacts DEF NewestAreKept, Newer
  <2> QED BY <1>1, <2>1 DEF NewestAreKept, Newer
<1> QED BY <1>1, <1>4, <1>5, <1>6, <1>7, <1>8, <1>9, OnlyMakersMove

(* What a user deletes is noted. *)
LEMMA DeleteIsSafe ==
    ASSUME BackupIInv, NEW b \in BackupIds, DeleteBackup(b)
    PROVE  BackupIInv'
<1>1. /\ backupFile[b] # "absent" /\ backupFile' = [backupFile EXCEPT ![b] = "absent"]
      /\ removedByUser' = removedByUser \cup {b}
      /\ UNCHANGED <<tables, snapshots, lastBackup, saved, maker, backupLoop, restore, boundVars>>
  BY DEF DeleteBackup
<1>2. b \in 1..lastBackup
  BY <1>1, BackupFacts, BackupAssumption DEF FilesAreBegun, BackupIds, BackupTypeOK
<1>3. /\ backupFile' \in [BackupIds -> {"absent", "valid", "corrupt"}]
      /\ \A c \in BackupIds : backupFile'[c] # "absent" => backupFile'[c] = backupFile[c]
      /\ \A c \in BackupIds \ {b} : backupFile'[c] = backupFile[c]
  BY <1>1, BackupFacts DEF BackupTypeOK
<1>4. BackupTypeOK'
  BY <1>1, <1>2, <1>3, BackupFacts DEF BackupTypeOK, boundVars
<1>5. FilesAreBegun' /\ NumbersAreOwn'
  BY <1>1, <1>3, BackupFacts DEF FilesAreBegun, NumbersAreOwn, Making
<1>6. VictimsMayGo'
  BY <1>1, <1>4, VictimsStay
<1>7. NewestAreKept'
  <2>1. \A c \in saved' : backupFile'[c] = "absent" =>
           c \in removedByUser' \/ (c \in saved /\ backupFile[c] = "absent")
    BY <1>1, <1>3, BackupFacts, SavedAreFinite
  <2> QED BY <1>1, <1>4, <2>1, NewestStay
<1> QED BY <1>1, <1>4, <1>5, <1>6, <1>7, BackupFacts, OnlyMakersMove

(* The process ends: nobody makes a backup, and a file that was being        *)
(* written is no backup that was saved.                                      *)
LEMMA BackupRestartIsSafe ==
    ASSUME BackupIInv, BackupRestart
    PROVE  BackupIInv'
<1>1. /\ backupFile' = [b \in BackupIds |->
                          IF \E m \in Makers : MakerAt(m, "saving") /\ maker[m].id = b
                          THEN "corrupt" ELSE backupFile[b]]
      /\ maker' = [m \in Makers |-> IdleMaker] /\ restore' = NoRestore
      /\ backupLoop' = "running" /\ backupFaults' \in 0..MaxBackupFaults
      /\ UNCHANGED <<tables, snapshots, lastBackup, saved, removedByUser>>
  BY BackupFacts, BackupAssumption DEF BackupRestart, Fault, BackupTypeOK
<1>2. IdleMaker \in MakerState /\ IdleMaker.pc = "idle" /\ Len(IdleMaker.victims) = 0
  BY BackupAssumption DEF IdleMaker, MakerState
<1>3. NoRestore \in RestoreState /\ NoRestore.pc = "none"
  BY BackupAssumption DEF NoRestore, RestoreState
<1>4. /\ maker' \in [Makers -> MakerState]
      /\ \A m \in Makers : maker'[m] = IdleMaker
  BY <1>1, <1>2
<1>5. \A b \in BackupIds : \/ backupFile'[b] = backupFile[b]
                           \/ backupFile'[b] = "corrupt" /\ b <= lastBackup
  <2>1. ASSUME NEW m \in Makers, MakerAt(m, "saving")
        PROVE  maker[m].id \in 1..lastBackup
    BY <2>1, BackupFacts DEF MakerAt, Making, NumbersAreOwn
  <2> QED BY <1>1, <2>1, BackupFacts DEF BackupTypeOK
<1>6. BackupTypeOK'
  <2>1. backupFile' \in [BackupIds -> {"absent", "valid", "corrupt"}]
    BY <1>1, BackupFacts DEF BackupTypeOK
  <2>2. \A n \in Makers : maker'[n].pc = "idle"
    BY <1>2, <1>4
  <2> QED BY <1>1, <1>3, <2>1, <2>2, BackupFacts DEF BackupTypeOK
<1>7. FilesAreBegun'
  BY <1>1, <1>5, BackupFacts DEF FilesAreBegun
<1>8. NumbersAreOwn'
  BY <1>2, <1>4 DEF NumbersAreOwn, Making
<1>9. VictimsMayGo'
  BY <1>2, <1>4 DEF VictimsMayGo, Makers
<1>10. NewestAreKept'
  <2>1. \A b \in saved' : backupFile'[b] = "absent" => b \in saved /\ backupFile[b] = "absent"
    BY <1>1, <1>5, BackupFacts, SavedAreFinite
  <2> QED BY <1>1, <1>6, <2>1, NewestStay
<1>11. RestoreIsUnderWay'
  BY <1>1, <1>3 DEF RestoreIsUnderWay
<1> QED BY <1>1, <1>3, <1>4, <1>6, <1>7, <1>8, <1>9, <1>10, <1>11
     DEF BackupIInv, BackupWorkIsTyped

(* The loop of the scheduler stops; nothing else changes. *)
LEMMA BackupStopIsSafe ==
    ASSUME BackupIInv, BackupStop \/ BackupStopped
    PROVE  BackupIInv'
<1>1. /\ UNCHANGED <<tables, fileVars, maker, restore, boundVars>>
      /\ backupLoop' \in {"running", "stopping", "stopped"}
  BY DEF BackupStop, BackupStopped
<1>2. BackupTypeOK' /\ UnderWay(restore', tables')
  BY <1>1, BackupFacts DEF BackupTypeOK, fileVars, boundVars, UnderWay
<1> QED BY <1>1, <1>2, BackupFacts, OnlyRestoreMoves

(* The invariant holds from the start, and every step keeps it. *)
LEMMA BackupIInvInductive ==
    /\ BackupInit => BackupIInv
    /\ BackupIInv /\ [BackupNext]_backupVars => BackupIInv'
<1>1. ASSUME BackupIInv, UNCHANGED backupVars PROVE BackupIInv'
  <2>1. UNCHANGED <<tables, fileVars, maker, restore, backupLoop, boundVars>>
    BY <1>1 DEF backupVars
  <2>2. BackupTypeOK' /\ UnderWay(restore', tables')
    BY <1>1, <2>1, BackupFacts DEF BackupTypeOK, fileVars, boundVars, UnderWay
  <2> QED BY <1>1, <2>1, <2>2, BackupFacts, OnlyRestoreMoves
<1>2. ASSUME BackupIInv, BackupNext PROVE BackupIInv'
  <2>1. ASSUME NEW m \in Makers,
               CreateBackup(m) \/ ListTable(m) \/ SaveBackup(m) \/ SaveBackupFails(m)
        PROVE  BackupIInv'
    BY <1>2, <2>1, CreateIsSafe, ListTableIsSafe, SaveIsSafe
  <2>2. ASSUME NEW b \in BackupIds, DeleteBackup(b) \/ RestoreBackup(b)
        PROVE  BackupIInv'
    BY <1>2, <2>2, DeleteIsSafe, RestoreBackupIsSafe
  <2>3. ASSUME NEW i \in TableItems, NEW k \in BOOLEAN,
               RestoreRow(i, k) \/ \E t \in Tables : RowSaved(t, i, k) \/ RowDeleted(t, i, k)
        PROVE  BackupIInv'
    BY <1>2, <2>3, RestoreRowIsSafe, RowSavedIsSafe, RowDeletedIsSafe
  <2> QED BY <1>2, <2>1, <2>2, <2>3, CleanupIsSafe, TableDoneIsSafe, RestoreEndIsSafe,
             BackupStopIsSafe, BackupRestartIsSafe DEF BackupNext
<1> QED BY <1>1, <1>2, BackupInitIsSafe

(* The types of the backups, of who makes them and of the restore. *)
THEOREM BackupTypeCorrect == BackupSpec => []BackupTypeOK
<1>1. BackupIInv => BackupTypeOK
  BY DEF BackupIInv
<1> QED BY <1>1, BackupIInvInductive, PTL DEF BackupSpec

(* BackupsAreGood in every state, for any number of backups, items and       *)
(* changes, and any retention: no backup is removed by the policy before     *)
(* Retention newer ones were saved, and a restore that reports success has   *)
(* brought back every row nobody deleted meanwhile.                          *)
THEOREM BackupsAreGoodHolds == BackupSpec => []BackupsAreGood
<1>1. BackupIInv => BackupsAreGood
  <2> SUFFICES ASSUME BackupIInv, restore.pc = "ok"
               PROVE  RestoreIsComplete
    BY DEF BackupIInv, BackupsAreGood, RestoreIsComplete
  <2>1. \A t \in Tables : \E j \in 1..3 : t = TableNames[j]
    BY DEF Tables
  <2> QED BY <2>1, BackupFacts DEF RestoreIsComplete, UnderWay
<1> QED BY <1>1, BackupIInvInductive, PTL DEF BackupSpec
-----------------------------------------------------------------------------
(* Cron expressions. *)

Part == [kind : {"star"}] \cup [kind : {"value", "range"}, lo : Int, hi : Int]
        \cup [kind : {"step"}, lo : Int, hi : Int, step : Int]

(* What the search has behind it, with no match in it. *)
SearchGoesOn ==
    /\ cronAfter \in Nat /\ cronTries \in Nat
    /\ cronPc = "text" => cronTries = 0
    /\ cronPc = "search" =>
         /\ cronAt = cronAfter + 1 + cronTries
         /\ \A f \in 1..5 : cronSets[f] # {}
         /\ \A u \in (cronAfter + 1)..(cronAt - 1) : ~CronMatches(u)

TextsAreParts == \A f \in 1..5 : cronText[f] \in Seq(Part)

CronIInv == CronTypeOK /\ TextsAreParts /\ SearchGoesOn /\ NextRunIsFirst

(* A parsed field is within its bounds, whatever was written: a step whose    *)
(* range leaves the field is cut to it (parseCronField).                      *)
LEMMA ParsedIsInBounds ==
    ASSUME NEW min \in Int, NEW max \in Int, NEW field \in Seq(Part)
    PROVE  ParseCronField(field, min, max) \subseteq min..max
<1> SUFFICES ASSUME \A k \in 1..Len(field) : PartValid(field[k], min, max),
                    NEW k \in 1..Len(field), NEW i \in PartValues(field[k], min, max)
             PROVE  i \in min..max
  BY DEF ParseCronField
<1>1. field[k] \in Part /\ PartValid(field[k], min, max)
  OBVIOUS
<1>2. CASE field[k].kind = "step"
  BY <1>1, <1>2 DEF Part, PartValues
<1>3. CASE field[k].kind # "step"
  <2>1. /\ min <= field[k].lo /\ field[k].hi <= max
        /\ field[k].lo \in Int /\ field[k].hi \in Int
    BY <1>1, <1>3 DEF Part, PartValid
  <2> QED BY <2>1, <1>3 DEF PartValues
<1> QED BY <1>2, <1>3

(* Division and remainder of a number written with them. *)
LEMMA QuotientAndRest ==
    ASSUME NEW b \in Nat \ {0}, NEW q \in Nat, NEW r \in 0..(b - 1)
    PROVE  (q * b + r) \div b = q /\ (q * b + r) % b = r
<1> DEFINE a == q * b + r
           x == a \div b
           y == a % b
<1>1. a \in Nat /\ q * b \in Nat
  OBVIOUS
<1>2. x \in Int /\ y \in 0..(b - 1) /\ a = b * x + y
  BY <1>1
<1>3. a = b * q + r
  OBVIOUS
<1>4. x = q
  <2> HIDE DEF a, x, y
  <2>1. CASE x < q
    <3>1. x + 1 <= q /\ b * (x + 1) <= b * q
      BY <1>2, <2>1
    <3> QED BY <1>2, <1>3, <3>1
  <2>2. CASE x > q
    <3>1. q + 1 <= x /\ b * (q + 1) <= b * x
      BY <1>2, <2>2
    <3> QED BY <1>2, <1>3, <3>1
  <2> QED BY <1>2, <2>1, <2>2
<1>5. y = r
  BY <1>2, <1>3, <1>4
<1> QED BY <1>4, <1>5

(* The calendar in numbers. *)
LEMMA CalendarNumbers ==
    /\ MinutesPerHour \in Nat \ {0} /\ HoursPerDay \in Nat \ {0}
    /\ MinutesPerDay \in Nat \ {0}
    /\ YearDays \in Nat \ {0}
    /\ \A m \in Months : /\ m + 1 \in 1..Len(DaysBefore)
                         /\ DaysBefore[m] \in Nat /\ DaysBefore[m + 1] \in Nat
                         /\ DaysBefore[m + 1] <= YearDays
<1>1. Len(DaysBefore) \in Nat /\ Len(DaysBefore) > 1
  BY CronAssumption
<1>2. \A m \in 1..Len(DaysBefore) : DaysBefore[m] \in Nat
  BY CronAssumption
<1>3. YearDays \in Nat \ {0}
  <2>1. DaysBefore[1] < DaysBefore[Len(DaysBefore)] /\ DaysBefore[1] = 0
    BY <1>1, CronAssumption
  <2> QED BY <1>1, <1>2, <2>1 DEF YearDays
<1>4. MinutesPerDay \in Nat \ {0}
  BY CronAssumption DEF MinutesPerDay
<1>5. ASSUME NEW m \in Months
      PROVE  /\ m + 1 \in 1..Len(DaysBefore) /\ m \in 1..Len(DaysBefore)
             /\ DaysBefore[m + 1] <= YearDays
  <2>1. m \in 1..Len(DaysBefore) /\ m + 1 \in 1..Len(DaysBefore)
    BY <1>1 DEF Months
  <2>2. CASE m + 1 = Len(DaysBefore)
    BY <1>2, <2>1, <2>2 DEF YearDays
  <2>3. CASE m + 1 < Len(DaysBefore)
    <3>1. DaysBefore[m + 1] < DaysBefore[Len(DaysBefore)]
      BY <1>1, <2>1, <2>3, CronAssumption
    <3> QED BY <1>1, <1>2, <2>1, <3>1 DEF YearDays
  <2> QED BY <1>1, <2>1, <2>2, <2>3
<1> QED BY <1>2, <1>3, <1>4, <1>5, CronAssumption

(* A day of a common year is in one month only (package time). *)
LEMMA MonthOfDay ==
    ASSUME NEW m \in Months, NEW o \in Nat, DaysBefore[m] <= o, o < DaysBefore[m + 1],
           NEW n \in Months, DaysBefore[n] <= o, o < DaysBefore[n + 1]
    PROVE  m = n
<1>1. /\ m \in Nat /\ n \in Nat /\ m + 1 \in 1..Len(DaysBefore) /\ n + 1 \in 1..Len(DaysBefore)
      /\ m \in 1..Len(DaysBefore) /\ n \in 1..Len(DaysBefore)
      /\ DaysBefore[m] \in Nat /\ DaysBefore[n] \in Nat
      /\ DaysBefore[m + 1] \in Nat /\ DaysBefore[n + 1] \in Nat
  <2>1. Len(DaysBefore) \in Nat
    BY CronAssumption
  <2>2. m \in 1..Len(DaysBefore) /\ n \in 1..Len(DaysBefore)
    BY <2>1 DEF Months
  <2> QED BY <2>1, <2>2, CalendarNumbers
<1>2. ASSUME m < n PROVE FALSE
  <2>1. m + 1 = n \/ m + 1 < n
    BY <1>1, <1>2
  <2>2. DaysBefore[m + 1] <= DaysBefore[n]
    <3>1. CASE m + 1 = n
      BY <1>1, <3>1
    <3>2. CASE m + 1 < n
      <4>1. DaysBefore[m + 1] < DaysBefore[n]
        BY <1>1, <3>2, CronAssumption
      <4> QED BY <1>1, <4>1
    <3> QED BY <2>1, <3>1, <3>2
  <2> QED BY <1>1, <2>2
<1>3. ASSUME n < m PROVE FALSE
  <2>1. n + 1 = m \/ n + 1 < m
    BY <1>1, <1>3
  <2>2. DaysBefore[n + 1] <= DaysBefore[m]
    <3>1. CASE n + 1 = m
      BY <1>1, <3>1
    <3>2. CASE n + 1 < m
      <4>1. DaysBefore[n + 1] < DaysBefore[m]
        BY <1>1, <3>2, CronAssumption
      <4> QED BY <1>1, <4>1
    <3> QED BY <2>1, <3>1, <3>2
  <2> QED BY <1>1, <2>2
<1> QED BY <1>1, <1>2, <1>3

(* The date of a day of the first two years of a cycle. *)
LEMMA DateInCommonYear ==
    ASSUME NEW m \in Months, NEW d \in Nat \ {0}, d <= MonthLength(m), NEW k \in {0, 1}
    PROVE  LET o == DaysBefore[m] + d - 1
           IN  /\ o \in 0..(YearDays - 1)
               /\ DateOf(k * YearDays + o).month = m
               /\ DateOf(k * YearDays + o).day = d
<1> DEFINE o == DaysBefore[m] + d - 1
           n == k * YearDays + o
           M == CHOOSE x \in Months : DaysBefore[x] <= o /\ o < DaysBefore[x + 1]
<1>1. /\ DaysBefore[m] \in Nat /\ DaysBefore[m + 1] \in Nat
      /\ YearDays \in Nat \ {0} /\ DaysBefore[m + 1] <= YearDays
  BY CalendarNumbers
<1>2. o \in 0..(YearDays - 1) /\ DaysBefore[m] <= o /\ o < DaysBefore[m + 1]
  BY <1>1 DEF MonthLength
<1>3. n % YearDays = o
  <2> HIDE DEF o
  <2>1. k \in Nat
    OBVIOUS
  <2> QED BY <1>1, <1>2, <2>1, QuotientAndRest
<1>4. ~(n >= 3 * YearDays)
  <2> HIDE DEF o
  <2>1. k * YearDays <= YearDays
    BY <1>1
  <2> QED BY <1>1, <1>2, <2>1
<1>5. M = m
  <2>1. M \in Months /\ DaysBefore[M] <= o /\ o < DaysBefore[M + 1]
    <3> HIDE DEF o
    <3> QED BY <1>2
  <2> HIDE DEF o, M
  <2> QED BY <1>2, <2>1, MonthOfDay
<1>6. DateOf(n) = [month |-> M, day |-> o - DaysBefore[M] + 1]
  <2> HIDE DEF o
  <2> QED BY <1>3, <1>4 DEF DateOf
<1>7. DateOf(n).month = m /\ DateOf(n).day = d
  <2>1. o - DaysBefore[m] + 1 = d
    BY <1>1
  <2> HIDE DEF o, n, M
  <2> QED BY <1>5, <1>6, <2>1
<1> QED BY <1>2, <1>7

(* The minute of a common year, and of year k of the cycle q. *)
MinuteOfYear(m, d, h, mi) ==
    (DaysBefore[m] + d - 1) * MinutesPerDay + (h * MinutesPerHour + mi)
MinuteWith(q, k, x) ==
    q * ((4 * YearDays + 1) * MinutesPerDay) + k * (YearDays * MinutesPerDay) + x

(* One minute in each of the first two years of a cycle has the date.         *)
LEMMA MinuteOfDate ==
    ASSUME NEW m \in Months, NEW d \in Nat \ {0}, d <= MonthLength(m), NEW k \in {0, 1},
           NEW h \in 0..(HoursPerDay - 1), NEW mi \in 0..(MinutesPerHour - 1), NEW q \in Nat
    PROVE  LET x == MinuteOfYear(m, d, h, mi)
               u == MinuteWith(q, k, x)
           IN  /\ u \in Nat /\ x \in 0..(YearDays * MinutesPerDay - 1)
               /\ TimeFields(u)[1] = mi /\ TimeFields(u)[2] = h
               /\ TimeFields(u)[3] = d /\ TimeFields(u)[4] = m
<1> DEFINE o == DaysBefore[m] + d - 1
           Y == YearDays
           C == 4 * Y + 1
           P == MinutesPerDay
           rest == h * MinutesPerHour + mi
           x == o * P + rest
           u == q * (C * P) + k * (Y * P) + x
           n == k * Y + o
           day == q * C + n
<1>1. /\ o \in 0..(Y - 1) /\ DateOf(n).month = m /\ DateOf(n).day = d
  BY DateInCommonYear
<1>2. /\ Y \in Nat \ {0} /\ P \in Nat \ {0} /\ P = MinutesPerHour * HoursPerDay
      /\ MinutesPerHour \in Nat \ {0} /\ HoursPerDay \in Nat \ {0}
  BY CalendarNumbers DEF MinutesPerDay
<1>3. rest \in 0..(P - 1)
  <2> HIDE DEF P
  <2>1. h + 1 <= HoursPerDay /\ h \in Nat
    BY <1>2
  <2>2. (h + 1) * MinutesPerHour <= HoursPerDay * MinutesPerHour
    BY <1>2, <2>1
  <2>3. (h + 1) * MinutesPerHour = h * MinutesPerHour + MinutesPerHour
    BY <1>2, <2>1
  <2> QED BY <1>2, <2>1, <2>2, <2>3
<1>4. x \in 0..(Y * P - 1)
  <2> HIDE DEF P, Y, o, rest
  <2>1. (o + 1) * P <= Y * P /\ (o + 1) * P = o * P + P
    BY <1>1, <1>2
  <2> QED BY <1>1, <1>2, <1>3, <2>1
<1>5. n \in 0..(C - 1) /\ day \in Nat
  <2> HIDE DEF o, Y
  <2>1. k * Y \in 0..Y
    BY <1>2
  <2>2. n \in 0..(C - 1)
    BY <1>1, <1>2, <2>1
  <2> QED BY <1>2, <2>2
<1>6. u = day * P + rest /\ u \in Nat
  <2> HIDE DEF o, Y, P, rest
  <2> QED BY <1>1, <1>2, <1>3
<1>7. u \div P = day
  <2> HIDE DEF P, day, rest, u
  <2> QED BY <1>2, <1>3, <1>5, <1>6, QuotientAndRest
<1>8. day % C = n
  <2>1. C \in Nat \ {0}
    BY <1>2
  <2> HIDE DEF C, n
  <2> QED BY <1>5, <2>1, QuotientAndRest
<1>9. u = (day * HoursPerDay + h) * MinutesPerHour + mi
  <2> HIDE DEF P, day, u
  <2> QED BY <1>2, <1>5, <1>6
<1>10. u % MinutesPerHour = mi /\ u \div MinutesPerHour = day * HoursPerDay + h
  <2> HIDE DEF day, u
  <2>1. day * HoursPerDay + h \in Nat
    BY <1>2, <1>5
  <2> QED BY <1>2, <1>9, <2>1, QuotientAndRest
<1>11. (day * HoursPerDay + h) % HoursPerDay = h
  <2> HIDE DEF day
  <2> QED BY <1>2, <1>5, QuotientAndRest
<1>12. DayOfCycle(u) = n
  <2> HIDE DEF day, n, u
  <2> QED BY <1>7, <1>8 DEF DayOfCycle
<1>13. /\ TimeFields(u)[1] = mi /\ TimeFields(u)[2] = h
       /\ TimeFields(u)[3] = d /\ TimeFields(u)[4] = m
  <2> HIDE DEF day, n, u
  <2> QED BY <1>1, <1>10, <1>11, <1>12 DEF TimeFields
<1>14. x = MinuteOfYear(m, d, h, mi)
  BY DEF MinuteOfYear
<1>15. u = MinuteWith(q, k, x)
  BY DEF MinuteWith
<1> HIDE DEF u, x
<1> QED BY <1>4, <1>6, <1>13, <1>14, <1>15

(* The search covers a day less than a cycle, and two minutes a year apart    *)
(* cannot both be in what it leaves out.                                      *)
LEMMA SearchCoversOne ==
    ASSUME NEW after \in Nat, NEW x \in 0..(YearDays * MinutesPerDay - 1)
    PROVE  \E q \in Nat, k \in {0, 1} :
             MinuteWith(q, k, x) \in (after + 1)..(after + MaxIterations)
<1> DEFINE P == MinutesPerDay
           D == YearDays * P
           C == 4 * D + P
           a == after + 1
           q == a \div C
           r == a % C
<1>1. /\ P \in Nat \ {0} /\ D \in Nat \ {0} /\ D >= P
  <2>1. YearDays \in Nat \ {0} /\ P \in Nat \ {0}
    BY CalendarNumbers
  <2> HIDE DEF P
  <2>2. 1 * P <= YearDays * P
    BY <2>1
  <2> QED BY <2>1, <2>2
<1>2. MaxIterations = 4 * D /\ (4 * YearDays + 1) * P = C
  <2>1. YearDays \in Nat /\ P \in Nat
    BY CalendarNumbers
  <2> QED BY <2>1 DEF MaxIterations
<1>3. C \in Nat \ {0}
  <2> HIDE DEF D, P
  <2> QED BY <1>1
<1>4. q \in Nat /\ r \in 0..(C - 1) /\ a = q * C + r
  <2> HIDE DEF C
  <2> QED BY <1>3
<1>5. \A i \in Nat, k \in {0, 1} : MinuteWith(i, k, x) = i * C + k * D + x
  BY <1>2 DEF MinuteWith
<1>6. (q + 1) * C = q * C + C /\ q * C \in Nat /\ q + 1 \in Nat
  <2> HIDE DEF C, q
  <2> QED BY <1>3, <1>4
<1>7. x \in 0..(D - 1)
  OBVIOUS
<1>8. C = 4 * D + P
  OBVIOUS
<1>9. \/ q * C + x \in a..(a + 4 * D - 1)
      \/ q * C + D + x \in a..(a + 4 * D - 1)
      \/ q * C + C + x \in a..(a + 4 * D - 1)
  <2> HIDE DEF C, D, P, q, r, a
  <2> DEFINE b == q * C
  <2>1. b \in Nat /\ a = b + r
    BY <1>4, <1>6
  <2> HIDE DEF b
  <2>2. CASE x >= r
    BY <1>1, <1>3, <1>4, <1>7, <1>8, <2>1, <2>2 DEF b
  <2>3. CASE x + P < r
    BY <1>1, <1>3, <1>4, <1>7, <1>8, <2>1, <2>3 DEF b
  <2>4. CASE x < r /\ r <= x + P
    BY <1>1, <1>3, <1>4, <1>7, <1>8, <2>1, <2>4 DEF b
  <2> QED BY <1>1, <1>3, <1>4, <1>7, <2>2, <2>3, <2>4
<1>10. a..(a + 4 * D - 1) = (after + 1)..(after + MaxIterations)
  <2> HIDE DEF D
  <2> QED BY <1>1, <1>2
<1>11. /\ MinuteWith(q, 0, x) = q * C + x
       /\ MinuteWith(q, 1, x) = q * C + D + x
       /\ MinuteWith(q + 1, 0, x) = q * C + C + x
  <2> HIDE DEF C, D, q
  <2> QED BY <1>1, <1>3, <1>4, <1>5, <1>6, <1>7
<1> HIDE DEF C, D, P, q, r, a
<1> QED BY <1>4, <1>6, <1>9, <1>10, <1>11

(* A schedule that leaves the day of the week open and names a day of every   *)
(* year is met within the search, wherever it starts (NextRun): the day that  *)
(* the limit lacks for four years costs it nothing.                           *)
LEMMA YearlyDayIsFound ==
    ASSUME CronTypeOK, \A f \in 1..5 : cronSets[f] # {}, NamesYearlyDay, NEW after \in Nat
    PROVE  \E u \in (after + 1)..(after + MaxIterations) : CronMatches(u)
<1>1. PICK m \in cronSets[4], d \in cronSets[3] : d <= MonthLength(m)
  BY DEF NamesYearlyDay
<1>2. PICK mi \in cronSets[1], h \in cronSets[2] : TRUE
  OBVIOUS
<1>3. /\ 1 \in 1..5 /\ 2 \in 1..5 /\ 3 \in 1..5 /\ 4 \in 1..5 /\ 5 \in 1..5
  OBVIOUS
<1>4. mi \in 0..(MinutesPerHour - 1) /\ h \in 0..(HoursPerDay - 1)
  BY <1>2, <1>3 DEF CronTypeOK, Lowest, Highest
<1>5. m \in Months /\ d \in Nat \ {0}
  <2>1. m \in Lowest[4]..Highest[4] /\ d \in Lowest[3]..Highest[3]
    BY <1>1, <1>3 DEF CronTypeOK
  <2> QED BY <2>1, CronAssumption DEF Lowest, Highest, Months
<1> DEFINE x == MinuteOfYear(m, d, h, mi)
<1>6. x \in 0..(YearDays * MinutesPerDay - 1)
  <2>1. 0 \in Nat /\ 0 \in {0, 1}
    OBVIOUS
  <2> QED BY <1>1, <1>4, <1>5, <2>1, MinuteOfDate
<1>7. PICK q \in Nat, k \in {0, 1} :
           MinuteWith(q, k, x) \in (after + 1)..(after + MaxIterations)
  <2> HIDE DEF x
  <2> QED BY <1>6, SearchCoversOne
<1> DEFINE u == MinuteWith(q, k, x)
<1>8. /\ u \in Nat /\ TimeFields(u)[1] = mi /\ TimeFields(u)[2] = h
      /\ TimeFields(u)[3] = d /\ TimeFields(u)[4] = m
  BY <1>1, <1>4, <1>5, MinuteOfDate
<1> HIDE DEF x, u
<1>9. TimeFields(u)[5] \in cronSets[5]
  <2>1. MinutesPerDay \in Nat \ {0} /\ DaysPerWeek \in Nat \ {0}
    BY CalendarNumbers, CronAssumption
  <2>2. u \div MinutesPerDay \in Int
    BY <1>8, <2>1
  <2>3. TimeFields(u)[5] = (u \div MinutesPerDay) % DaysPerWeek
    BY DEF TimeFields
  <2> QED BY <2>1, <2>2, <2>3 DEF NamesYearlyDay
<1>10. 1..5 = {1, 2, 3, 4, 5}
  OBVIOUS
<1>11. CronMatches(u)
  BY <1>1, <1>2, <1>8, <1>9, <1>10 DEF CronMatches
<1> QED BY <1>7, <1>11 DEF u

(* The bounds of the fields are numbers. *)
LEMMA FieldBounds == \A f \in 1..5 : Lowest[f] \in Int /\ Highest[f] \in Int
<1>1. MinutesPerHour - 1 \in Int /\ HoursPerDay - 1 \in Int /\ DaysPerWeek - 1 \in Int
  BY CronAssumption
<1>2. Len(DaysBefore) - 1 \in Int /\ MaxDay \in Int
  BY CronAssumption
<1>3. 1..5 = {1, 2, 3, 4, 5}
  OBVIOUS
<1> QED BY <1>1, <1>2, <1>3 DEF Lowest, Highest

(* At the start nothing is parsed and the search has not begun. *)
LEMMA CronInitIsSafe == CronInit => CronIInv
<1> SUFFICES ASSUME CronInit PROVE CronIInv
  OBVIOUS
<1>1. CronTypeOK /\ SearchGoesOn /\ NextRunIsFirst
  BY CronAssumption DEF CronInit, CronTypeOK, SearchGoesOn, NextRunIsFirst
<1>2. \A min \in Int, max \in Int : FieldTexts(min, max) \subseteq Seq(Part)
  <2> SUFFICES ASSUME NEW min \in Int, NEW max \in Int, NEW t \in FieldTexts(min, max)
               PROVE  t \in Seq(Part)
    OBVIOUS
  <2>1. /\ StarPart \in Part /\ ValuePart(max) \in Part /\ ValuePart(min) \in Part
        /\ StepPart(min, max + 1, 2) \in Part /\ RangePart(max, min - 1) \in Part
    BY DEF Part, StarPart, ValuePart, StepPart, RangePart
  <2>2. \A p, q \in Part : <<p>> \in Seq(Part) /\ <<p, q>> \in Seq(Part)
    OBVIOUS
  <2>3. /\ <<StarPart>> \in Seq(Part) /\ <<ValuePart(max)>> \in Seq(Part)
        /\ <<StepPart(min, max + 1, 2), ValuePart(min)>> \in Seq(Part)
        /\ <<RangePart(max, min - 1)>> \in Seq(Part)
    BY <2>1, <2>2
  <2> QED BY <2>3 DEF FieldTexts
<1>3. PICK m \in FieldTexts(Lowest[1], Highest[1]), h \in {<<StarPart>>, <<ValuePart(Highest[2])>>},
           d \in FieldTexts(Lowest[3], Highest[3]), o \in {<<StarPart>>, <<ValuePart(Highest[4])>>},
           w \in FieldTexts(Lowest[5], Highest[5]) : cronText = <<m, h, d, o, w>>
  BY DEF CronInit
<1>4. m \in Seq(Part) /\ d \in Seq(Part) /\ w \in Seq(Part)
  BY <1>2, FieldBounds
<1>5. h \in Seq(Part) /\ o \in Seq(Part)
  <2>1. h \in FieldTexts(Lowest[2], Highest[2]) /\ o \in FieldTexts(Lowest[4], Highest[4])
    BY DEF FieldTexts
  <2>2. /\ FieldTexts(Lowest[2], Highest[2]) \subseteq Seq(Part)
        /\ FieldTexts(Lowest[4], Highest[4]) \subseteq Seq(Part)
    <3>1. /\ Lowest[2] \in Int /\ Highest[2] \in Int
          /\ Lowest[4] \in Int /\ Highest[4] \in Int
      BY FieldBounds
    <3> QED BY <1>2, <3>1
  <2> QED BY <2>1, <2>2
<1>6. 1..5 = {1, 2, 3, 4, 5}
  OBVIOUS
<1>7. TextsAreParts
  BY <1>3, <1>4, <1>5, <1>6 DEF TextsAreParts
<1> QED BY <1>1, <1>7 DEF CronIInv

(* Parsing starts the search; each iteration leaves one more minute behind    *)
(* that does not match (NextRun).                                             *)
LEMMA CronPreserves == CronIInv /\ [CronNext]_cronVars => CronIInv'
<1> SUFFICES ASSUME CronIInv, [CronNext]_cronVars PROVE CronIInv'
  OBVIOUS
<1> USE DEF CronIInv, CronTypeOK, TextsAreParts
<1>1. ASSUME UNCHANGED cronSets, NEW u PROVE CronMatches(u)' <=> CronMatches(u)
  BY <1>1 DEF CronMatches
<1>2. CASE UNCHANGED cronVars
  <2>1. NamesYearlyDay' <=> NamesYearlyDay
    BY <1>2 DEF cronVars, NamesYearlyDay
  <2> QED BY <1>1, <1>2, <2>1 DEF cronVars, SearchGoesOn, NextRunIsFirst
<1>3. CASE ParseAndStart
  <2>1. CronTypeOK' /\ TextsAreParts'
    BY <1>3, FieldBounds, ParsedIsInBounds DEF ParseAndStart, ParseCronExpression
  <2>2. NextRunIsFirst'
    BY <1>3 DEF ParseAndStart, NextRunIsFirst
  <2>3. SearchGoesOn'
    <3>1. cronAfter' \in Nat /\ cronTries' = 0 /\ cronAt' = cronAfter' + 1 /\ cronPc' # "text"
      BY <1>3 DEF ParseAndStart, SearchGoesOn
    <3>2. cronPc' = "search" => \A f \in 1..5 : cronSets'[f] # {}
      BY <1>3 DEF ParseAndStart
    <3>3. ASSUME NEW u \in (cronAfter' + 1)..(cronAt' - 1) PROVE FALSE
      <4> DEFINE a == cronAfter'
                 b == cronAt'
      <4>1. a \in Nat /\ b = a + 1 /\ u \in (a + 1)..(b - 1)
        BY <3>1
      <4> HIDE DEF a, b
      <4> QED BY <4>1
    <3>4. \A u \in (cronAfter' + 1)..(cronAt' - 1) : ~CronMatches(u)'
      BY <3>3
    <3>5. cronAt' = cronAfter' + 1 + cronTries' /\ cronTries' \in Nat
      BY <3>1
    <3> QED BY ONLY <3>1, <3>2, <3>4, <3>5 DEF SearchGoesOn
  <2> QED BY <2>1, <2>2, <2>3
<1>4. CASE SearchMatch
  <2>1. UNCHANGED <<cronSets, cronText>> /\ SearchGoesOn'
    BY <1>4 DEF SearchMatch, SearchGoesOn
  <2>2. NextRunIsFirst'
    BY <1>1, <1>4 DEF SearchMatch, SearchGoesOn, NextRunIsFirst
  <2> QED BY <2>1, <2>2
<1>5. CASE SearchOn
  <2>1. UNCHANGED <<cronSets, cronText, cronAfter>>
    BY <1>5 DEF SearchOn
  <2>2. \A u \in (cronAfter + 1)..cronAt : ~CronMatches(u)
    <3>1. \A u \in (cronAfter + 1)..cronAt : u = cronAt \/ u \in (cronAfter + 1)..(cronAt - 1)
      <4>1. SearchGoesOn
        OBVIOUS
      <4>2. cronAfter \in Nat /\ cronAt \in Nat
        BY ONLY <4>1, <1>5 DEF SearchOn, SearchGoesOn
      <4> QED BY <4>2
    <3> QED BY <3>1, <1>5 DEF SearchOn, SearchGoesOn
  <2>3. NextRunIsFirst' /\ SearchGoesOn'
    <3>1. /\ cronAt' - 1 = cronAt /\ cronPc = "search" /\ cronPc' = "search"
          /\ cronAt' = cronAfter' + 1 + cronTries' /\ cronTries' \in Nat /\ cronAfter' \in Nat
      BY <1>5 DEF SearchOn, SearchGoesOn, NextMinute
    <3>2. NextRunIsFirst'
      BY <3>1 DEF NextRunIsFirst
    <3>3. \A u \in (cronAfter' + 1)..(cronAt' - 1) : ~CronMatches(u)'
      BY <1>1, <2>1, <2>2, <3>1
    <3>4. \A f \in 1..5 : cronSets'[f] # {}
      BY <2>1, <3>1 DEF SearchGoesOn
    <3> QED BY <3>1, <3>2, <3>3, <3>4 DEF SearchGoesOn
  <2> QED BY <2>1, <2>3
<1>6. CASE SearchFallback
  <2>1. UNCHANGED <<cronSets, cronText>> /\ SearchGoesOn'
    BY <1>6 DEF SearchFallback, SearchGoesOn
  <2>2. cronAt - 1 = cronAfter + MaxIterations
    BY <1>6 DEF SearchFallback, SearchGoesOn
  <2>3. \A u \in (cronAfter + 1)..(cronAfter + MaxIterations) : ~CronMatches(u)
    BY <1>6, <2>2 DEF SearchFallback, SearchGoesOn
  <2>4. ~NamesYearlyDay
    BY <1>6, <2>3, YearlyDayIsFound DEF SearchFallback, SearchGoesOn
  <2>5. NamesYearlyDay' <=> NamesYearlyDay
    BY <2>1 DEF NamesYearlyDay
  <2>6. NextRunIsFirst'
    BY <1>1, <1>6, <2>1, <2>3, <2>4, <2>5 DEF SearchFallback, NextRunIsFirst
  <2> QED BY <2>1, <2>6
<1> QED BY <1>2, <1>3, <1>4, <1>5, <1>6 DEF CronNext

(* A parsed field holds only values a time can have, for any calendar. *)
THEOREM CronTypeCorrect == CronSpec => []CronTypeOK
<1>1. CronIInv => CronTypeOK
  BY DEF CronIInv
<1> QED BY <1>1, CronInitIsSafe, CronPreserves, PTL DEF CronSpec

(* The search for the next run loses no occurrence in between, however rare   *)
(* it is, and gives up only on a schedule that restricts the day of the week  *)
(* or names no day that every year has: NextRunIsFirst in every state, for    *)
(* any calendar with a leap day in four years and any start.                  *)
THEOREM NextRunIsFirstHolds == CronSpec => []NextRunIsFirst
<1>1. CronIInv => NextRunIsFirst
  BY DEF CronIInv
<1> QED BY <1>1, CronInitIsSafe, CronPreserves, PTL DEF CronSpec

-----------------------------------------------------------------------------
(* The composition. *)

(* Whatever job runs, each of the jobs behaves as its own specification says. *)
THEOREM JobsRunsItsParts ==
    JobsSpec => /\ ScriptsSpec
            /\ CronSpec
            /\ HealthSpec
            /\ SystemHealthSpec
            /\ BackupSpec
            /\ DiscoverySpec
            /\ WorkersSpec
<1>1. JobsInit => /\ ScriptsInit
                  /\ CronInit
                  /\ HealthInit
                  /\ SystemHealthInit
                  /\ BackupInit
                  /\ DiscoveryInit
                  /\ WorkersInit
    BY DEF JobsInit
<1>2. [JobsNext]_jobsVars => /\ [ScriptsNext]_scriptsVars
                            /\ [CronNext]_cronVars
                            /\ [HealthNext]_healthVars
                            /\ [SystemHealthNext]_systemVars
                            /\ [BackupNext]_backupVars
                            /\ [DiscoveryNext]_discoveryVars
                            /\ [WorkersNext]_workerVars
    BY DEF JobsNext, jobsVars
<1> QED BY <1>1, <1>2, PTL DEF JobsSpec, ScriptsSpec, CronSpec, HealthSpec, SystemHealthSpec, BackupSpec, DiscoverySpec, WorkersSpec

(* The job that runs keeps its types, for any number of scripts, apps,        *)
(* components, backups and containers and any calendar.                       *)
THEOREM JobsTypeCorrect == JobsSpec => []JobsTypeOK
<1> DEFINE Focus == focus \in {"scripts", "cron", "services", "alerts", "system", "backup",
                                "discovery", "overrun", "workers"}
<1>1. JobsSpec => []Focus
    <2>1. JobsInit => Focus
        BY DEF JobsInit
    <2>2. Focus /\ [JobsNext]_jobsVars => Focus'
        BY DEF JobsNext, jobsVars
    <2> QED BY <2>1, <2>2, PTL DEF JobsSpec
<1>2. /\ Focus
      /\ ScriptsTypeOK
      /\ CronTypeOK
      /\ HealthTypeOK
      /\ SystemHealthTypeOK
      /\ BackupTypeOK
      /\ DiscoveryTypeOK
      /\ WorkersTypeOK
      => JobsTypeOK
    BY DEF JobsTypeOK
<1> HIDE DEF Focus
<1> QED BY <1>1, <1>2, JobsRunsItsParts,
           ScriptsTypeCorrect, CronTypeCorrect, HealthTypeCorrect,
           SystemHealthTypeCorrect, BackupTypeCorrect, DiscoveryTypeCorrect,
           WorkersTypeCorrect, PTL
=============================================================================
