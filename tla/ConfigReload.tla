---------------------------- MODULE ConfigReload ----------------------------
(***************************************************************************)
(* Hot reload of the configuration: the watcher of the file with its       *)
(* debounce timer (internal/config/watcher.go), the reload that takes one  *)
(* part of the program after the other to the new configuration            *)
(* (handleConfigReload) and the shutdown, which stops the watcher first.   *)
(*                                                                         *)
(* The content of the file is one of ConfigFiles: whether it can be loaded *)
(* and its value for each part.  "fixed" stands for the settings that need *)
(* a restart, "table" for routes and apps (RouteRegistry.tla), "tokens"    *)
(* for the bootstrap tokens (Pairing.tla), "discovery" and "checker" for   *)
(* those settings of the two services that a reload compares.  Writes that *)
(* follow each other closely make one event here; an overflow of the       *)
(* kernel's event queue is left out.                                       *)
(***************************************************************************)
EXTENDS Naturals, FiniteSets

CONSTANTS ConfigFiles,      \* contents the file may have, the first start's included
          FirstConfig,      \* the content the program started with
          MaxFileWrites,    \* bound: writes to the file
          MaxReloadFaults   \* bound: parts that fail to take a configuration

ASSUME ConfigAssumption == /\ FirstConfig \in ConfigFiles /\ FirstConfig.loads
                           /\ MaxFileWrites \in Nat /\ MaxReloadFaults \in Nat

VARIABLES file,           \* the content of the file
          fileWrites,
          event,          \* an event of the file is in fsWatcher.Events
          debounceTimer,  \* whether the timer runs
          callbacks,      \* timers that fired and wait for reloadMu
          reloading,      \* the reload that holds reloadMu
          currentConfig,  \* Watcher.currentConfig
          parts,          \* what each part of the program runs with
          mixed,          \* parts a failed reload left ahead of currentConfig
          gaveUp,         \* the present content was refused
          watcher,        \* Watcher.Stop and the shutdown after it
          reloadFaults

fileVars == <<file, fileWrites>>
watchVars == <<event, debounceTimer, callbacks, reloading, currentConfig, parts, mixed,
                gaveUp, watcher, reloadFaults>>
configVars == <<fileVars, watchVars>>

Parts == {"table", "tokens", "discovery", "checker"}
IdleReload == [pc |-> "idle", new |-> FirstConfig]

ConfigInit ==
    /\ file = FirstConfig /\ fileWrites = 0
    /\ event = FALSE /\ debounceTimer = FALSE /\ callbacks = 0
    /\ reloading = IdleReload
    /\ currentConfig = FirstConfig
    /\ parts = [p \in Parts |-> FirstConfig[p]]
    /\ mixed = {} /\ gaveUp = FALSE
    /\ watcher = "running"
    /\ reloadFaults = 0

---------------------------------------------------------------------------
(* The watcher *)

\* Somebody writes the file, completely or not yet; the loop may have ended.
WriteFile(f) ==
    /\ fileWrites < MaxFileWrites /\ f # file
    /\ file' = f /\ fileWrites' = fileWrites + 1
    /\ event' = (event \/ watcher \in {"running", "cancelled"})
    /\ gaveUp' = FALSE
    /\ UNCHANGED <<debounceTimer, callbacks, reloading, currentConfig, parts, mixed, watcher,
                   reloadFaults>>

\* Mutant: an event during a reload is taken for one the reload will see.
DebounceUnlessReloading == debounceTimer \/ reloading.pc = "idle"

\* debounceReload: the timer starts anew; a callback that has fired goes on.
DebounceReload == TRUE

\* watchLoop chooses among what is ready: an event may still be taken when the
\* context is cancelled, until the loop sees that.
WatchEvent ==
    /\ event /\ watcher \in {"running", "cancelled", "closed"}
    /\ event' = FALSE
    /\ debounceTimer' = DebounceReload
    /\ UNCHANGED <<fileVars, callbacks, reloading, currentConfig, parts, mixed, gaveUp, watcher,
                   reloadFaults>>

TimerFires ==
    /\ debounceTimer
    /\ debounceTimer' = FALSE
    /\ callbacks' = callbacks + 1
    /\ UNCHANGED <<fileVars, event, reloading, currentConfig, parts, mixed, gaveUp, watcher,
                   reloadFaults>>

WatcherStop ==
    /\ watcher = "running"
    /\ watcher' = "cancelled"
    /\ UNCHANGED <<fileVars, event, debounceTimer, callbacks, reloading, currentConfig, parts,
                   mixed, gaveUp, reloadFaults>>

\* The timer is stopped, and the watcher of the directory closed.
StopTimer ==
    /\ watcher = "cancelled"
    /\ watcher' = "closed"
    /\ debounceTimer' = FALSE
    /\ UNCHANGED <<fileVars, event, callbacks, reloading, currentConfig, parts, mixed, gaveUp,
                   reloadFaults>>

\* The loop ends and Stop returns; a callback or a timer may be left.
LoopEnds ==
    /\ watcher = "closed"
    /\ watcher' = "stopped"
    /\ event' = FALSE
    /\ UNCHANGED <<fileVars, debounceTimer, callbacks, reloading, currentConfig, parts, mixed,
                   gaveUp, reloadFaults>>

\* Shutdown goes on with discovery and the health checker.
ShutdownServices ==
    /\ watcher = "stopped"
    /\ watcher' = "down"
    /\ parts' = [parts EXCEPT !["discovery"] = 0, !["checker"] = 0]
    /\ UNCHANGED <<fileVars, event, debounceTimer, callbacks, reloading, currentConfig, mixed,
                   gaveUp, reloadFaults>>

---------------------------------------------------------------------------
(* A reload *)

\* validateReload.
Reloadable(f) == f.loads /\ f.fixed = currentConfig.fixed

\* Mutant: the configuration is kept before the parts have taken it.
ReloadKeepsAtOnce ==
    /\ callbacks > 0 /\ reloading.pc = "idle"
    /\ callbacks' = callbacks - 1
    /\ IF Reloadable(file)
       THEN /\ reloading' = [pc |-> "table", new |-> file]
            /\ currentConfig' = file /\ UNCHANGED gaveUp
       ELSE gaveUp' = TRUE /\ UNCHANGED <<reloading, currentConfig>>
    /\ UNCHANGED <<fileVars, event, debounceTimer, parts, mixed, watcher, reloadFaults>>

\* A callback gets reloadMu, loads the file and validates it.
ReloadBegins ==
    /\ callbacks > 0 /\ reloading.pc = "idle"
    /\ callbacks' = callbacks - 1
    /\ IF Reloadable(file)
       THEN reloading' = [pc |-> "table", new |-> file] /\ UNCHANGED gaveUp
       ELSE gaveUp' = TRUE /\ UNCHANGED reloading
    /\ UNCHANGED <<fileVars, event, debounceTimer, currentConfig, parts, mixed, watcher,
                   reloadFaults>>

\* Routes and apps are always replaced, bootstrap tokens when their number
\* changed, the services when their settings did.
Changed(part) ==
    CASE part = "table" -> TRUE
      [] part = "tokens" -> Cardinality(reloading.new.tokens) # Cardinality(currentConfig.tokens)
      [] OTHER -> reloading.new[part] # currentConfig[part]

NextPart(part) == CASE part = "table" -> "tokens" [] part = "tokens" -> "discovery"
                    [] part = "discovery" -> "checker" [] part = "checker" -> "commit"

\* A part that was changed is as the new configuration says.
PartReloads(part) ==
    /\ reloading.pc = part
    /\ parts' = IF Changed(part) THEN [parts EXCEPT ![part] = reloading.new[part]] ELSE parts
    /\ mixed' = IF Changed(part) THEN mixed \cup {part} ELSE mixed
    /\ reloading' = [reloading EXCEPT !.pc = NextPart(part)]
    /\ UNCHANGED <<fileVars, event, debounceTimer, callbacks, currentConfig, gaveUp, watcher,
                   reloadFaults>>

\* The handler returns an error: when replacing routes or apps fails, one of
\* the two may have been replaced, and when discovery cannot be set up anew, the
\* old one is stopped. What was applied so far stays; nothing is tried again.
PartFails(part) ==
    /\ reloading.pc = part /\ part \in {"table", "discovery"} /\ Changed(part)
    /\ reloadFaults < MaxReloadFaults /\ reloadFaults' = reloadFaults + 1
    /\ \/ part = "table" /\ UNCHANGED parts
       \/ part = "table" /\ parts' = [parts EXCEPT ![part] = reloading.new[part]]
       \/ part = "discovery" /\ parts' = [parts EXCEPT ![part] = 0]
    /\ mixed' = mixed \cup {part}
    /\ reloading' = IdleReload
    /\ gaveUp' = (gaveUp \/ reloading.new = file)
    /\ UNCHANGED <<fileVars, event, debounceTimer, callbacks, currentConfig, watcher>>

\* The handler is done: the watcher keeps the configuration. A part that a failed
\* reload left behind and this one did not touch stays as it is.
ReloadSucceeds ==
    /\ reloading.pc = "commit"
    /\ currentConfig' = reloading.new
    /\ mixed' = {p \in mixed : parts[p] # reloading.new[p]}
    /\ reloading' = IdleReload
    /\ UNCHANGED <<fileVars, event, debounceTimer, callbacks, parts, gaveUp, watcher,
                   reloadFaults>>

ConfigNext ==
    \/ \E f \in ConfigFiles : WriteFile(f)
    \/ WatchEvent \/ TimerFires
    \/ WatcherStop \/ StopTimer \/ LoopEnds \/ ShutdownServices
    \/ ReloadBegins \/ ReloadSucceeds
    \/ \E p \in Parts : PartReloads(p) \/ PartFails(p)

ConfigSpec == ConfigInit /\ [][ConfigNext]_configVars

---------------------------------------------------------------------------
(* Properties *)

\* The variables keep their types; no more callbacks wait than there were writes.
ConfigTypeOK ==
    /\ file \in ConfigFiles /\ fileWrites \in 0..MaxFileWrites
    /\ event \in BOOLEAN /\ debounceTimer \in BOOLEAN /\ gaveUp \in BOOLEAN
    /\ callbacks \in 0..MaxFileWrites
    /\ reloading.pc \in Parts \cup {"idle", "commit"} /\ reloading.new \in ConfigFiles
    /\ currentConfig \in ConfigFiles
    /\ DOMAIN parts = Parts /\ mixed \subseteq Parts
    /\ watcher \in {"running", "cancelled", "closed", "stopped", "down"}
    /\ reloadFaults \in 0..MaxReloadFaults

\* A write to the file is never forgotten: as long as the watcher runs, a content
\* that differs from the configuration in use was refused, or is being applied,
\* or an event, a timer or a callback will still have it loaded, whatever reload
\* was under way when it was written.
NoWriteIsLost ==
    watcher = "running" /\ file # currentConfig /\ ~gaveUp
    => \/ event \/ debounceTimer \/ callbacks > 0
       \/ reloading.pc # "idle" /\ reloading.new = file

\* Every part runs with the configuration the next reload will be compared with,
\* or the next reload would miss a change. The exceptions are the parts a reload
\* under way or one that failed has changed, and bootstrap tokens that were
\* replaced by as many others.
PartsFollowConfig ==
    watcher # "down" =>
      \A p \in Parts \ mixed :
        IF p = "tokens" THEN Cardinality(parts[p]) = Cardinality(currentConfig[p])
        ELSE parts[p] = currentConfig[p]

\* The program follows the file: no write is lost and no part left behind.
ProgramFollowsFile == NoWriteIsLost /\ PartsFollowConfig
=============================================================================
