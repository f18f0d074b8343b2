# Nekzus: a verification project

TLA+ models of Nekzus, the TLC runs that check them on small instances, and
TLAPS proofs, for every instance, of the safety properties those runs check.
Paths below are relative to the repository, `src/` in PROJECT.json.

Nekzus is a gateway for self-hosted services. It discovers containers, routes
HTTP requests to them, pairs mobile devices, pushes notifications to them over
WebSockets, deploys services, runs scripts, and shares its catalog with other
instances. It is one Go process with one SQLite database: what can go wrong is
what its goroutines do to one another between two critical sections, what a
crash or a failing statement leaves in the tables, and what the network, Docker
and the file system do in between.

## 1. The system

### Parts, their state and their operations

| part | state | operations | hard because |
|---|---|---|---|
| notification queue, ACK tracker (`internal/notifications`) | buffered channel, workers, table `notifications`, pending tokens | Enqueue, worker, RetryDevice, ACK, checkTimeouts, Stop; dismiss, bulk retry, clear | every statement on a row runs outside any lock; retries, late ACKs, timeouts, revocation, shutdown interleave |
| WebSocket hub (`internal/websocket/manager.go`) | `clients`, `clientsByDevice`, subscriptions, last wills | connect, hello, subscribe, set will, disconnect, broadcast | two indexes, broadcasts after the unlock, administrative disconnects |
| container log streams (`internal/handlers/log_stream_manager.go`) | map device → stream | start, stop, end | the deferred removal of a replaced stream |
| federation (`internal/federation`) | vector clock, tables, broadcast queue | local change, gossip, exchange, join, leave | lossy, reordered messages; clock lost at a restart; foreign keys |
| route registry (`internal/router`) | routes, apps, radix tree, subdomain index; tables | upsert, remove, replace | rows are saved after the unlock, with a rollback |
| pairing (`internal/auth`, `internal/handlers`) | codes, bootstrap tokens, limits | QR, redeem, pair, consume, clean up | two stores that do not know each other; checked at the start, consumed at the end |
| devices, users, API keys | rows, signed tokens, sessions | pair, refresh, access, revoke, rename; setup, login, keys | updates left to goroutines; check before insert |
| scripts (`internal/scripts`) | channel, workers, executions, containers, schedules | execute, submit, run, schedule, Stop | a row and a job that different goroutines write; shutdown |
| service health, `/healthz` (`internal/health`) | status and counters, alerts, cache | probe, mark, reload; check | late probes, a replaced checker, a cache |
| backup (`internal/backup`) | files, tables | create, retain, delete, restore | tables change while they are read; a crash in a write |
| discovery (`internal/discovery`) | proposals, dismissed set, rows | scan, submit, approve, dismiss, rediscover | proposals that come back while they are decided on |
| toolbox, containers (`internal/toolbox`, `internal/handlers`, `internal/runtime`) | deployments, Docker's containers | deploy, remove; start, stop, restart, bulk | several Docker calls one of which fails; deadlines |
| certificates (`internal/certmanager`) | certificates in memory and table | generate, renew, replace, delete, handshake | handshakes write to the memory |
| server (`cmd/nekzus/main.go`) | servers, `serverDone`, `tlsUpgrade` | serve, upgrade to TLS, shut down | three goroutines hand over one address |
| reverse proxy (`internal/proxy`) | proxy cache, kept cookies, tunnels | request, reply, upgrade | requests go on with the route they read |
| configuration (`internal/config/watcher.go`) | file, timer, current configuration | write, debounce, reload part by part | writes during a reload, parts that fail |
| rate limiter, metrics, export, middleware, web UI | none, or counters | request processing | not concurrent state |

PROJECT.json lists every part with its files and its status.

### How the parts interact

* A webhook or a component calls `Queue.Enqueue`. Workers send through the hub;
  the hub's connect callback starts a `RetryDevice` goroutine; an `ack` message
  reaches `ACKTracker.ACK`, whose callback marks the row.
* Revoking a device deletes its row and notifications, then disconnects it.
  Pairing consumes a code in one store and a token in another, disconnects the
  device, and saves it.
* The end of a connection stops the device's log stream, announces the device
  and publishes its last will.
* `UpsertApp` and `RemoveApp` call the federation. Approving a proposal calls
  `UpsertApp`, then `UpsertRoute`. A route change evicts a cached proxy once it
  is saved.
* A change of the configuration file takes tokens, discovery, the health
  checker, routes and apps to the new configuration one after the other.
* The container handlers tell the health checker that an app is down.
* The request that makes the first certificate asks the event loop for TLS.
* `PRAGMA foreign_keys` is set on one connection of the pool
  (`internal/storage/storage.go`), so whether a statement is refused, or a delete
  cascades, depends on the connection it gets. The models leave this open.

What makes each part correct is the list of properties in section 3; the
hazards each of them is for are in PROJECT.json.

## 2. The modules

Each component has a module with its state and one action per operation or step
(a step ends where the code releases a lock, runs an SQL statement, calls Docker
or sends). `map` in PROJECT.json gives the lines of each definition. Operators a
comment marks as *Mutant* are faulty variants of the definition below them; no
specification uses them. They show that each checked property notices a
plausible mistake.

| module | models | left out |
|---|---|---|
| NotificationLife | *abstract*: what is promised about a notification | |
| NotificationQueue | channel, workers, retries, tokens, rows, revocation, crash; implements NotificationLife | payloads, choice of devices |
| WebSocketHub | the handler of each connection step by step, both indexes, topics, last wills, disconnects | topic matching, write pump |
| LogStreams | streams, the manager's entries | log lines |
| Federation | clocks, catalogs, gossip, exchanges, membership, restart | content of an app |
| RouteRegistry | three indexes, tables, rollback, reload, restart | longest-prefix search |
| Pairing | codes and tokens with lifetimes, lock-outs, hourly limits, two pairings at once | drawing of codes |
| Devices | rows, tokens, strict and IP-based access, late updates, revocation, rename | signatures |
| Accounts | setup, login, sessions, API keys | hashing |
| Certificates | memory and table, handshakes, renewal under another name | key generation |
| ExecutionLife | *abstract*: what is promised about an execution and the status in its row | |
| Scripts | handler, runner, container executor, scheduler, rows; implements ExecutionLife | what a script does |
| Cron | parsing of a field, the search for the next run, on a calendar of parameters | |
| ServiceHealth | probes, counters, alerts, saves, checkers replaced by a reload | the HTTP request |
| SystemHealth | requests, cache, checkers, seconds | |
| Backup | snapshot table by table, files, retention, restore row by row | file format |
| Discovery | channel, processor, maps and rows, approval, dismissal, rediscovery, reload | |
| DiscoveryWorkers | which container, service or ingress is proposed, with which address | talking to Docker and Kubernetes |
| Toolbox | deployment goroutine call by call, deadline, clean-up, removal | templates |
| Containers | runtime registry, single, batch and bulk operations | statistics |
| Server | servers, goroutines that serve, event loop, upgrade, shutdown | routes |
| Proxy | decisions, cache, cookies, tunnels | rewriting |
| ConfigReload | file, events, debounce, reload part by part, shutdown | parsing |

### Points worth knowing when reading them

* *NotificationQueue.* A worker or retry goroutine is a program counter `pc[p]`
  with the notification `cur[p]`; `RetryDevice` also has its snapshot of rows.
  Each SQL statement is an operator, and the step that runs it may fail
  (`MaxErrors`). The refinement mapping `notificationLife` reads the life of a
  notification off channel, workers, rows and dropped set
  (`Notification == INSTANCE NotificationLife WITH ...`); what the device
  acknowledged is `received`. `NotificationsLiveOnce` is its specification.
* *RouteRegistry.* `UpsertRoute` changes the indexes in one step and saves in
  another; a failed save is followed by the rollback as a third.
  `UpsertRouteWithValidation` holds the lock throughout. `Restart` loads the
  tables in any order. The tree is the route it holds at each path. A route that is
  registered takes the path, and the subdomain, from the route that had it, which
  stays in the map; when the newcomer is refused, rolled back or removed nothing
  puts the other one back. `displaced` and `unindexed` are the routes that lost
  their place this way, or by a rollback or reload.
* *Federation.* A deletion travels without a tombstone field and is read as an
  update. Gossip is a set: reordered, and lost when nothing delivers it.
* *Pairing.* A QR code stands for its code and its token, which live in two
  stores. Minutes are counted; the hourly windows end by a step of their own.
* *Scripts.* An execution has a row and a `place`, where its job is. A refinement
  mapping on `place` gives ExecutionLife (`Life == INSTANCE ExecutionLife WITH ...`),
  whose second variable is the status in the row (`execRow`): it only advances, and
  may lag behind the execution but is never ahead of it. `ExecutionsRunOnce` is its
  specification, `AcceptedEnds` its liveness. The handler reads the script in one
  step and saves the row in another, between which the script may be deleted.
* *Cron.* The calendar repeats after four years, the last of which has a leap day
  at the end of month `LeapMonth`. With two minutes an hour, two hours a day, four
  days a week and months of three and two days, that is short enough to search
  completely. `MaxIterations` is the code's limit, a day less than four years, so
  the fallback is reached in the run by valid expressions: by one that names the
  leap day, asked for from just after it, and by one whose day of the month never
  falls on its day of the week within the limit. `NextRunIsFirst` accepts the
  fallback for a schedule that names no day of every year (`NamesYearlyDay`) and
  for no other. Otherwise the reference definition is "no minute in between matches".
* *ServiceHealth.* A probe changes the status and spawns its alert under the lock;
  `MarkAppUnhealthy` unlocks first, and `MarkAnnounces` spawns the alert in a step
  of its own. An alert under way is a goroutine (`alerting`), and
  `PublishHealthChange` lets them run in any order. `told` is what the devices were
  told last; `alertsCrossed` records that two alerts of one app were under way at
  once, the only case in which the last word may be the older.
* *Discovery.* `Stop` waits five seconds at most. `DiscoveryReload` may therefore
  leave a processor behind (`leftover`: its channel, its job, its maps), which goes
  on to write rows beside the new manager.
* *Proxy.* Several callers (`RouteEditors`) change the route at a time, because
  `UpsertRoute` releases its lock before it saves: memory is changed by
  `ChangeTarget`, then the row is saved and the old proxy evicted, or the change
  is rolled back to what this caller saw. `RoutesReplaced` comes at any time and
  evicts nothing; it also stands for `UpsertRouteWithValidation`, which has no
  callback either. `strays` are the cached proxies the code forgets: a reader that
  still had the old route, what a rollback took from memory (also another caller's
  change, saved meanwhile), removals the table refused, and changes without a
  callback.
* *WebSocketHub.* `Authenticate` is the look-up of the device, `Subscribe` the
  registration; a revocation, which deletes the row (`registered`) and disconnects,
  may pass between the two. Such a connection is `overtaken`, and stays registered.
* *Containers.* A batch is a list with repetitions: `times` says how often it names
  each container, and every entry is an operation of its own.
* *Histories.* `crossed` (Discovery), `contended` (Certificates), `strays` and
  `forgotten` (Proxy), `overtaken` (WebSocketHub), `alertsCrossed` (ServiceHealth),
  `displaced` and `unindexed` (RouteRegistry), `mixed` (ConfigReload) record where two
  actors really met or a call failed. They are never read by an action; the
  invariants are stated for everything else, so that the exceptions the code has
  are named one by one instead of being assumed away.

### Composition

`MCJobs`, `MCAccess`, `MCPlatform` and `MCProgress` put several components into
one specification. In these the components share no variable, so a behaviour
runs one of them, chosen by `focus` at the start, while the others stay in an
initial state: the states add up, where the product would multiply them and
show nothing that a component alone does not. Three components run under two foci
each, so that not all of their behaviour is multiplied: the service checker with
reloads, restarts and saves but prompt alerts ("services"), and with one checker,
failing saves and alerts in any order ("alerts"); discovery with reloads that wait
for the old manager ("discovery"), and with those that do not but without
rediscoveries and failing scans ("overrun"); the proxy with two requests and one
route ("sessions"), and with one request while the route is changed ("routing").
Where components do interact, the
interaction is inside a module: the hub's connect, disconnect and revocation in
NotificationQueue, pairing codes and bootstrap tokens in Pairing, routes and proxies in
Proxy, reloads in RouteRegistry, ServiceHealth, Discovery and Pairing, and the
shutdown order in NotificationQueue, Scripts and ConfigReload.

## 3. The runs

| run | instance | distinct states | shows |
|---|---|---|---|
| notif_rows | 1 notification, worker, retry, 2 tokens, 2 attempts, 1 failing statement, revocation, expiry, web UI, Stop, crash | 1,580,336 | RetryAccounting, DeliveredMeansAcked, NotificationsLiveOnce |
| notif_delivery | 2 notifications, channel of 1, worker, retry, 1 attempt | 27,624 | EventuallyReceived |
| progress | queue (3 notifications, channel of 2, 2 workers, Stop, crash), federation (2 peers, 2 writes, 1 restart), scripts (2 executions), streams (3), server (3 objects, 2 requests) | 140,919 | StopDrains, StopTerminates, AcceptedExactlyOnce, TrackedNotCancelled, CancelledEnds, Converges, AcceptedEnds, UpgradeCompletes |
| jobs | scripts, cron, both health checks, backup, discovery | 1,878,881 | NothingIsOrphaned, ExecutionsRunOnce, NextRunIsFirst, AlertsFollowStatus, HealthyIsRecent, BackupsAreGood, ActiveIsListed, ProposalsAreAllowed |
| access | routes (2 callers, 5 calls, 2 configurations), pairing (2 requests), devices (2), accounts (2 setups), certificates | 1,420,410 | TreeIsCurrent, RegistryAgrees, CodesPairOnce, RevokedStaysOut, SetupAnswersHold, MemoryIsPersisted |
| platform | hub (2 connections), federation (2 peers, 2 services), toolbox (2 deployments), containers (3, batches of 2), proxy (2 requests, 2 devices, 2 editors, 3 targets), configuration (3 writes) | 1,493,045 | IndexesAgree, OfflineAnnounced, RevokedIsDisconnected, ClocksAreSound, OwnerDecides, DeploymentsAreWhole, BulkAnswerIsComplete, CookiesAreOwn, NothingLeaks, ProgramFollowsFile |
| notif_closed, hub_silent, logs_single, fed_rollback, toolbox_removed, server_twice | the smallest that shows it | – | one violation each, below |

Each of the four composed runs also checks the type invariant of the component
that runs. Deadlock checking is off: all these components may really stop (calls
answered, connections closed, bounds reached).

### Why the bounds are enough

* *Queue.* Rows are independent but for the channel and the retry snapshot, so
  one row with a worker and a retry meets every pair of statements; two tokens
  give a late ACK after a resend; two attempts separate "last" from "not last".
  Three notifications fill a channel of two and reach the fallback to storage.
* *Hub.* Devices share nothing but the lock. Two connections are the least for
  "not the last one" and for one that a revocation overtakes while it disconnects
  another; a limit of one is exceeded by any second pattern.
* *Log streams.* The replaced stream, its successor, and the one that should have
  found the successor.
* *Federation.* Two writes make an old and a new version or a deletion; a queue
  of one overflows at the second message. Three peers are needed for records
  from third parties (fed_rollback); all properties with three peers are out of
  TLC's reach.
* *Routes.* Four offers make two routes compete for both paths (one by way of
  the added slash) and both subdomains, one of them in path mode.
* *Pairing.* Codes only share limits and tokens; one QR code with two requests
  meets every overlap of a pairing with itself, with expiry (lifetime 2, lock 1),
  and with every limit at 1 or 2.
* *Scripts.* One worker and one place in the channel are full with the second
  execution. One fault is a failing statement or a restart.
* *Cron.* The starts are the first minute of a cycle of four years, the last one of
  a leap day, and the last one of a month.
* *Health.* A threshold of two separates the first failure from the second; two
  generations of checkers; one probe and one save may be late; two alerts are the
  least that can overtake each other.
* *Backup.* Two backups with a retention of one delete the older; a restore may
  read a snapshot that a change went through.
* *Discovery.* Ports of one service share a route and otherwise nothing; one
  proposal meets its own second sighting at every step. One stopped manager at a
  time may be left over: a second reload would need to come within the seconds in
  which the first one still works.
* *Toolbox.* Two deployments of one name; two Compose services, so that the
  second call may fail after the first.
* *Server.* Three server objects: the first, the upgraded one, one too many.
* *Containers.* One container of each kind; a batch of two entries names one
  container twice or two of them; one operation at a time makes entries wait for
  the semaphore. The containers start all running or all stopped.
* *Proxy.* Two devices and two requests exchange or mix up one cookie; two replies
  let the second be under way when the cookies of the first are forgotten. Three
  targets and two editors are the least with which a rollback restores a target
  that another change has evicted.
* *Configuration.* Five contents: a change of all, one of the tokens alone, one
  that needs a restart, a half-written file, and the way back; the third write
  may come during the reload of the second.

### Fairness

Fairness is stated only of steps the program itself takes.

* The Go scheduler runs a goroutine that can run, a closed channel wakes its
  receivers, and a cancelled context unblocks a read: weak fairness of each
  worker and its delivery, of `StopReturns`, of each cancelled stream, of the
  holder of a script's job (a script ends by its timeout at the latest) and of
  the runner's workers, and of the goroutines and the event loop of the server.
  A request ends, because `Shutdown` or its own timeouts end it.
* memberlist exchanges state periodically: weak fairness of sending, strong
  fairness of an exchange that is tried again and again. Nothing is assumed of
  gossip, which may all be lost.
* notif_delivery asks of the *device* that it keeps reconnecting, that sends to
  it do not fail for ever and that it answers (strong fairness). The code does
  not guarantee it; the property is about what the server does for such a device.

### What the violations show

* **notif_closed** (code bug). `Shutdown` stops the queue, which closes the
  channel, before it stops the HTTP server; its own comment says "Shutdown HTTP
  server first". A webhook served in between panics.
* **hub_silent** (code bug). After an administrative disconnect
  `clientsByDevice` keeps the removed clients, so later handlers of the device
  never see "no connections remain" and its offline status is not broadcast.
* **logs_single** (code bug). The deferred `RemoveStream` of a replaced stream
  deletes the entry of its successor: two streams run, against "Enforces single
  stream per device constraint".
* **fed_rollback** (documentation). Records of one remote origin are not
  compared by clock, so a late exchange restores an older version, against "If
  clock A happened-before clock B, B wins".
* **toolbox_removed** (code bug). The project name of a Compose deployment is
  saved as its route ID; the removal takes it for a container without an ID,
  removes nothing from Docker and deletes the row.
* **server_twice** (code bug). The upgrade signal of a second request, sent
  after the event loop took the first, starts a second restart, which closes
  `serverDone` twice or ends the program.

### Seen while modelling, without a run

* `websocket_handlers.go:263`: the last will is published for a normal close and
  not for a broken connection, against `types.go:14`. `websocket_handlers.go:200`:
  a client whose hello fails stays registered. `StopAllForDevice` at the end of
  one connection stops the stream another one asked for.
* `docs-site/docs/features/federation.md`, lines 45, 145, 146: tie-breaking and
  tombstones differ from `resolver.go`. `federation.go:466` calls memberlist with
  the manager's lock held, and memberlist calls back into that lock under its own.
* `registry.go`: overlapping `UpsertRoute` calls for one ID may save in another
  order than they changed memory, as does a rollback over a later change; a
  rollback frees its subdomain even if another route owns it (144); a refused
  route has displaced the route at its path (108); `ReplaceRoutes` leaves the
  subdomain index as it was (524). So a refused or failed upsert, or the removal of
  the newcomer, leaves the displaced route in map and table, listed by the API, but
  unreachable until a restart: exactly the `displaced` and `unindexed` routes
  RegistryAgrees excepts. `SaveRoute` has no column for five settings of
  a route, so that a restart forgets them.
* `main.go:566` saves static routes before their apps; the foreign key may refuse
  them at the first start.
* `scripts/scheduler.go:384`: `NextRun` searches 1460 days. "0 0 29 2 *", asked for on
  29 February, has its next time 1461 days later, and so gets the fallback of one
  minute, every minute of that day: the script runs again and again, where the
  comment at line 394 says "should never happen with valid cron expressions". So may an
  expression that asks for a day and a weekday, which must both match.
* Scripts: `Submit` may send on the queue that `Stop` has closed; an execution
  the runner refuses, or that a process took with it, keeps its status.
* Accounts: two setups that race may create two first users.
* Pairing: a reload that changes the number of permanent tokens replaces the
  whole store, short-lived tokens included; a change to as many other tokens is
  not noticed (`main.go:1452`).
* ConfigReload: four settings of discovery are compared, where
  `configuration.md:838` says "All discovery settings"; SIGHUP is documented and
  not handled; a timer that fired before `Watcher.Stop` reloads after it and may
  start discovery again during the shutdown.
* Health: after a reload the container handlers still mark the old checker, and the
  new one is given the hub but not the notification queue (`main.go:1524`, compare
  507). Two alerts of one app that are under way together may reach the devices in
  the wrong order, which then show the older status until the next change.
* Discovery: the processor reads a route, and saves it later with the new host of
  its container; a route removed in between comes back. Docker's ports are
  filtered by the port of the host, and in mode "all" the probe and the proposal may
  choose different networks (`docker.go:230`, 285). On Kubernetes the label
  `nekzus.enable=false` of a namespace is not looked at when all namespaces are
  scanned, because only namespaces that were listed are fetched, and for an ingress
  neither that of its namespace nor that of its backend service is
  (`kubernetes.go:342`). `ServiceIsNotOff` and `IngressIsNotOff` say what is looked at.
  When a reload does not wait for the old manager, that may add a row for a
  proposal the new one has dismissed.
* WebSocketHub: a connection that read the row of its device before a revocation and
  registers after it stays connected (`websocket_handlers.go:132`).
* Certificates: a renewal may file the new certificate under another name and
  leave the old one; a handshake may bring a deleted one back into memory.
* Containers: a lone pod that was stopped is deleted and cannot be started again.
* Proxy: a cookie with a negative Max-Age deletes all cookies of the app
  (`session_cookies.go:62`); when two changes of a route overlap and the first is
  rolled back after the second was saved, the second one's target is saved, another
  is in use, and its proxy stays cached; a tunnel is closed `IdleTimeout` after its start,
  busy or not; `CleanupExpiredProxyCookies` has no caller.
* `jobs/offline_detection.go`: two concurrent calls of `Stop` close a channel
  twice; the program calls it once.

## 4. The proofs

All theorems are for arbitrary constants that satisfy the named assumptions of
the modules: bounds are natural numbers, and positive where the code has a
capacity, a lifetime or a threshold that is; functions among the constants have
their types; the names of different kinds of things differ (`None` is no value,
a Compose service is no deployment ID, "none" is no password, a QR code is no
permanent token, no deployment ID is empty, "first" is no
request); the containers of a bulk request and the requests of the proxy,
which are counted, are finitely many. TLC evaluates the assumptions in every run.

`XTypeOK` below is the type invariant of the component, `XSpec` its specification.

| module | about | theorems besides the types |
|---|---|---|
| NotificationQueueProofs | NotificationQueue, NotificationLife | RetryAccountingHolds, DeliveredMeansAckedHolds, AcceptedExactlyOnceHolds, StopDrainsHolds; NotificationsLiveOnceHolds, the refinement `Spec => Notification!LifeSpec` |
| LogStreamsProofs | LogStreams, Server, MCProgress | TrackedNotCancelledHolds, SingleBeforeRemovalsHolds, OneUpgradeKeepsServingHolds; the types of Server with `ServersAreMade`; ProgressRunsItsParts |
| RouteRegistryProofs | RouteRegistry | TreeIsCurrentHolds, RegistryAgreesHolds |
| ScriptsProofs | Scripts, ExecutionLife | NothingIsOrphanedHolds; ExecutionsRunOnceHolds, the refinement `ScriptsSpec => Life!LifeSpec` |
| AccessProofs | Devices, Accounts, Pairing, Certificates, MCAccess | RevokedStaysOutHolds, SetupsAreKept, CodesPairOnceHolds, MemoryIsPersistedHolds; AccessRunsItsParts |
| FederationProofs | Federation | ClocksAreSoundHolds; OwnerDecidesHolds, NewerWinsOtherwiseHolds (`[][...]`) |
| PlatformProofs | WebSocketHub, Toolbox, Containers, Proxy, ConfigReload, MCPlatform | IndexesAgreeHolds, OfflineAnnouncedHolds, RevokedIsDisconnectedHolds, DeploymentsAreWholeHolds, RemovedContainerIsGoneHolds, BulkAnswerIsCompleteHolds, CookiesAreOwnHolds, NothingLeaksHolds, ProgramFollowsFileHolds; PlatformRunsItsParts |
| JobsProofs | ServiceHealth, SystemHealth, Discovery, DiscoveryWorkers, Backup, Cron, MCJobs | AlertsFollowStatusHolds, HealthyIsRecentHolds, ActiveIsListedHolds, ProposalsAreAllowedHolds, BackupsAreGoodHolds, NextRunIsFirstHolds; JobsRunsItsParts |

A theorem `PHolds` (and `SetupsAreKept`) says `XSpec => []P`, or that every step
satisfies P where the table says so. The type invariant of each component named
is a theorem too (RegistryTypeCorrect, QueueTypeCorrect and so on), and so are those
of the four compositions (ProgressTypeCorrect, JobsTypeCorrect, AccessTypeCorrect,
PlatformTypeCorrect).

A component is proved about on its own, and `XRunsItsParts` carries the result over:
every behaviour of a composition is a behaviour of each of its components, because a
step of the composition is a step of the component it runs and a stutter of the
others. So each theorem about a component is one about the composed specification
TLC checks, for all constants; the type invariants of the compositions follow that
way. An `MC` module that composes components is about arbitrary constants too;
only its `.cfg` makes them small.

Each proof has the same three parts: the invariant holds at the start, every
action preserves it, and it implies the property. What the invariant has to add
to the property is what one has to understand about the component. The
parts were checked by TLC, as invariants of the run's instance, before they were
proved.

* *NotificationQueue.* Types are proved action by action; `WorkType` is part of
  them: a goroutine at a statement holds the notification the statement is about.
  `StepIsOneMove` sorts all steps into seven kinds (`OneMove`): one statement on the
  table, with or without a write of `received`; a notification that is accepted,
  stored or dropped; a token that is received; or none of these. Only a notification
  that is new or in a worker's hands is inserted. The invariants about rows and the
  refinement are proved kind by kind. *DeliveredMeansAcked* needs
  `TokensAgree`: what the tracker and an ACK in progress say of a token is what
  was sent under it. *StopDrains* needs `DoneMeansDrained`: a worker ends only
  after Stop and with an empty channel, after which nothing can be sent to it.
  *NotificationsLiveOnce* needs AcceptedExactlyOnce, for the mapping to have one
  answer, DeliveredMeansAcked, because NotificationLife lets only acknowledged ones
  be delivered, and `SentWasStored`: what was sent under a token was stored before,
  so that nobody acknowledges what is still in memory. That a deleted notification
  stays deleted is part of NotificationLife: nothing leaves "deleted".
* *LogStreams.* `StartedOnly`: the stream a start tracks is new. *SingleBeforeRemovals*
  is where the constraint of logs_single holds: `AliveIsTracked` says that a stream
  whose removal is still to come is cancelled or tracked, until a cancelled one is
  removed.
* *Server.* `ServersAreMade`: nobody listens or serves with a server object that
  was not made, and the one app.httpServer names was. *OneUpgradeKeepsServing* is where
  the claim of server_twice holds: as long as one restart was started. `HandOver`
  says who has the address and what the event loop will hear, before the restart
  (`BeforeRestart`) and at each step of it (`DuringRestart`).
* *RouteRegistry.* *TreeIsCurrent* needs `IdsMatch`: every map from IDs has routes
  under their own IDs, and a rollback restores a route of the ID it removes; the
  lemmas about the tree say with which change of the map each operation keeps the
  tree current. *RegistryAgrees* is about calls that came one after the other
  (`orderly`), but holds only when they are over: `Behind` says how far the
  tables are behind the memory at each step of such a call, `SavesCurrent` that
  what it saves or rolls back is what the map has, `OrphansAreAlone` that no route
  has the app it removes. `WithResolves` and `WithoutResolves` are about the
  subdomain index. That every route is in the tree and in the index is about all
  calls, overlapping ones included, but for the displaced and unindexed routes;
  it needs that no two rows have one subdomain (`UniqueRows`), because a restart
  builds the index from the rows in any order.
* *Scripts.* `QueueAgrees` ties the channel to the places: each queued execution
  is in it exactly once, so that the step of the refinement that starts a job
  starts one that nobody else has. `RowsAreOwned` and `ContainersAreOwned`, the
  parts of NothingIsOrphaned, then speak of the one goroutine that has the job;
  `OnlySubmittedWait` and `SchedulerAgrees` say which kind of goroutine that is.
  The rows of ExecutionLife need `RowsFit`: what the row says is not ahead of where
  the execution is.
* *Devices, Accounts.* A revoked device has no row, which every strict check asks
  for; a password set by a setup is never overwritten, because CreateUser only
  inserts.
* *Pairing.* A code and its token live in two stores with two clocks.
  `AliveTokensPair` says that the token of a code in its lifetime has time left and
  is not locked out, or that its pairing is recorded; `PairedAreUsed` that a code
  whose token paired is used or gone.
* *Certificates.* A domain that only one writer at a time works on (`OneWriter`)
  is consistent up to where that writer stands (`WriterAgrees`). The types rest on
  which requests there are (`CertificatesAssumption`: lists of names).
* *Federation.* A record spends most of its life in a queue, a message or an
  exchange, so the invariant is about every version held anywhere: nobody is ahead
  of a peer in that peer's own changes (`OwnersLead`), the origin's own count
  identifies a version (`CountsIdentifyVersions`), only hosts make versions
  (`HostsMakeVersions`), nobody gossips to itself. This covers any number of peers
  and services; the run has two. *NewerWinsOtherwise* says where the rule that
  fed_rollback refutes does hold: a record gives way only to one that did not happen
  before it when it is its own peer's, or when the two come from different peers,
  and a peer writes no older version than it has unless it was restarted. The
  lemmas say so of the comparison (`BeforeIsStrict`, `MayReplace`) and of each of
  the three ways a record is replaced.
* *WebSocketHub.* RevokedIsDisconnected needs `NewcomersAreOvertaken`: a handler that
  passed the look-up of a device whose revocation is through was overtaken by it.
  What clientsByDevice lists in excess was removed by
  DisconnectDevice (`ExcessWasKicked`), and whoever has come past the registration
  is in one of the two (`HandlersAreRegistered`). `WithoutFacts` is the lemma about
  removing a client from a list.
* *Toolbox.* `PartsAreInPlace`: how many parts the goroutine of a deployment has
  made and started at each of its steps; `NothingMadeYet`: before its first
  creation, and after a creation that failed cleanly, there is none.
  *RemovedContainerIsGone* is where the comment of toolbox_removed holds: for single
  containers. `RemovalsReach`: a row says "deployed" only when it has the ID of the
  container and its goroutine is over, so that the removal, which acts on the row it
  read, reaches the container and nobody makes another.
* *Containers.* Each entry of a bulk request is in exactly one of the four
  places it can be in, and the counters are their cardinalities.
* *Proxy.* `Sound(r)` for each request: what it carries and is about to save comes
  from a reply to its device that was not deleted; it has connections only while
  it upgrades. CacheFollowsRoutes is inductive with the types of the changes: what a
  step takes out of `target` or of a pending eviction, it evicts or names.
* *ConfigReload.* `AnotherReloadFollows`: a reload whose file was written again
  has an event, a timer or a callback to follow it. `PassedAreAlike`: the parts it
  has been through are either ahead of currentConfig, and named, or had no change.
* *ServiceHealth.* AlertsFollowStatus is inductive once the saves and alerts under way
  are known to be about an app and a checker there is (`SavesAreMeant`,
  `AlertsAreMeant`), where none crossed to be single (`AlertsAreSingle`), and the
  checkers not yet made to be idle.
* *SystemHealth.* An answer passes through a check, a result that waits for the
  slowest check of its request, and the cache. There is an invariant for how old
  each may be (`LookedIsRecent`, `DoneIsRecent`, `CacheIsRecent`), and the checks of
  a request age together (`ChecksBeginTogether`).
* *Discovery.* The two directions separately: a dismissed proposal has no row and
  gets none (`DismissedStaysOut`); an active one has its row, is getting it or is
  on its way out (`ActiveHasRow`). Both are about the proposals on which no two
  actors met. `LeftoverIsSafe`: a manager left over only adds rows, and
  one of a proposal the new manager has dismissed is such a meeting.
* *DiscoveryWorkers.* ProposalsAreAllowed is inductive with the types of the
  settings; `ContainerFields` says what the steps may take from a container,
  `HostsAreAllowed` that a filtered network is one the lists allow, and
  `OtherModesLeaveOne` that the probed network is the proposed one in every mode but
  "all".
* *Cron.* `SearchGoesOn`: the minute the loop is at is the start and the number of
  iterations, so the minutes behind it are those NextRunIsFirst speaks of.
  `YearlyDayIsFound` is why a schedule that names a day of every year never sees the
  fallback: the search leaves out one day of a cycle, and two minutes a year apart
  cannot both be in it (`SearchCoversOne`); `MinuteOfDate` gives the minute of a date
  in the first two years of a cycle. `ParsedIsInBounds` holds for any field.
* *Backup.* The clean-up lists the files, sorts them and deletes from a list that
  may be old by then. `ListIsRanked` (a counting argument) says that its list is
  complete and in order; `VictimsMayGo` that each file it is about to delete has
  had Retention newer saved ones from the moment of listing, which later steps
  only add to. `RestoreIsUnderWay` says which tables and rows are back so far.

Only model-checked are the liveness properties (StopTerminates, EventuallyReceived,
CancelledEnds, Converges, AcceptedEnds, UpgradeCompletes): the prover has no rule for
fairness and ENABLED. Every invariant and every action property of the passing runs
is a theorem. Three theorems state no property of a run (SingleBeforeRemovals,
OneUpgradeKeepsServing, RemovedContainerIsGone) and one an action property
(NewerWinsOtherwise): each says where the claim that one of the violations refutes
does hold, so that what is wrong is known from both sides.

## 5. Not modelled

Cryptography (JWT, certificates, cookies), the formats of files and messages,
request and response rewriting, export, metrics and read-only views have no
state that interleavings could break. The rate limiter is one critical section
around a library; the offline detection job sets two gauges. `websocket/qos.go`,
`websocket/session.go`, `scripts/workflow.go` and `toolbox/k8s_deployer.go` are
not used by the program. mDNS is I/O. The lock order of `PeerManager` and
memberlist is described above: one half of it is in the library.

## 6. What could follow

1. What the components promise to one another as action properties, where a run
   can check them first: a mark of the container handlers and the next probe, a
   reload and the calls of the route registry.
2. Three peers in Federation with TLC, once the state space of gossip is small
   enough; the theorems cover them already for safety.
3. The liveness properties from their leads-to steps, with a prover that has rules
   for fairness.
