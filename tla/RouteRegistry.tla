--------------------------- MODULE RouteRegistry ---------------------------
(***************************************************************************)
(* The route registry: Registry and RadixTree of internal/router, the      *)
(* tables routes and apps of internal/storage, and the requests of         *)
(* cmd/nekzus that change them (approval of a proposal, reconciliation of  *)
(* a target, PUT and DELETE of a route, hot reload of the configuration).  *)
(*                                                                         *)
(* A route is kept in three indexes in memory, which one lock guards: the  *)
(* map by ID, the radix tree by path and the map by subdomain.  The row is *)
(* saved outside the lock, and memory is rolled back when that fails.      *)
(*                                                                         *)
(* The tree is abstracted to the route it holds at each path; the search   *)
(* for the longest prefix is not part of this module.  Targets, scopes and *)
(* the other fields of a route stand behind its identity.                  *)
(***************************************************************************)
EXTENDS Naturals, FiniteSets

CONSTANTS
    Ids,        \* route IDs
    Paths,      \* path bases
    WithSlash,  \* each path with a trailing slash
    Subs,       \* subdomains
    Apps,       \* app IDs
    Offers,     \* the routes callers ask for
    Configs,    \* configurations that may be loaded: [routes, apps]; an ID occurs once
    Callers,    \* slots for concurrent calls
    MaxCalls,   \* bound: calls and reloads of a behaviour
    MaxErrors,  \* bound: statements that fail for a reason of the database's own
    None        \* no route, no subdomain, no app

Route == [id : Ids, path : Paths, strip : BOOLEAN, sub : Subs \cup {None},
          bySub : BOOLEAN, app : Apps \cup {None}]

ASSUME RegistryConstants ==
    /\ Offers \subseteq Route
    /\ Configs \subseteq [routes : SUBSET Offers, apps : SUBSET Apps]
    /\ \A c \in Configs : \A o1, o2 \in c.routes : o1.id = o2.id => o1 = o2
    /\ WithSlash \in [Paths -> Paths]
    /\ None \notin Ids \cup Subs \cup Apps \cup Route
    /\ MaxCalls \in Nat /\ MaxErrors \in Nat

VARIABLES
    routes,     \* Registry.routes
    tree,       \* Registry.radixIndex: the route at each path
    subIndex,   \* Registry.subdomainIndex
    apps,       \* Registry.apps
    table,      \* table routes
    appTable,   \* table apps
    at,         \* where each call stands
    new,        \* UpsertRoute: the route to save
    old,        \* UpsertRoute: the route it replaced; RemoveRoute: its ID's route
    target,     \* RemoveRoute: the route ID
    orphan,     \* RemoveRoute, UpsertApp, RemoveApp: the app, if there is one to treat
    reload,     \* the reload under way
    errors,     \* statements that have failed for a reason of the database's own
    begun,      \* calls and reloads so far
    orderly,    \* history: calls came one after the other so far, without a reload
    displaced,  \* history: routes whose place in the tree another one took
    unindexed   \* history: routes whose subdomain a rollback or a reload gave up

losses == <<displaced, unindexed>>
memory == <<routes, tree, subIndex, losses>>
tables == <<table, appTable>>
calls == <<at, new, old, target, orphan>>
history == <<begun, orderly>>
vars == <<memory, apps, tables, calls, reload, errors, history>>

NoReload == [step |-> "idle", map |-> [i \in Ids |-> None], delete |-> {}, save |-> {},
             apps |-> {}, deleteApps |-> {}, saveApps |-> {}]

TypeOK ==
    /\ routes \in [Ids -> Route \cup {None}] /\ tree \in [Paths -> Route \cup {None}]
    /\ subIndex \in [Subs -> Ids \cup {None}]
    /\ apps \subseteq Apps /\ appTable \subseteq Apps
    /\ table \in [Ids -> Route \cup {None}]
    /\ at \in [Callers -> {"idle", "save", "rollback", "deleteRow", "removeApp",
                           "deleteApp", "saveApp", "dropApp"}]
    /\ new \in [Callers -> Route \cup {None}] /\ old \in [Callers -> Route \cup {None}]
    /\ \A k \in Callers : at[k] \in {"save", "rollback"} => new[k] # None
    /\ \A k \in Callers :
          /\ at[k] = "deleteRow" => target[k] # None
          /\ at[k] \in {"removeApp", "deleteApp", "saveApp", "dropApp"} => orphan[k] # None
    /\ target \in [Callers -> Ids \cup {None}] /\ orphan \in [Callers -> Apps \cup {None}]
    /\ reload \in [step : {"idle", "routes", "apps"}, map : [Ids -> Route \cup {None}],
                   delete : SUBSET Ids, save : SUBSET Ids, apps : SUBSET Apps,
                   deleteApps : SUBSET Apps, saveApps : SUBSET Apps]
    /\ errors \in 0..MaxErrors /\ begun \in 0..MaxCalls /\ orderly \in BOOLEAN
    /\ displaced \subseteq Ids /\ unindexed \subseteq Ids

-----------------------------------------------------------------------------
(* Registry and RadixTree: what the operations compute *)

(* A route that strips its prefix gets a trailing slash. *)
Normalize(rt) == IF rt.strip THEN [rt EXCEPT !.path = WithSlash[@]] ELSE rt

TreeDelete(t, id) == [p \in Paths |-> IF t[p] # None /\ t[p].id = id THEN None ELSE t[p]]

\* Mutant: the route stays at the path it had before.
TreeInsertOnly(t, rt) == [t EXCEPT ![rt.path] = rt]

(* RadixTree.Insert: whatever was at the path is replaced. *)
TreeInsert(t, rt) == [TreeDelete(t, rt.id) EXCEPT ![rt.path] = rt]

(* The trees that inserting the routes of a map one by one may build. *)
TreesOf(map) ==
    LET here(p) == {map[i] : i \in {j \in Ids : map[j] # None /\ map[j].path = p}}
    IN  {t \in [Paths -> {map[i] : i \in Ids} \cup {None}] :
            \A p \in Paths : IF here(p) = {} THEN t[p] = None ELSE t[p] \in here(p)}

Owns(rt) == rt # None /\ rt.bySub /\ rt.sub # None

(* Another route owns the subdomain. *)
Taken(rt) == Owns(rt) /\ subIndex[rt.sub] \notin {None, rt.id}

\* Mutant: the subdomain the route had before is not given up.
SubIndexKeepsOld(rt, before) ==
    IF Owns(rt) THEN [subIndex EXCEPT ![rt.sub] = rt.id] ELSE subIndex

(* The subdomains after rt has replaced the route "before". *)
SubIndexWith(rt, before) ==
    LET added == IF Owns(rt) THEN [subIndex EXCEPT ![rt.sub] = rt.id] ELSE subIndex
    IN  [s \in Subs |->
            IF before # None /\ before.sub = s /\ rt.sub # s /\ added[s] = rt.id
            THEN None ELSE added[s]]

(* The index after the rollback of rt to the route "before": the subdomain  *)
(* of rt is freed, whoever owns it.                                         *)
SubIndexWithout(index, rt, before) ==
    LET freed == [s \in Subs |-> IF s = rt.sub THEN None ELSE index[s]]
    IN  IF Owns(before) THEN [freed EXCEPT ![before.sub] = rt.id] ELSE freed

TreeRestored(t, id, before) ==
    IF before = None THEN TreeDelete(t, id) ELSE TreeInsert(t, before)

(* What the insertion of these routes takes from the tree, while the route  *)
(* id gets its place; what freeing or giving away these subdomains takes    *)
(* from the index (history only).                                           *)
Displaced(id, inserted) ==
    (displaced \cup {i \in Ids : \E rt \in inserted \ {None} :
                                 tree[rt.path] # None /\ tree[rt.path].id = i}) \ {id}
Unindexed(id, given) ==
    (unindexed \cup {i \in Ids : \E s \in given \ {None} : subIndex[s] = i}) \ {id}

(* The subdomains a rollback from rt to the route "before" frees or takes back. *)
GivenBack(rt, before) == {rt.sub} \cup (IF Owns(before) THEN {before.sub} ELSE {})

(* The routes of a map that share their path. *)
Colliding(map) ==
    {i \in Ids : \E j \in Ids \ {i} : map[i] # None /\ map[j] # None /\ map[i].path = map[j].path}

-----------------------------------------------------------------------------
(* SQL statements *)

(* The unique index on subdomains takes no notice of the routing mode. *)
BreaksUnique(rt) ==
    rt.sub # None /\ \E i \in Ids \ {rt.id} : table[i] # None /\ table[i].sub = rt.sub

SaveRoute(rt) ==
    /\ ~BreaksUnique(rt)
    /\ table' = [table EXCEPT ![rt.id] = rt]

(* For a reason of the database's own. *)
StatementFails == errors < MaxErrors /\ errors' = errors + 1

(* SaveRoute fails: the subdomain is taken; the app has no row, if the      *)
(* connection used enforces foreign keys; or the database's own reasons.    *)
SaveRouteFails(rt) ==
    IF BreaksUnique(rt) \/ rt.app \notin appTable
    THEN UNCHANGED errors
    ELSE StatementFails

(* The app's routes go with it if the connection enforces foreign keys. *)
DeleteAppRow(a) ==
    /\ appTable' = appTable \ {a}
    /\ \/ table' = [i \in Ids |-> IF table[i] # None /\ table[i].app = a THEN None ELSE table[i]]
       \/ UNCHANGED table

-----------------------------------------------------------------------------
(* Calls *)

Quiet == reload.step = "idle" /\ \A k \in Callers : at[k] = "idle"

Begin(k) ==
    /\ at[k] = "idle"
    /\ begun < MaxCalls /\ begun' = begun + 1
    /\ orderly' = (orderly /\ Quiet)

Goto(k, label) == at' = [at EXCEPT ![k] = label]

(* UpsertRoute up to the release of the lock. *)
UpsertRoute(k, offer) ==
    LET rt == Normalize(offer)
        before == routes[rt.id]
    IN  /\ Begin(k) /\ ~Taken(rt)
        /\ routes' = [routes EXCEPT ![rt.id] = rt]
        /\ tree' = TreeInsert(tree, rt)
        /\ subIndex' = SubIndexWith(rt, before)
        /\ displaced' = Displaced(rt.id, {rt}) /\ unindexed' = Unindexed(rt.id, {})
        /\ new' = [new EXCEPT ![k] = rt] /\ old' = [old EXCEPT ![k] = before]
        /\ Goto(k, "save")
        /\ UNCHANGED <<apps, tables, target, orphan, reload, errors>>

(* The subdomain belongs to another route: the insertion into the tree is   *)
(* taken back.                                                              *)
UpsertRefused(k, offer) ==
    LET rt == Normalize(offer)
    IN  /\ Begin(k) /\ Taken(rt)
        /\ tree' = TreeRestored(TreeInsert(tree, rt), rt.id, routes[rt.id])
        /\ displaced' = Displaced(rt.id, {rt, routes[rt.id]})
        /\ UNCHANGED <<routes, subIndex, unindexed, apps, tables, calls, reload, errors>>

Reset(k) == new' = [new EXCEPT ![k] = None] /\ old' = [old EXCEPT ![k] = None]

(* SaveRoute; what follows is the eviction of a cached proxy. *)
UpsertSaved(k) ==
    /\ at[k] = "save"
    /\ SaveRoute(new[k])
    /\ Goto(k, "idle") /\ Reset(k)
    /\ UNCHANGED <<memory, apps, appTable, target, orphan, reload, errors, history>>

UpsertSaveFails(k) ==
    /\ at[k] = "save"
    /\ SaveRouteFails(new[k])
    /\ Goto(k, "rollback")
    /\ UNCHANGED <<memory, apps, tables, new, old, target, orphan, reload, history>>

\* Mutant: the tree is not given the old route again.
UpsertRollbackLeavesTree(k) ==
    LET rt == new[k]
    IN  /\ at[k] = "rollback"
        /\ routes' = [routes EXCEPT ![rt.id] = old[k]]
        /\ tree' = TreeDelete(tree, rt.id)
        /\ subIndex' = SubIndexWithout(subIndex, rt, old[k])
        /\ displaced' = Displaced(rt.id, {})
        /\ unindexed' = Unindexed(rt.id, GivenBack(rt, old[k]))
        /\ Goto(k, "idle") /\ Reset(k)
        /\ UNCHANGED <<apps, tables, target, orphan, reload, errors, history>>

(* The lock is taken again and what the call found restored. *)
UpsertRollback(k) ==
    LET rt == new[k]
    IN  /\ at[k] = "rollback"
        /\ routes' = [routes EXCEPT ![rt.id] = old[k]]
        /\ tree' = TreeRestored(TreeDelete(tree, rt.id), rt.id, old[k])
        /\ subIndex' = SubIndexWithout(subIndex, rt, old[k])
        /\ displaced' = Displaced(rt.id, {old[k]})
        /\ unindexed' = Unindexed(rt.id, GivenBack(rt, old[k]))
        /\ Goto(k, "idle") /\ Reset(k)
        /\ UNCHANGED <<apps, tables, target, orphan, reload, errors, history>>

(* UpsertRouteWithValidation holds the lock throughout, so that each of its *)
(* outcomes is one step.  A path another route has is refused, and then     *)
(* nothing changes.                                                         *)
PathFree(rt) == tree[rt.path] # None => tree[rt.path].id = rt.id

ValidatedSaved(k, offer) ==
    LET rt == Normalize(offer)
    IN  /\ Begin(k) /\ PathFree(rt) /\ ~Taken(rt)
        /\ SaveRoute(rt)
        /\ routes' = [routes EXCEPT ![rt.id] = rt]
        /\ tree' = TreeInsert(tree, rt)
        /\ subIndex' = SubIndexWith(rt, routes[rt.id])
        /\ displaced' = Displaced(rt.id, {rt}) /\ unindexed' = Unindexed(rt.id, {})
        /\ UNCHANGED <<apps, appTable, calls, reload, errors>>

ValidatedRefused(k, offer) ==
    PathFree(Normalize(offer)) /\ UpsertRefused(k, offer)

ValidatedFails(k, offer) ==
    LET rt == Normalize(offer)
    IN  /\ Begin(k) /\ PathFree(rt) /\ ~Taken(rt)
        /\ SaveRouteFails(rt)
        /\ tree' = TreeRestored(TreeDelete(tree, rt.id), rt.id, routes[rt.id])
        /\ subIndex' = SubIndexWithout(SubIndexWith(rt, routes[rt.id]), rt, routes[rt.id])
        /\ displaced' = Displaced(rt.id, {routes[rt.id]})
        /\ unindexed' = Unindexed(rt.id, GivenBack(rt, routes[rt.id]))
        /\ UNCHANGED <<routes, apps, tables, calls, reload>>

-----------------------------------------------------------------------------
(* RemoveRoute, UpsertApp, RemoveApp *)

(* The app of the route, unless another route has it, too. *)
OrphanOf(id) ==
    IF routes[id] = None \/ \E i \in Ids \ {id} : routes[i] # None /\ routes[i].app = routes[id].app
    THEN None ELSE routes[id].app

RemoveRoute(k, id) ==
    /\ Begin(k)
    /\ routes' = [routes EXCEPT ![id] = None]
    /\ tree' = TreeDelete(tree, id)
    /\ subIndex' = [s \in Subs |->
          IF routes[id] # None /\ routes[id].sub = s /\ subIndex[s] = id THEN None ELSE subIndex[s]]
    /\ displaced' = Displaced(id, {}) /\ unindexed' = Unindexed(id, {})
    /\ target' = [target EXCEPT ![k] = id] /\ orphan' = [orphan EXCEPT ![k] = OrphanOf(id)]
    /\ Goto(k, "deleteRow")
    /\ UNCHANGED <<apps, tables, new, old, reload, errors>>

\* Mutant: RemoveApp is called without asking whether there is an app to remove.
RemoveRowUnasked(k) ==
    /\ at[k] = "deleteRow"
    /\ table' = [table EXCEPT ![target[k]] = None]
    /\ Goto(k, "removeApp")
    /\ target' = [target EXCEPT ![k] = None]
    /\ UNCHANGED <<memory, apps, appTable, new, old, orphan, reload, errors, history>>

RemoveRow(k) ==
    /\ at[k] = "deleteRow"
    /\ table' = [table EXCEPT ![target[k]] = None]
    /\ Goto(k, IF orphan[k] = None THEN "idle" ELSE "removeApp")
    /\ target' = [target EXCEPT ![k] = None]
    /\ UNCHANGED <<memory, apps, appTable, new, old, orphan, reload, errors, history>>

(* The error is returned; memory has lost the route already. *)
RemoveRowFails(k) ==
    /\ at[k] = "deleteRow"
    /\ StatementFails
    /\ Goto(k, "idle")
    /\ target' = [target EXCEPT ![k] = None] /\ orphan' = [orphan EXCEPT ![k] = None]
    /\ UNCHANGED <<memory, apps, tables, new, old, reload, history>>

RemoveApp(k) ==
    /\ at[k] = "removeApp"
    /\ apps' = apps \ {orphan[k]}
    /\ IF orphan[k] \in apps
       THEN Goto(k, "deleteApp") /\ UNCHANGED orphan
       ELSE Goto(k, "idle") /\ orphan' = [orphan EXCEPT ![k] = None]
    /\ UNCHANGED <<memory, tables, new, old, target, reload, errors, history>>

(* The federation is told after the row is deleted (module Federation). *)
DeleteApp(k) ==
    /\ at[k] = "deleteApp"
    /\ DeleteAppRow(orphan[k])
    /\ Goto(k, "idle") /\ orphan' = [orphan EXCEPT ![k] = None]
    /\ UNCHANGED <<memory, apps, new, old, target, reload, errors, history>>

UpsertApp(k, a) ==
    /\ Begin(k)
    /\ apps' = apps \cup {a}
    /\ orphan' = [orphan EXCEPT ![k] = a]
    /\ Goto(k, "saveApp")
    /\ UNCHANGED <<memory, tables, new, old, target, reload, errors>>

SaveApp(k) ==
    /\ at[k] = "saveApp"
    /\ appTable' = appTable \cup {orphan[k]}
    /\ Goto(k, "idle") /\ orphan' = [orphan EXCEPT ![k] = None]
    /\ UNCHANGED <<memory, apps, table, new, old, target, reload, errors, history>>

(* DeleteApp's error is logged; SaveApp's is followed by the rollback,      *)
(* which forgets the app even if it was known before.                       *)
AppStatementFails(k) ==
    /\ at[k] \in {"deleteApp", "saveApp"}
    /\ StatementFails
    /\ IF at[k] = "saveApp"
       THEN Goto(k, "dropApp") /\ UNCHANGED orphan
       ELSE Goto(k, "idle") /\ orphan' = [orphan EXCEPT ![k] = None]
    /\ UNCHANGED <<memory, apps, tables, new, old, target, reload, history>>

DropApp(k) ==
    /\ at[k] = "dropApp"
    /\ apps' = apps \ {orphan[k]}
    /\ Goto(k, "idle") /\ orphan' = [orphan EXCEPT ![k] = None]
    /\ UNCHANGED <<memory, tables, new, old, target, reload, errors, history>>

-----------------------------------------------------------------------------
(* handleConfigReload *)

(* The routes of a configuration by ID. *)
MapOf(offers) ==
    [i \in Ids |-> IF \E o \in offers : o.id = i
                   THEN Normalize(CHOOSE o \in offers : o.id = i) ELSE None]

Defined(map) == {i \in Ids : map[i] # None}

(* ReplaceRoutes computes the rows to delete from what memory holds now. *)
ReplaceRoutes(config) ==
    /\ reload.step = "idle"
    /\ LET map == MapOf(config.routes)
       IN  reload' = [step |-> "routes", map |-> map,
                      delete |-> Defined(routes) \ Defined(map), save |-> Defined(map),
                      apps |-> config.apps, deleteApps |-> {}, saveApps |-> {}]
    /\ begun < MaxCalls /\ begun' = begun + 1 /\ orderly' = FALSE
    /\ UNCHANGED <<memory, apps, tables, calls, errors>>

ReloadDeletes(i) ==
    /\ reload.step = "routes" /\ i \in reload.delete
    /\ table' = [table EXCEPT ![i] = None]
    /\ reload' = [reload EXCEPT !.delete = @ \ {i}]
    /\ UNCHANGED <<memory, apps, appTable, calls, errors, history>>

(* An error is logged and the reload goes on. *)
ReloadSaves(i) ==
    /\ reload.step = "routes" /\ reload.delete = {} /\ i \in reload.save
    /\ reload' = [reload EXCEPT !.save = @ \ {i}]
    /\ \/ SaveRoute(reload.map[i]) /\ UNCHANGED errors
       \/ SaveRouteFails(reload.map[i]) /\ UNCHANGED table
    /\ UNCHANGED <<memory, apps, appTable, calls, history>>

(* The map and the tree are replaced, the subdomains are not.  ReplaceApps  *)
(* begins.                                                                  *)
SwapRoutes ==
    /\ reload.step = "routes" /\ reload.delete = {} /\ reload.save = {}
    /\ routes' = reload.map
    /\ tree' \in TreesOf(reload.map)
    /\ displaced' = Colliding(reload.map)
    /\ unindexed' = unindexed \cup {i \in Ids : reload.map[i] # routes[i]}
    /\ reload' = [NoReload EXCEPT !.step = "apps", !.apps = reload.apps,
                     !.deleteApps = apps \ reload.apps, !.saveApps = reload.apps]
    /\ UNCHANGED <<subIndex, apps, tables, calls, errors, history>>

ReloadDeletesApp(a) ==
    /\ reload.step = "apps" /\ a \in reload.deleteApps
    /\ DeleteAppRow(a)
    /\ reload' = [reload EXCEPT !.deleteApps = @ \ {a}]
    /\ UNCHANGED <<memory, apps, calls, errors, history>>

ReloadSavesApp(a) ==
    /\ reload.step = "apps" /\ reload.deleteApps = {} /\ a \in reload.saveApps
    /\ appTable' = appTable \cup {a}
    /\ reload' = [reload EXCEPT !.saveApps = @ \ {a}]
    /\ UNCHANGED <<memory, apps, table, calls, errors, history>>

SwapApps ==
    /\ reload.step = "apps" /\ reload.deleteApps = {} /\ reload.saveApps = {}
    /\ apps' = reload.apps
    /\ reload' = NoReload
    /\ UNCHANGED <<memory, tables, calls, errors, history>>

(* A statement of the reload on an app, or the deletion of a row, fails:    *)
(* logged.                                                                  *)
ReloadStatementFails ==
    /\ StatementFails
    /\ \/ \E i \in reload.delete : reload' = [reload EXCEPT !.delete = @ \ {i}]
       \/ \E a \in reload.deleteApps : reload' = [reload EXCEPT !.deleteApps = @ \ {a}]
       \/ /\ reload.deleteApps = {}
          /\ \E a \in reload.saveApps : reload' = [reload EXCEPT !.saveApps = @ \ {a}]
    /\ UNCHANGED <<memory, apps, tables, calls, history>>

-----------------------------------------------------------------------------
(* NewRegistry loads the tables, in the order the rows come. *)
LoadFromStorage ==
    /\ routes' = table /\ tree' \in TreesOf(table)
    /\ subIndex' \in {m \in [Subs -> Ids \cup {None}] :
                        \A s \in Subs :
                            LET owners == {i \in Ids : Owns(table[i]) /\ table[i].sub = s}
                            IN  IF owners = {} THEN m[s] = None ELSE m[s] \in owners}
    /\ displaced' = Colliding(table) /\ unindexed' = {}
    /\ apps' = appTable

Init ==
    /\ table = [i \in Ids |-> None] /\ appTable = {}
    /\ routes = table /\ tree = [p \in Paths |-> None]
    /\ subIndex = [s \in Subs |-> None] /\ apps = {}
    /\ at = [k \in Callers |-> "idle"]
    /\ new = [k \in Callers |-> None] /\ old = [k \in Callers |-> None]
    /\ target = [k \in Callers |-> None] /\ orphan = [k \in Callers |-> None]
    /\ reload = NoReload /\ errors = 0 /\ begun = 0 /\ orderly = TRUE
    /\ displaced = {} /\ unindexed = {}

(* The process ends, at whatever point, and starts again. *)
Restart ==
    /\ LoadFromStorage
    /\ at' = [k \in Callers |-> "idle"]
    /\ new' = [k \in Callers |-> None] /\ old' = [k \in Callers |-> None]
    /\ target' = [k \in Callers |-> None] /\ orphan' = [k \in Callers |-> None]
    /\ reload' = NoReload
    /\ UNCHANGED <<tables, errors, history>>

Upsert(k) ==
    \/ \E o \in Offers :
          \/ UpsertRoute(k, o) \/ UpsertRefused(k, o)
          \/ ValidatedSaved(k, o) \/ ValidatedRefused(k, o) \/ ValidatedFails(k, o)
    \/ UpsertSaved(k) \/ UpsertSaveFails(k) \/ UpsertRollback(k)

Remove(k) ==
    \/ \E id \in Ids : RemoveRoute(k, id)
    \/ RemoveRow(k) \/ RemoveRowFails(k) \/ RemoveApp(k) \/ DeleteApp(k)

App(k) == (\E a \in Apps : UpsertApp(k, a)) \/ SaveApp(k) \/ AppStatementFails(k) \/ DropApp(k)

Reload ==
    \/ \E config \in Configs : ReplaceRoutes(config)
    \/ \E i \in Ids : ReloadDeletes(i) \/ ReloadSaves(i)
    \/ SwapRoutes
    \/ \E a \in Apps : ReloadDeletesApp(a) \/ ReloadSavesApp(a)
    \/ SwapApps \/ ReloadStatementFails

Next ==
    \/ \E k \in Callers : Upsert(k) \/ Remove(k) \/ App(k)
    \/ Reload
    \/ Restart

Spec == Init /\ [][Next]_vars

-----------------------------------------------------------------------------
(* Properties *)

(* What the tree finds is current: a route it holds is the route the map    *)
(* has under that ID, at the path it is held at.  So no request is routed   *)
(* to a route that was removed, moved to another path or rolled back,       *)
(* whatever calls overlap, fail half-way or race with a reload, and a route *)
(* is in the tree at most once (as deleteByID assumes).                     *)
TreeIsCurrent ==
    \A p \in Paths : tree[p] # None =>
        tree[p].path = p /\ routes[tree[p].id] = tree[p]

(* As long as calls come one after the other and the database fails for the *)
(* reasons of its constraints only, memory and tables agree after each of   *)
(* them, rolled-back and refused ones included.                             *)
StorageAgrees ==
    Quiet /\ orderly /\ errors = 0 => routes = table /\ apps = appTable

(* GetRouteBySubdomain finds a route that has the subdomain, as long as no  *)
(* calls overlap and the configuration is not reloaded.                     *)
SubdomainResolves ==
    Quiet /\ orderly =>
        \A s \in Subs : subIndex[s] # None =>
            routes[subIndex[s]] # None /\ routes[subIndex[s]].sub = s

(* Every route of the map has its place in the tree, whatever calls         *)
(* overlap, fail or are rolled back.  The exceptions are the routes another *)
(* one displaced: one registered for the same path, a refused one too,      *)
(* which is taken out of the tree again while the route it displaced is not *)
(* put back; two rows, or two routes of a configuration, with one path.     *)
TreeIsComplete ==
    \A i \in Ids \ displaced : routes[i] # None => tree[routes[i].path] = routes[i]

(* Every route that is reached by its subdomain is in the index.  The       *)
(* exceptions: a rollback frees the subdomain of its route, whoever owns it *)
(* by then, and a reload indexes none of the routes it brings.              *)
IndexIsComplete ==
    \A i \in Ids \ unindexed : Owns(routes[i]) => subIndex[routes[i].sub] = i

(* Map, tree and index agree after each call, but for the routes displaced  *)
(* or unindexed by what is listed above, and after calls that did not       *)
(* overlap the tables agree with the memory, rolled-back and refused calls  *)
(* included.                                                                *)
RegistryAgrees == StorageAgrees /\ SubdomainResolves /\ TreeIsComplete /\ IndexIsComplete
=============================================================================
