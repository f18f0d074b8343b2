------------------------ MODULE RouteRegistryProofs ------------------------
(***************************************************************************)
(* Proofs about RouteRegistry: the type invariant, that the tree never     *)
(* finds a route that is not current, that it lacks none but the displaced *)
(* ones, and that calls which do not overlap leave memory and tables in    *)
(* agreement, for any routes, paths, callers and configurations.           *)
(*                                                                         *)
(* TreeIsCurrent is not inductive by itself: a rollback inserts the route  *)
(* that the call remembered, a reload and a restart take over a map they   *)
(* were given.  IdsMatch says that all of them keep a route under its own  *)
(* ID.                                                                     *)
(***************************************************************************)
EXTENDS RouteRegistry, TLAPS

(* A map keeps each route under its ID. *)
Keyed(map) == \A i \in Ids : map[i] # None => map[i].id = i

(* The maps are keyed, a reload saves routes it has, and a rollback         *)
(* restores a route of the ID it forgets.                                   *)
IdsMatch ==
    /\ Keyed(routes) /\ Keyed(table) /\ Keyed(reload.map)
    /\ \A i \in reload.save : reload.map[i] # None
    /\ \A k \in Callers : old[k] # None => new[k] # None /\ old[k].id = new[k].id

RegistryIInv == TypeOK /\ IdsMatch /\ TreeIsCurrent

Maps == [Ids -> Route \cup {None}]
Trees == [Paths -> Route \cup {None}]
Reloads == [step : {"idle", "routes", "apps"}, map : [Ids -> Route \cup {None}],
            delete : SUBSET Ids, save : SUBSET Ids, apps : SUBSET Apps,
            deleteApps : SUBSET Apps, saveApps : SUBSET Apps]

(* TreeIsCurrent for any tree and map. *)
Current(t, map) ==
    \A p \in Paths : t[p] # None => t[p].path = p /\ map[t[p].id] = t[p]

-----------------------------------------------------------------------------
(* Lemmas about the operators *)

(* Normalization keeps the ID. *)
LEMMA NormalizeKeepsId ==
    ASSUME NEW o \in Route
    PROVE  Normalize(o) \in Route /\ Normalize(o).id = o.id
BY RegistryConstants DEF Normalize, Route

(* RadixTree.Delete: what is left is current whatever the map has under the *)
(* deleted ID from now on.                                                  *)
LEMMA DeleteIsCurrent ==
    ASSUME NEW t \in Trees, NEW map \in Maps, Current(t, map), NEW id \in Ids,
           NEW rt \in Route \cup {None}
    PROVE  /\ TreeDelete(t, id) \in Trees
           /\ Current(TreeDelete(t, id), [map EXCEPT ![id] = rt])
<1>1. TreeDelete(t, id) \in Trees
    BY DEF TreeDelete, Trees
<1>2. ASSUME NEW p \in Paths, TreeDelete(t, id)[p] # None
      PROVE  /\ TreeDelete(t, id)[p] = t[p] /\ t[p] \in Route
             /\ t[p].id # id /\ t[p].id \in Ids
    BY <1>2 DEF TreeDelete, Trees, Route
<1>3. Current(TreeDelete(t, id), [map EXCEPT ![id] = rt])
    BY <1>2 DEF Current, Maps
<1> QED BY <1>1, <1>3

(* RadixTree.Insert: the route that was at the path is lost from the tree,  *)
(* and a route is never at two paths.                                       *)
LEMMA InsertIsCurrent ==
    ASSUME NEW t \in Trees, NEW map \in Maps, Current(t, map), NEW rt \in Route
    PROVE  /\ TreeInsert(t, rt) \in Trees
           /\ Current(TreeInsert(t, rt), [map EXCEPT ![rt.id] = rt])
<1> DEFINE d == TreeDelete(t, rt.id)
           m == [map EXCEPT ![rt.id] = rt]
<1>1. rt.id \in Ids /\ rt.path \in Paths /\ rt # None
    BY RegistryConstants DEF Route
<1>2. d \in Trees /\ Current(d, m)
    BY <1>1, DeleteIsCurrent
<1>3. TreeInsert(t, rt) = [d EXCEPT ![rt.path] = rt]
    BY DEF TreeInsert
<1>4. m[rt.id] = rt
    BY <1>1 DEF Maps
<1> HIDE DEF d, m
<1>5. TreeInsert(t, rt) \in Trees
    BY <1>1, <1>2, <1>3 DEF Trees
<1>6. Current(TreeInsert(t, rt), m)
    BY <1>1, <1>2, <1>3, <1>4 DEF Current, Trees
<1> QED BY <1>5, <1>6 DEF m

(* A rollback leaves a tree that is current for the map with the old route. *)
LEMMA RestoredIsCurrent ==
    ASSUME NEW t \in Trees, NEW map \in Maps, Current(t, map), NEW id \in Ids,
           NEW before \in Route \cup {None}, before # None => before.id = id
    PROVE  /\ TreeRestored(t, id, before) \in Trees
           /\ Current(TreeRestored(t, id, before), [map EXCEPT ![id] = before])
<1>1. CASE before = None
    BY <1>1, DeleteIsCurrent DEF TreeRestored
<1>2. CASE before # None
    BY <1>2, InsertIsCurrent DEF TreeRestored
<1> QED BY <1>1, <1>2

(* The tree that is built from a keyed map is current. *)
LEMMA BuiltIsCurrent ==
    ASSUME NEW map \in Maps, Keyed(map), NEW t \in TreesOf(map)
    PROVE  t \in Trees /\ Current(t, map)
<1>1. t \in Trees
    BY DEF TreesOf, Trees, Maps
<1>2. ASSUME NEW p \in Paths, t[p] # None
      PROVE  \E i \in Ids : map[i] # None /\ map[i].path = p /\ t[p] = map[i]
    BY <1>2 DEF TreesOf
<1>3. Current(t, map)
    BY <1>2 DEF Current, Keyed
<1> QED BY <1>1, <1>3

(* The subdomains stay in their index. *)
LEMMA SubIndexTyped ==
    ASSUME subIndex \in [Subs -> Ids \cup {None}], NEW rt \in Route,
           NEW before \in Route \cup {None}
    PROVE  /\ SubIndexWith(rt, before) \in [Subs -> Ids \cup {None}]
           /\ \A index \in [Subs -> Ids \cup {None}] :
                 SubIndexWithout(index, rt, before) \in [Subs -> Ids \cup {None}]
<1>1. rt.id \in Ids
    BY DEF Route
<1>2. SubIndexWith(rt, before) \in [Subs -> Ids \cup {None}]
    BY <1>1 DEF SubIndexWith
<1>3. ASSUME NEW index \in [Subs -> Ids \cup {None}]
      PROVE  SubIndexWithout(index, rt, before) \in [Subs -> Ids \cup {None}]
    BY <1>1 DEF SubIndexWithout
<1> QED BY <1>2, <1>3

(* The losses are of routes. *)
LEMMA LossesTyped ==
    ASSUME displaced \subseteq Ids, unindexed \subseteq Ids
    PROVE  \A id, lost : Displaced(id, lost) \subseteq Ids /\ Unindexed(id, lost) \subseteq Ids
BY DEF Displaced, Unindexed

-----------------------------------------------------------------------------
(* The invariant *)

(* TypeOK and the definitions above, as the steps below use them. *)
LEMMA InvFacts ==
    ASSUME RegistryIInv
    PROVE  /\ routes \in Maps /\ table \in Maps /\ reload.map \in Maps
           /\ tree \in Trees /\ Current(tree, routes)
BY DEF RegistryIInv, TypeOK, TreeIsCurrent, Current, Maps, Trees

(* TreeIsCurrent' in terms of Current. *)
LEMMA CurrentNext ==
    ASSUME NEW t, NEW map, tree' = t, routes' = map, Current(t, map)
    PROVE  TreeIsCurrent'
BY DEF TreeIsCurrent, Current

(* A step that leaves the memory alone keeps the tree current. *)
LEMMA MemoryKept ==
    ASSUME TreeIsCurrent, UNCHANGED memory
    PROVE  TreeIsCurrent'
BY DEF TreeIsCurrent, memory, losses

(* Nothing is registered in the beginning. *)
LEMMA RegistryInitially == Init => RegistryIInv
<1> SUFFICES ASSUME Init PROVE RegistryIInv
    OBVIOUS
<1>1. TypeOK
    BY RegistryConstants DEF Init, TypeOK, NoReload
<1>2. IdsMatch
    BY DEF Init, IdsMatch, Keyed, NoReload
<1>3. TreeIsCurrent
    BY DEF Init, TreeIsCurrent
<1> QED BY <1>1, <1>2, <1>3 DEF RegistryIInv

(* UpsertRoute changes the map and the tree together. *)
LEMMA UpsertRoutePreserves ==
    ASSUME RegistryIInv, NEW k \in Callers, NEW offer \in Offers, UpsertRoute(k, offer)
    PROVE  RegistryIInv'
<1> DEFINE rt == Normalize(offer)
<1>1. rt \in Route /\ rt.id \in Ids /\ rt # None
    BY NormalizeKeepsId, RegistryConstants DEF Route
<1> HIDE DEF rt
<1>u. /\ Begin(k)
      /\ routes' = [routes EXCEPT ![rt.id] = rt]
      /\ tree' = TreeInsert(tree, rt)
      /\ subIndex' = SubIndexWith(rt, routes[rt.id])
      /\ new' = [new EXCEPT ![k] = rt] /\ old' = [old EXCEPT ![k] = routes[rt.id]]
      /\ at' = [at EXCEPT ![k] = "save"]
      /\ UNCHANGED <<apps, tables, target, orphan, reload, errors>>
    BY DEF UpsertRoute, rt, Goto
<1>2. tree' \in Trees /\ TreeIsCurrent'
    BY <1>1, <1>u, InvFacts, InsertIsCurrent, CurrentNext
<1>3. subIndex' \in [Subs -> Ids \cup {None}]
    BY <1>1, <1>u, SubIndexTyped DEF RegistryIInv, TypeOK
<1>l. displaced' \subseteq Ids /\ unindexed' \subseteq Ids
    BY LossesTyped DEF RegistryIInv, TypeOK, UpsertRoute
<1>4. TypeOK'
    BY <1>l, <1>1, <1>2, <1>3, <1>u, RegistryConstants DEF RegistryIInv, TypeOK, Trees, Begin, tables
<1>5. IdsMatch'
    BY <1>1, <1>u DEF RegistryIInv, TypeOK, IdsMatch, Keyed, tables
<1> QED BY <1>2, <1>4, <1>5 DEF RegistryIInv

(* A refused route leaves the map alone and restores the tree. *)
LEMMA UpsertRefusedPreserves ==
    ASSUME RegistryIInv, NEW k \in Callers, NEW offer \in Offers, UpsertRefused(k, offer)
    PROVE  RegistryIInv'
<1> DEFINE rt == Normalize(offer)
           inserted == TreeInsert(tree, rt)
           m == [routes EXCEPT ![rt.id] = rt]
<1>1. rt \in Route /\ rt.id \in Ids
    BY NormalizeKeepsId, RegistryConstants DEF Route
<1>2. inserted \in Trees /\ Current(inserted, m) /\ m \in Maps
    BY <1>1, InvFacts, InsertIsCurrent DEF Maps
<1>3. routes[rt.id] \in Route \cup {None} /\ (routes[rt.id] # None => routes[rt.id].id = rt.id)
    BY <1>1 DEF RegistryIInv, TypeOK, IdsMatch, Keyed
<1>4. [m EXCEPT ![rt.id] = routes[rt.id]] = routes
    BY <1>1, InvFacts DEF Maps
<1>u. /\ Begin(k) /\ tree' = TreeRestored(inserted, rt.id, routes[rt.id])
      /\ UNCHANGED <<routes, subIndex, apps, tables, calls, reload, errors>>
    BY DEF UpsertRefused
<1> HIDE DEF rt, inserted, m
<1>5. /\ TreeRestored(inserted, rt.id, routes[rt.id]) \in Trees
      /\ Current(TreeRestored(inserted, rt.id, routes[rt.id]), routes)
    BY <1>1, <1>2, <1>3, <1>4, RestoredIsCurrent
<1>6. tree' \in Trees /\ TreeIsCurrent'
    BY <1>5, <1>u, CurrentNext
<1>l. displaced' \subseteq Ids /\ unindexed' \subseteq Ids
    BY LossesTyped DEF RegistryIInv, TypeOK, UpsertRefused
<1>7. TypeOK'
    BY <1>l, <1>6, <1>u, RegistryConstants DEF RegistryIInv, TypeOK, Trees, Begin, tables, calls
<1>8. IdsMatch'
    BY <1>u DEF RegistryIInv, IdsMatch, Keyed, tables, calls
<1> QED BY <1>6, <1>7, <1>8 DEF RegistryIInv

(* UpsertRouteWithValidation that succeeds writes memory and table at once. *)
LEMMA ValidatedSavedPreserves ==
    ASSUME RegistryIInv, NEW k \in Callers, NEW offer \in Offers, ValidatedSaved(k, offer)
    PROVE  RegistryIInv'
<1> DEFINE rt == Normalize(offer)
<1>1. rt \in Route /\ rt.id \in Ids
    BY NormalizeKeepsId, RegistryConstants DEF Route
<1> HIDE DEF rt
<1>u. /\ Begin(k)
      /\ routes' = [routes EXCEPT ![rt.id] = rt]
      /\ table' = [table EXCEPT ![rt.id] = rt]
      /\ tree' = TreeInsert(tree, rt)
      /\ subIndex' = SubIndexWith(rt, routes[rt.id])
      /\ UNCHANGED <<apps, appTable, calls, reload, errors>>
    BY DEF ValidatedSaved, SaveRoute, rt
<1>2. tree' \in Trees /\ TreeIsCurrent'
    BY <1>1, <1>u, InvFacts, InsertIsCurrent, CurrentNext
<1>3. subIndex' \in [Subs -> Ids \cup {None}]
    BY <1>1, <1>u, SubIndexTyped DEF RegistryIInv, TypeOK
<1>l. displaced' \subseteq Ids /\ unindexed' \subseteq Ids
    BY LossesTyped DEF RegistryIInv, TypeOK, ValidatedSaved
<1>4. TypeOK'
    BY <1>l, <1>1, <1>2, <1>3, <1>u, RegistryConstants DEF RegistryIInv, TypeOK, Trees, Begin, calls
<1>5. IdsMatch'
    BY <1>1, <1>u DEF RegistryIInv, TypeOK, IdsMatch, Keyed, calls
<1> QED BY <1>2, <1>4, <1>5 DEF RegistryIInv

(* One that fails to save restores the tree under the same lock. *)
LEMMA ValidatedFailsPreserves ==
    ASSUME RegistryIInv, NEW k \in Callers, NEW offer \in Offers, ValidatedFails(k, offer)
    PROVE  RegistryIInv'
<1> DEFINE rt == Normalize(offer)
           deleted == TreeDelete(tree, rt.id)
           before == routes[rt.id]
<1>1. rt \in Route /\ rt.id \in Ids
    BY NormalizeKeepsId, RegistryConstants DEF Route
<1>2. before \in Route \cup {None} /\ (before # None => before.id = rt.id)
    BY <1>1 DEF RegistryIInv, TypeOK, IdsMatch, Keyed
<1>3. [routes EXCEPT ![rt.id] = before] = routes
    BY <1>1, InvFacts DEF Maps
<1>4. deleted \in Trees /\ Current(deleted, routes)
    BY <1>1, <1>2, <1>3, InvFacts, DeleteIsCurrent
<1>u. /\ Begin(k) /\ SaveRouteFails(rt)
      /\ tree' = TreeRestored(deleted, rt.id, before)
      /\ subIndex' = SubIndexWithout(SubIndexWith(rt, before), rt, before)
      /\ UNCHANGED <<routes, apps, tables, calls, reload>>
    BY DEF ValidatedFails
<1> HIDE DEF rt, deleted, before
<1>5. /\ TreeRestored(deleted, rt.id, before) \in Trees
      /\ Current(TreeRestored(deleted, rt.id, before), routes)
    BY <1>1, <1>2, <1>3, <1>4, InvFacts, RestoredIsCurrent
<1>6. tree' \in Trees /\ TreeIsCurrent'
    BY <1>5, <1>u, CurrentNext
<1>7. subIndex' \in [Subs -> Ids \cup {None}]
    BY <1>1, <1>2, <1>u, SubIndexTyped DEF RegistryIInv, TypeOK
<1>8. errors' \in 0..MaxErrors
    BY <1>u, RegistryConstants DEF RegistryIInv, TypeOK, SaveRouteFails, StatementFails
<1>l. displaced' \subseteq Ids /\ unindexed' \subseteq Ids
    BY LossesTyped DEF RegistryIInv, TypeOK, ValidatedFails
<1>9. TypeOK'
    BY <1>l, <1>6, <1>7, <1>8, <1>u, RegistryConstants
    DEF RegistryIInv, TypeOK, Trees, Begin, tables, calls
<1>10. IdsMatch'
    BY <1>u DEF RegistryIInv, IdsMatch, Keyed, tables, calls
<1> QED BY <1>6, <1>9, <1>10 DEF RegistryIInv

(* SaveRoute writes the route under its ID. *)
LEMMA UpsertSavedPreserves ==
    ASSUME RegistryIInv, NEW k \in Callers, UpsertSaved(k)
    PROVE  RegistryIInv'
<1>1. new[k] \in Route /\ new[k].id \in Ids
    BY DEF RegistryIInv, TypeOK, UpsertSaved, Route
<1>2. TypeOK'
    BY <1>1 DEF RegistryIInv, TypeOK, UpsertSaved, SaveRoute, Goto, Reset, memory, losses, history
<1>3. IdsMatch'
    BY <1>1 DEF RegistryIInv, TypeOK, IdsMatch, Keyed, UpsertSaved, SaveRoute, Reset, memory, losses
<1>4. TreeIsCurrent'
    BY MemoryKept DEF RegistryIInv, UpsertSaved
<1> QED BY <1>2, <1>3, <1>4 DEF RegistryIInv

(* The failure is noted and nothing changes until the rollback. *)
LEMMA UpsertSaveFailsPreserves ==
    ASSUME RegistryIInv, NEW k \in Callers, UpsertSaveFails(k)
    PROVE  RegistryIInv'
<1>1. errors' \in 0..MaxErrors
    BY RegistryConstants DEF RegistryIInv, TypeOK, UpsertSaveFails, SaveRouteFails, StatementFails
<1>2. TypeOK'
    BY <1>1 DEF RegistryIInv, TypeOK, UpsertSaveFails, Goto, memory, losses, tables, history
<1>3. IdsMatch'
    BY DEF RegistryIInv, IdsMatch, Keyed, UpsertSaveFails, memory, losses, tables
<1>4. TreeIsCurrent'
    BY MemoryKept DEF RegistryIInv, UpsertSaveFails
<1> QED BY <1>2, <1>3, <1>4 DEF RegistryIInv

(* The rollback puts the remembered route back under its own ID, in the map *)
(* and in the tree, whatever happened to the registry in the meantime.      *)
LEMMA UpsertRollbackPreserves ==
    ASSUME RegistryIInv, NEW k \in Callers, UpsertRollback(k)
    PROVE  RegistryIInv'
<1> DEFINE rt == new[k]
           before == old[k]
           deleted == TreeDelete(tree, rt.id)
<1>1. /\ rt \in Route /\ rt.id \in Ids
      /\ before \in Route \cup {None} /\ (before # None => before.id = rt.id)
    BY DEF RegistryIInv, TypeOK, IdsMatch, UpsertRollback, Route
<1>2. deleted \in Trees /\ Current(deleted, [routes EXCEPT ![rt.id] = before])
    BY <1>1, InvFacts, DeleteIsCurrent
<1>3. /\ [routes EXCEPT ![rt.id] = before] \in Maps
      /\ [[routes EXCEPT ![rt.id] = before] EXCEPT ![rt.id] = before]
           = [routes EXCEPT ![rt.id] = before]
    BY <1>1, InvFacts DEF Maps
<1>u. /\ routes' = [routes EXCEPT ![rt.id] = before]
      /\ tree' = TreeRestored(deleted, rt.id, before)
      /\ subIndex' = SubIndexWithout(subIndex, rt, before)
      /\ at' = [at EXCEPT ![k] = "idle"]
      /\ new' = [new EXCEPT ![k] = None] /\ old' = [old EXCEPT ![k] = None]
      /\ UNCHANGED <<apps, tables, target, orphan, reload, errors, history>>
    BY DEF UpsertRollback, Goto, Reset
<1> HIDE DEF rt, before, deleted
<1>4. /\ TreeRestored(deleted, rt.id, before) \in Trees
      /\ Current(TreeRestored(deleted, rt.id, before), [routes EXCEPT ![rt.id] = before])
    BY <1>1, <1>2, <1>3, RestoredIsCurrent
<1>5. tree' \in Trees /\ TreeIsCurrent'
    BY <1>4, <1>u, CurrentNext
<1>6. subIndex' \in [Subs -> Ids \cup {None}]
    BY <1>1, <1>u, SubIndexTyped DEF RegistryIInv, TypeOK
<1>l. displaced' \subseteq Ids /\ unindexed' \subseteq Ids
    BY LossesTyped DEF RegistryIInv, TypeOK, UpsertRollback
<1>7. TypeOK'
    BY <1>l, <1>1, <1>5, <1>6, <1>u DEF RegistryIInv, TypeOK, Trees, tables, history
<1>8. IdsMatch'
    BY <1>1, <1>u DEF RegistryIInv, TypeOK, IdsMatch, Keyed, tables
<1> QED BY <1>5, <1>7, <1>8 DEF RegistryIInv

(* RemoveRoute takes the route out of the map and the tree together. *)
LEMMA RemoveRoutePreserves ==
    ASSUME RegistryIInv, NEW k \in Callers, NEW id \in Ids, RemoveRoute(k, id)
    PROVE  RegistryIInv'
<1>u. /\ Begin(k)
      /\ routes' = [routes EXCEPT ![id] = None]
      /\ tree' = TreeDelete(tree, id)
      /\ target' = [target EXCEPT ![k] = id] /\ orphan' = [orphan EXCEPT ![k] = OrphanOf(id)]
      /\ at' = [at EXCEPT ![k] = "deleteRow"]
      /\ UNCHANGED <<apps, tables, new, old, reload, errors>>
    BY DEF RemoveRoute, Goto
<1>1. tree' \in Trees /\ TreeIsCurrent'
    BY <1>u, InvFacts, DeleteIsCurrent, CurrentNext
<1>2. subIndex' \in [Subs -> Ids \cup {None}]
    BY DEF RegistryIInv, TypeOK, RemoveRoute
<1>3. OrphanOf(id) \in Apps \cup {None}
    BY DEF RegistryIInv, TypeOK, OrphanOf, Route
<1>l. displaced' \subseteq Ids /\ unindexed' \subseteq Ids
    BY LossesTyped DEF RegistryIInv, TypeOK, RemoveRoute
<1>4. TypeOK'
    BY <1>l, <1>1, <1>2, <1>3, <1>u, RegistryConstants DEF RegistryIInv, TypeOK, Trees, Begin, tables
<1>5. IdsMatch'
    BY <1>u DEF RegistryIInv, TypeOK, IdsMatch, Keyed, tables
<1> QED BY <1>1, <1>4, <1>5 DEF RegistryIInv

(* What follows RemoveRoute, and the operations on apps, leave the routes   *)
(* in memory alone; rows only disappear.                                    *)
LEMMA RowsPreserve ==
    ASSUME RegistryIInv, NEW k \in Callers,
           \/ RemoveRow(k) \/ RemoveRowFails(k) \/ RemoveApp(k) \/ DeleteApp(k)
           \/ App(k)
    PROVE  RegistryIInv'
<1> USE DEF RegistryIInv, TypeOK, Goto, StatementFails, memory, losses, tables, calls, history
<1>1. TreeIsCurrent'
    BY MemoryKept
    DEF RemoveRow, RemoveRowFails, RemoveApp, DeleteApp, App, UpsertApp, SaveApp,
        AppStatementFails, DropApp
<1>2. CASE RemoveRow(k)
    <2>1. target[k] \in Ids
        BY <1>2 DEF RemoveRow
    <2>2. TypeOK'
        BY <1>2, <2>1 DEF RemoveRow
    <2>3. IdsMatch'
        BY <1>2, <2>1 DEF RemoveRow, IdsMatch, Keyed
    <2> QED BY <1>1, <2>2, <2>3
<1>3. CASE RemoveRowFails(k)
    <2>1. TypeOK'
        BY <1>3, RegistryConstants DEF RemoveRowFails
    <2>2. IdsMatch'
        BY <1>3 DEF RemoveRowFails, IdsMatch, Keyed
    <2> QED BY <1>1, <2>1, <2>2
<1>4. CASE RemoveApp(k)
    <2>1. TypeOK'
        BY <1>4 DEF RemoveApp
    <2>2. IdsMatch'
        BY <1>4 DEF RemoveApp, IdsMatch, Keyed
    <2> QED BY <1>1, <2>1, <2>2
<1>5. CASE DeleteApp(k)
    <2>1. TypeOK'
        BY <1>5 DEF DeleteApp, DeleteAppRow
    <2>2. IdsMatch'
        BY <1>5 DEF DeleteApp, DeleteAppRow, IdsMatch, Keyed
    <2> QED BY <1>1, <2>1, <2>2
<1>6. ASSUME NEW a \in Apps, UpsertApp(k, a) PROVE RegistryIInv'
    <2>1. TypeOK'
        BY <1>6, RegistryConstants DEF UpsertApp, Begin
    <2>2. IdsMatch'
        BY <1>6 DEF UpsertApp, IdsMatch, Keyed
    <2> QED BY <1>1, <2>1, <2>2
<1>7. CASE SaveApp(k)
    <2>1. TypeOK'
        BY <1>7 DEF SaveApp
    <2>2. IdsMatch'
        BY <1>7 DEF SaveApp, IdsMatch, Keyed
    <2> QED BY <1>1, <2>1, <2>2
<1>8. CASE AppStatementFails(k)
    <2>1. TypeOK'
        BY <1>8, RegistryConstants DEF AppStatementFails
    <2>2. IdsMatch'
        BY <1>8 DEF AppStatementFails, IdsMatch, Keyed
    <2> QED BY <1>1, <2>1, <2>2
<1>9. CASE DropApp(k)
    <2>1. TypeOK'
        BY <1>9 DEF DropApp
    <2>2. IdsMatch'
        BY <1>9 DEF DropApp, IdsMatch, Keyed
    <2> QED BY <1>1, <2>1, <2>2
<1> QED BY <1>2, <1>3, <1>4, <1>5, <1>6, <1>7, <1>8, <1>9 DEF App

(* ReplaceRoutes collects routes of the configuration under their IDs. *)
LEMMA ReplaceRoutesPreserves ==
    ASSUME RegistryIInv, NEW config \in Configs, ReplaceRoutes(config)
    PROVE  RegistryIInv'
<1>1. config.routes \subseteq Route /\ config.apps \subseteq Apps
    BY RegistryConstants
<1>2. ASSUME NEW i \in Ids, MapOf(config.routes)[i] # None
      PROVE  MapOf(config.routes)[i] \in Route /\ MapOf(config.routes)[i].id = i
    <2> DEFINE o == CHOOSE o \in config.routes : o.id = i
    <2>1. \E x \in config.routes : x.id = i
        BY <1>2 DEF MapOf
    <2>2. o \in Route /\ o.id = i
        BY <2>1, <1>1
    <2>3. MapOf(config.routes)[i] = Normalize(o)
        BY <2>1 DEF MapOf
    <2> QED BY <2>2, <2>3, NormalizeKeepsId
<1>3. MapOf(config.routes) \in Maps /\ Keyed(MapOf(config.routes))
    <2>1. ASSUME NEW i \in Ids PROVE MapOf(config.routes)[i] \in Route \cup {None}
        BY <1>2
    <2>2. MapOf(config.routes) = [i \in Ids |-> MapOf(config.routes)[i]]
        BY DEF MapOf
    <2> QED BY <1>2, <2>1, <2>2 DEF Maps, Keyed
<1> DEFINE map == MapOf(config.routes)
<1>u. /\ reload' = [step |-> "routes", map |-> map,
                    delete |-> Defined(routes) \ Defined(map), save |-> Defined(map),
                    apps |-> config.apps, deleteApps |-> {}, saveApps |-> {}]
      /\ begun < MaxCalls /\ begun' = begun + 1 /\ orderly' = FALSE
      /\ UNCHANGED <<memory, apps, tables, calls, errors>>
    BY DEF ReplaceRoutes
<1> HIDE DEF map
<1>4. map \in Maps /\ Keyed(map)
    BY <1>3 DEF map
<1>r. reload' \in Reloads
    BY <1>1, <1>4, <1>u DEF Reloads, Maps, Defined
<1>b. begun \in 0..MaxCalls /\ MaxCalls \in Nat
    BY RegistryConstants DEF RegistryIInv, TypeOK
<1>c. begun' \in 0..MaxCalls
    BY <1>b DEF ReplaceRoutes
<1>o. orderly' \in BOOLEAN
    BY DEF ReplaceRoutes
<1>5. TypeOK'
    BY <1>r, <1>c, <1>o, <1>u DEF RegistryIInv, TypeOK, Reloads, memory, losses, tables, calls
<1>6. IdsMatch'
    BY <1>4, <1>u DEF RegistryIInv, IdsMatch, Keyed, Defined, memory, losses, tables, calls
<1>7. TreeIsCurrent'
    BY <1>u, MemoryKept DEF RegistryIInv
<1> QED BY <1>5, <1>6, <1>7 DEF RegistryIInv

(* The statements of a reload leave the memory alone; the rows they write   *)
(* are routes of the reload's map.                                          *)
LEMMA ReloadRowsPreserve ==
    ASSUME RegistryIInv,
           \/ \E i \in Ids : ReloadDeletes(i) \/ ReloadSaves(i)
           \/ \E a \in Apps : ReloadDeletesApp(a) \/ ReloadSavesApp(a)
           \/ SwapApps \/ ReloadStatementFails
    PROVE  RegistryIInv'
<1>t. reload \in Reloads /\ table \in Maps /\ appTable \subseteq Apps /\ errors \in 0..MaxErrors
    BY DEF RegistryIInv, TypeOK, Reloads, Maps
<1>m. UNCHANGED memory /\ UNCHANGED calls /\ UNCHANGED history
    BY DEF ReloadDeletes, ReloadSaves, ReloadDeletesApp, ReloadSavesApp, SwapApps,
           ReloadStatementFails
<1>1. /\ reload' \in Reloads
      /\ \/ reload'.map = reload.map /\ reload'.save \subseteq reload.save
         \/ reload'.map = NoReload.map /\ reload'.save = {}
    BY <1>t
    DEF Reloads, NoReload, ReloadDeletes, ReloadSaves, ReloadDeletesApp, ReloadSavesApp,
           SwapApps, ReloadStatementFails
<1>2. /\ table' \in Maps /\ Keyed(table')
      /\ appTable' \subseteq Apps /\ apps' \subseteq Apps /\ errors' \in 0..MaxErrors
    <2> USE <1>t, RegistryConstants DEF RegistryIInv, IdsMatch, Keyed, Maps
    <2>1. CASE \E i \in Ids : ReloadDeletes(i)
        BY <2>1 DEF TypeOK, ReloadDeletes
    <2>2. CASE \E i \in Ids : ReloadSaves(i)
        <3>p. PICK i \in Ids : ReloadSaves(i)
            BY <2>2
        <3>1. i \in reload.save /\ reload.map \in Maps
            BY <3>p DEF ReloadSaves, Reloads
        <3>2. CASE SaveRoute(reload.map[i]) /\ UNCHANGED errors
            <4>1. reload.map[i] # None
                BY <3>1
            <4> QED BY <3>p, <3>1, <3>2, <4>1 DEF TypeOK, ReloadSaves, SaveRoute, Route
        <3>3. CASE SaveRouteFails(reload.map[i]) /\ UNCHANGED table
            BY <3>p, <3>3 DEF TypeOK, ReloadSaves, SaveRouteFails, StatementFails
        <3> QED BY <3>p, <3>2, <3>3 DEF ReloadSaves
    <2>3. CASE \E a \in Apps : ReloadDeletesApp(a)
        BY <2>3 DEF TypeOK, ReloadDeletesApp, DeleteAppRow
    <2>4. CASE \E a \in Apps : ReloadSavesApp(a)
        BY <2>4 DEF TypeOK, ReloadSavesApp
    <2>5. CASE SwapApps
        BY <2>5 DEF TypeOK, SwapApps, tables
    <2>6. CASE ReloadStatementFails
        BY <2>6 DEF TypeOK, ReloadStatementFails, StatementFails, tables
    <2> QED BY <2>1, <2>2, <2>3, <2>4, <2>5, <2>6
<1>3. TypeOK'
    BY <1>m, <1>1, <1>2 DEF RegistryIInv, TypeOK, Reloads, Maps, memory, losses, calls, history
<1>4. IdsMatch'
    BY <1>m, <1>1, <1>2 DEF RegistryIInv, IdsMatch, Keyed, NoReload, memory, losses, calls
<1>5. TreeIsCurrent'
    BY <1>m, MemoryKept DEF RegistryIInv
<1> QED BY <1>3, <1>4, <1>5 DEF RegistryIInv

(* SwapRoutes takes over the reload's map and a tree built from it. *)
LEMMA SwapRoutesPreserves ==
    ASSUME RegistryIInv, SwapRoutes
    PROVE  RegistryIInv'
<1>1. reload.map \in Maps /\ Keyed(reload.map)
    BY InvFacts DEF RegistryIInv, IdsMatch
<1>2. tree' \in Trees /\ Current(tree', reload.map)
    BY <1>1, BuiltIsCurrent DEF SwapRoutes
<1>3. reload' \in Reloads /\ Keyed(reload'.map)
    BY DEF RegistryIInv, TypeOK, SwapRoutes, NoReload, Reloads, Keyed
<1>l. displaced' \subseteq Ids /\ unindexed' \subseteq Ids
    BY LossesTyped DEF RegistryIInv, TypeOK, SwapRoutes, Colliding
<1>4. TypeOK'
    BY <1>l, <1>1, <1>2, <1>3
    DEF RegistryIInv, TypeOK, SwapRoutes, Trees, Maps, Reloads, tables, calls, history
<1>5. IdsMatch'
    BY <1>1, <1>3 DEF RegistryIInv, IdsMatch, Keyed, SwapRoutes, NoReload, tables, calls
<1>6. TreeIsCurrent'
    BY <1>2, CurrentNext DEF SwapRoutes
<1> QED BY <1>4, <1>5, <1>6 DEF RegistryIInv

(* A restart loads the table. *)
LEMMA RestartPreserves ==
    ASSUME RegistryIInv, Restart
    PROVE  RegistryIInv'
<1>1. table \in Maps /\ Keyed(table)
    BY InvFacts DEF RegistryIInv, IdsMatch
<1>2. tree' \in Trees /\ Current(tree', table)
    BY <1>1, BuiltIsCurrent DEF Restart, LoadFromStorage
<1>3. reload' \in Reloads /\ Keyed(reload'.map)
    BY DEF Restart, NoReload, Reloads, Keyed
<1>4. subIndex' \in [Subs -> Ids \cup {None}] /\ apps' \subseteq Apps
    BY DEF RegistryIInv, TypeOK, Restart, LoadFromStorage
<1>l. displaced' \subseteq Ids /\ unindexed' \subseteq Ids
    BY LossesTyped DEF RegistryIInv, TypeOK, Restart, LoadFromStorage, Colliding
<1>5. TypeOK'
    BY <1>l, <1>1, <1>2, <1>3, <1>4, RegistryConstants
    DEF RegistryIInv, TypeOK, Restart, LoadFromStorage, Trees, Maps, Reloads, tables, history
<1>6. IdsMatch'
    BY <1>1, <1>3 DEF RegistryIInv, IdsMatch, Keyed, Restart, LoadFromStorage, NoReload, tables
<1>7. TreeIsCurrent'
    BY <1>2, CurrentNext DEF Restart, LoadFromStorage
<1> QED BY <1>5, <1>6, <1>7 DEF RegistryIInv

(* Every step of the registry preserves the invariant. *)
LEMMA RegistryPreserves ==
    ASSUME RegistryIInv, [Next]_vars
    PROVE  RegistryIInv'
<1>1. CASE UNCHANGED vars
    <2>1. TypeOK'
        BY <1>1 DEF RegistryIInv, TypeOK, vars, memory, losses, tables, calls, history
    <2>2. IdsMatch'
        BY <1>1 DEF RegistryIInv, IdsMatch, Keyed, vars, memory, losses, tables, calls
    <2>3. TreeIsCurrent'
        BY <1>1, MemoryKept DEF RegistryIInv, vars
    <2> QED BY <2>1, <2>2, <2>3 DEF RegistryIInv
<1>2. ASSUME NEW k \in Callers, Upsert(k) PROVE RegistryIInv'
    BY <1>2, UpsertRoutePreserves, UpsertRefusedPreserves, ValidatedSavedPreserves,
       ValidatedFailsPreserves, UpsertSavedPreserves, UpsertSaveFailsPreserves,
       UpsertRollbackPreserves
    DEF Upsert, ValidatedRefused
<1>3. ASSUME NEW k \in Callers, Remove(k) \/ App(k) PROVE RegistryIInv'
    BY <1>3, RemoveRoutePreserves, RowsPreserve DEF Remove
<1>4. CASE Reload
    BY <1>4, ReplaceRoutesPreserves, ReloadRowsPreserve, SwapRoutesPreserves DEF Reload
<1>5. CASE Restart
    BY <1>5, RestartPreserves
<1> QED BY <1>1, <1>2, <1>3, <1>4, <1>5 DEF Next

-----------------------------------------------------------------------------
(* Theorems *)

(* The inductive invariant holds in every behaviour. *)
LEMMA RegistryIInvHolds == Spec => []RegistryIInv
BY RegistryInitially, RegistryPreserves, PTL DEF Spec

(* Every variable keeps its type: in particular no call gets to a statement *)
(* without the route, ID or app the statement is about.                     *)
THEOREM RegistryTypeCorrect == Spec => []TypeOK
<1>1. RegistryIInv => TypeOK
    BY DEF RegistryIInv
<1> QED BY <1>1, RegistryIInvHolds, PTL

(* The tree of internal/router never finds a route that was removed, moved  *)
(* or rolled back, for any number of routes, paths, callers and reloads.    *)
THEOREM TreeIsCurrentHolds == Spec => []TreeIsCurrent
<1>1. RegistryIInv => TreeIsCurrent
    BY DEF RegistryIInv
<1> QED BY <1>1, RegistryIInvHolds, PTL
-----------------------------------------------------------------------------
(* Memory, tables and subdomains: the invariant of calls that do not overlap *)

(* Calls came one after the other: the others are idle, and no reload runs.  *)
Alone(k) == reload.step = "idle" /\ \A l \in Callers \ {k} : at[l] = "idle"
OneAtATime ==
    orderly => /\ reload.step = "idle"
               /\ \A k, l \in Callers : at[k] # "idle" /\ at[l] # "idle" => k = l

(* What such a call is about to save is what the map has. *)
SaveIsCurrent(k) == at[k] \in {"save", "rollback"} => routes[new[k].id] = new[k]
SavesCurrent == orderly => \A k \in Callers : SaveIsCurrent(k)

(* A subdomain leads to a route that has it: during such a call, too. *)
ResolvedBy(index, map) ==
    \A s \in Subs : index[s] # None => map[index[s]] # None /\ map[index[s]].sub = s
Resolves == orderly => ResolvedBy(subIndex, routes)

(* No route has the app that such a call is about to remove. *)
OrphanIsAlone(k) ==
    at[k] \in {"deleteRow", "removeApp", "deleteApp"} /\ orphan[k] # None =>
        \A i \in Ids : routes[i] # None => routes[i].app # orphan[k]
OrphansAreAlone == orderly => \A k \in Callers : OrphanIsAlone(k)

(* How far the tables are behind the memory, by the step the call has come  *)
(* to.                                                                      *)
Behind(k) ==
    /\ at[k] # "dropApp"
    /\ at[k] \in {"idle", "removeApp"} => routes = table /\ apps = appTable
    /\ at[k] \in {"save", "rollback"} =>
           table = [routes EXCEPT ![new[k].id] = old[k]] /\ apps = appTable
    /\ at[k] = "deleteRow" => routes = [table EXCEPT ![target[k]] = None] /\ apps = appTable
    /\ at[k] = "deleteApp" => routes = table /\ apps = appTable \ {orphan[k]}
    /\ at[k] = "saveApp" => routes = table /\ apps = appTable \cup {orphan[k]}
TablesFollow == orderly /\ errors = 0 => \A k \in Callers : Alone(k) => Behind(k)

AgreeInv ==
    /\ OneAtATime /\ SavesCurrent /\ Resolves /\ OrphansAreAlone
    /\ TablesFollow /\ StorageAgrees

(* RegistryAgrees promises nothing once calls have overlapped. *)
LEMMA DisorderIsSafe ==
    ASSUME orderly' = FALSE
    PROVE  AgreeInv'
BY DEF AgreeInv, OneAtATime, SavesCurrent, Resolves, OrphansAreAlone, TablesFollow,
       StorageAgrees

(* A step of a call that is alone. *)
LEMMA AloneIsSafe ==
    ASSUME NEW k \in Callers, Alone(k)', SaveIsCurrent(k)', OrphanIsAlone(k)',
           ResolvedBy(subIndex, routes)', errors' = 0 => Behind(k)'
    PROVE  AgreeInv'
<1>1. OneAtATime' /\ Resolves'
    BY DEF OneAtATime, Resolves, Alone
<1>2. SavesCurrent' /\ OrphansAreAlone'
    BY DEF SavesCurrent, OrphansAreAlone, Alone, SaveIsCurrent, OrphanIsAlone
<1>3. ASSUME errors' = 0, NEW l \in Callers, Alone(l)'
      PROVE  Behind(l)'
    <2>1. CASE l = k
        BY <1>3, <2>1
    <2>2. CASE l # k
        <3>1. at'[l] = "idle" /\ at'[k] = "idle"
            BY <1>3, <2>2 DEF Alone
        <3>2. routes' = table' /\ apps' = appTable'
            BY <1>3, <3>1 DEF Behind
        <3> QED BY <3>1, <3>2 DEF Behind
    <2> QED BY <2>1, <2>2
<1>4. TablesFollow'
    BY <1>3 DEF TablesFollow
<1>5. StorageAgrees'
    BY DEF StorageAgrees, Quiet, Behind
<1> QED BY <1>1, <1>2, <1>4, <1>5 DEF AgreeInv

(* What a call finds that begins when nothing else is under way. *)
LEMMA BeginFacts ==
    ASSUME AgreeInv, NEW k \in Callers, Begin(k), orderly'
    PROVE  /\ Alone(k) /\ at[k] = "idle" /\ ResolvedBy(subIndex, routes)
           /\ errors = 0 => routes = table /\ apps = appTable
<1>1. orderly /\ Quiet
    BY DEF Begin
<1> QED BY <1>1 DEF AgreeInv, Quiet, Alone, Resolves, StorageAgrees

(* What a call finds that goes on. *)
LEMMA StepFacts ==
    ASSUME AgreeInv, NEW k \in Callers, at[k] # "idle", orderly
    PROVE  /\ Alone(k) /\ SaveIsCurrent(k) /\ OrphanIsAlone(k) /\ ResolvedBy(subIndex, routes)
           /\ errors = 0 => Behind(k)
<1>1. Alone(k)
    BY DEF AgreeInv, OneAtATime, Alone
<1> QED BY <1>1 DEF AgreeInv, SavesCurrent, OrphansAreAlone, Resolves, TablesFollow

(* The subdomains after a route replaced the one of its ID lead to routes    *)
(* that have them.                                                           *)
LEMMA WithResolves ==
    ASSUME subIndex \in [Subs -> Ids \cup {None}], NEW map \in Maps, Keyed(map),
           ResolvedBy(subIndex, map), NEW rt \in Route
    PROVE  ResolvedBy(SubIndexWith(rt, map[rt.id]), [map EXCEPT ![rt.id] = rt])
<1> DEFINE before == map[rt.id]
           m == [map EXCEPT ![rt.id] = rt]
           added == IF Owns(rt) THEN [subIndex EXCEPT ![rt.sub] = rt.id] ELSE subIndex
           index == SubIndexWith(rt, before)
<1>1. rt.id \in Ids /\ rt # None /\ m[rt.id] = rt /\ \A i \in Ids \ {rt.id} : m[i] = map[i]
    BY RegistryConstants DEF Route, Maps
<1>2. index = [s \in Subs |-> IF before # None /\ before.sub = s /\ rt.sub # s /\ added[s] = rt.id
                              THEN None ELSE added[s]]
    BY DEF SubIndexWith
<1> SUFFICES ASSUME NEW s \in Subs, index[s] # None
             PROVE  m[index[s]] # None /\ m[index[s]].sub = s
    BY DEF ResolvedBy
<1>3. /\ index[s] = added[s] /\ added[s] \in Ids
      /\ ~(before # None /\ before.sub = s /\ rt.sub # s /\ added[s] = rt.id)
    <2>1. added \in [Subs -> Ids \cup {None}]
        BY <1>1
    <2> HIDE DEF added, index
    <2> QED BY <1>2, <2>1
<1>4. CASE rt.sub = s /\ added[s] = rt.id
    BY <1>1, <1>3, <1>4
<1>5. CASE rt.sub = s /\ added[s] # rt.id
    <2>1. added[s] = subIndex[s]
        BY <1>5
    <2>2. map[subIndex[s]] # None /\ map[subIndex[s]].sub = s
        BY <1>1, <1>3, <2>1, RegistryConstants DEF ResolvedBy
    <2> HIDE DEF added, index, m
    <2> QED BY <1>1, <1>3, <1>5, <2>1, <2>2
<1>6. CASE rt.sub # s
    <2>1. added[s] = subIndex[s]
        BY <1>6
    <2>2. map[subIndex[s]] # None /\ map[subIndex[s]].sub = s
        BY <1>1, <1>3, <2>1, RegistryConstants DEF ResolvedBy
    <2> HIDE DEF added, index, m
    <2>3. subIndex[s] # rt.id
        BY <1>3, <1>6, <2>1, <2>2
    <2> QED BY <1>1, <1>3, <2>1, <2>2, <2>3
<1> QED BY <1>4, <1>5, <1>6

(* The same for the rollback to the route that was there before. *)
LEMMA WithoutResolves ==
    ASSUME NEW map \in Maps, NEW index \in [Subs -> Ids \cup {None}], ResolvedBy(index, map),
           NEW rt \in Route, map[rt.id] = rt,
           NEW before \in Route \cup {None}, before # None => before.id = rt.id
    PROVE  ResolvedBy(SubIndexWithout(index, rt, before), [map EXCEPT ![rt.id] = before])
<1> DEFINE m == [map EXCEPT ![rt.id] = before]
           freed == [s \in Subs |-> IF s = rt.sub THEN None ELSE index[s]]
           after == SubIndexWithout(index, rt, before)
<1>1. rt.id \in Ids /\ m[rt.id] = before /\ \A i \in Ids \ {rt.id} : m[i] = map[i]
    BY DEF Route, Maps
<1>2. after = IF Owns(before) THEN [freed EXCEPT ![before.sub] = rt.id] ELSE freed
    BY DEF SubIndexWithout
<1> SUFFICES ASSUME NEW s \in Subs, after[s] # None
             PROVE  m[after[s]] # None /\ m[after[s]].sub = s
    BY DEF ResolvedBy
<1>3. CASE Owns(before) /\ before.sub = s
    <2>1. after[s] = rt.id
        BY <1>2, <1>3
    <2> HIDE DEF after, m, freed
    <2> QED BY <1>1, <1>3, <2>1 DEF Owns
<1>4. CASE ~(Owns(before) /\ before.sub = s)
    <2>1. after[s] = freed[s]
        BY <1>2, <1>4
    <2>2. s # rt.sub /\ after[s] = index[s]
        BY <2>1
    <2> HIDE DEF after, m, freed
    <2>3. map[index[s]] # None /\ map[index[s]].sub = s /\ index[s] \in Ids
        BY <2>2 DEF ResolvedBy
    <2>4. index[s] # rt.id
        BY <2>2, <2>3
    <2> QED BY <1>1, <2>2, <2>3, <2>4
<1> QED BY <1>3, <1>4

(* UpsertRoute: memory is ahead of the table by the one route. *)
LEMMA UpsertAgrees ==
    ASSUME RegistryIInv, AgreeInv, NEW k \in Callers, NEW offer \in Offers, UpsertRoute(k, offer)
    PROVE  AgreeInv'
<1> DEFINE rt == Normalize(offer)
<1>1. rt \in Route /\ rt.id \in Ids
    BY NormalizeKeepsId, RegistryConstants DEF Route
<1>u. /\ Begin(k)
      /\ routes' = [routes EXCEPT ![rt.id] = rt]
      /\ subIndex' = SubIndexWith(rt, routes[rt.id])
      /\ new' = [new EXCEPT ![k] = rt] /\ old' = [old EXCEPT ![k] = routes[rt.id]]
      /\ at' = [at EXCEPT ![k] = "save"]
      /\ UNCHANGED <<apps, table, appTable, target, orphan, reload, errors>>
    BY DEF UpsertRoute, Goto, tables
<1> HIDE DEF rt
<1> SUFFICES ASSUME orderly' PROVE AgreeInv'
    BY <1>u, DisorderIsSafe DEF Begin, RegistryIInv, TypeOK
<1>2. /\ Alone(k) /\ ResolvedBy(subIndex, routes)
      /\ errors = 0 => routes = table /\ apps = appTable
    BY <1>u, BeginFacts
<1>3. /\ at'[k] = "save" /\ Alone(k)'
      /\ new'[k] = rt /\ old'[k] = routes[rt.id]
    BY <1>u, <1>2 DEF RegistryIInv, TypeOK, Alone
<1>4. ResolvedBy(subIndex, routes)'
    <2>1. ResolvedBy(SubIndexWith(rt, routes[rt.id]), [routes EXCEPT ![rt.id] = rt])
        BY <1>1, <1>2, InvFacts, WithResolves DEF RegistryIInv, TypeOK, IdsMatch
    <2> QED BY <1>u, <2>1 DEF ResolvedBy
<1>5. SaveIsCurrent(k)' /\ OrphanIsAlone(k)'
    BY <1>1, <1>3, <1>u, InvFacts DEF SaveIsCurrent, OrphanIsAlone, Maps
<1>6. errors' = 0 => Behind(k)'
    <2>1. routes = [routes' EXCEPT ![rt.id] = routes[rt.id]]
        BY <1>1, <1>u, InvFacts DEF Maps
    <2> QED BY <1>2, <1>3, <1>u, <2>1 DEF Behind
<1> QED BY <1>3, <1>4, <1>5, <1>6, AloneIsSafe

(* A refused call leaves the map, the subdomains and the tables alone. *)
LEMMA RefusedAgrees ==
    ASSUME RegistryIInv, AgreeInv, NEW k \in Callers, NEW offer \in Offers, UpsertRefused(k, offer)
    PROVE  AgreeInv'
<1>u. /\ Begin(k)
      /\ UNCHANGED <<routes, subIndex, apps, table, appTable, at, new, old, target, orphan,
                     reload, errors>>
    BY DEF UpsertRefused, tables, calls
<1> SUFFICES ASSUME orderly' PROVE AgreeInv'
    BY <1>u, DisorderIsSafe DEF Begin, RegistryIInv, TypeOK
<1>1. /\ Alone(k) /\ at[k] = "idle" /\ ResolvedBy(subIndex, routes)
      /\ errors = 0 => routes = table /\ apps = appTable
    BY <1>u, BeginFacts
<1>2. Alone(k)' /\ SaveIsCurrent(k)' /\ OrphanIsAlone(k)' /\ ResolvedBy(subIndex, routes)'
    BY <1>1, <1>u DEF Alone, SaveIsCurrent, OrphanIsAlone, ResolvedBy
<1>3. errors' = 0 => Behind(k)'
    BY <1>1, <1>u DEF Behind
<1> QED BY <1>2, <1>3, AloneIsSafe

(* UpsertRouteWithValidation writes memory and table alike. *)
LEMMA ValidatedSavedAgrees ==
    ASSUME RegistryIInv, AgreeInv, NEW k \in Callers, NEW offer \in Offers, ValidatedSaved(k, offer)
    PROVE  AgreeInv'
<1> DEFINE rt == Normalize(offer)
<1>1. rt \in Route /\ rt.id \in Ids
    BY NormalizeKeepsId, RegistryConstants DEF Route
<1>u. /\ Begin(k)
      /\ routes' = [routes EXCEPT ![rt.id] = rt] /\ table' = [table EXCEPT ![rt.id] = rt]
      /\ subIndex' = SubIndexWith(rt, routes[rt.id])
      /\ UNCHANGED <<apps, appTable, at, orphan, reload, errors>>
    BY DEF ValidatedSaved, SaveRoute, calls
<1> HIDE DEF rt
<1> SUFFICES ASSUME orderly' PROVE AgreeInv'
    BY <1>u, DisorderIsSafe DEF Begin, RegistryIInv, TypeOK
<1>2. /\ Alone(k) /\ at[k] = "idle" /\ ResolvedBy(subIndex, routes)
      /\ errors = 0 => routes = table /\ apps = appTable
    BY <1>u, BeginFacts
<1>3. ResolvedBy(subIndex, routes)'
    BY <1>1, <1>2, <1>u, InvFacts, WithResolves DEF RegistryIInv, TypeOK, IdsMatch, ResolvedBy
<1>4. Alone(k)' /\ SaveIsCurrent(k)' /\ OrphanIsAlone(k)'
    BY <1>2, <1>u DEF Alone, SaveIsCurrent, OrphanIsAlone
<1>5. errors' = 0 => Behind(k)'
    BY <1>2, <1>u DEF Behind
<1> QED BY <1>3, <1>4, <1>5, AloneIsSafe

(* One that fails takes the subdomains back with the rest. *)
LEMMA ValidatedFailsAgrees ==
    ASSUME RegistryIInv, AgreeInv, NEW k \in Callers, NEW offer \in Offers, ValidatedFails(k, offer)
    PROVE  AgreeInv'
<1> DEFINE rt == Normalize(offer)
           before == routes[rt.id]
           m == [routes EXCEPT ![rt.id] = rt]
           index == SubIndexWith(rt, before)
<1>1. rt \in Route /\ rt.id \in Ids
    BY NormalizeKeepsId, RegistryConstants DEF Route
<1>u. /\ Begin(k) /\ SaveRouteFails(rt)
      /\ subIndex' = SubIndexWithout(index, rt, before)
      /\ UNCHANGED <<routes, apps, table, appTable, at, orphan, reload>>
    BY DEF ValidatedFails, tables, calls
<1>2. /\ before \in Route \cup {None} /\ (before # None => before.id = rt.id)
      /\ m \in Maps /\ m[rt.id] = rt /\ [m EXCEPT ![rt.id] = before] = routes
    BY <1>1, InvFacts DEF RegistryIInv, IdsMatch, Keyed, Maps
<1>3. index \in [Subs -> Ids \cup {None}]
    BY <1>1, <1>2, SubIndexTyped DEF RegistryIInv, TypeOK
<1> HIDE DEF rt, m, index
<1> SUFFICES ASSUME orderly' PROVE AgreeInv'
    BY <1>u, DisorderIsSafe DEF Begin, RegistryIInv, TypeOK
<1>4. /\ Alone(k) /\ at[k] = "idle" /\ ResolvedBy(subIndex, routes)
      /\ errors = 0 => routes = table /\ apps = appTable
    BY <1>u, BeginFacts
<1>5. ResolvedBy(index, m)
    BY <1>1, <1>4, InvFacts, WithResolves DEF RegistryIInv, TypeOK, IdsMatch, index, m
<1> HIDE DEF before
<1>6. ResolvedBy(SubIndexWithout(index, rt, before), routes)
    BY <1>1, <1>2, <1>3, <1>5, WithoutResolves
<1>7. ResolvedBy(subIndex, routes)'
    BY <1>6, <1>u DEF ResolvedBy
<1>8. Alone(k)' /\ SaveIsCurrent(k)' /\ OrphanIsAlone(k)'
    BY <1>4, <1>u DEF Alone, SaveIsCurrent, OrphanIsAlone
<1>9. errors' = 0 => Behind(k)'
    <2>1. errors' = 0 => errors = 0
        BY <1>u DEF SaveRouteFails, StatementFails, RegistryIInv, TypeOK
    <2> QED BY <1>4, <1>u, <2>1 DEF Behind
<1> QED BY <1>7, <1>8, <1>9, AloneIsSafe

(* SaveRoute brings the table to where memory is; if it fails nothing has   *)
(* changed.                                                                 *)
LEMMA UpsertSaveAgrees ==
    ASSUME RegistryIInv, AgreeInv, NEW k \in Callers, UpsertSaved(k) \/ UpsertSaveFails(k)
    PROVE  AgreeInv'
<1>1. /\ at[k] = "save" /\ new[k] \in Route /\ new[k].id \in Ids
      /\ UNCHANGED <<routes, subIndex, apps, appTable, orphan, reload, orderly>>
    BY DEF RegistryIInv, TypeOK, UpsertSaved, UpsertSaveFails, Route, memory, losses, tables, history
<1> SUFFICES ASSUME orderly PROVE AgreeInv'
    BY <1>1, DisorderIsSafe DEF RegistryIInv, TypeOK
<1>2. /\ Alone(k) /\ SaveIsCurrent(k) /\ ResolvedBy(subIndex, routes)
      /\ errors = 0 => Behind(k)
    BY <1>1, StepFacts
<1>3. ResolvedBy(subIndex, routes)'
    BY <1>1, <1>2 DEF ResolvedBy
<1>4. CASE UpsertSaved(k)
    <2>1. /\ at' = [at EXCEPT ![k] = "idle"] /\ table' = [table EXCEPT ![new[k].id] = new[k]]
          /\ UNCHANGED errors
        BY <1>4 DEF UpsertSaved, SaveRoute, Goto
    <2>2. Alone(k)' /\ at'[k] = "idle"
        BY <1>1, <1>2, <2>1 DEF Alone, RegistryIInv, TypeOK
    <2>3. SaveIsCurrent(k)' /\ OrphanIsAlone(k)'
        BY <2>2 DEF SaveIsCurrent, OrphanIsAlone
    <2>4. errors' = 0 => Behind(k)'
        <3>1. errors = 0 => table' = routes /\ apps = appTable
            BY <1>1, <1>2, <2>1, InvFacts DEF Behind, SaveIsCurrent, Maps
        <3> QED BY <1>1, <2>1, <2>2, <3>1 DEF Behind
    <2> QED BY <1>3, <2>2, <2>3, <2>4, AloneIsSafe
<1>5. CASE UpsertSaveFails(k)
    <2>1. /\ at' = [at EXCEPT ![k] = "rollback"] /\ UNCHANGED <<table, new, old>>
          /\ errors' = 0 => errors = 0
        BY <1>5
        DEF UpsertSaveFails, SaveRouteFails, StatementFails, Goto, tables, RegistryIInv, TypeOK
    <2>2. Alone(k)' /\ at'[k] = "rollback"
        BY <1>1, <1>2, <2>1 DEF Alone, RegistryIInv, TypeOK
    <2>3. SaveIsCurrent(k)' /\ OrphanIsAlone(k)'
        BY <1>1, <1>2, <2>1, <2>2 DEF SaveIsCurrent, OrphanIsAlone
    <2>4. errors' = 0 => Behind(k)'
        BY <1>1, <1>2, <2>1, <2>2 DEF Behind
    <2> QED BY <1>3, <2>2, <2>3, <2>4, AloneIsSafe
<1> QED BY <1>4, <1>5

(* The rollback takes memory back to the table. *)
LEMMA RollbackAgrees ==
    ASSUME RegistryIInv, AgreeInv, NEW k \in Callers, UpsertRollback(k)
    PROVE  AgreeInv'
<1> DEFINE rt == new[k]
           before == old[k]
<1>1. /\ rt \in Route /\ rt.id \in Ids /\ at[k] = "rollback"
      /\ before \in Route \cup {None} /\ (before # None => before.id = rt.id)
    BY DEF RegistryIInv, TypeOK, IdsMatch, UpsertRollback, Route
<1>u. /\ routes' = [routes EXCEPT ![rt.id] = before]
      /\ subIndex' = SubIndexWithout(subIndex, rt, before)
      /\ at' = [at EXCEPT ![k] = "idle"]
      /\ UNCHANGED <<apps, table, appTable, orphan, reload, errors, orderly>>
    BY DEF UpsertRollback, Goto, tables, history
<1> SUFFICES ASSUME orderly PROVE AgreeInv'
    BY <1>u, DisorderIsSafe DEF RegistryIInv, TypeOK
<1>2. /\ Alone(k) /\ routes[rt.id] = rt /\ ResolvedBy(subIndex, routes)
      /\ errors = 0 => table = [routes EXCEPT ![rt.id] = before] /\ apps = appTable
    BY <1>1, StepFacts DEF SaveIsCurrent, Behind
<1> HIDE DEF rt, before
<1>3. ResolvedBy(subIndex, routes)'
    <2>1. ResolvedBy(SubIndexWithout(subIndex, rt, before), [routes EXCEPT ![rt.id] = before])
        BY <1>1, <1>2, InvFacts, WithoutResolves DEF RegistryIInv, TypeOK
    <2> QED BY <1>u, <2>1 DEF ResolvedBy
<1>4. Alone(k)' /\ at'[k] = "idle"
    BY <1>2, <1>u DEF Alone, RegistryIInv, TypeOK
<1>5. SaveIsCurrent(k)' /\ OrphanIsAlone(k)'
    BY <1>4 DEF SaveIsCurrent, OrphanIsAlone
<1>6. errors' = 0 => Behind(k)'
    BY <1>2, <1>4, <1>u DEF Behind
<1> QED BY <1>3, <1>4, <1>5, <1>6, AloneIsSafe

(* RemoveRoute: the row is behind, and the orphan is nobody else's app. *)
LEMMA RemoveAgrees ==
    ASSUME RegistryIInv, AgreeInv, NEW k \in Callers, NEW id \in Ids, RemoveRoute(k, id)
    PROVE  AgreeInv'
<1>u. /\ Begin(k)
      /\ routes' = [routes EXCEPT ![id] = None]
      /\ subIndex' = [s \in Subs |-> IF routes[id] # None /\ routes[id].sub = s /\ subIndex[s] = id
                                     THEN None ELSE subIndex[s]]
      /\ target' = [target EXCEPT ![k] = id] /\ orphan' = [orphan EXCEPT ![k] = OrphanOf(id)]
      /\ at' = [at EXCEPT ![k] = "deleteRow"]
      /\ UNCHANGED <<apps, table, appTable, reload, errors>>
    BY DEF RemoveRoute, Goto, tables
<1> SUFFICES ASSUME orderly' PROVE AgreeInv'
    BY <1>u, DisorderIsSafe DEF Begin, RegistryIInv, TypeOK
<1>1. /\ Alone(k) /\ ResolvedBy(subIndex, routes)
      /\ errors = 0 => routes = table /\ apps = appTable
    BY <1>u, BeginFacts
<1>2. /\ Alone(k)' /\ at'[k] = "deleteRow" /\ target'[k] = id /\ orphan'[k] = OrphanOf(id)
    BY <1>1, <1>u DEF Alone, RegistryIInv, TypeOK
<1>3. /\ routes'[id] = None /\ \A i \in Ids \ {id} : routes'[i] = routes[i]
    BY <1>u, InvFacts DEF Maps
<1>4. ResolvedBy(subIndex, routes)'
    <2> SUFFICES ASSUME NEW s \in Subs, subIndex'[s] # None
                 PROVE  routes'[subIndex'[s]] # None /\ routes'[subIndex'[s]].sub = s
        BY DEF ResolvedBy
    <2>1. /\ subIndex'[s] = subIndex[s] /\ subIndex[s] \in Ids
          /\ ~(routes[id] # None /\ routes[id].sub = s /\ subIndex[s] = id)
        BY <1>u DEF RegistryIInv, TypeOK
    <2>2. routes[subIndex[s]] # None /\ routes[subIndex[s]].sub = s
        BY <1>1, <2>1 DEF ResolvedBy
    <2> QED BY <1>3, <2>1, <2>2
<1>5. OrphanIsAlone(k)'
    <2>1. ASSUME OrphanOf(id) # None, NEW i \in Ids, routes'[i] # None
          PROVE  routes'[i].app # OrphanOf(id)
        BY <1>3, <2>1 DEF OrphanOf
    <2> QED BY <1>2, <2>1 DEF OrphanIsAlone
<1>6. SaveIsCurrent(k)'
    BY <1>2 DEF SaveIsCurrent
<1>7. errors' = 0 => Behind(k)'
    BY <1>1, <1>2, <1>u DEF Behind
<1> QED BY <1>2, <1>4, <1>5, <1>6, <1>7, AloneIsSafe

(* The row follows, and perhaps the app is to go. *)
LEMMA RemoveRowAgrees ==
    ASSUME RegistryIInv, AgreeInv, NEW k \in Callers, RemoveRow(k) \/ RemoveRowFails(k)
    PROVE  AgreeInv'
<1>1. /\ at[k] = "deleteRow" /\ target[k] \in Ids
      /\ UNCHANGED <<routes, subIndex, apps, appTable, reload, orderly>>
    BY DEF RegistryIInv, TypeOK, RemoveRow, RemoveRowFails, memory, losses, tables, history
<1> SUFFICES ASSUME orderly PROVE AgreeInv'
    BY <1>1, DisorderIsSafe DEF RegistryIInv, TypeOK
<1>2. /\ Alone(k) /\ OrphanIsAlone(k) /\ ResolvedBy(subIndex, routes)
      /\ errors = 0 => Behind(k)
    BY <1>1, StepFacts
<1>3. ResolvedBy(subIndex, routes)'
    BY <1>1, <1>2 DEF ResolvedBy
<1>4. CASE RemoveRow(k)
    <2>1. /\ table' = [table EXCEPT ![target[k]] = None] /\ UNCHANGED <<orphan, errors>>
          /\ at' = [at EXCEPT ![k] = IF orphan[k] = None THEN "idle" ELSE "removeApp"]
        BY <1>4 DEF RemoveRow, Goto
    <2>2. Alone(k)' /\ at'[k] \in {"idle", "removeApp"}
        BY <1>1, <1>2, <2>1 DEF Alone, RegistryIInv, TypeOK
    <2>3. SaveIsCurrent(k)' /\ OrphanIsAlone(k)'
        BY <1>1, <1>2, <2>1, <2>2 DEF SaveIsCurrent, OrphanIsAlone
    <2>4. errors' = 0 => Behind(k)'
        BY <1>1, <1>2, <2>1, <2>2 DEF Behind
    <2> QED BY <1>3, <2>2, <2>3, <2>4, AloneIsSafe
<1>5. CASE RemoveRowFails(k)
    <2>1. at' = [at EXCEPT ![k] = "idle"] /\ errors' # 0
        BY <1>5 DEF RemoveRowFails, StatementFails, Goto, RegistryIInv, TypeOK
    <2>2. Alone(k)' /\ at'[k] = "idle"
        BY <1>1, <1>2, <2>1 DEF Alone, RegistryIInv, TypeOK
    <2>3. SaveIsCurrent(k)' /\ OrphanIsAlone(k)'
        BY <2>2 DEF SaveIsCurrent, OrphanIsAlone
    <2> QED BY <1>3, <2>1, <2>2, <2>3, AloneIsSafe
<1> QED BY <1>4, <1>5

(* An app that no route has any more goes from memory, then from the table,  *)
(* and takes no row of a route with it.                                      *)
LEMMA RemoveAppAgrees ==
    ASSUME RegistryIInv, AgreeInv, NEW k \in Callers, RemoveApp(k) \/ DeleteApp(k)
    PROVE  AgreeInv'
<1>1. /\ at[k] \in {"removeApp", "deleteApp"} /\ orphan[k] # None
      /\ UNCHANGED <<routes, subIndex, errors, reload, orderly>>
    BY DEF RegistryIInv, TypeOK, RemoveApp, DeleteApp, memory, losses, history
<1> SUFFICES ASSUME orderly PROVE AgreeInv'
    BY <1>1, DisorderIsSafe DEF RegistryIInv, TypeOK
<1>2. /\ Alone(k) /\ OrphanIsAlone(k) /\ ResolvedBy(subIndex, routes)
      /\ errors = 0 => Behind(k)
    BY <1>1, StepFacts
<1>3. ResolvedBy(subIndex, routes)'
    BY <1>1, <1>2 DEF ResolvedBy
<1>4. CASE RemoveApp(k)
    <2>1. /\ at[k] = "removeApp" /\ apps' = apps \ {orphan[k]} /\ UNCHANGED <<table, appTable>>
          /\ \/ orphan[k] \in apps /\ at' = [at EXCEPT ![k] = "deleteApp"] /\ UNCHANGED orphan
             \/ orphan[k] \notin apps /\ at' = [at EXCEPT ![k] = "idle"]
        BY <1>4 DEF RemoveApp, Goto, tables
    <2>2. /\ Alone(k)' /\ at'[k] \in {"idle", "deleteApp"}
          /\ at'[k] = "deleteApp" => UNCHANGED orphan
          /\ at'[k] = "idle" => apps' = apps
        BY <1>1, <1>2, <2>1 DEF Alone, RegistryIInv, TypeOK
    <2>3. SaveIsCurrent(k)' /\ OrphanIsAlone(k)'
        BY <1>1, <1>2, <2>1, <2>2 DEF SaveIsCurrent, OrphanIsAlone
    <2>4. errors' = 0 => Behind(k)'
        BY <1>1, <1>2, <2>1, <2>2 DEF Behind
    <2> QED BY <1>3, <2>2, <2>3, <2>4, AloneIsSafe
<1>5. CASE DeleteApp(k)
    <2>1. /\ at[k] = "deleteApp" /\ DeleteAppRow(orphan[k]) /\ UNCHANGED apps
          /\ at' = [at EXCEPT ![k] = "idle"]
        BY <1>5 DEF DeleteApp, Goto
    <2>2. Alone(k)' /\ at'[k] = "idle"
        BY <1>1, <1>2, <2>1 DEF Alone, RegistryIInv, TypeOK
    <2>3. SaveIsCurrent(k)' /\ OrphanIsAlone(k)'
        BY <2>2 DEF SaveIsCurrent, OrphanIsAlone
    <2>4. errors' = 0 => Behind(k)'
        <3>1. ASSUME errors = 0 PROVE table' = table /\ apps' = appTable' /\ routes = table
            <4>1. routes = table /\ apps = appTable \ {orphan[k]}
                BY <1>2, <2>1, <3>1 DEF Behind
            <4>2. \A i \in Ids : ~(table[i] # None /\ table[i].app = orphan[k])
                BY <1>1, <1>2, <4>1 DEF OrphanIsAlone
            <4>3. [i \in Ids |-> IF table[i] # None /\ table[i].app = orphan[k]
                                 THEN None ELSE table[i]] = table
                BY <4>2, InvFacts DEF Maps
            <4> QED BY <2>1, <4>1, <4>3 DEF DeleteAppRow
        <3> QED BY <1>1, <2>2, <3>1 DEF Behind
    <2> QED BY <1>3, <2>2, <2>3, <2>4, AloneIsSafe
<1> QED BY <1>4, <1>5

(* An app is known first, and has its row then. *)
LEMMA AppAgrees ==
    ASSUME RegistryIInv, AgreeInv, NEW k \in Callers, App(k)
    PROVE  AgreeInv'
<1>1. ASSUME NEW a \in Apps, UpsertApp(k, a) PROVE AgreeInv'
    <2>u. /\ Begin(k) /\ apps' = apps \cup {a}
          /\ orphan' = [orphan EXCEPT ![k] = a] /\ at' = [at EXCEPT ![k] = "saveApp"]
          /\ UNCHANGED <<routes, subIndex, table, appTable, reload, errors>>
        BY <1>1 DEF UpsertApp, Goto, memory, losses, tables
    <2> SUFFICES ASSUME orderly' PROVE AgreeInv'
        BY <2>u, DisorderIsSafe DEF Begin, RegistryIInv, TypeOK
    <2>1. /\ Alone(k) /\ ResolvedBy(subIndex, routes)
          /\ errors = 0 => routes = table /\ apps = appTable
        BY <2>u, BeginFacts
    <2>2. Alone(k)' /\ at'[k] = "saveApp" /\ orphan'[k] = a
        BY <2>1, <2>u DEF Alone, RegistryIInv, TypeOK
    <2>3. SaveIsCurrent(k)' /\ OrphanIsAlone(k)' /\ ResolvedBy(subIndex, routes)'
        BY <2>1, <2>2, <2>u DEF SaveIsCurrent, OrphanIsAlone, ResolvedBy
    <2>4. errors' = 0 => Behind(k)'
        BY <2>1, <2>2, <2>u DEF Behind
    <2> QED BY <2>2, <2>3, <2>4, AloneIsSafe
<1>2. CASE SaveApp(k) \/ AppStatementFails(k) \/ DropApp(k)
    <2>1. /\ at[k] \in {"saveApp", "deleteApp", "dropApp"}
          /\ UNCHANGED <<routes, subIndex, table, reload, orderly>>
        BY <1>2 DEF SaveApp, AppStatementFails, DropApp, memory, losses, tables, history
    <2> SUFFICES ASSUME orderly PROVE AgreeInv'
        BY <2>1, DisorderIsSafe DEF RegistryIInv, TypeOK
    <2>2. /\ Alone(k) /\ ResolvedBy(subIndex, routes)
          /\ errors = 0 => Behind(k)
        BY <2>1, StepFacts
    <2>3. PICK label \in {"idle", "dropApp"} : at' = [at EXCEPT ![k] = label]
        BY <1>2 DEF SaveApp, AppStatementFails, DropApp, Goto
    <2>4. Alone(k)' /\ at'[k] \in {"idle", "dropApp"}
        BY <2>1, <2>2, <2>3 DEF Alone, RegistryIInv, TypeOK
    <2>5. SaveIsCurrent(k)' /\ OrphanIsAlone(k)' /\ ResolvedBy(subIndex, routes)'
        BY <2>1, <2>2, <2>4 DEF SaveIsCurrent, OrphanIsAlone, ResolvedBy
    <2>6. errors' = 0 => Behind(k)'
        <3>1. CASE SaveApp(k)
            <4>1. /\ at[k] = "saveApp" /\ at' = [at EXCEPT ![k] = "idle"]
                  /\ appTable' = appTable \cup {orphan[k]} /\ UNCHANGED <<apps, errors>>
                BY <3>1 DEF SaveApp, Goto
            <4>2. at'[k] = "idle"
                BY <4>1 DEF RegistryIInv, TypeOK
            <4> QED BY <2>1, <2>2, <4>1, <4>2 DEF Behind
        <3>2. CASE AppStatementFails(k)
            BY <3>2 DEF AppStatementFails, StatementFails, RegistryIInv, TypeOK
        <3>3. CASE DropApp(k)
            <4>1. errors # 0 /\ UNCHANGED errors
                BY <3>3, <2>2 DEF DropApp, Behind
            <4> QED BY <4>1
        <3> QED BY <1>2, <3>1, <3>2, <3>3
    <2> QED BY <2>4, <2>5, <2>6, AloneIsSafe
<1> QED BY <1>1, <1>2 DEF App

(* A reload ends the order: none of its steps is taken while there is one,   *)
(* except the failure of a statement, which changes nothing.                 *)
LEMMA ReloadAgrees ==
    ASSUME RegistryIInv, AgreeInv, Reload
    PROVE  AgreeInv'
<1>1. CASE \E config \in Configs : ReplaceRoutes(config)
    BY <1>1, DisorderIsSafe DEF ReplaceRoutes
<1>2. CASE ReloadStatementFails
    <2>1. /\ UNCHANGED <<routes, subIndex, apps, table, appTable, at, new, orphan, orderly>>
          /\ reload'.step = reload.step /\ errors' # 0
        BY <1>2
        DEF ReloadStatementFails, StatementFails, memory, losses, tables, calls, history, RegistryIInv,
                    TypeOK
    <2> QED BY <2>1
    DEF AgreeInv, OneAtATime, SavesCurrent, SaveIsCurrent, Resolves, ResolvedBy,
                        OrphansAreAlone, OrphanIsAlone, TablesFollow, StorageAgrees
<1>3. CASE reload.step # "idle" /\ UNCHANGED orderly
    BY <1>3, DisorderIsSafe DEF AgreeInv, OneAtATime, RegistryIInv, TypeOK
<1>4. ASSUME \/ \E i \in Ids : ReloadDeletes(i) \/ ReloadSaves(i)
             \/ SwapRoutes
             \/ \E a \in Apps : ReloadDeletesApp(a) \/ ReloadSavesApp(a)
             \/ SwapApps
      PROVE  reload.step # "idle" /\ UNCHANGED orderly
    BY <1>4
    DEF ReloadDeletes, ReloadSaves, SwapRoutes, ReloadDeletesApp, ReloadSavesApp, SwapApps,
                history
<1> QED BY <1>1, <1>2, <1>3, <1>4 DEF Reload

(* A restart loads the tables, and an index of the subdomains they have. *)
LEMMA RestartAgrees ==
    ASSUME RegistryIInv, AgreeInv, Restart
    PROVE  AgreeInv'
<1>1. /\ routes' = table /\ apps' = appTable /\ at' = [k \in Callers |-> "idle"]
      /\ reload'.step = "idle" /\ UNCHANGED <<table, appTable>>
    BY DEF Restart, LoadFromStorage, NoReload, tables
<1>2. ResolvedBy(subIndex, routes)'
    <2> SUFFICES ASSUME NEW s \in Subs, subIndex'[s] # None
                 PROVE  routes'[subIndex'[s]] # None /\ routes'[subIndex'[s]].sub = s
        BY DEF ResolvedBy
    <2>1. subIndex'[s] \in {i \in Ids : Owns(table[i]) /\ table[i].sub = s}
        BY DEF Restart, LoadFromStorage
    <2> QED BY <1>1, <2>1 DEF Owns
<1>3. \A k \in Callers : at'[k] = "idle"
    BY <1>1
<1> QED BY <1>1, <1>2, <1>3
    DEF AgreeInv, OneAtATime, SavesCurrent, SaveIsCurrent, Resolves, OrphansAreAlone,
       OrphanIsAlone,
        TablesFollow, Behind, StorageAgrees

(* It holds from the start, and every step keeps it. *)
LEMMA AgreeInvInductive ==
    /\ Init => AgreeInv
    /\ RegistryIInv /\ AgreeInv /\ [Next]_vars => AgreeInv'
<1>1. ASSUME Init PROVE AgreeInv
    <2>1. \A k \in Callers : at[k] = "idle"
        BY <1>1 DEF Init
    <2>2. ResolvedBy(subIndex, routes) /\ reload.step = "idle" /\ routes = table /\ apps = appTable
        BY <1>1 DEF Init, ResolvedBy, NoReload
    <2> QED BY <2>1, <2>2 DEF AgreeInv, OneAtATime, SavesCurrent, SaveIsCurrent, Resolves,
                             OrphansAreAlone, OrphanIsAlone, TablesFollow, Behind, StorageAgrees
<1>2. ASSUME AgreeInv, UNCHANGED vars PROVE AgreeInv'
    BY <1>2 DEF vars, memory, losses, tables, calls, history, AgreeInv, OneAtATime, SavesCurrent,
                SaveIsCurrent, Resolves, ResolvedBy, OrphansAreAlone, OrphanIsAlone, TablesFollow,
                Alone, Behind, StorageAgrees, Quiet
<1>3. ASSUME RegistryIInv, AgreeInv, Next PROVE AgreeInv'
    <2>1. ASSUME NEW k \in Callers, Upsert(k) PROVE AgreeInv'
        BY <1>3, <2>1, UpsertAgrees, RefusedAgrees, ValidatedSavedAgrees,
           ValidatedFailsAgrees,
           UpsertSaveAgrees, RollbackAgrees
        DEF Upsert, ValidatedRefused
    <2>2. ASSUME NEW k \in Callers, Remove(k) \/ App(k) PROVE AgreeInv'
        BY <1>3, <2>2, RemoveAgrees, RemoveRowAgrees, RemoveAppAgrees, AppAgrees DEF Remove
    <2> QED BY <1>3, <2>1, <2>2, ReloadAgrees, RestartAgrees DEF Next
<1> QED BY <1>1, <1>2, <1>3

-----------------------------------------------------------------------------
(* No route is missing: the tree, the index and the rows *)

Complete(t, map, lost) == \A i \in Ids \ lost : map[i] # None => t[map[i].path] = map[i]
Indexed(index, map, lost) == \A i \in Ids \ lost : Owns(map[i]) => index[map[i].sub] = i

(* No two rows have one subdomain. *)
UniqueRows ==
    \A i, j \in Ids : /\ table[i] # None /\ table[j] # None
                      /\ table[i].sub # None /\ table[i].sub = table[j].sub
                      => i = j

CompleteInv == TreeIsComplete /\ IndexIsComplete /\ UniqueRows

(* RadixTree.Delete takes one route out. *)
LEMMA DeleteIsComplete ==
    ASSUME NEW t \in Trees, NEW map \in Maps, Keyed(map), NEW lost, Complete(t, map, lost),
           NEW id \in Ids, NEW left, lost \subseteq left \cup {id}
    PROVE  Complete(TreeDelete(t, id), [map EXCEPT ![id] = None], left)
<1>1. ASSUME NEW i \in Ids \ left, [map EXCEPT ![id] = None][i] # None
      PROVE  /\ i # id /\ map[i] # None /\ i \in Ids \ lost
             /\ [map EXCEPT ![id] = None][i] = map[i]
    BY <1>1 DEF Maps
<1>2. ASSUME NEW i \in Ids \ lost, i # id, map[i] # None
      PROVE  TreeDelete(t, id)[map[i].path] = map[i]
    <2>1. map[i].path \in Paths /\ map[i].id = i /\ t[map[i].path] = map[i]
        BY <1>2 DEF Maps, Route, Keyed, Complete
    <2> QED BY <1>2, <2>1 DEF TreeDelete
<1> QED BY <1>1, <1>2 DEF Complete

(* RadixTree.Insert takes the place of the route that was there. *)
LEMMA InsertIsComplete ==
    ASSUME NEW t \in Trees, NEW map \in Maps, Keyed(map), NEW lost, Complete(t, map, lost),
           NEW rt \in Route, NEW left,
           \A i \in Ids : i \in lost \/ (t[rt.path] # None /\ t[rt.path].id = i)
                          => i \in left \/ i = rt.id
    PROVE  Complete(TreeInsert(t, rt), [map EXCEPT ![rt.id] = rt], left)
<1> DEFINE d == TreeDelete(t, rt.id)
           m == [map EXCEPT ![rt.id] = rt]
<1>1. rt.id \in Ids /\ rt.path \in Paths
    BY DEF Route
<1>2. TreeInsert(t, rt) = [d EXCEPT ![rt.path] = rt] /\ d \in [Paths -> Route \cup {None}]
    BY DEF TreeInsert, TreeDelete, Trees
<1>3. m[rt.id] = rt /\ \A i \in Ids \ {rt.id} : m[i] = map[i]
    BY <1>1 DEF Maps
<1>4. ASSUME NEW i \in Ids \ left, i # rt.id, map[i] # None
      PROVE  /\ map[i].path \in Paths /\ map[i].path # rt.path
             /\ d[map[i].path] = map[i]
    <2>1. map[i].path \in Paths /\ map[i].id = i
        BY <1>4 DEF Maps, Route, Keyed
    <2>2. t[map[i].path] = map[i]
        BY <1>4 DEF Complete
    <2>3. ~(t[rt.path] # None /\ t[rt.path].id = i)
        BY <1>4
    <2>4. map[i].path # rt.path
        BY <1>4, <2>1, <2>2, <2>3
    <2> QED BY <1>4, <2>1, <2>2, <2>4 DEF TreeDelete
<1> HIDE DEF d, m
<1>5. ASSUME NEW i \in Ids \ left, m[i] # None
      PROVE  TreeInsert(t, rt)[m[i].path] = m[i]
    <2>1. CASE i = rt.id
        BY <1>1, <1>2, <1>3, <2>1
    <2>2. CASE i # rt.id
        <3>1. m[i] = map[i] /\ map[i] # None
            BY <1>3, <1>5, <2>2
        <3>2. map[i].path \in Paths /\ map[i].path # rt.path /\ d[map[i].path] = map[i]
            BY <1>4, <2>2, <3>1
        <3> QED BY <1>2, <3>1, <3>2
    <2> QED BY <2>1, <2>2
<1> QED BY <1>5 DEF Complete, m

(* A tree that is built from a map lacks only routes that share a path. *)
LEMMA BuiltIsComplete ==
    ASSUME NEW map \in Maps, NEW t \in TreesOf(map)
    PROVE  Complete(t, map, Colliding(map))
<1> SUFFICES ASSUME NEW i \in Ids \ Colliding(map), map[i] # None
             PROVE  t[map[i].path] = map[i]
    BY DEF Complete
<1> DEFINE p == map[i].path
           here == {map[j] : j \in {l \in Ids : map[l] # None /\ map[l].path = p}}
<1>1. p \in Paths
    BY DEF Maps, Route
<1>2. \A j \in Ids : map[j] # None /\ map[j].path = p => j = i
    BY DEF Colliding
<1>3. here = {map[i]}
    BY <1>2
<1>4. IF here = {} THEN t[p] = None ELSE t[p] \in here
    BY <1>1 DEF TreesOf
<1> HIDE DEF here
<1> QED BY <1>3, <1>4

(* The index after a route that owns its subdomain replaced one. *)
LEMMA WithIsIndexed ==
    ASSUME subIndex \in [Subs -> Ids \cup {None}], NEW map \in Maps, NEW lost,
           Indexed(subIndex, map, lost), NEW rt \in Route, ~Taken(rt),
           NEW before \in Route \cup {None}
    PROVE  /\ Indexed(SubIndexWith(rt, before), [map EXCEPT ![rt.id] = rt], lost \ {rt.id})
           /\ \A s \in Subs : SubIndexWith(rt, before)[s] \in {subIndex[s], rt.id, None}
<1> DEFINE m == [map EXCEPT ![rt.id] = rt]
           added == IF Owns(rt) THEN [subIndex EXCEPT ![rt.sub] = rt.id] ELSE subIndex
           index == SubIndexWith(rt, before)
<1>1. rt.id \in Ids /\ m[rt.id] = rt /\ \A i \in Ids \ {rt.id} : m[i] = map[i]
    BY DEF Route, Maps
<1>2. index = [s \in Subs |-> IF before # None /\ before.sub = s /\ rt.sub # s /\ added[s] = rt.id
                              THEN None ELSE added[s]]
    BY DEF SubIndexWith
<1>3. \A s \in Subs : /\ added[s] = IF Owns(rt) /\ s = rt.sub THEN rt.id ELSE subIndex[s]
                      /\ added[s] \in {subIndex[s], rt.id}
    BY <1>1
<1>4. rt.sub \in Subs \cup {None}
    BY DEF Route
<1> HIDE DEF m, added, index
<1>5. ASSUME NEW i \in Ids \ (lost \ {rt.id}), Owns(m[i])
      PROVE  index[m[i].sub] = i
    <2>1. CASE i = rt.id
        <3>1. m[i] = rt /\ rt.sub \in Subs /\ Owns(rt)
            BY <1>1, <1>4, <1>5, <2>1 DEF Owns
        <3>2. added[rt.sub] = rt.id
            BY <1>3, <3>1
        <3> QED BY <1>2, <2>1, <3>1, <3>2
    <2>2. CASE i # rt.id
        <3>1. m[i] = map[i] /\ Owns(map[i]) /\ i \in Ids \ lost
            BY <1>1, <1>5, <2>2
        <3>2. map[i].sub \in Subs
            BY <3>1 DEF Owns, Maps, Route
        <3>3. subIndex[map[i].sub] = i /\ i # None
            BY <3>1, RegistryConstants DEF Indexed
        <3>4. ~(Owns(rt) /\ map[i].sub = rt.sub)
            BY <2>2, <3>3 DEF Taken
        <3>5. added[map[i].sub] = i
            BY <1>3, <3>2, <3>3, <3>4
        <3> QED BY <1>2, <2>2, <3>1, <3>2, <3>5
    <2> QED BY <2>1, <2>2
<1>6. \A s \in Subs : index[s] \in {subIndex[s], rt.id, None}
    BY <1>2, <1>3
<1> QED BY <1>5, <1>6 DEF Indexed, m, index

(* The index after a rollback, which may take subdomains from others. *)
LEMMA WithoutIsIndexed ==
    ASSUME NEW index \in [Subs -> Ids \cup {None}], NEW map \in Maps, NEW lost,
           Indexed(index, map, lost), NEW rt \in Route,
           NEW before \in Route \cup {None}, NEW left,
           \A i \in Ids : i \in lost \/ (\E s \in GivenBack(rt, before) \ {None} : index[s] = i)
                          => i \in left \/ i = rt.id
    PROVE  Indexed(SubIndexWithout(index, rt, before), [map EXCEPT ![rt.id] = before], left)
<1> DEFINE m == [map EXCEPT ![rt.id] = before]
           freed == [s \in Subs |-> IF s = rt.sub THEN None ELSE index[s]]
           after == SubIndexWithout(index, rt, before)
<1>1. rt.id \in Ids /\ m[rt.id] = before /\ \A i \in Ids \ {rt.id} : m[i] = map[i]
    BY DEF Route, Maps
<1>2. after = IF Owns(before) THEN [freed EXCEPT ![before.sub] = rt.id] ELSE freed
    BY DEF SubIndexWithout
<1>3. Owns(before) => before.sub \in Subs
    BY DEF Owns, Route
<1> SUFFICES ASSUME NEW i \in Ids \ left, Owns(m[i])
             PROVE  after[m[i].sub] = i
    BY DEF Indexed
<1>4. CASE i = rt.id
    <2>1. m[i] = before /\ Owns(before)
        BY <1>1, <1>4
    <2> HIDE DEF m, after
    <2> QED BY <1>2, <1>3, <1>4, <2>1
<1>5. CASE i # rt.id
    <2>1. m[i] = map[i]
        BY <1>1, <1>5
    <2>2. Owns(map[i])
        BY <2>1
    <2>3. i \in Ids \ lost /\ ~\E s \in GivenBack(rt, before) \ {None} : index[s] = i
        BY <1>5
    <2>4. map[i].sub \in Subs /\ map[i].sub # None
        BY <2>2 DEF Owns, Maps, Route
    <2>5. index[map[i].sub] = i
        BY <2>2, <2>3 DEF Indexed
    <2>6. map[i].sub \notin GivenBack(rt, before)
        BY <2>3, <2>4, <2>5
    <2>7. map[i].sub # rt.sub /\ (Owns(before) => map[i].sub # before.sub)
        BY <2>6 DEF GivenBack
    <2>8. freed[map[i].sub] = i
        BY <2>4, <2>5, <2>7
    <2>9. after[map[i].sub] = i
        BY <1>2, <1>3, <2>4, <2>7, <2>8
    <2> QED BY <2>1, <2>9
<1> QED BY <1>4, <1>5

(* CompleteInv in these terms. *)
LEMMA CompleteFacts ==
    ASSUME CompleteInv
    PROVE  Complete(tree, routes, displaced) /\ Indexed(subIndex, routes, unindexed)
BY DEF CompleteInv, TreeIsComplete, IndexIsComplete, Complete, Indexed

LEMMA CompleteNext ==
    ASSUME Complete(tree', routes', displaced'), Indexed(subIndex', routes', unindexed'),
           UniqueRows'
    PROVE  CompleteInv'
BY DEF CompleteInv, TreeIsComplete, IndexIsComplete, Complete, Indexed

(* SaveRoute respects the unique index; a row that goes breaks nothing. *)
LEMMA RowsStayUnique ==
    ASSUME RegistryIInv, UniqueRows,
           \/ \E rt \in Route : SaveRoute(rt)
           \/ \A i \in Ids : table'[i] \in {table[i], None}
    PROVE  UniqueRows'
<1>1. ASSUME NEW rt \in Route, SaveRoute(rt) PROVE UniqueRows'
    <2>1. rt.id \in Ids /\ table \in Maps /\ table' = [table EXCEPT ![rt.id] = rt]
        BY <1>1, InvFacts DEF SaveRoute, Route
    <2>2. table'[rt.id] = rt /\ \A i \in Ids \ {rt.id} : table'[i] = table[i]
        BY <2>1 DEF Maps
    <2>3. rt.sub # None =>
            \A i \in Ids \ {rt.id} : ~(table[i] # None /\ table[i].sub = rt.sub)
        BY <1>1 DEF SaveRoute, BreaksUnique
    <2> QED BY <2>2, <2>3 DEF UniqueRows
<1>2. CASE \A i \in Ids : table'[i] \in {table[i], None}
    BY <1>2 DEF UniqueRows
<1> QED BY <1>1, <1>2

(* UpsertRoute, and UpsertRouteWithValidation that succeeds. *)
LEMMA UpsertIsComplete ==
    ASSUME RegistryIInv, CompleteInv, NEW k \in Callers, NEW offer \in Offers,
           UpsertRoute(k, offer) \/ ValidatedSaved(k, offer)
    PROVE  CompleteInv'
<1> DEFINE rt == Normalize(offer)
<1>1. rt \in Route /\ rt.id \in Ids
    BY NormalizeKeepsId, RegistryConstants DEF Route
<1>2. UniqueRows'
    <2>1. CASE UpsertRoute(k, offer)
        BY <2>1, RowsStayUnique DEF CompleteInv, UpsertRoute, tables
    <2>2. CASE ValidatedSaved(k, offer)
        BY <1>1, <2>2, RowsStayUnique DEF CompleteInv, ValidatedSaved
    <2> QED BY <2>1, <2>2
<1> HIDE DEF rt
<1>u. /\ ~Taken(rt) /\ routes' = [routes EXCEPT ![rt.id] = rt] /\ tree' = TreeInsert(tree, rt)
      /\ subIndex' = SubIndexWith(rt, routes[rt.id])
      /\ displaced' = Displaced(rt.id, {rt}) /\ unindexed' = Unindexed(rt.id, {})
    BY DEF UpsertRoute, ValidatedSaved, rt
<1>3. /\ tree \in Trees /\ routes \in Maps /\ Keyed(routes)
      /\ subIndex \in [Subs -> Ids \cup {None}] /\ routes[rt.id] \in Route \cup {None}
      /\ Complete(tree, routes, displaced) /\ Indexed(subIndex, routes, unindexed)
    BY <1>1, InvFacts, CompleteFacts DEF RegistryIInv, TypeOK, IdsMatch
<1>4. Complete(tree', routes', displaced')
    <2>1. \A i \in Ids : i \in displaced \/ (tree[rt.path] # None /\ tree[rt.path].id = i)
                         => i \in displaced' \/ i = rt.id
        BY <1>1, <1>u, RegistryConstants DEF Displaced
    <2> QED BY <1>1, <1>3, <1>u, <2>1, InsertIsComplete
<1>5. Indexed(subIndex', routes', unindexed')
    <2>1. unindexed \ {rt.id} = unindexed'
        BY <1>u DEF Unindexed
    <2> DEFINE before == routes[rt.id]
    <2>2. before \in Route \cup {None}
        BY <1>3
    <2> HIDE DEF before
    <2>3. Indexed(SubIndexWith(rt, before), [routes EXCEPT ![rt.id] = rt], unindexed \ {rt.id})
        BY ONLY <1>1, <1>3, <1>u, <2>2, WithIsIndexed
    <2> QED BY <1>u, <2>1, <2>3 DEF before
<1> QED BY <1>2, <1>4, <1>5, CompleteNext

(* A refused call displaces what its route, and what the restored one, met.  *)
LEMMA RefusedIsComplete ==
    ASSUME RegistryIInv, CompleteInv, NEW k \in Callers, NEW offer \in Offers,
           UpsertRefused(k, offer)
    PROVE  CompleteInv'
<1> DEFINE rt == Normalize(offer)
           before == routes[rt.id]
           inserted == TreeInsert(tree, rt)
           m == [routes EXCEPT ![rt.id] = rt]
           lost == Displaced(rt.id, {rt})
<1>1. rt \in Route /\ rt.id \in Ids /\ rt # None
    BY NormalizeKeepsId, RegistryConstants DEF Route
<1>u. /\ tree' = TreeRestored(inserted, rt.id, before)
      /\ displaced' = Displaced(rt.id, {rt, before})
      /\ UNCHANGED <<routes, subIndex, unindexed, table>>
    BY DEF UpsertRefused, tables
<1>2. /\ before \in Route \cup {None} /\ (before # None => before.id = rt.id)
      /\ m \in Maps /\ Keyed(m) /\ m[rt.id] = rt /\ [m EXCEPT ![rt.id] = before] = routes
    BY <1>1, InvFacts DEF RegistryIInv, IdsMatch, Keyed, Maps
<1>3. /\ tree \in Trees /\ routes \in Maps /\ Keyed(routes)
      /\ Complete(tree, routes, displaced)
    BY InvFacts, CompleteFacts DEF RegistryIInv, IdsMatch
<1>4. inserted \in Trees
    BY <1>1, <1>3, InvFacts, InsertIsCurrent
<1>5. Complete(inserted, m, lost)
    <2>1. \A i \in Ids : i \in displaced \/ (tree[rt.path] # None /\ tree[rt.path].id = i)
                         => i \in lost \/ i = rt.id
        BY <1>1 DEF Displaced
    <2> HIDE DEF rt, lost, before
    <2> QED BY <1>1, <1>3, <2>1, InsertIsComplete
<1>6. lost \subseteq displaced'
    BY <1>u DEF Displaced
<1>7. Complete(tree', routes, displaced')
    <2>1. CASE before = None
        <3>1. tree' = TreeDelete(inserted, rt.id)
            BY <1>u, <2>1 DEF TreeRestored
        <3> HIDE DEF rt, lost, before, m, inserted
        <3>2. [m EXCEPT ![rt.id] = None] = routes
            BY <1>2, <2>1
        <3>3. Complete(TreeDelete(inserted, rt.id), [m EXCEPT ![rt.id] = None], displaced')
            BY <1>1, <1>2, <1>4, <1>5, <1>6, DeleteIsComplete
        <3> QED BY <3>1, <3>2, <3>3
    <2>2. CASE before # None
        <3>1. tree' = TreeInsert(inserted, before) /\ before \in Route /\ before.path \in Paths
            BY <1>u, <1>2, <2>2 DEF TreeRestored, Route
        <3>2. inserted[before.path] = rt \/ inserted[before.path] = None
              \/ inserted[before.path] = tree[before.path]
            BY <1>1, <3>1 DEF TreeInsert, TreeDelete
        <3>3. \A i \in Ids : tree[before.path] # None /\ tree[before.path].id = i
                             => i \in displaced' \/ i = rt.id
            BY <1>u, <2>2 DEF Displaced
        <3> HIDE DEF rt, lost, before, m, inserted
        <3>4. \A i \in Ids :
                 i \in lost \/ (inserted[before.path] # None /\ inserted[before.path].id = i)
                 => i \in displaced' \/ i = before.id
            BY <1>2, <1>6, <2>2, <3>2, <3>3
        <3>5. Complete(TreeInsert(inserted, before), [m EXCEPT ![before.id] = before], displaced')
            BY <1>2, <1>4, <1>5, <3>1, <3>4, InsertIsComplete
        <3> QED BY <1>2, <2>2, <3>1, <3>5
    <2> QED BY <2>1, <2>2
<1>8. UniqueRows'
    BY <1>u DEF CompleteInv, UniqueRows
<1>9. Indexed(subIndex', routes', unindexed')
    BY <1>u, CompleteFacts
<1> HIDE DEF rt, lost, before, m, inserted
<1> QED BY <1>u, <1>7, <1>8, <1>9, CompleteNext

(* The tree of a rollback that deletes the route and restores the old one. *)
LEMMA RolledBackIsComplete ==
    ASSUME RegistryIInv, CompleteInv, NEW id \in Ids, NEW before \in Route \cup {None},
           before # None => before.id = id
    PROVE  Complete(TreeRestored(TreeDelete(tree, id), id, before),
                    [routes EXCEPT ![id] = before], Displaced(id, {before}))
<1> DEFINE d == TreeDelete(tree, id)
           m == [routes EXCEPT ![id] = None]
           lost == displaced \ {id}
           left == Displaced(id, {before})
<1>1. /\ tree \in Trees /\ routes \in Maps /\ Keyed(routes)
      /\ Complete(tree, routes, displaced)
    BY InvFacts, CompleteFacts DEF RegistryIInv, IdsMatch
<1>2. d \in Trees /\ m \in Maps /\ Keyed(m) /\ [m EXCEPT ![id] = before] = [routes EXCEPT ![id] = before]
    BY <1>1 DEF TreeDelete, Trees, Maps, Keyed
<1>3. Complete(d, m, lost)
    <2>1. displaced \subseteq lost \cup {id}
        OBVIOUS
    <2> HIDE DEF lost
    <2> QED BY <1>1, <2>1, DeleteIsComplete
<1>4. lost \subseteq left
    BY DEF Displaced
<1>5. CASE before = None
    <2>1. lost \subseteq left \cup {id}
        BY <1>4
    <2> HIDE DEF lost, left, d, m
    <2>2. TreeRestored(d, id, before) = TreeDelete(d, id)
        BY <1>5 DEF TreeRestored
    <2>3. Complete(TreeDelete(d, id), [m EXCEPT ![id] = None], left)
        BY <1>2, <1>3, <2>1, DeleteIsComplete
    <2> QED BY <1>2, <1>5, <2>2, <2>3 DEF d, left
<1>6. CASE before # None
    <2>1. before \in Route /\ before.id = id /\ before.path \in Paths
        BY <1>6 DEF Route
    <2>2. d[before.path] # None => d[before.path] = tree[before.path]
        BY <2>1 DEF TreeDelete
    <2>3. \A i \in Ids : tree[before.path] # None /\ tree[before.path].id = i => i \in left \/ i = id
        BY <1>6 DEF Displaced
    <2> HIDE DEF lost, left, d, m
    <2>4. \A i \in Ids : i \in lost \/ (d[before.path] # None /\ d[before.path].id = i)
                         => i \in left \/ i = before.id
        BY <1>4, <2>1, <2>2, <2>3
    <2>5. Complete(TreeInsert(d, before), [m EXCEPT ![before.id] = before], left)
        BY <1>2, <1>3, <2>1, <2>4, InsertIsComplete
    <2>6. TreeRestored(d, id, before) = TreeInsert(d, before)
        BY <1>6 DEF TreeRestored
    <2> QED BY <1>2, <2>1, <2>5, <2>6 DEF d, left
<1> QED BY <1>5, <1>6

(* UpsertRoute's rollback. *)
LEMMA RollbackIsComplete ==
    ASSUME RegistryIInv, CompleteInv, NEW k \in Callers, UpsertRollback(k)
    PROVE  CompleteInv'
<1> DEFINE rt == new[k]
           before == old[k]
<1>1. /\ rt \in Route /\ rt.id \in Ids
      /\ before \in Route \cup {None} /\ (before # None => before.id = rt.id)
    BY DEF RegistryIInv, TypeOK, IdsMatch, UpsertRollback, Route
<1>u. /\ routes' = [routes EXCEPT ![rt.id] = before]
      /\ tree' = TreeRestored(TreeDelete(tree, rt.id), rt.id, before)
      /\ subIndex' = SubIndexWithout(subIndex, rt, before)
      /\ displaced' = Displaced(rt.id, {before})
      /\ unindexed' = Unindexed(rt.id, GivenBack(rt, before))
      /\ UNCHANGED table
    BY DEF UpsertRollback, tables
<1> HIDE DEF rt, before
<1>2. Complete(tree', routes', displaced')
    BY <1>1, <1>u, RolledBackIsComplete
<1>3. Indexed(subIndex', routes', unindexed')
    <2>1. \A i \in Ids :
             i \in unindexed \/ (\E s \in GivenBack(rt, before) \ {None} : subIndex[s] = i)
             => i \in unindexed' \/ i = rt.id
        BY <1>u DEF Unindexed
    <2>2. subIndex \in [Subs -> Ids \cup {None}] /\ routes \in Maps
          /\ Indexed(subIndex, routes, unindexed)
        BY InvFacts, CompleteFacts DEF RegistryIInv, TypeOK
    <2> QED BY <1>1, <1>u, <2>1, <2>2, WithoutIsIndexed
<1>4. UniqueRows'
    BY <1>u DEF CompleteInv, UniqueRows
<1> QED BY <1>2, <1>3, <1>4, CompleteNext

(* The rollback under the lock. *)
LEMMA ValidatedFailsIsComplete ==
    ASSUME RegistryIInv, CompleteInv, NEW k \in Callers, NEW offer \in Offers,
           ValidatedFails(k, offer)
    PROVE  CompleteInv'
<1> DEFINE rt == Normalize(offer)
           before == routes[rt.id]
           m == [routes EXCEPT ![rt.id] = rt]
           index == SubIndexWith(rt, before)
           lost == unindexed \ {rt.id}
<1>1. rt \in Route /\ rt.id \in Ids
    BY NormalizeKeepsId, RegistryConstants DEF Route
<1>u. /\ ~Taken(rt)
      /\ tree' = TreeRestored(TreeDelete(tree, rt.id), rt.id, before)
      /\ subIndex' = SubIndexWithout(index, rt, before)
      /\ displaced' = Displaced(rt.id, {before})
      /\ unindexed' = Unindexed(rt.id, GivenBack(rt, before))
      /\ UNCHANGED <<routes, table>>
    BY DEF ValidatedFails, tables
<1>2. /\ before \in Route \cup {None} /\ (before # None => before.id = rt.id)
      /\ m \in Maps /\ [m EXCEPT ![rt.id] = before] = routes
      /\ [routes EXCEPT ![rt.id] = before] = routes /\ routes \in Maps
    BY <1>1, InvFacts DEF RegistryIInv, IdsMatch, Keyed, Maps
<1>3. /\ subIndex \in [Subs -> Ids \cup {None}] /\ index \in [Subs -> Ids \cup {None}]
      /\ Indexed(subIndex, routes, unindexed)
    BY <1>1, <1>2, SubIndexTyped, CompleteFacts DEF RegistryIInv, TypeOK
<1> HIDE DEF rt, before
<1>4. Complete(tree', routes', displaced')
    BY <1>1, <1>2, <1>u, RolledBackIsComplete
<1>5. /\ Indexed(index, m, lost)
      /\ \A s \in Subs : index[s] \in {subIndex[s], rt.id, None}
    BY <1>1, <1>2, <1>3, <1>u, WithIsIndexed
<1>6. GivenBack(rt, before) \ {None} \subseteq Subs
    BY <1>1, <1>2 DEF GivenBack, Owns, Route
<1> HIDE DEF m, index
<1>7. \A i \in Ids : i \in lost \/ (\E s \in GivenBack(rt, before) \ {None} : index[s] = i)
                     => i \in unindexed' \/ i = rt.id
    <2>1. ASSUME NEW i \in Ids, NEW s \in GivenBack(rt, before) \ {None}, index[s] = i
          PROVE  i = rt.id \/ subIndex[s] = i
        BY <1>5, <1>6, <2>1, RegistryConstants
    <2> QED BY <1>u, <2>1 DEF Unindexed
<1> HIDE DEF lost
<1>8. Indexed(subIndex', routes', unindexed')
    BY <1>1, <1>2, <1>3, <1>5, <1>7, <1>u, WithoutIsIndexed
<1>9. UniqueRows'
    BY <1>u DEF CompleteInv, UniqueRows
<1> QED BY <1>4, <1>8, <1>9, CompleteNext

(* A route that is removed takes nothing else with it. *)
LEMMA RemoveIsComplete ==
    ASSUME RegistryIInv, CompleteInv, NEW k \in Callers, NEW id \in Ids, RemoveRoute(k, id)
    PROVE  CompleteInv'
<1>u. /\ routes' = [routes EXCEPT ![id] = None] /\ tree' = TreeDelete(tree, id)
      /\ subIndex' = [s \in Subs |-> IF routes[id] # None /\ routes[id].sub = s /\ subIndex[s] = id
                                     THEN None ELSE subIndex[s]]
      /\ displaced' = Displaced(id, {}) /\ unindexed' = Unindexed(id, {}) /\ UNCHANGED table
    BY DEF RemoveRoute, tables
<1>1. /\ tree \in Trees /\ routes \in Maps /\ Keyed(routes)
      /\ Complete(tree, routes, displaced) /\ Indexed(subIndex, routes, unindexed)
    BY InvFacts, CompleteFacts DEF RegistryIInv, IdsMatch
<1>2. displaced \subseteq displaced' \cup {id} /\ unindexed \subseteq unindexed' \cup {id}
    BY <1>u DEF Displaced, Unindexed
<1>3. Complete(tree', routes', displaced')
    BY <1>1, <1>2, <1>u, DeleteIsComplete
<1>4. ASSUME NEW i \in Ids \ unindexed', Owns(routes'[i]) PROVE subIndex'[routes'[i].sub] = i
    <2>1. i # id /\ routes'[i] = routes[i] /\ i \in Ids \ unindexed
        BY <1>1, <1>2, <1>4, <1>u DEF Maps, Owns
    <2>2. routes[i].sub \in Subs
        BY <1>1, <1>4, <2>1 DEF Owns, Maps, Route
    <2>3. subIndex[routes[i].sub] = i
        BY <1>1, <1>4, <2>1 DEF Indexed
    <2> QED BY <1>u, <2>1, <2>2, <2>3
<1>5. UniqueRows'
    BY <1>u DEF CompleteInv, UniqueRows
<1> QED BY <1>3, <1>4, <1>5, CompleteNext DEF Indexed

(* A reload swaps the map and the tree. *)
LEMMA SwapIsComplete ==
    ASSUME RegistryIInv, CompleteInv, SwapRoutes
    PROVE  CompleteInv'
<1>1. reload.map \in Maps /\ Indexed(subIndex, routes, unindexed)
    BY InvFacts, CompleteFacts
<1>u. /\ routes' = reload.map /\ tree' \in TreesOf(reload.map)
      /\ displaced' = Colliding(reload.map)
      /\ unindexed' = unindexed \cup {i \in Ids : reload.map[i] # routes[i]}
      /\ UNCHANGED <<subIndex, table>>
    BY DEF SwapRoutes, tables
<1>2. Complete(tree', routes', displaced')
    BY <1>1, <1>u, BuiltIsComplete
<1>3. Indexed(subIndex', routes', unindexed')
    BY <1>1, <1>u DEF Indexed
<1>4. UniqueRows'
    BY <1>u DEF CompleteInv, UniqueRows
<1> QED BY <1>2, <1>3, <1>4, CompleteNext

(* A restart builds the tree and the index from the rows. *)
LEMMA RestartIsComplete ==
    ASSUME RegistryIInv, CompleteInv, Restart
    PROVE  CompleteInv'
<1>u. /\ routes' = table /\ tree' \in TreesOf(table) /\ table' = table
      /\ displaced' = Colliding(table) /\ unindexed' = {}
      /\ \A s \in Subs :
            LET owners == {i \in Ids : Owns(table[i]) /\ table[i].sub = s}
            IN  IF owners = {} THEN subIndex'[s] = None ELSE subIndex'[s] \in owners
    BY DEF Restart, LoadFromStorage, tables
<1>1. table \in Maps
    BY InvFacts
<1>2. Complete(tree', routes', displaced')
    BY <1>1, <1>u, BuiltIsComplete
<1>3. ASSUME NEW i \in Ids, Owns(table[i]) PROVE subIndex'[table[i].sub] = i
    <2>1. table[i].sub \in Subs /\ table[i] # None /\ table[i].sub # None
        BY <1>1, <1>3 DEF Owns, Maps, Route
    <2>2. i \in {j \in Ids : Owns(table[j]) /\ table[j].sub = table[i].sub}
        BY <1>3
    <2>3. subIndex'[table[i].sub] \in {j \in Ids : Owns(table[j]) /\ table[j].sub = table[i].sub}
        BY <1>u, <2>1, <2>2
    <2> QED BY <2>1, <2>3 DEF CompleteInv, UniqueRows, Owns
<1>4. Indexed(subIndex', routes', unindexed')
    BY <1>3, <1>u DEF Indexed
<1>5. UniqueRows'
    BY <1>u DEF CompleteInv, UniqueRows
<1> QED BY <1>2, <1>4, <1>5, CompleteNext

(* What leaves the memory alone and writes rows within the unique index. *)
LEMMA OthersAreComplete ==
    ASSUME RegistryIInv, CompleteInv, UNCHANGED memory,
           \/ \E rt \in Route : SaveRoute(rt)
           \/ \A i \in Ids : table'[i] \in {table[i], None}
    PROVE  CompleteInv'
<1>1. UniqueRows'
    BY RowsStayUnique DEF CompleteInv
<1>2. Complete(tree', routes', displaced') /\ Indexed(subIndex', routes', unindexed')
    BY CompleteFacts DEF memory, losses
<1> QED BY <1>1, <1>2, CompleteNext

(* It holds from the start, and every step keeps it. *)
LEMMA CompleteInvInductive ==
    /\ Init => CompleteInv
    /\ RegistryIInv /\ CompleteInv /\ [Next]_vars => CompleteInv'
<1>1. ASSUME Init PROVE CompleteInv
    <2>1. \A i \in Ids : routes[i] = None /\ table[i] = None
        BY <1>1 DEF Init
    <2> QED BY <2>1 DEF CompleteInv, TreeIsComplete, IndexIsComplete, UniqueRows, Owns
<1> SUFFICES ASSUME RegistryIInv, CompleteInv, [Next]_vars PROVE CompleteInv'
    BY <1>1
<1>r. table \in Maps /\ reload.map \in Maps
    BY InvFacts
<1>2. CASE UNCHANGED vars
    BY <1>2, OthersAreComplete DEF vars, tables
<1>3. ASSUME NEW k \in Callers, Upsert(k) PROVE CompleteInv'
    <2>1. ASSUME UpsertSaved(k) PROVE CompleteInv'
        <3>1. SaveRoute(new[k]) /\ new[k] \in Route /\ UNCHANGED memory
            BY <2>1 DEF UpsertSaved, RegistryIInv, TypeOK
        <3> QED BY <3>1, OthersAreComplete
    <2>2. ASSUME UpsertSaveFails(k) PROVE CompleteInv'
        BY <2>2, OthersAreComplete DEF UpsertSaveFails, tables
    <2> QED BY <1>3, <2>1, <2>2, UpsertIsComplete, RefusedIsComplete, ValidatedFailsIsComplete,
               RollbackIsComplete DEF Upsert, ValidatedRefused
<1>4. ASSUME NEW k \in Callers, Remove(k) PROVE CompleteInv'
    <2>1. CASE \E id \in Ids : RemoveRoute(k, id)
        BY <2>1, RemoveIsComplete
    <2>2. CASE RemoveRow(k)
        BY <1>r, <2>2, OthersAreComplete DEF RemoveRow, Maps
    <2>3. CASE RemoveRowFails(k) \/ RemoveApp(k)
        BY <2>3, OthersAreComplete DEF RemoveRowFails, RemoveApp, tables
    <2>4. CASE DeleteApp(k)
        BY <1>r, <2>4, OthersAreComplete DEF DeleteApp, DeleteAppRow
    <2> QED BY <1>4, <2>1, <2>2, <2>3, <2>4 DEF Remove
<1>5. ASSUME NEW k \in Callers, App(k) PROVE CompleteInv'
    BY <1>5, OthersAreComplete DEF App, UpsertApp, SaveApp, AppStatementFails, DropApp, tables
<1>6. CASE Reload
    <2>1. ASSUME NEW i \in Ids, ReloadDeletes(i) PROVE CompleteInv'
        BY <1>r, <2>1, OthersAreComplete DEF ReloadDeletes, Maps
    <2>2. ASSUME NEW i \in Ids, ReloadSaves(i) PROVE CompleteInv'
        <3>1. reload.map[i] \in Route /\ UNCHANGED memory
            BY <1>r, <2>2 DEF ReloadSaves, RegistryIInv, IdsMatch, Maps
        <3>2. SaveRoute(reload.map[i]) \/ table' = table
            BY <2>2 DEF ReloadSaves
        <3> QED BY <3>1, <3>2, OthersAreComplete
    <2>3. ASSUME NEW a \in Apps, ReloadDeletesApp(a) PROVE CompleteInv'
        BY <1>r, <2>3, OthersAreComplete DEF ReloadDeletesApp, DeleteAppRow
    <2>4. CASE \/ \E config \in Configs : ReplaceRoutes(config)
               \/ \E a \in Apps : ReloadSavesApp(a)
               \/ SwapApps \/ ReloadStatementFails
        BY <2>4, OthersAreComplete
        DEF ReplaceRoutes, ReloadSavesApp, SwapApps, ReloadStatementFails, tables
    <2> QED BY <1>6, <2>1, <2>2, <2>3, <2>4, SwapIsComplete DEF Reload
<1>7. CASE Restart
    BY <1>7, RestartIsComplete
<1> QED BY <1>2, <1>3, <1>4, <1>5, <1>6, <1>7 DEF Next

(* Map, tree and index never disagree except about a route that another one  *)
(* displaced or whose subdomain a rollback or a reload gave up, and calls    *)
(* that did not overlap leave the tables in agreement with them, refused and *)
(* rolled-back ones included: RegistryAgrees, for any routes, paths,         *)
(* subdomains, apps and number of calls.                                     *)
THEOREM RegistryAgreesHolds == Spec => []RegistryAgrees
<1>1. RegistryIInv /\ AgreeInv /\ CompleteInv => RegistryAgrees
    BY DEF AgreeInv, CompleteInv, Resolves, ResolvedBy, RegistryAgrees, SubdomainResolves
<1> QED BY <1>1, RegistryIInvHolds, AgreeInvInductive, CompleteInvInductive, PTL DEF Spec
=============================================================================
