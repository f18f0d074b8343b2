------------------------------ MODULE Discovery ------------------------------
(***************************************************************************)
(* Proposals for new apps (internal/discovery/discovery.go, the handlers   *)
(* in cmd/nekzus/discovery_handlers.go): workers submit what they see to a *)
(* bounded channel, one goroutine sorts out what is new, and users approve *)
(* or dismiss it while the next scan is on its way.                        *)
(*                                                                         *)
(* A proposal lives twice, in the maps of the manager and as a row, and    *)
(* neither is changed together with the other. All proposals here suggest  *)
(* the same app, as the ports of one service do, so they share a route. A  *)
(* sighting is what a scan saw: the container (0 for a service of          *)
(* Kubernetes) and its address. DiscoveryWorkers.tla says what is seen.    *)
(***************************************************************************)
EXTENDS Naturals, Sequences

CONSTANTS ProposalIds,        \* identifiers of proposals
          ProposalChSize,     \* capacity of proposalCh
          MaxScanFailures,    \* scan failures that end the Docker worker
          MaxMoves,           \* bound: containers that move or are recreated
          MaxDiscoveryFaults  \* bound: failing statements, reloads and restarts

ASSUME DiscoveryAssumption == /\ ProposalChSize \in Nat \ {0}
                              /\ MaxScanFailures \in Nat \ {0}
                              /\ MaxMoves \in Nat /\ MaxDiscoveryFaults \in Nat

VARIABLES world,           \* proposal -> container and address as they are
          recent,          \* proposals the debouncer holds back
          scanner,         \* consecutive scan failures; MaxScanFailures: removed
          proposalCh,      \* sightings submitted
          channelOpen,     \* ~proposalChClosed
          processor,       \* the goroutine of processProposals
          proposals,       \* the map of the manager: active proposals
          dismissed,       \* dismissedProposals
          proposalRow,     \* proposal -> sighting its row holds
          appRoute,        \* container and address of the app's route
          decision,        \* approval or dismissal under way
          rediscovering,   \* a rediscovery is between memory and rows
          leftover,        \* what a manager that was stopped still processes
          crossed,         \* proposals two of these met at (history)
          discoveryFaults  \* failing statements, reloads and restarts so far

discoveryVars == <<world, recent, scanner, proposalCh, channelOpen, processor,
                   proposals, dismissed, proposalRow, appRoute, decision,
                   rediscovering, leftover, crossed, discoveryFaults>>

NoSight == [cid |-> 0, addr |-> 0]
Sight == [cid : 0..MaxMoves + 1, addr : 0..MaxMoves + 1]
NoJob == [pc |-> "idle", id |-> "none", sight |-> NoSight]
\* What is left of a stopped manager: its channel, its processor and its maps.
NoLeftover == [ch |-> <<>>, job |-> NoJob, proposals |-> {}, dismissed |-> {}]

DiscoveryInit ==
  /\ world \in [ProposalIds -> {[cid |-> c, addr |-> 1] : c \in {0, 1}}]
  /\ recent = {} /\ scanner = 0
  /\ proposalCh = <<>> /\ channelOpen = TRUE
  /\ processor = NoJob
  /\ proposals = {} /\ dismissed = {}
  /\ proposalRow = [p \in ProposalIds |-> NoSight]
  /\ appRoute = NoSight
  /\ decision = NoJob /\ rediscovering = FALSE
  /\ leftover = NoLeftover /\ crossed = {} /\ discoveryFaults = 0

\* A statement, or a fault within the bound.
Works(ok) == /\ ~ok => discoveryFaults < MaxDiscoveryFaults
             /\ discoveryFaults' = IF ok THEN discoveryFaults ELSE discoveryFaults + 1

(***************************************************************************)
(* The workers.                                                            *)
(***************************************************************************)
\* A container comes back at another address, or as another container.
ContainerMoves(p, recreated) ==
  /\ world[p].cid > 0 /\ world[p].addr <= MaxMoves
  /\ world' = [world EXCEPT ![p].addr = @ + 1,
                            ![p].cid = IF recreated THEN @ + 1 ELSE @]
  /\ UNCHANGED <<recent, scanner, proposalCh, channelOpen, processor, proposals,
                 dismissed, proposalRow, appRoute, decision, rediscovering, leftover,
                 crossed, discoveryFaults>>

\* A scan reaches the container and the debouncer lets it pass: it is
\* submitted, and dropped when the channel is full.
SubmitProposal(p) ==
  /\ scanner < MaxScanFailures /\ channelOpen
  /\ p \notin recent
  /\ recent' = recent \cup {p} /\ scanner' = 0
  /\ proposalCh' = IF Len(proposalCh) < ProposalChSize
                   THEN Append(proposalCh, [id |-> p, sight |-> world[p]])
                   ELSE proposalCh
  /\ UNCHANGED <<world, channelOpen, processor, proposals, dismissed, proposalRow,
                 appRoute, decision, rediscovering, leftover, crossed, discoveryFaults>>

DebounceEnds(p) ==
  /\ p \in recent
  /\ recent' = recent \ {p}
  /\ UNCHANGED <<world, scanner, proposalCh, channelOpen, processor, proposals,
                 dismissed, proposalRow, appRoute, decision, rediscovering, leftover,
                 crossed, discoveryFaults>>

\* The Docker worker gives up after the first scan, or after a row of them,
\* and is removed; nothing starts it again.
ScanFails(first) ==
  /\ scanner < MaxScanFailures /\ channelOpen
  /\ scanner' = IF first THEN MaxScanFailures ELSE scanner + 1
  /\ UNCHANGED <<world, recent, proposalCh, channelOpen, processor, proposals,
                 dismissed, proposalRow, appRoute, decision, rediscovering, leftover,
                 crossed, discoveryFaults>>

(***************************************************************************)
(* processProposals.                                                       *)
(***************************************************************************)
HasRouteForApp == appRoute # NoSight

\* What becomes of a proposal: dismissed, routed, known or new.
Sorted(p, active, refused) ==
  CASE p \in refused -> "idle"
    [] p \notin refused /\ HasRouteForApp -> "reconcile"
    [] p \notin refused /\ ~HasRouteForApp /\ p \in active -> "idle"
    [] OTHER -> "add"

\* Under the lock.
ProcessProposal ==
  LET p == Head(proposalCh).id
      next == Sorted(p, proposals, dismissed) IN
  /\ processor = NoJob /\ proposalCh # <<>>
  /\ proposalCh' = Tail(proposalCh)
  /\ processor' = IF next = "idle" THEN NoJob
                  ELSE [pc |-> next, id |-> p, sight |-> Head(proposalCh).sight]
  /\ proposals' = IF next = "add" THEN proposals \cup {p} ELSE proposals
  /\ crossed' = IF next = "add" /\ rediscovering THEN crossed \cup {p} ELSE crossed
  /\ UNCHANGED <<world, recent, scanner, channelOpen, dismissed, proposalRow, appRoute,
                 decision, rediscovering, leftover, discoveryFaults>>

\* SaveProposal is an upsert; a failure is logged. The event that follows is
\* queued for every device (NotificationQueue.tla).
AddProposal(ok) ==
  LET p == processor.id IN
  /\ processor.pc = "add"
  /\ Works(ok)
  /\ proposalRow' = IF ok THEN [proposalRow EXCEPT ![p] = processor.sight] ELSE proposalRow
  /\ crossed' = IF ok THEN crossed ELSE crossed \cup {p}
  /\ processor' = NoJob
  /\ UNCHANGED <<world, recent, scanner, proposalCh, channelOpen, proposals, dismissed,
                 appRoute, decision, rediscovering, leftover>>

\* The route is of the container seen, and at another address.
HasMoved(sight) == /\ sight.cid > 0 /\ appRoute.cid = sight.cid
                   /\ appRoute.addr # sight.addr

\* ReconcileRouteTarget reads the route ...
ReconcileReads ==
  /\ processor.pc = "reconcile"
  /\ processor' = IF HasMoved(processor.sight) THEN [processor EXCEPT !.pc = "upsert"]
                  ELSE NoJob
  /\ UNCHANGED <<world, recent, scanner, proposalCh, channelOpen, proposals, dismissed,
                 proposalRow, appRoute, decision, rediscovering, leftover, crossed,
                 discoveryFaults>>

\* ... and saves what it read with the new host.
ReconcileRouteTarget(ok) ==
  /\ processor.pc = "upsert"
  /\ Works(ok)
  /\ appRoute' = IF ok THEN processor.sight ELSE appRoute
  /\ processor' = NoJob
  /\ UNCHANGED <<world, recent, scanner, proposalCh, channelOpen, proposals, dismissed,
                 proposalRow, decision, rediscovering, leftover, crossed>>

(***************************************************************************)
(* The handlers: each reads the row, and writes one thing after the other. *)
(***************************************************************************)
GetProposal(p) == proposalRow[p]
DeleteProposal(p) == [proposalRow EXCEPT ![p] = NoSight]

\* Mutant: a dismissed proposal stays among the active ones.
DismissKeepsActive(p) == /\ dismissed' = dismissed \cup {p}
                         /\ UNCHANGED proposals

DismissProposal(p) == /\ proposals' = proposals \ {p}
                      /\ dismissed' = dismissed \cup {p}

DecisionBegins(p, kind) ==
  /\ decision = NoJob
  /\ GetProposal(p) # NoSight
  /\ decision' = [pc |-> kind, id |-> p, sight |-> GetProposal(p)]
  /\ UNCHANGED <<world, recent, scanner, proposalCh, channelOpen, processor, proposals,
                 dismissed, proposalRow, appRoute, rediscovering, leftover, crossed,
                 discoveryFaults>>

\* UpsertApp and UpsertRoute; a failure ends the request, nothing removed.
ApproveRegisters(ok) ==
  /\ decision.pc = "approve"
  /\ Works(ok)
  /\ appRoute' = IF ok THEN decision.sight ELSE appRoute
  /\ decision' = IF ok THEN [decision EXCEPT !.pc = "delete"] ELSE NoJob
  /\ UNCHANGED <<world, recent, scanner, proposalCh, channelOpen, processor, proposals,
                 dismissed, proposalRow, rediscovering, leftover, crossed>>

DecisionDeletes(ok) ==
  /\ decision.pc \in {"delete", "dismiss"}
  /\ Works(ok)
  /\ proposalRow' = IF ok THEN DeleteProposal(decision.id) ELSE proposalRow
  /\ crossed' = IF ok THEN crossed ELSE crossed \cup {decision.id}
  /\ decision' = [decision EXCEPT !.pc = "forget"]
  /\ UNCHANGED <<world, recent, scanner, proposalCh, channelOpen, processor, proposals,
                 dismissed, appRoute, rediscovering, leftover>>

\* A sighting of the same proposal may be on its way to a new row.
DecisionDismisses ==
  LET p == decision.id IN
  /\ decision.pc = "forget"
  /\ DismissProposal(p)
  /\ crossed' = IF proposalRow[p] # NoSight \/ (processor.pc = "add" /\ processor.id = p)
                THEN crossed \cup {p} ELSE crossed
  /\ decision' = NoJob
  /\ UNCHANGED <<world, recent, scanner, proposalCh, channelOpen, processor,
                 proposalRow, appRoute, rediscovering, leftover, discoveryFaults>>

\* handleRediscover: the maps, then the rows. The debouncer is not asked.
Rediscover ==
  /\ ~rediscovering
  /\ proposals' = {} /\ dismissed' = {}
  /\ rediscovering' = TRUE
  /\ UNCHANGED <<world, recent, scanner, proposalCh, channelOpen, processor,
                 proposalRow, appRoute, decision, leftover, crossed, discoveryFaults>>

ClearProposals(ok) ==
  /\ rediscovering
  /\ Works(ok)
  /\ proposalRow' = IF ok THEN [p \in ProposalIds |-> NoSight] ELSE proposalRow
  /\ crossed' = IF ok THEN crossed \cap (proposals \cup {processor.id}) ELSE crossed
  /\ rediscovering' = FALSE
  /\ UNCHANGED <<world, recent, scanner, proposalCh, channelOpen, processor, proposals,
                 dismissed, appRoute, decision, leftover>>

\* RouteRegistry.tla: a user removes the route.
RouteRemoved ==
  /\ appRoute # NoSight
  /\ appRoute' = NoSight
  /\ UNCHANGED <<world, recent, scanner, proposalCh, channelOpen, processor, proposals,
                 dismissed, proposalRow, decision, rediscovering, leftover, crossed,
                 discoveryFaults>>

(***************************************************************************)
(* Reload, restart.                                                        *)
(***************************************************************************)
\* Stop closes the channel; what it holds is still processed.
DiscoveryStop ==
  /\ channelOpen
  /\ channelOpen' = FALSE
  /\ UNCHANGED <<world, recent, scanner, proposalCh, processor, proposals, dismissed,
                 proposalRow, appRoute, decision, rediscovering, leftover, crossed,
                 discoveryFaults>>

\* A manager that knows nothing, with workers of its own.
NewDiscoveryManager ==
  /\ recent' = {} /\ scanner' = 0
  /\ proposalCh' = <<>> /\ channelOpen' = TRUE /\ processor' = NoJob
  /\ proposals' = {} /\ dismissed' = {}
  /\ crossed' = {}

\* The maps matter for the sightings that are left: with the last one the old
\* processor ends.
LeftoverIs(l) ==
  LET ids == {l.ch[i].id : i \in DOMAIN l.ch} IN
  leftover' = [l EXCEPT !.proposals = @ \cap ids, !.dismissed = @ \cap ids]

\* Stop waits for the drained channel, but no longer than five seconds: what the
\* old processor has not done by then it does beside the new manager. (The old
\* workers find their channel closed.) Bound: one such manager at a time.
DiscoveryReload ==
  /\ ~channelOpen /\ leftover = NoLeftover
  /\ Works(FALSE)
  /\ LeftoverIs([ch |-> proposalCh, job |-> processor, proposals |-> proposals,
                 dismissed |-> dismissed])
  /\ NewDiscoveryManager
  /\ UNCHANGED <<world, proposalRow, appRoute, decision, rediscovering>>

LeftoverProcesses ==
  LET p == Head(leftover.ch).id
      next == Sorted(p, leftover.proposals, leftover.dismissed)
      job == [pc |-> next, id |-> p, sight |-> Head(leftover.ch).sight]
  IN
  /\ leftover.job = NoJob /\ leftover.ch # <<>>
  /\ LeftoverIs([leftover EXCEPT !.ch = Tail(@),
                                !.job = IF next = "idle" THEN NoJob ELSE job,
                                !.proposals = IF next = "add" THEN @ \cup {p} ELSE @])
  /\ UNCHANGED <<world, recent, scanner, proposalCh, channelOpen, processor, proposals,
                 dismissed, proposalRow, appRoute, decision, rediscovering, crossed,
                 discoveryFaults>>

\* The row may be one of a proposal that was dismissed since.
LeftoverAdds(ok) ==
  LET p == leftover.job.id IN
  /\ leftover.job.pc = "add"
  /\ Works(ok)
  /\ proposalRow' = IF ok THEN [proposalRow EXCEPT ![p] = leftover.job.sight]
                    ELSE proposalRow
  /\ crossed' = IF ok /\ p \in dismissed THEN crossed \cup {p} ELSE crossed
  /\ LeftoverIs([leftover EXCEPT !.job = NoJob])
  /\ UNCHANGED <<world, recent, scanner, proposalCh, channelOpen, processor, proposals,
                 dismissed, appRoute, decision, rediscovering>>

LeftoverReconciles(ok) ==
  LET job == leftover.job IN
  /\ \/ /\ job.pc = "reconcile"
        /\ LeftoverIs([leftover EXCEPT !.job = IF HasMoved(job.sight)
                                               THEN [job EXCEPT !.pc = "upsert"] ELSE NoJob])
        /\ ok /\ UNCHANGED appRoute
     \/ /\ job.pc = "upsert"
        /\ LeftoverIs([leftover EXCEPT !.job = NoJob])
        /\ appRoute' = IF ok THEN job.sight ELSE appRoute
  /\ Works(ok)
  /\ UNCHANGED <<world, recent, scanner, proposalCh, channelOpen, processor, proposals,
                 dismissed, proposalRow, decision, rediscovering, crossed>>

DiscoveryRestart ==
  /\ Works(FALSE)
  /\ NewDiscoveryManager
  /\ decision' = NoJob /\ rediscovering' = FALSE /\ leftover' = NoLeftover
  /\ UNCHANGED <<world, proposalRow, appRoute>>

DiscoveryNext ==
  \/ \E p \in ProposalIds :
       \/ SubmitProposal(p) \/ DebounceEnds(p)
       \/ \E recreated \in BOOLEAN : ContainerMoves(p, recreated)
       \/ \E kind \in {"approve", "dismiss"} : DecisionBegins(p, kind)
  \/ \E first \in BOOLEAN : ScanFails(first)
  \/ ProcessProposal \/ ReconcileReads \/ DecisionDismisses
  \/ \E ok \in BOOLEAN : \/ AddProposal(ok) \/ ReconcileRouteTarget(ok)
                         \/ ApproveRegisters(ok) \/ DecisionDeletes(ok)
                         \/ ClearProposals(ok)
  \/ Rediscover \/ RouteRemoved
  \/ DiscoveryStop \/ DiscoveryReload \/ DiscoveryRestart
  \/ LeftoverProcesses \/ \E ok \in BOOLEAN : LeftoverAdds(ok) \/ LeftoverReconciles(ok)

DiscoverySpec == DiscoveryInit /\ [][DiscoveryNext]_discoveryVars

(***************************************************************************)
(* Properties.                                                             *)
(***************************************************************************)
DiscoveryTypeOK ==
  /\ world \in [ProposalIds -> Sight]
  /\ recent \subseteq ProposalIds /\ scanner \in 0..MaxScanFailures
  /\ Len(proposalCh) <= ProposalChSize
  /\ proposals \subseteq ProposalIds /\ dismissed \subseteq ProposalIds
  /\ proposalRow \in [ProposalIds -> Sight] /\ appRoute \in Sight
  /\ Len(leftover.ch) <= ProposalChSize
  /\ leftover.proposals \cup leftover.dismissed \cup crossed \subseteq ProposalIds
  /\ discoveryFaults \in 0..MaxDiscoveryFaults

\* The maps and the rows agree on every proposal nobody is working on: an
\* active proposal is listed, so a user can decide on it, and a dismissed one is
\* not. The exceptions are exactly the proposals where a statement failed or
\* two actors met: a sighting that was being added while its older row was
\* decided on, one added while a rediscovery was between maps and rows, and one a
\* stopped manager adds after the proposal was dismissed at the new one.
ActiveIsListed ==
  \A p \in ProposalIds \ crossed :
    p \notin {processor.id, decision.id} =>
      /\ p \in proposals => proposalRow[p] # NoSight
      /\ p \in dismissed => proposalRow[p] = NoSight
==============================================================================
