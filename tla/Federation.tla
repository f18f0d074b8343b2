----------------------------- MODULE Federation -----------------------------
(***************************************************************************)
(* The federated service catalog: CatalogSyncer, ResolveConflict,          *)
(* VectorClock and the membership part of PeerManager of                   *)
(* internal/federation, over hashicorp/memberlist.                         *)
(*                                                                         *)
(* Every peer announces the services its router registers by gossip (a     *)
(* bounded queue memberlist drains, lossy and unordered) and exchanges its *)
(* whole catalog with other peers now and then (anti-entropy).  A record   *)
(* of the catalog is resolved against what arrives by ResolveConflict.     *)
(*                                                                         *)
(* The metadata of an app is abstracted to the number of the local change  *)
(* that produced it, NoApp for the empty App{} a null leaves behind.       *)
(***************************************************************************)
EXTENDS Naturals, Sequences, FiniteSets, FiniteSetsExt

CONSTANTS
    Peers,         \* instances of the federation
    FedServices,      \* app IDs
    Hosts,         \* the peers that may register each app
    QueueSize,     \* capacity of broadcastQueue
    MaxWrites,     \* bound: registrations and removals of apps
    MaxRestarts,   \* bound: restarts of an instance
    NoRecord,
    Churn          \* bound: the peers whose view of the membership changes

ASSUME FederationConstants ==
    /\ Hosts \in [FedServices -> SUBSET Peers] /\ Churn \subseteq Peers
    /\ QueueSize \in Nat /\ MaxWrites \in Nat /\ MaxRestarts \in Nat

VARIABLES
    vc,         \* CatalogSyncer.vectorClock, in memory
    cat,        \* federation_services: a record for each service, or NoRecord
    queue,      \* PeerManager.broadcastQueue
    gossip,     \* gossip messages on their way
    exchange,   \* catalog sent by a peer to another in an exchange under way
    apps,       \* the router's apps
    known,      \* PeerManager.peers
    saved,     \* federation_peers
    members,    \* the other members memberlist reports
    writes,     \* local changes so far
    wrote,      \* history: the last record each peer made for each service
    restarted   \* history: restarts, as a sequence of peers

clocks == <<vc, cat>>
network == <<queue, gossip, exchange>>
membership == <<known, saved, members>>
local == <<apps, writes, wrote>>
fedVars == <<clocks, network, membership, local, restarted>>

NoApp == 0

Clock == [Peers -> 0..MaxWrites]

FederatedService ==
    [origin : Peers, app : 0..MaxWrites, clock : Clock, tombstone : BOOLEAN]

Catalog == [FedServices -> FederatedService \cup {NoRecord}]

(* An AppUpdateMsg or AppDeleteMsg.  The latter has no app and no tombstone *)
(* field.                                                                   *)
GossipMessage == [service : FedServices, record : FederatedService]

FedTypeOK ==
    /\ vc \in [Peers -> Clock] /\ cat \in [Peers -> Catalog]
    /\ queue \in [Peers -> Seq(GossipMessage)]
    /\ \A p \in Peers : Len(queue[p]) <= QueueSize
    /\ gossip \subseteq [to : Peers, msg : GossipMessage]
    /\ exchange \in [Peers \X Peers -> Catalog \cup {NoRecord}]
    /\ apps \in [Peers -> SUBSET FedServices]
    /\ known \in [Peers -> SUBSET Peers] /\ saved \in [Peers -> SUBSET Peers]
    /\ members \in [Peers -> SUBSET Peers]
    /\ \A p \in Peers : p \notin known[p] \cup saved[p] \cup members[p]
    /\ writes \in 0..MaxWrites /\ wrote \in [Peers -> Catalog]
    /\ restarted \in Seq(Peers) /\ Len(restarted) <= MaxRestarts

EmptyCatalog == [s \in FedServices |-> NoRecord]

ZeroClock == [p \in Peers |-> 0]

(* The cluster has formed: every peer has been told of every other one. *)
FedInit ==
    /\ vc = [p \in Peers |-> ZeroClock] /\ cat = [p \in Peers |-> EmptyCatalog]
    /\ queue = [p \in Peers |-> <<>>] /\ gossip = {}
    /\ exchange = [pq \in Peers \X Peers |-> NoRecord]
    /\ apps = [p \in Peers |-> {}]
    /\ known = [p \in Peers |-> Peers \ {p}] /\ saved = known /\ members = known
    /\ writes = 0 /\ wrote = [p \in Peers |-> EmptyCatalog] /\ restarted = <<>>

-----------------------------------------------------------------------------
(* VectorClock and ResolveConflict *)

\* Mutant: VectorClock.Increment on a nil map, which increments a copy.
IncrementCopy(clock, p) == clock

Increment(clock, p) == [clock EXCEPT ![p] = @ + 1]

(* The least clock not before any of a set. *)
MergeAll(C) == [p \in Peers |-> Max({c[p] : c \in C})]

Before(a, b) == (\A p \in Peers : a[p] <= b[p]) /\ a # b

(* Concurrent or equal clocks are resolved by LastSeen: the time of         *)
(* reception against the time of the last change, both by the local wall    *)
(* clock, which may have been set back in between.                          *)
ResolveByVectorClock(here, there) ==
    IF Before(here.clock, there.clock) THEN {there}
    ELSE IF Before(there.clock, here.clock) THEN {here}
    ELSE {here, there}

(* The records that may win. *)
ResolveConflict(here, there, p) ==
    IF here = NoRecord \/ (here.origin = there.origin /\ here.origin # p)
    THEN {there}
    ELSE ResolveByVectorClock(here, there)

-----------------------------------------------------------------------------
(* CatalogSyncer *)

(* SaveFederatedService fails when the origin has no row in                 *)
(* federation_peers and the connection used enforces foreign keys; only one *)
(* connection of the pool does.  The local peer never has a row.            *)
SaveMayFail(p, record) == record.origin \notin saved[p]

Save(p, s, record) ==
    \/ cat' = [cat EXCEPT ![p][s] = record]
    \/ SaveMayFail(p, record) /\ UNCHANGED cat

(* broadcastCatalogMessage drops the message when the queue is full. *)
Broadcast(p, s, record) ==
    queue' = IF Len(queue[p]) < QueueSize
             THEN [queue EXCEPT ![p] = Append(@, [service |-> s, record |-> record])]
             ELSE queue

LocalChange(p, s) ==
    /\ p \in Hosts[s] /\ writes < MaxWrites
    /\ writes' = writes + 1
    /\ vc' = [vc EXCEPT ![p] = Increment(@, p)]
    /\ UNCHANGED <<gossip, exchange, membership, restarted>>

(* Registry.UpsertApp calls OnLocalServiceAdded, for updates too. *)
OnLocalServiceAdded(p, s) ==
    LET record == [origin |-> p, app |-> writes + 1, clock |-> Increment(vc[p], p),
                   tombstone |-> FALSE]
    IN  /\ LocalChange(p, s)
        /\ apps' = [apps EXCEPT ![p] = @ \cup {s}]
        /\ wrote' = [wrote EXCEPT ![p][s] = record]
        /\ Save(p, s, record)
        /\ Broadcast(p, s, record)

(* Registry.RemoveApp.  The tombstone keeps the app of the record it        *)
(* replaces; the message does not carry that it is one.                     *)
OnLocalServiceDeleted(p, s) ==
    LET record == [origin |-> p, app |-> IF cat[p][s] = NoRecord THEN NoApp ELSE cat[p][s].app,
                   clock |-> Increment(vc[p], p), tombstone |-> TRUE]
    IN  /\ s \in apps[p]
        /\ LocalChange(p, s)
        /\ apps' = [apps EXCEPT ![p] = @ \ {s}]
        /\ wrote' = [wrote EXCEPT ![p][s] = record]
        /\ Save(p, s, record)
        /\ Broadcast(p, s, [record EXCEPT !.app = NoApp, !.tombstone = FALSE])

\* Mutant: the clock of an accepted record is not merged.
AcceptWithoutMerge(p, offered) ==
    LET services == {s \in FedServices : offered[s] # NoRecord}
        may(s) == ResolveConflict(cat[p][s], offered[s], p)
    IN  \E S \in SUBSET {s \in services : offered[s] \in may(s)} :
          /\ \A s \in services \ S :
                may(s) # {offered[s]} \/ SaveMayFail(p, offered[s])
          /\ cat' = [cat EXCEPT ![p] = [s \in FedServices |-> IF s \in S THEN offered[s] ELSE @[s]]]
          /\ UNCHANGED vc

(* Records offered to p: the ones that win are saved, if that succeeds, and *)
(* their clocks merged into p's.                                            *)
Accept(p, offered) ==
    LET services == {s \in FedServices : offered[s] # NoRecord}
        may(s) == ResolveConflict(cat[p][s], offered[s], p)
    IN  \E S \in SUBSET {s \in services : offered[s] \in may(s)} :
          /\ \A s \in services \ S :
                may(s) # {offered[s]} \/ SaveMayFail(p, offered[s])
          /\ cat' = [cat EXCEPT ![p] = [s \in FedServices |-> IF s \in S THEN offered[s] ELSE @[s]]]
          /\ vc' = [vc EXCEPT ![p] = MergeAll({@} \cup {offered[s].clock : s \in S})]

(* catalogDelegate.NotifyMsg -> OnRemoteServiceUpdate.  An AppDeleteMsg     *)
(* parses as an AppUpdateMsg, so that it is saved as a live record.         *)
NotifyMsg(p, g) ==
    /\ g \in gossip /\ g.to = p
    /\ gossip' = gossip \ {g}
    /\ Accept(p, [EmptyCatalog EXCEPT ![g.msg.service] = g.msg.record])
    /\ UNCHANGED <<queue, exchange, membership, local, restarted>>

\* Mutant: ListActiveFederatedServices, without the tombstones.
GetActiveServices(p) ==
    [s \in FedServices |-> IF cat[p][s] # NoRecord /\ cat[p][s].tombstone THEN NoRecord ELSE cat[p][s]]

(* "including tombstones" *)
GetAllServices(p) == cat[p]

(* catalogDelegate.LocalState: p's half of an exchange of state with q. *)
LocalState(p, q) ==
    /\ q \in members[p] /\ exchange[<<p, q>>] = NoRecord
    /\ exchange' = [exchange EXCEPT ![<<p, q>>] = GetAllServices(p)]
    /\ UNCHANGED <<clocks, queue, gossip, membership, local, restarted>>

\* Mutant: services that originate here are not skipped.
MergeOwnServices(p, catalog) == Accept(p, catalog)

(* FedServices that originate here are skipped. *)
MergeRemoteServices(p, catalog) ==
    Accept(p, [s \in FedServices |->
                 IF catalog[s] # NoRecord /\ catalog[s].origin # p THEN catalog[s] ELSE NoRecord])

(* catalogDelegate.MergeRemoteState *)
MergeRemoteState(p, q) ==
    /\ exchange[<<q, p>>] # NoRecord
    /\ exchange' = [exchange EXCEPT ![<<q, p>>] = NoRecord]
    /\ MergeRemoteServices(p, exchange[<<q, p>>])
    /\ UNCHANGED <<queue, gossip, membership, local, restarted>>

-----------------------------------------------------------------------------
(* memberlist's part *)

(* GetBroadcasts hands a message over once; it may reach several peers, one *)
(* or (lost, or larger than a packet) none.                                 *)
GetBroadcasts(p) ==
    /\ queue[p] # <<>>
    /\ queue' = [queue EXCEPT ![p] = Tail(@)]
    /\ \E T \in SUBSET members[p] :
          gossip' = gossip \cup {[to |-> q, msg |-> Head(queue[p])] : q \in T}
    /\ UNCHANGED <<clocks, exchange, membership, local, restarted>>

LoseExchange(p, q) ==
    /\ exchange[<<p, q>>] # NoRecord
    /\ exchange' = [exchange EXCEPT ![<<p, q>>] = NoRecord]
    /\ UNCHANGED <<clocks, queue, gossip, membership, local, restarted>>

-----------------------------------------------------------------------------
(* PeerManager: membership *)

(* A peer the map holds already is not saved again. *)
AddPeer(p, q) ==
    /\ known' = [known EXCEPT ![p] = @ \cup {q}]
    /\ saved' = IF q \in known[p] THEN saved ELSE [saved EXCEPT ![p] = @ \cup {q}]

(* eventDelegate.NotifyJoin *)
NotifyJoin(p, q) ==
    /\ p # q /\ q \notin members[p]
    /\ members' = [members EXCEPT ![p] = @ \cup {q}]
    /\ AddPeer(p, q)
    /\ UNCHANGED <<clocks, network, local, restarted>>

(* RemovePeer: deleting the peer's row deletes its services with it if the  *)
(* connection enforces foreign keys.                                        *)
RemovePeer(p, q) ==
    /\ q \in known[p]
    /\ known' = [known EXCEPT ![p] = @ \ {q}]
    /\ saved' = [saved EXCEPT ![p] = @ \ {q}]
    /\ \/ cat' = [cat EXCEPT ![p] = [s \in FedServices |->
                     IF @[s] # NoRecord /\ @[s].origin = q THEN NoRecord ELSE @[s]]]
       \/ UNCHANGED cat
    /\ UNCHANGED <<vc, network, local, restarted>>

(* eventDelegate.NotifyLeave *)
NotifyLeave(p, q) ==
    /\ q \in members[p]
    /\ members' = [members EXCEPT ![p] = @ \ {q}]
    /\ RemovePeer(p, q) \/ (q \notin known[p] /\ UNCHANGED <<clocks, network, known, saved,
                                                             local, restarted>>)

(* DELETE /api/v1/federation/peers/{id} *)
HandleRemovePeer(p, q) ==
    /\ RemovePeer(p, q)
    /\ UNCHANGED members

(* checkPeerHealth puts a member the map misses back, in memory only. *)
CheckPeerHealth(p, q) ==
    /\ q \in members[p] \ known[p]
    /\ known' = [known EXCEPT ![p] = @ \cup {q}]
    /\ UNCHANGED <<clocks, network, saved, members, local, restarted>>

(* The process restarts and joins the cluster again: the tables survive,    *)
(* the clock, the queue and the exchanges towards it do not.                *)
Restart(p) ==
    /\ Len(restarted) < MaxRestarts
    /\ restarted' = Append(restarted, p)
    /\ vc' = [vc EXCEPT ![p] = ZeroClock]
    /\ queue' = [queue EXCEPT ![p] = <<>>]
    /\ exchange' = [qr \in Peers \X Peers |-> IF qr[2] = p THEN NoRecord ELSE exchange[qr]]
    /\ known' = [known EXCEPT ![p] = Peers \ {p}]
    /\ saved' = [saved EXCEPT ![p] = Peers \ {p}]
    /\ members' = [members EXCEPT ![p] = Peers \ {p}]
    /\ UNCHANGED <<cat, gossip, local>>

-----------------------------------------------------------------------------
Sync(p) ==
    \/ \E g \in gossip : NotifyMsg(p, g)
    \/ GetBroadcasts(p)
    \/ \E q \in Peers \ {p} : LocalState(p, q) \/ MergeRemoteState(p, q) \/ LoseExchange(p, q)

Change(p) == \E s \in FedServices : OnLocalServiceAdded(p, s) \/ OnLocalServiceDeleted(p, s)

Membership(p) ==
    \E q \in Peers :
        NotifyJoin(p, q) \/ NotifyLeave(p, q) \/ HandleRemovePeer(p, q) \/ CheckPeerHealth(p, q)

FedNext ==
    \E p \in Peers :
        \/ Sync(p)
        \/ Change(p)
        \/ p \in Churn /\ Membership(p)
        \/ Restart(p)

FedSpec == FedInit /\ [][FedNext]_fedVars

(* memberlist exchanges state periodically for as long as the peer is a     *)
(* member, and an exchange that is tried again and again succeeds at some   *)
(* time.  Nothing is assumed of gossip: it may all be lost.                 *)
FedFairness ==
    \A p, q \in Peers :
        p # q => WF_fedVars(LocalState(p, q)) /\ SF_fedVars(MergeRemoteState(p, q))

FedFairSpec == FedSpec /\ FedFairness

-----------------------------------------------------------------------------
(* Properties *)

HasRestarted(p) == \E i \in 1..Len(restarted) : restarted[i] = p

(* As long as a peer runs its clock is not behind any record of its         *)
(* catalog: what it writes next is after everything it has seen, although   *)
(* saving a record and merging its clock are separate and either may be     *)
(* skipped.                                                                 *)
ClockCoversCatalog ==
    \A p \in Peers, s \in FedServices :
        ~HasRestarted(p) /\ cat[p][s] # NoRecord
            => \A q \in Peers : cat[p][s].clock[q] <= vc[p][q]

Records(s) == {cat[p][s] : p \in Peers} \ {NoRecord}

(* A clock identifies a version: two records of a service with the same     *)
(* origin and the same clock are the same version, wherever they are kept   *)
(* and on whatever way they came (gossip or exchange), if the origin kept   *)
(* its clock.  Deletions are excepted: the gossip message of a deletion     *)
(* makes a record without tombstone.                                        *)
ClockIdentifiesVersion ==
    \A s \in FedServices : \A a, b \in Records(s) :
        a.origin = b.origin /\ a.clock = b.clock /\ ~HasRestarted(a.origin)
            => a = b \/ a.tombstone \/ b.tombstone \/ NoApp \in {a.app, b.app}

(* What both resolutions rest on: a clock covers what its peer has seen and *)
(* names one version of a service.                                          *)
ClocksAreSound == ClockCoversCatalog /\ ClockIdentifiesVersion

(* A service only one peer hosts is changed in that peer's catalog by the   *)
(* peer itself only: no gossip, exchange, restart or membership event       *)
(* brings back an older record of its own.                                  *)
OwnerDecides ==
    [][\A p \in Peers, s \in FedServices :
          Hosts[s] = {p} /\ cat'[p][s] # cat[p][s] => writes' # writes]_fedVars

(* "Eventual consistency: Service catalogs converge across all peers", for  *)
(* two peers: once the host's last record is in its own catalog, the other  *)
(* peer ends up with the same record for good, after lost, late and         *)
(* reordered gossip and restarts.                                           *)
Converges ==
    \A p, q \in Peers, s \in FedServices :
        Hosts[s] = {p} /\ p # q =>
            <>[](cat[p][s] = wrote[p][s] /\ cat[p][s] # NoRecord => cat[q][s] = cat[p][s])

-----------------------------------------------------------------------------
(* What a document claims and the code does not do *)

(* docs, features/federation.md: "If clock A happened-before clock B, B     *)
(* wins".  A record that originates elsewhere is replaced by whatever       *)
(* arrives, so the late exchange of a third peer puts an older version, or  *)
(* a deleted service, back.                                                 *)
NewerWins ==
    [][\A p \in Peers, s \in FedServices :
          cat[p][s] # NoRecord /\ cat'[p][s] # NoRecord /\ cat[p][s].origin = cat'[p][s].origin
              => ~Before(cat'[p][s].clock, cat[p][s].clock)]_fedVars

(* Where the rule does hold: a record that originates here, or is replaced  *)
(* by one of another origin, gives way only to one that did not happen      *)
(* before it; so does what a peer that did not restart writes itself.       *)
NewerWinsStep ==
    \A p \in Peers, s \in FedServices :
        (/\ cat[p][s] # NoRecord /\ cat'[p][s] # NoRecord
         /\ cat[p][s].origin = p \/ cat[p][s].origin # cat'[p][s].origin
         /\ writes' = writes \/ ~HasRestarted(p))
            => ~Before(cat'[p][s].clock, cat[p][s].clock)

NewerWinsOtherwise == [][NewerWinsStep]_fedVars
=============================================================================
