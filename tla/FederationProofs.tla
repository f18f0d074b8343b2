--------------------------- MODULE FederationProofs ---------------------------
(***************************************************************************)
(* Proofs about the federated catalog: that the vector clocks are sound,   *)
(* ClocksAreSound, and that a service with one host is changed in its      *)
(* host's catalog by the host alone, OwnerDecides.                         *)
(*                                                                         *)
(* Both are about the records peers hold in their catalogs, but a record   *)
(* spends most of its life elsewhere: in a queue, in a message, in a       *)
(* catalog on its way.  The invariant therefore speaks of every version    *)
(* that is held anywhere.                                                  *)
(***************************************************************************)
EXTENDS Federation, FiniteSetTheorems, WellFoundedInduction, TLAPS

-----------------------------------------------------------------------------
(* The inductive invariant *)

(* A record of a service is somewhere: in a catalog, in an exchange under   *)
(* way, in a queue or in a gossip message.                                  *)
Held(s, r) ==
    /\ r # NoRecord
    /\ \/ \E p \in Peers : cat[p][s] = r
       \/ \E p, q \in Peers : exchange[<<p, q>>] # NoRecord /\ exchange[<<p, q>>][s] = r
       \/ \E p \in Peers : \E i \in 1..Len(queue[p]) :
             queue[p][i].service = s /\ queue[p][i].record = r
       \/ \E g \in gossip : g.msg.service = s /\ g.msg.record = r

Versions(s) == {r \in FederatedService : Held(s, r)}

(* No clock is ahead of the number of changes made: a clock that is         *)
(* incremented stays within its type.                                       *)
ClocksAreBounded ==
    /\ \A p, q \in Peers : vc[p][q] <= writes
    /\ \A s \in FedServices : \A r \in Versions(s) : \A q \in Peers : r.clock[q] <= writes

(* Only hosts make versions of a service. *)
HostsMakeVersions == \A s \in FedServices : \A r \in Versions(s) : r.origin \in Hosts[s]

(* A peer gossips what it made itself, and to others. *)
GossipIsFromOthers ==
    /\ \A p \in Peers : \A i \in 1..Len(queue[p]) : queue[p][i].record.origin = p
    /\ \A g \in gossip : g.to # g.msg.record.origin

(* Nobody is ahead of a peer that has kept its clock in that peer's own     *)
(* changes: neither a clock nor a version held anywhere.                    *)
OwnersLead ==
    \A o \in Peers : ~HasRestarted(o) =>
        /\ \A p \in Peers : vc[p][o] <= vc[o][o]
        /\ \A s \in FedServices : \A r \in Versions(s) : r.clock[o] <= vc[o][o]

(* What ClockIdentifiesVersion says of catalogs holds wherever versions are *)
(* held, and the origin's own count identifies the version already.         *)
CountsIdentifyVersions ==
    \A s \in FedServices : \A a, b \in Versions(s) :
        a.origin = b.origin /\ a.clock[a.origin] = b.clock[a.origin] /\ ~HasRestarted(a.origin)
            => a = b \/ a.tombstone \/ b.tombstone \/ NoApp \in {a.app, b.app}

FedIInv ==
    /\ FedTypeOK /\ ClocksAreBounded
    /\ HostsMakeVersions /\ GossipIsFromOthers
    /\ OwnersLead /\ CountsIdentifyVersions /\ ClockCoversCatalog

(* A nonempty set of naturals with an upper bound has a maximum, and Max    *)
(* is it.                                                                   *)
LEMMA MaxOfBounded ==
    ASSUME NEW n \in Nat, NEW T \in SUBSET (0..n), T # {}
    PROVE  Max(T) \in T /\ \A y \in T : y <= Max(T)
<1> DEFINE below == {n - x : x \in T}
<1>1. below \subseteq Nat /\ below # {}
  <2>1. \A x \in T : n - x \in Nat
    OBVIOUS
  <2>2. PICK x \in T : TRUE
    OBVIOUS
  <2>3. n - x \in below
    BY <2>2
  <2> QED BY <2>1, <2>3
<1>2. PICK m \in below : \A y \in below : ~ (<<y, m>> \in OpToRel(<, Nat))
  <2> HIDE DEF below
  <2> QED BY <1>1, WFMin, NatLessThanWellFounded
<1>3. \A y \in below : m <= y
  <2> SUFFICES ASSUME NEW y \in below PROVE m <= y
    OBVIOUS
  <2>1. <<y, m>> \in Nat \X Nat /\ ~ (y < m)
    BY <1>1, <1>2 DEF OpToRel
  <2> QED BY <2>1
<1>4. PICK top \in T : m = n - top
  BY <1>2
<1>5. \A y \in T : y <= top
  BY <1>3, <1>4
<1> QED BY <1>4, <1>5 DEF Max

(* MergeAll is a clock, at least each of the clocks it merges, and in every *)
(* component one of them.                                                   *)
LEMMA MergedClock ==
    ASSUME NEW C \in SUBSET Clock, C # {}
    PROVE  /\ MergeAll(C) \in Clock
           /\ \A q \in Peers : /\ \E c \in C : MergeAll(C)[q] = c[q]
                               /\ \A c \in C : c[q] <= MergeAll(C)[q]
<1>1. SUFFICES ASSUME NEW q \in Peers
              PROVE  /\ \E c \in C : Max({d[q] : d \in C}) = c[q]
                     /\ \A c \in C : c[q] <= Max({d[q] : d \in C})
                     /\ Max({d[q] : d \in C}) \in 0..MaxWrites
  BY DEF MergeAll, Clock
<1> DEFINE T == {c[q] : c \in C}
<1>2. T \in SUBSET (0..MaxWrites) /\ T # {}
  BY DEF Clock
<1>3. Max(T) \in T /\ \A y \in T : y <= Max(T)
  BY <1>2, MaxOfBounded, FederationConstants
<1> QED BY <1>2, <1>3

(* What Accept does to p: a record that changes is one that was offered,    *)
(* p's clock then covers it, and p's clock never goes back nor beyond what  *)
(* was offered.                                                             *)
LEMMA AcceptFacts ==
    ASSUME FedTypeOK, NEW p \in Peers, NEW offered \in Catalog, Accept(p, offered),
           \A s \in FedServices : offered[s] # NoRecord => offered[s] \in FederatedService
    PROVE  /\ cat' \in [Peers -> Catalog] /\ vc' \in [Peers -> Clock]
           /\ \A q \in Peers \ {p} : cat'[q] = cat[q] /\ vc'[q] = vc[q]
           /\ \A s \in FedServices :
                 \/ cat'[p][s] = cat[p][s]
                 \/ /\ offered[s] # NoRecord /\ cat'[p][s] = offered[s]
                    /\ \A q \in Peers : offered[s].clock[q] <= vc'[p][q]
           /\ \A q \in Peers :
                 /\ vc[p][q] <= vc'[p][q]
                 /\ \/ vc'[p][q] = vc[p][q]
                    \/ \E s \in FedServices :
                          offered[s] # NoRecord /\ vc'[p][q] = offered[s].clock[q]
<1>1. PICK S \in SUBSET FedServices :
         /\ \A s \in S : offered[s] # NoRecord
         /\ cat' = [cat EXCEPT ![p] = [s \in FedServices |->
                        IF s \in S THEN offered[s] ELSE cat[p][s]]]
         /\ vc' = [vc EXCEPT ![p] = MergeAll({vc[p]} \cup {offered[s].clock : s \in S})]
  BY DEF Accept
<1> DEFINE C == {vc[p]} \cup {offered[s].clock : s \in S}
<1>2. /\ vc \in [Peers -> Clock] /\ cat \in [Peers -> Catalog] /\ offered \in Catalog
  BY DEF FedTypeOK
<1>3. C \in SUBSET Clock /\ C # {}
  BY <1>1, <1>2 DEF FederatedService
<1>4. /\ MergeAll(C) \in Clock
      /\ \A q \in Peers : /\ \E c \in C : MergeAll(C)[q] = c[q]
                          /\ \A c \in C : c[q] <= MergeAll(C)[q]
  <2> HIDE DEF C
  <2> QED BY <1>3, MergedClock
<1>5. /\ vc' = [vc EXCEPT ![p] = MergeAll(C)]
      /\ vc'[p] = MergeAll(C) /\ \A q \in Peers \ {p} : vc'[q] = vc[q]
  BY <1>1, <1>2
<1>6. vc' \in [Peers -> Clock]
  <2> HIDE DEF C
  <2> QED BY <1>2, <1>4, <1>5
<1>7. /\ cat'[p] = [s \in FedServices |-> IF s \in S THEN offered[s] ELSE cat[p][s]]
      /\ \A q \in Peers \ {p} : cat'[q] = cat[q]
  BY <1>1, <1>2
<1>8. cat' \in [Peers -> Catalog]
  <2>1. [s \in FedServices |-> IF s \in S THEN offered[s] ELSE cat[p][s]] \in Catalog
    BY <1>2 DEF Catalog
  <2> QED BY <1>1, <1>2, <2>1
<1>9. ASSUME NEW s \in FedServices
      PROVE  \/ cat'[p][s] = cat[p][s]
             \/ /\ offered[s] # NoRecord /\ cat'[p][s] = offered[s]
                /\ \A q \in Peers : offered[s].clock[q] <= vc'[p][q]
  <2>1. CASE s \in S
    <3>1. offered[s].clock \in C
      BY <2>1
    <3> HIDE DEF C
    <3> QED BY <1>1, <1>4, <1>5, <1>7, <2>1, <3>1
  <2>2. CASE s \notin S
    BY <1>7, <2>2
  <2> QED BY <2>1, <2>2
<1>10. ASSUME NEW q \in Peers
       PROVE  /\ vc[p][q] <= vc'[p][q]
              /\ \/ vc'[p][q] = vc[p][q]
                 \/ \E s \in FedServices :
                       offered[s] # NoRecord /\ vc'[p][q] = offered[s].clock[q]
  <2>1. vc[p] \in C
    OBVIOUS
  <2>2. vc[p][q] <= vc'[p][q]
    <3> HIDE DEF C
    <3> QED BY <1>4, <1>5, <2>1
  <2>3. PICK c \in C : vc'[p][q] = c[q]
    <3> HIDE DEF C
    <3> QED BY <1>4, <1>5
  <2>4. c = vc[p] \/ \E s \in S : c = offered[s].clock
    OBVIOUS
  <2> QED BY <1>1, <2>2, <2>3, <2>4
<1> QED BY <1>5, <1>6, <1>7, <1>8, <1>9, <1>10

-----------------------------------------------------------------------------
(* Steps that make no version *)

(* As long as no version appears and no peer's own count moves, the         *)
(* versions stay as sound as they are.                                      *)
LEMMA NothingNew ==
    ASSUME FedIInv, writes' = writes,
           \A s \in FedServices : \A r \in Versions(s)' : r \in Versions(s),
           \A o \in Peers : HasRestarted(o) => HasRestarted(o)',
           \A p, q \in Peers : vc'[p][q] <= writes,
           \A o \in Peers : ~HasRestarted(o)' =>
               vc'[o][o] = vc[o][o] /\ \A p \in Peers : vc'[p][o] <= vc[o][o]
    PROVE  /\ ClocksAreBounded' /\ HostsMakeVersions'
           /\ OwnersLead' /\ CountsIdentifyVersions'
<1>1. ClocksAreBounded'
  BY DEF FedIInv, ClocksAreBounded
<1>2. HostsMakeVersions'
  BY DEF FedIInv, HostsMakeVersions
<1>3. OwnersLead'
  BY DEF FedIInv, OwnersLead
<1>4. CountsIdentifyVersions'
  <2> SUFFICES ASSUME NEW s \in FedServices, NEW a \in Versions(s)', NEW b \in Versions(s)',
                      a.origin = b.origin, a.clock[a.origin] = b.clock[a.origin],
                      ~HasRestarted(a.origin)'
               PROVE  a = b \/ a.tombstone \/ b.tombstone \/ NoApp \in {a.app, b.app}
    BY DEF CountsIdentifyVersions
  <2>1. a \in Versions(s) /\ b \in Versions(s) /\ a.origin \in Peers
    BY DEF Versions, FederatedService
  <2>2. ~HasRestarted(a.origin)
    BY <2>1
  <2> QED BY <2>1, <2>2 DEF FedIInv, CountsIdentifyVersions
<1> QED BY <1>1, <1>2, <1>3, <1>4

(* Records that are held somewhere and offered to p, from a gossip message  *)
(* or an exchange that is then gone, leave the invariant as it was.  None   *)
(* of them originates at p, so that p's own services are not touched.       *)
LEMMA OfferedIsSound ==
    ASSUME FedIInv, NEW p \in Peers, NEW offered \in Catalog, Accept(p, offered),
           \A s \in FedServices : offered[s] # NoRecord =>
               offered[s] \in Versions(s) /\ offered[s].origin # p,
           gossip' \in SUBSET gossip,
           exchange' \in [Peers \X Peers -> Catalog \cup {NoRecord}],
           \A q, r \in Peers :
               exchange'[<<q, r>>] = exchange[<<q, r>>] \/ exchange'[<<q, r>>] = NoRecord,
           UNCHANGED <<queue, membership, local, restarted>>
    PROVE  /\ FedIInv'
           /\ \A q \in Peers, s \in FedServices : Hosts[s] = {q} => cat'[q][s] = cat[q][s]
<1>1. FedTypeOK /\ ClockCoversCatalog /\ GossipIsFromOthers /\ OwnersLead /\ HostsMakeVersions
      /\ ClocksAreBounded
  BY DEF FedIInv
<1>2. \A s \in FedServices : offered[s] # NoRecord => offered[s] \in FederatedService
  BY DEF Versions
<1>3. /\ cat' \in [Peers -> Catalog] /\ vc' \in [Peers -> Clock]
      /\ \A q \in Peers \ {p} : cat'[q] = cat[q] /\ vc'[q] = vc[q]
      /\ \A s \in FedServices :
            \/ cat'[p][s] = cat[p][s]
            \/ /\ offered[s] # NoRecord /\ cat'[p][s] = offered[s]
               /\ \A q \in Peers : offered[s].clock[q] <= vc'[p][q]
      /\ \A q \in Peers :
            /\ vc[p][q] <= vc'[p][q]
            /\ \/ vc'[p][q] = vc[p][q]
               \/ \E s \in FedServices :
                     offered[s] # NoRecord /\ vc'[p][q] = offered[s].clock[q]
  BY <1>1, <1>2, AcceptFacts
<1>4. FedTypeOK'
  BY <1>1, <1>3 DEF FedTypeOK, membership, local
<1>5. ASSUME NEW s \in FedServices, NEW r \in Versions(s)'
      PROVE  r \in Versions(s)
  <2>1. r \in FederatedService /\ Held(s, r)'
    BY DEF Versions
  <2>2. CASE \E q \in Peers : cat'[q][s] = r
    <3>1. PICK q \in Peers : cat'[q][s] = r
      BY <2>2
    <3>2. cat[q][s] = r \/ (offered[s] # NoRecord /\ offered[s] = r)
      BY <1>3, <3>1
    <3> QED BY <2>1, <3>2 DEF Held, Versions
  <2>3. CASE \E q, t \in Peers : exchange'[<<q, t>>] # NoRecord /\ exchange'[<<q, t>>][s] = r
    <3>1. PICK q, t \in Peers : exchange'[<<q, t>>] # NoRecord /\ exchange'[<<q, t>>][s] = r
      BY <2>3
    <3>2. exchange[<<q, t>>] # NoRecord /\ exchange[<<q, t>>][s] = r
      BY <3>1
    <3> QED BY <2>1, <3>2 DEF Held, Versions
  <2>4. CASE \E q \in Peers : \E i \in 1..Len(queue[q]) :
                 queue[q][i].service = s /\ queue[q][i].record = r
    BY <2>1, <2>4 DEF Held, Versions
  <2>5. CASE \E g \in gossip : g.msg.service = s /\ g.msg.record = r
    BY <2>1, <2>5 DEF Held, Versions
  <2> QED BY <2>1, <2>2, <2>3, <2>4, <2>5 DEF Held
<1>6. ASSUME NEW q \in Peers
      PROVE  \/ vc'[p][q] = vc[p][q]
             \/ \E s \in FedServices : \E r \in Versions(s) : vc'[p][q] = r.clock[q]
  BY <1>3
<1>7. ASSUME NEW t \in Peers, NEW q \in Peers
      PROVE  vc'[t][q] <= writes
  BY <1>1, <1>3, <1>6 DEF ClocksAreBounded
<1>8. ASSUME NEW o \in Peers, ~HasRestarted(o)'
      PROVE  vc'[o][o] = vc[o][o] /\ \A t \in Peers : vc'[t][o] <= vc[o][o]
  <2>1. ~HasRestarted(o)
    BY <1>8 DEF HasRestarted
  <2>2. /\ \A t \in Peers : vc[t][o] <= vc[o][o]
        /\ \A s \in FedServices : \A r \in Versions(s) : r.clock[o] <= vc[o][o]
    BY <1>1, <2>1 DEF OwnersLead
  <2>3. vc'[p][o] <= vc[o][o]
    BY <1>6, <2>2
  <2>4. \A t \in Peers : vc'[t][o] <= vc[o][o]
    BY <1>3, <2>2, <2>3
  <2>5. vc'[o][o] = vc[o][o]
    <3>1. vc[o][o] \in Nat /\ vc'[o][o] \in Nat
      BY <1>1, <1>3 DEF FedTypeOK, Clock
    <3>2. vc[o][o] <= vc'[o][o]
      BY <1>3, <3>1
    <3> QED BY <2>4, <3>1, <3>2
  <2> QED BY <2>4, <2>5
<1>9. ClocksAreBounded' /\ HostsMakeVersions' /\ OwnersLead' /\ CountsIdentifyVersions'
  <2>1. \A o \in Peers : HasRestarted(o) => HasRestarted(o)'
    BY DEF HasRestarted
  <2> QED BY <1>5, <1>7, <1>8, <2>1, NothingNew DEF local
<1>10. GossipIsFromOthers'
  BY <1>1 DEF GossipIsFromOthers
<1>11. ClockCoversCatalog'
  <2> SUFFICES ASSUME NEW t \in Peers, NEW s \in FedServices, ~HasRestarted(t)',
                      cat'[t][s] # NoRecord, NEW q \in Peers
               PROVE  cat'[t][s].clock[q] <= vc'[t][q]
    BY DEF ClockCoversCatalog
  <2>1. cat[t][s] # NoRecord => cat[t][s].clock[q] <= vc[t][q]
    BY <1>1 DEF ClockCoversCatalog, HasRestarted
  <2>2. cat[t][s] # NoRecord => cat[t][s].clock[q] \in Nat
    BY <1>1 DEF FedTypeOK, Catalog, FederatedService, Clock
  <2>3. vc[t][q] \in Nat /\ vc'[t][q] \in Nat
    BY <1>1, <1>3 DEF FedTypeOK, Clock
  <2>4. vc[t][q] <= vc'[t][q]
    BY <1>3, <2>3
  <2>5. cat'[t][s] = cat[t][s] \/ cat'[t][s].clock[q] <= vc'[t][q]
    BY <1>3
  <2> QED BY <2>1, <2>2, <2>3, <2>4, <2>5
<1>12. ASSUME NEW q \in Peers, NEW s \in FedServices, Hosts[s] = {q}
       PROVE  cat'[q][s] = cat[q][s]
  <2>1. offered[s] # NoRecord => offered[s].origin = q /\ q # p
    BY <1>1, <1>12 DEF HostsMakeVersions
  <2> QED BY <1>3, <2>1
<1> QED BY <1>4, <1>9, <1>10, <1>11, <1>12 DEF FedIInv

(* A step that changes no clock and lets messages and records only go away, *)
(* or move on, makes no version.                                            *)
LEMMA MovingIsSound ==
    ASSUME FedIInv, FedTypeOK', GossipIsFromOthers', UNCHANGED <<vc, writes, restarted>>,
           \A p \in Peers, s \in FedServices : cat'[p][s] = cat[p][s] \/ cat'[p][s] = NoRecord,
           \A s \in FedServices : \A r \in FederatedService : Held(s, r)' => Held(s, r)
    PROVE  FedIInv'
<1>1. \A s \in FedServices : \A r \in Versions(s)' : r \in Versions(s)
  BY DEF Versions
<1>2. \A o \in Peers : HasRestarted(o) <=> HasRestarted(o)'
  BY DEF HasRestarted
<1>3. /\ \A p, q \in Peers : vc[p][q] <= writes
      /\ \A o \in Peers : ~HasRestarted(o)' => \A p \in Peers : vc[p][o] <= vc[o][o]
  BY <1>2 DEF FedIInv, ClocksAreBounded, OwnersLead
<1>4. ClocksAreBounded' /\ HostsMakeVersions' /\ OwnersLead' /\ CountsIdentifyVersions'
  BY <1>1, <1>2, <1>3, NothingNew
<1>5. ClockCoversCatalog'
  BY <1>2 DEF FedIInv, ClockCoversCatalog
<1> QED BY <1>4, <1>5 DEF FedIInv

-----------------------------------------------------------------------------
(* Steps that make a version *)

(* A host's change: a record with the host's next clock, and a message that *)
(* carries it or, for a deletion, a record without app.                     *)
LEMMA ChangeIsSound ==
    ASSUME FedIInv, NEW p \in Peers, NEW s \in FedServices, LocalChange(p, s),
           NEW record \in [origin : {p}, app : 0..MaxWrites, clock : {Increment(vc[p], p)},
                           tombstone : BOOLEAN],
           NEW sent \in {record, [record EXCEPT !.app = NoApp, !.tombstone = FALSE]},
           Save(p, s, record), Broadcast(p, s, sent),
           apps' \in [Peers -> SUBSET FedServices], wrote' = [wrote EXCEPT ![p][s] = record]
    PROVE  FedIInv'
<1>1. /\ FedTypeOK /\ ClocksAreBounded /\ HostsMakeVersions /\ GossipIsFromOthers
      /\ OwnersLead /\ CountsIdentifyVersions /\ ClockCoversCatalog
  BY DEF FedIInv
<1>2. /\ p \in Hosts[s] /\ writes < MaxWrites /\ writes' = writes + 1
      /\ vc' = [vc EXCEPT ![p] = Increment(vc[p], p)]
      /\ UNCHANGED <<gossip, exchange, known, saved, members, restarted>>
  BY DEF LocalChange, membership
<1>3. /\ writes \in Nat /\ MaxWrites \in Nat
      /\ vc \in [Peers -> [Peers -> 0..MaxWrites]] /\ \A q, t \in Peers : vc[q][t] <= writes
  BY <1>1, FederationConstants DEF FedTypeOK, Clock, ClocksAreBounded
<1>4. /\ Increment(vc[p], p) \in Clock
      /\ vc'[p] = Increment(vc[p], p) /\ \A q \in Peers \ {p} : vc'[q] = vc[q]
      /\ vc'[p][p] = vc[p][p] + 1 /\ \A q \in Peers \ {p} : vc'[p][q] = vc[p][q]
  BY <1>2, <1>3 DEF Increment, Clock
<1>5. /\ record \in FederatedService /\ sent \in FederatedService
      /\ record.origin = p /\ sent.origin = p
      /\ record.clock = vc'[p] /\ sent.clock = vc'[p]
      /\ sent = record \/ sent.app = NoApp
  <2>1. NoApp \in 0..MaxWrites
    BY <1>3 DEF NoApp
  <2> QED BY <1>4, <2>1 DEF FederatedService
<1>6. cat' \in [Peers -> Catalog]
      /\ \A q \in Peers, t \in FedServices :
            cat'[q][t] = cat[q][t] \/ (q = p /\ t = s /\ cat'[q][t] = record)
  <2>1. cat \in [Peers -> Catalog]
    BY <1>1 DEF FedTypeOK
  <2>2. CASE cat' = cat
    BY <2>1, <2>2
  <2>3. CASE cat' = [cat EXCEPT ![p][s] = record]
    <3>1. [cat[p] EXCEPT ![s] = record] \in Catalog
      BY <1>5, <2>1 DEF Catalog
    <3>2. cat' = [cat EXCEPT ![p] = [cat[p] EXCEPT ![s] = record]]
      BY <2>3
    <3>3. cat'[p] = [cat[p] EXCEPT ![s] = record] /\ \A q \in Peers \ {p} : cat'[q] = cat[q]
      BY <2>1, <3>2
    <3>4. \A t \in FedServices : cat'[p][t] = IF t = s THEN record ELSE cat[p][t]
      BY <2>1, <3>3 DEF Catalog
    <3> QED BY <2>1, <3>1, <3>2, <3>3, <3>4
  <2> QED BY <2>2, <2>3 DEF Save
<1>7. /\ queue' \in [Peers -> Seq(GossipMessage)]
      /\ \A q \in Peers : Len(queue'[q]) <= QueueSize
      /\ \A q \in Peers : \A i \in 1..Len(queue'[q]) :
            \/ i \in 1..Len(queue[q]) /\ queue'[q][i] = queue[q][i]
            \/ q = p /\ queue'[q][i] = [service |-> s, record |-> sent]
  <2> DEFINE m == [service |-> s, record |-> sent]
  <2>1. m \in GossipMessage
    BY <1>5 DEF GossipMessage
  <2>2. queue \in [Peers -> Seq(GossipMessage)] /\ \A q \in Peers : Len(queue[q]) <= QueueSize
    BY <1>1 DEF FedTypeOK
  <2>3. CASE Len(queue[p]) < QueueSize
    <3>1. queue' = [queue EXCEPT ![p] = Append(queue[p], m)]
      BY <2>3 DEF Broadcast
    <3>2. /\ Append(queue[p], m) \in Seq(GossipMessage)
          /\ Len(Append(queue[p], m)) = Len(queue[p]) + 1
          /\ \A i \in 1..Len(queue[p]) : Append(queue[p], m)[i] = queue[p][i]
          /\ Append(queue[p], m)[Len(queue[p]) + 1] = m
      <4> HIDE DEF m
      <4> QED BY <2>1, <2>2
    <3>3. Len(queue[p]) \in Nat /\ QueueSize \in Nat
      BY <2>2, FederationConstants
    <3> HIDE DEF m
    <3>4. Len(queue[p]) + 1 <= QueueSize
      BY <2>3, <3>3
    <3>5. queue'[p] = Append(queue[p], m) /\ \A q \in Peers \ {p} : queue'[q] = queue[q]
      BY <2>2, <3>1
    <3>6. \A i \in 1..Len(queue'[p]) :
              i \in 1..Len(queue[p]) \/ i = Len(queue[p]) + 1
      BY <3>2, <3>3, <3>5
    <3>7. \A i \in 1..Len(queue'[p]) :
              (i \in 1..Len(queue[p]) /\ queue'[p][i] = queue[p][i]) \/ queue'[p][i] = m
      BY <3>2, <3>5, <3>6
    <3>8. queue' \in [Peers -> Seq(GossipMessage)]
      BY <2>2, <3>1, <3>2
    <3>9. m = [service |-> s, record |-> sent]
      BY DEF m
    <3> QED BY <2>2, <3>2, <3>4, <3>5, <3>7, <3>8, <3>9
  <2>4. CASE ~(Len(queue[p]) < QueueSize)
    BY <2>2, <2>4 DEF Broadcast
  <2> QED BY <2>3, <2>4
<1>8. FedTypeOK'
  <2>1. wrote' \in [Peers -> Catalog]
    BY <1>1, <1>5 DEF FedTypeOK, Catalog
  <2>2. vc' \in [Peers -> Clock] /\ writes' \in 0..MaxWrites
    BY <1>2, <1>3, <1>4 DEF Clock
  <2> QED BY <1>1, <1>2, <1>6, <1>7, <2>1, <2>2 DEF FedTypeOK
<1>9. ASSUME NEW t \in FedServices, NEW r \in Versions(t)'
      PROVE  r \in Versions(t) \/ (t = s /\ (r = record \/ r = sent))
  <2>1. r \in FederatedService /\ Held(t, r)'
    BY DEF Versions
  <2>2. CASE \E q \in Peers : cat'[q][t] = r
    BY <1>6, <2>1, <2>2 DEF Held, Versions
  <2>3. CASE \E q, u \in Peers : exchange'[<<q, u>>] # NoRecord /\ exchange'[<<q, u>>][t] = r
    BY <1>2, <2>1, <2>3 DEF Held, Versions
  <2>4. CASE \E q \in Peers : \E i \in 1..Len(queue'[q]) :
                 queue'[q][i].service = t /\ queue'[q][i].record = r
    <3>0. PICK q \in Peers : \E i \in 1..Len(queue'[q]) :
                 queue'[q][i].service = t /\ queue'[q][i].record = r
      BY <2>4
    <3>1. PICK i \in 1..Len(queue'[q]) :
                 queue'[q][i].service = t /\ queue'[q][i].record = r
      BY <3>0
    <3>2. CASE i \in 1..Len(queue[q]) /\ queue'[q][i] = queue[q][i]
      BY <2>1, <3>1, <3>2 DEF Held, Versions
    <3>3. CASE queue'[q][i] = [service |-> s, record |-> sent]
      BY <3>1, <3>3
    <3> QED BY <1>7, <3>2, <3>3
  <2>5. CASE \E g \in gossip' : g.msg.service = t /\ g.msg.record = r
    BY <1>2, <2>1, <2>5 DEF Held, Versions
  <2> QED BY <2>1, <2>2, <2>3, <2>4, <2>5 DEF Held
<1>10. ClocksAreBounded'
  <2>1. ASSUME NEW q \in Peers, NEW t \in Peers PROVE vc'[q][t] <= writes'
    BY <1>2, <1>3, <1>4
  <2>2. ASSUME NEW t \in FedServices, NEW r \in Versions(t)', NEW q \in Peers
        PROVE  r.clock[q] <= writes'
    <3>1. CASE r \in Versions(t)
      <4>1. r.clock[q] \in Nat /\ r.clock[q] <= writes
        BY <1>1, <3>1 DEF ClocksAreBounded, Versions, FederatedService, Clock
      <4> QED BY <1>2, <1>3, <4>1
    <3>2. CASE r.clock = vc'[p]
      BY <2>1, <3>2
    <3> QED BY <1>5, <1>9, <3>1, <3>2
  <2> QED BY <2>1, <2>2 DEF ClocksAreBounded
<1>11. HostsMakeVersions'
  BY <1>1, <1>2, <1>5, <1>9 DEF HostsMakeVersions
<1>12. GossipIsFromOthers'
  BY <1>1, <1>2, <1>5, <1>7 DEF GossipIsFromOthers
<1>13. \A o \in Peers : HasRestarted(o)' <=> HasRestarted(o)
  BY <1>2 DEF HasRestarted
<1>14. OwnersLead'
  <2> SUFFICES ASSUME NEW o \in Peers, ~HasRestarted(o)'
               PROVE  /\ \A q \in Peers : vc'[q][o] <= vc'[o][o]
                      /\ \A t \in FedServices : \A r \in Versions(t)' : r.clock[o] <= vc'[o][o]
    BY DEF OwnersLead
  <2>1. /\ \A q \in Peers : vc[q][o] <= vc[o][o]
        /\ \A t \in FedServices : \A r \in Versions(t) : r.clock[o] <= vc[o][o]
    BY <1>1, <1>13 DEF OwnersLead
  <2>2. vc[o][o] \in Nat /\ vc[o][o] <= vc'[o][o] /\ vc'[o][o] \in Nat
    BY <1>3, <1>4
  <2>3. ASSUME NEW q \in Peers PROVE vc'[q][o] <= vc'[o][o]
    BY <1>3, <1>4, <2>1, <2>2
  <2>4. ASSUME NEW t \in FedServices, NEW r \in Versions(t)' PROVE r.clock[o] <= vc'[o][o]
    <3>1. CASE r \in Versions(t)
      <4>1. r.clock[o] \in Nat /\ r.clock[o] <= vc[o][o]
        BY <2>1, <3>1 DEF Versions, FederatedService, Clock
      <4> QED BY <2>2, <4>1
    <3>2. CASE r.clock = vc'[p]
      BY <2>3, <3>2
    <3> QED BY <1>5, <1>9, <3>1, <3>2
  <2> QED BY <2>3, <2>4
<1>15. CountsIdentifyVersions'
  <2> SUFFICES ASSUME NEW t \in FedServices, NEW a \in Versions(t)', NEW b \in Versions(t)',
                      a.origin = b.origin, a.clock[a.origin] = b.clock[a.origin],
                      ~HasRestarted(a.origin)'
               PROVE  a = b \/ a.tombstone \/ b.tombstone \/ NoApp \in {a.app, b.app}
    BY DEF CountsIdentifyVersions
  <2>1. a.origin \in Peers /\ ~HasRestarted(a.origin)
    BY <1>13 DEF Versions, FederatedService
  <2>2. ASSUME a.origin = p, NEW r \in Versions(t) PROVE r.clock[p] # vc'[p][p]
    <3>1. r.clock[p] <= vc[p][p] /\ r.clock[p] \in Nat /\ vc[p][p] \in Nat
      BY <1>1, <1>3, <2>1, <2>2 DEF OwnersLead, Versions, FederatedService, Clock
    <3> QED BY <1>4, <3>1
  <2>3. CASE a \in Versions(t) /\ b \in Versions(t)
    BY <1>1, <2>1, <2>3 DEF CountsIdentifyVersions
  <2>4. CASE a \in {record, sent} /\ b \in {record, sent}
    BY <1>5, <2>4
  <2>5. CASE a \in Versions(t) /\ b \in {record, sent}
    BY <1>5, <2>2, <2>5
  <2>6. CASE a \in {record, sent} /\ b \in Versions(t)
    BY <1>5, <2>2, <2>6
  <2> QED BY <1>9, <2>3, <2>4, <2>5, <2>6
<1>16. ClockCoversCatalog'
  <2> SUFFICES ASSUME NEW q \in Peers, NEW t \in FedServices, ~HasRestarted(q)',
                      cat'[q][t] # NoRecord, NEW u \in Peers
               PROVE  cat'[q][t].clock[u] <= vc'[q][u]
    BY DEF ClockCoversCatalog
  <2>1. CASE cat'[q][t] = cat[q][t]
    <3>1. cat[q][t].clock[u] \in Nat /\ cat[q][t].clock[u] <= vc[q][u]
      BY <1>1, <1>13, <2>1
      DEF ClockCoversCatalog, FedTypeOK, Catalog, FederatedService, Clock
    <3>2. vc[q][u] \in Nat /\ vc[q][u] <= vc'[q][u] /\ vc'[q][u] \in Nat
      BY <1>3, <1>4
    <3> QED BY <2>1, <3>1, <3>2
  <2>2. CASE q = p /\ cat'[q][t] = record
    <3>1. vc'[p][u] \in Nat
      BY <1>4 DEF Clock
    <3> QED BY <1>5, <2>2, <3>1
  <2> QED BY <1>6, <2>1, <2>2
<1> QED BY <1>8, <1>10, <1>11, <1>12, <1>14, <1>15, <1>16 DEF FedIInv

-----------------------------------------------------------------------------
(* The actions *)

(* No peer's catalog changes in a service that only that peer hosts.        *)
HostsKeepTheirOwn ==
    \A p \in Peers, s \in FedServices : Hosts[s] = {p} => cat'[p][s] = cat[p][s]

(* A gossip message was held already, and is another peer's. *)
LEMMA NotifyMsgIsSound ==
    ASSUME FedIInv, NEW p \in Peers, NEW g \in gossip, NotifyMsg(p, g)
    PROVE  FedIInv' /\ HostsKeepTheirOwn
<1> DEFINE offered == [EmptyCatalog EXCEPT ![g.msg.service] = g.msg.record]
<1>1. /\ g.msg.service \in FedServices /\ g.msg.record \in FederatedService
      /\ g.to = p /\ g.msg.record.origin # p
      /\ exchange \in [Peers \X Peers -> Catalog \cup {NoRecord}]
  BY DEF NotifyMsg, FedIInv, FedTypeOK, GossipMessage, GossipIsFromOthers
<1>2. offered = [s \in FedServices |->
                    IF s = g.msg.service THEN g.msg.record ELSE NoRecord]
  BY <1>1 DEF EmptyCatalog
<1>3. offered \in Catalog
  BY <1>1, <1>2 DEF Catalog
<1>4. \A s \in FedServices : offered[s] # NoRecord =>
          s = g.msg.service /\ offered[s] = g.msg.record
  BY <1>2
<1>5. Accept(p, offered) /\ gossip' \in SUBSET gossip
      /\ UNCHANGED <<queue, exchange, membership, local, restarted>>
  BY DEF NotifyMsg
<1> HIDE DEF offered
<1>6. \A s \in FedServices : offered[s] # NoRecord =>
          offered[s] \in Versions(s) /\ offered[s].origin # p
  BY <1>1, <1>4 DEF Versions, Held
<1> QED BY <1>1, <1>3, <1>5, <1>6, OfferedIsSound DEF HostsKeepTheirOwn

(* So was what arrives in an exchange, and what is p's own is skipped. *)
LEMMA MergeRemoteStateIsSound ==
    ASSUME FedIInv, NEW p \in Peers, NEW q \in Peers, MergeRemoteState(p, q)
    PROVE  FedIInv' /\ HostsKeepTheirOwn
<1> DEFINE catalog == exchange[<<q, p>>]
           offered == [s \in FedServices |->
                 IF catalog[s] # NoRecord /\ catalog[s].origin # p THEN catalog[s] ELSE NoRecord]
<1>1. /\ exchange \in [Peers \X Peers -> Catalog \cup {NoRecord}]
      /\ catalog # NoRecord
      /\ exchange' = [exchange EXCEPT ![<<q, p>>] = NoRecord]
      /\ Accept(p, offered)
      /\ UNCHANGED <<queue, gossip, membership, local, restarted>>
  BY DEF MergeRemoteState, MergeRemoteServices, FedIInv, FedTypeOK
<1>2. catalog \in Catalog
  BY <1>1
<1>3. /\ exchange' \in [Peers \X Peers -> Catalog \cup {NoRecord}]
      /\ \A r, t \in Peers :
            exchange'[<<r, t>>] = exchange[<<r, t>>] \/ exchange'[<<r, t>>] = NoRecord
  BY <1>1
<1>4. \A s \in FedServices : offered[s] # NoRecord =>
          offered[s] = catalog[s] /\ offered[s] \in FederatedService /\ offered[s].origin # p
  <2> HIDE DEF catalog
  <2> QED BY <1>2 DEF Catalog
<1>5. offered \in Catalog
  <2> HIDE DEF catalog
  <2> QED BY <1>2 DEF Catalog
<1> HIDE DEF offered
<1>6. \A s \in FedServices : offered[s] # NoRecord =>
          offered[s] \in Versions(s) /\ offered[s].origin # p
  BY <1>1, <1>4 DEF Versions, Held
<1> HIDE DEF catalog
<1> QED BY <1>1, <1>3, <1>5, <1>6, OfferedIsSound DEF HostsKeepTheirOwn

(* p's half of an exchange is what p's catalog holds. *)
LEMMA LocalStateIsSound ==
    ASSUME FedIInv, NEW p \in Peers, NEW q \in Peers, LocalState(p, q)
    PROVE  FedIInv' /\ HostsKeepTheirOwn
<1>1. FedTypeOK /\ GossipIsFromOthers
  BY DEF FedIInv
<1>2. /\ exchange' = [exchange EXCEPT ![<<p, q>>] = cat[p]]
      /\ UNCHANGED <<vc, cat, queue, gossip, known, saved, members, apps, writes, wrote,
                     restarted>>
  BY DEF LocalState, GetAllServices, clocks, membership, local
<1>3. FedTypeOK'
  BY <1>1, <1>2 DEF FedTypeOK
<1>4. \A r, t \in Peers :
          exchange'[<<r, t>>] = exchange[<<r, t>>] \/ exchange'[<<r, t>>] = cat[p]
  BY <1>1, <1>2 DEF FedTypeOK
<1>5. ASSUME NEW s \in FedServices, NEW r \in FederatedService, Held(s, r)'
      PROVE  Held(s, r)
  BY <1>2, <1>4, <1>5 DEF Held
<1>6. GossipIsFromOthers'
  BY <1>1, <1>2 DEF GossipIsFromOthers
<1> QED BY <1>2, <1>3, <1>5, <1>6, MovingIsSound DEF HostsKeepTheirOwn

(* An exchange that fails only goes away. *)
LEMMA LoseExchangeIsSound ==
    ASSUME FedIInv, NEW p \in Peers, NEW q \in Peers, LoseExchange(p, q)
    PROVE  FedIInv' /\ HostsKeepTheirOwn
<1>1. FedTypeOK /\ GossipIsFromOthers
  BY DEF FedIInv
<1>2. /\ exchange' = [exchange EXCEPT ![<<p, q>>] = NoRecord]
      /\ UNCHANGED <<vc, cat, queue, gossip, known, saved, members, apps, writes, wrote,
                     restarted>>
  BY DEF LoseExchange, clocks, membership, local
<1>3. FedTypeOK'
  BY <1>1, <1>2 DEF FedTypeOK
<1>4. \A r, t \in Peers :
          exchange'[<<r, t>>] = exchange[<<r, t>>] \/ exchange'[<<r, t>>] = NoRecord
  BY <1>1, <1>2 DEF FedTypeOK
<1>5. ASSUME NEW s \in FedServices, NEW r \in FederatedService, Held(s, r)'
      PROVE  Held(s, r)
  BY <1>2, <1>4, <1>5 DEF Held
<1>6. GossipIsFromOthers'
  BY <1>1, <1>2 DEF GossipIsFromOthers
<1> QED BY <1>2, <1>3, <1>5, <1>6, MovingIsSound DEF HostsKeepTheirOwn

(* The head of a queue becomes messages to other members. *)
LEMMA GetBroadcastsIsSound ==
    ASSUME FedIInv, NEW p \in Peers, GetBroadcasts(p)
    PROVE  FedIInv' /\ HostsKeepTheirOwn
<1>1. FedTypeOK /\ GossipIsFromOthers
  BY DEF FedIInv
<1>2. PICK T \in SUBSET members[p] :
          gossip' = gossip \cup {[to |-> q, msg |-> Head(queue[p])] : q \in T}
  BY DEF GetBroadcasts
<1>3. /\ queue[p] # <<>> /\ queue' = [queue EXCEPT ![p] = Tail(queue[p])]
      /\ UNCHANGED <<vc, cat, exchange, known, saved, members, apps, writes, wrote, restarted>>
  BY DEF GetBroadcasts, clocks, membership, local
<1>4. /\ queue \in [Peers -> Seq(GossipMessage)] /\ \A q \in Peers : Len(queue[q]) <= QueueSize
      /\ members[p] \in SUBSET Peers /\ p \notin members[p]
      /\ gossip \subseteq [to : Peers, msg : GossipMessage]
  BY <1>1 DEF FedTypeOK
<1>5. /\ Len(queue[p]) \in Nat /\ Len(queue[p]) >= 1 /\ Head(queue[p]) = queue[p][1]
      /\ Head(queue[p]) \in GossipMessage
      /\ Tail(queue[p]) \in Seq(GossipMessage) /\ Len(Tail(queue[p])) = Len(queue[p]) - 1
      /\ \A i \in 1..Len(Tail(queue[p])) : Tail(queue[p])[i] = queue[p][i + 1]
  BY <1>3, <1>4
<1>6. queue'[p] = Tail(queue[p]) /\ \A q \in Peers \ {p} : queue'[q] = queue[q]
  BY <1>3, <1>4
<1>7. /\ queue' \in [Peers -> Seq(GossipMessage)]
      /\ \A q \in Peers : Len(queue'[q]) <= QueueSize
  BY <1>3, <1>4, <1>5, <1>6, FederationConstants
<1>8. \A q \in Peers : \A i \in 1..Len(queue'[q]) :
          \E j \in 1..Len(queue[q]) : queue'[q][i] = queue[q][j]
  <2> SUFFICES ASSUME NEW q \in Peers, NEW i \in 1..Len(queue'[q])
               PROVE  \E j \in 1..Len(queue[q]) : queue'[q][i] = queue[q][j]
    OBVIOUS
  <2>1. CASE q = p
    <3>1. i \in 1..(Len(queue[p]) - 1) /\ queue'[p][i] = Tail(queue[p])[i]
      BY <1>5, <1>6, <2>1
    <3>2. i + 1 \in 1..Len(queue[p])
      BY <1>5, <3>1
    <3> QED BY <1>5, <2>1, <3>1, <3>2
  <2>2. CASE q # p
    BY <1>6, <2>2
  <2> QED BY <2>1, <2>2
<1>9. \A g \in gossip' : g \in gossip \/ (g.to \in Peers \ {p} /\ g.msg = queue[p][1])
  BY <1>2, <1>4, <1>5
<1>10. gossip' \subseteq [to : Peers, msg : GossipMessage]
  <2>1. \A q \in T : [to |-> q, msg |-> Head(queue[p])] \in [to : Peers, msg : GossipMessage]
    BY <1>4, <1>5
  <2> QED BY <1>2, <1>4, <2>1
<1>11. FedTypeOK'
  BY <1>1, <1>3, <1>7, <1>10 DEF FedTypeOK
<1>12. GossipIsFromOthers'
  <2>1. 1 \in 1..Len(queue[p])
    BY <1>5
  <2> QED BY <1>1, <1>8, <1>9, <2>1 DEF GossipIsFromOthers
<1>13. ASSUME NEW s \in FedServices, NEW r \in FederatedService, Held(s, r)'
       PROVE  Held(s, r)
  <2>1. 1 \in 1..Len(queue[p])
    BY <1>5
  <2>2. CASE \E q \in Peers : \E i \in 1..Len(queue'[q]) :
                 queue'[q][i].service = s /\ queue'[q][i].record = r
    BY <1>8, <1>13, <2>2 DEF Held
  <2>3. CASE \E g \in gossip' : g.msg.service = s /\ g.msg.record = r
    BY <1>9, <1>13, <2>1, <2>3 DEF Held
  <2> QED BY <1>3, <1>13, <2>2, <2>3 DEF Held
<1> QED BY <1>3, <1>11, <1>12, <1>13, MovingIsSound DEF HostsKeepTheirOwn

(* Membership: a removed peer's services may go, and p is no peer of its    *)
(* own.                                                                     *)
LEMMA MembershipIsSound ==
    ASSUME FedIInv, NEW p \in Peers, NEW q \in Peers,
           \/ NotifyJoin(p, q) \/ NotifyLeave(p, q)
           \/ HandleRemovePeer(p, q) \/ CheckPeerHealth(p, q)
    PROVE  FedIInv' /\ HostsKeepTheirOwn
<1>1. FedTypeOK /\ GossipIsFromOthers /\ HostsMakeVersions
  BY DEF FedIInv
<1>2. /\ known \in [Peers -> SUBSET Peers] /\ saved \in [Peers -> SUBSET Peers]
      /\ members \in [Peers -> SUBSET Peers] /\ cat \in [Peers -> Catalog]
      /\ \A t \in Peers : p \notin known[p] \cup saved[p] \cup members[p]
  BY <1>1 DEF FedTypeOK
<1>3. UNCHANGED <<vc, queue, gossip, exchange, apps, writes, wrote, restarted>>
  BY DEF NotifyJoin, NotifyLeave, HandleRemovePeer, CheckPeerHealth, RemovePeer,
         clocks, network, local
<1>4. /\ cat' \in [Peers -> Catalog]
      /\ \A t \in Peers, s \in FedServices :
            \/ cat'[t][s] = cat[t][s]
            \/ t = p /\ cat'[t][s] = NoRecord /\ cat[t][s] # NoRecord /\ cat[t][s].origin # p
  <2>1. CASE UNCHANGED cat
    BY <1>2, <2>1
  <2>2. CASE RemovePeer(p, q) /\ ~UNCHANGED cat
    <3>1. q # p
      BY <1>2, <2>2 DEF RemovePeer
    <3> DEFINE kept == [s \in FedServices |->
                  IF cat[p][s] # NoRecord /\ cat[p][s].origin = q THEN NoRecord ELSE cat[p][s]]
    <3>2. kept \in Catalog
      BY <1>2 DEF Catalog
    <3>3. cat' = [cat EXCEPT ![p] = kept]
      BY <2>2 DEF RemovePeer
    <3>4. \A s \in FedServices :
             \/ kept[s] = cat[p][s]
             \/ kept[s] = NoRecord /\ cat[p][s] # NoRecord /\ cat[p][s].origin # p
      BY <3>1
    <3> HIDE DEF kept
    <3>5. cat'[p] = kept /\ \A t \in Peers \ {p} : cat'[t] = cat[t]
      BY <1>2, <3>3
    <3> QED BY <1>2, <3>2, <3>3, <3>4, <3>5
  <2> QED BY <2>1, <2>2
  DEF NotifyJoin, NotifyLeave, HandleRemovePeer, CheckPeerHealth, clocks
<1>5. /\ known' \in [Peers -> SUBSET Peers] /\ saved' \in [Peers -> SUBSET Peers]
      /\ members' \in [Peers -> SUBSET Peers]
      /\ \A t \in Peers : t \notin known'[t] \cup saved'[t] \cup members'[t]
  <2>1. \A t \in Peers : t \notin known[t] \cup saved[t] \cup members[t]
    BY <1>1 DEF FedTypeOK
  <2>2. CASE NotifyJoin(p, q)
    BY <1>2, <2>1, <2>2 DEF NotifyJoin, AddPeer
  <2>3. CASE NotifyLeave(p, q) \/ HandleRemovePeer(p, q)
    BY <1>2, <2>1, <2>3 DEF NotifyLeave, HandleRemovePeer, RemovePeer
  <2>4. CASE CheckPeerHealth(p, q)
    <3>1. /\ q # p /\ UNCHANGED <<saved, members>>
          /\ known' = [known EXCEPT ![p] = known[p] \cup {q}]
      BY <1>2, <2>4 DEF CheckPeerHealth
    <3> QED BY <1>2, <2>1, <3>1
  <2> QED BY <2>2, <2>3, <2>4
<1>6. FedTypeOK'
  BY <1>1, <1>3, <1>4, <1>5 DEF FedTypeOK
<1>7. GossipIsFromOthers'
  BY <1>1, <1>3 DEF GossipIsFromOthers
<1>8. ASSUME NEW s \in FedServices, NEW r \in FederatedService, Held(s, r)'
      PROVE  Held(s, r)
  <2>1. CASE \E t \in Peers : cat'[t][s] = r
    BY <1>4, <1>8, <2>1 DEF Held
  <2> QED BY <1>3, <1>8, <2>1 DEF Held
<1>9. FedIInv'
  BY <1>3, <1>4, <1>6, <1>7, <1>8, MovingIsSound
<1>10. ASSUME NEW t \in Peers, NEW s \in FedServices, Hosts[s] = {t}
       PROVE  cat'[t][s] = cat[t][s]
  <2>1. ASSUME t = p, cat[p][s] # NoRecord PROVE cat[p][s].origin = p
    <3>1. cat[p][s] \in Versions(s)
      BY <1>2, <2>1 DEF Versions, Held, Catalog
    <3> QED BY <1>1, <1>10, <2>1, <3>1 DEF HostsMakeVersions
  <2> QED BY <1>4, <2>1
<1> QED BY <1>9, <1>10 DEF HostsKeepTheirOwn

(* A restart costs the peer its clock, and it is then one that restarted. *)
LEMMA RestartIsSound ==
    ASSUME FedIInv, NEW p \in Peers, Restart(p)
    PROVE  FedIInv' /\ HostsKeepTheirOwn
<1>1. FedTypeOK /\ ClocksAreBounded /\ GossipIsFromOthers /\ OwnersLead /\ ClockCoversCatalog
  BY DEF FedIInv
<1>2. /\ Len(restarted) < MaxRestarts /\ restarted' = Append(restarted, p)
      /\ vc' = [vc EXCEPT ![p] = ZeroClock] /\ queue' = [queue EXCEPT ![p] = <<>>]
      /\ exchange' = [qr \in Peers \X Peers |-> IF qr[2] = p THEN NoRecord ELSE exchange[qr]]
      /\ UNCHANGED <<cat, gossip, apps, writes, wrote>>
  BY DEF Restart, local
<1>3. /\ vc \in [Peers -> Clock] /\ queue \in [Peers -> Seq(GossipMessage)]
      /\ exchange \in [Peers \X Peers -> Catalog \cup {NoRecord}]
      /\ restarted \in Seq(Peers) /\ writes \in Nat
      /\ \A q \in Peers : Len(queue[q]) <= QueueSize
  BY <1>1, FederationConstants DEF FedTypeOK
<1>4. /\ \A q \in Peers \ {p} : vc'[q] = vc[q] /\ queue'[q] = queue[q]
      /\ \A q \in Peers : vc'[p][q] = 0
      /\ queue'[p] = <<>>
      /\ \A q, t \in Peers :
            exchange'[<<q, t>>] = exchange[<<q, t>>] \/ exchange'[<<q, t>>] = NoRecord
  BY <1>2, <1>3 DEF ZeroClock
<1>5. /\ vc' \in [Peers -> Clock] /\ queue' \in [Peers -> Seq(GossipMessage)]
      /\ exchange' \in [Peers \X Peers -> Catalog \cup {NoRecord}]
      /\ \A q \in Peers : Len(queue'[q]) <= QueueSize
  <2>1. ZeroClock \in Clock
    BY FederationConstants DEF ZeroClock, Clock
  <2>2. <<>> \in Seq(GossipMessage) /\ Len(<<>>) <= QueueSize
    BY FederationConstants
  <2> QED BY <1>2, <1>3, <1>4, <2>1, <2>2
<1>6. /\ restarted' \in Seq(Peers) /\ Len(restarted') <= MaxRestarts
      /\ Len(restarted') = Len(restarted) + 1 /\ restarted'[Len(restarted) + 1] = p
      /\ \A i \in 1..Len(restarted) : restarted'[i] = restarted[i]
  <2>1. Len(restarted) \in Nat /\ MaxRestarts \in Nat
    BY <1>3, FederationConstants
  <2>2. Len(restarted') = Len(restarted) + 1
    BY <1>2, <1>3
  <2> QED BY <1>2, <1>3, <2>1, <2>2
<1>7. HasRestarted(p)' /\ \A o \in Peers : HasRestarted(o) => HasRestarted(o)'
  <2>1. Len(restarted) \in Nat /\ Len(restarted') = Len(restarted) + 1
    BY <1>3, <1>6
  <2>2. HasRestarted(p)'
    <3>1. Len(restarted) + 1 \in 1..Len(restarted')
      BY <2>1
    <3> QED BY <1>6, <3>1 DEF HasRestarted
  <2>3. ASSUME NEW o \in Peers, HasRestarted(o) PROVE HasRestarted(o)'
    <3>1. PICK i \in 1..Len(restarted) : restarted[i] = o
      BY <2>3 DEF HasRestarted
    <3>2. i \in 1..Len(restarted') /\ restarted'[i] = o
      BY <1>6, <2>1, <3>1
    <3> QED BY <3>2 DEF HasRestarted
  <2> QED BY <2>2, <2>3
<1>8. FedTypeOK'
  <2>1. /\ known' = [known EXCEPT ![p] = Peers \ {p}]
        /\ saved' = [saved EXCEPT ![p] = Peers \ {p}]
        /\ members' = [members EXCEPT ![p] = Peers \ {p}]
    BY DEF Restart
  <2>2. /\ known' \in [Peers -> SUBSET Peers] /\ saved' \in [Peers -> SUBSET Peers]
        /\ members' \in [Peers -> SUBSET Peers]
        /\ \A t \in Peers : t \notin known'[t] \cup saved'[t] \cup members'[t]
    BY <1>1, <2>1 DEF FedTypeOK
  <2> QED BY <1>1, <1>2, <1>5, <1>6, <2>2 DEF FedTypeOK
<1>9. \A q \in Peers : \A i \in 1..Len(queue'[q]) :
          i \in 1..Len(queue[q]) /\ queue'[q][i] = queue[q][i]
  <2>1. Len(queue'[p]) = 0
    BY <1>4
  <2> QED BY <1>4, <2>1
<1>10. GossipIsFromOthers'
  BY <1>1, <1>2, <1>9 DEF GossipIsFromOthers
<1>11. \A s \in FedServices : \A r \in Versions(s)' : r \in Versions(s)
  <2> SUFFICES ASSUME NEW s \in FedServices, NEW r \in FederatedService, Held(s, r)'
               PROVE  Held(s, r)
    BY DEF Versions
  <2>1. CASE \E q, t \in Peers : exchange'[<<q, t>>] # NoRecord /\ exchange'[<<q, t>>][s] = r
    BY <1>4, <2>1 DEF Held
  <2>2. CASE \E q \in Peers : \E i \in 1..Len(queue'[q]) :
                 queue'[q][i].service = s /\ queue'[q][i].record = r
    BY <1>9, <2>2 DEF Held
  <2> QED BY <1>2, <2>1, <2>2 DEF Held
<1>12. ASSUME NEW q \in Peers, NEW t \in Peers
       PROVE  vc'[q][t] <= writes
  <2>1. CASE q = p
    BY <1>3, <1>4, <2>1
  <2>2. CASE q # p
    BY <1>1, <1>4, <2>2 DEF ClocksAreBounded
  <2> QED BY <2>1, <2>2
<1>13. ASSUME NEW o \in Peers, ~HasRestarted(o)'
       PROVE  vc'[o][o] = vc[o][o] /\ \A q \in Peers : vc'[q][o] <= vc[o][o]
  <2>1. o # p /\ ~HasRestarted(o)
    BY <1>7, <1>13
  <2>2. vc[o][o] \in Nat /\ \A q \in Peers : vc[q][o] <= vc[o][o]
    BY <1>1, <1>3, <2>1 DEF OwnersLead, Clock
  <2> QED BY <1>4, <2>1, <2>2
<1>14. ClocksAreBounded' /\ HostsMakeVersions' /\ OwnersLead' /\ CountsIdentifyVersions'
  BY <1>2, <1>7, <1>11, <1>12, <1>13, NothingNew
<1>15. ClockCoversCatalog'
  BY <1>1, <1>2, <1>4, <1>7 DEF ClockCoversCatalog
<1> QED BY <1>2, <1>8, <1>10, <1>14, <1>15 DEF FedIInv, HostsKeepTheirOwn

(* A registration or a removal is a change of a host. *)
LEMMA LocalChangesAreSound ==
    ASSUME FedIInv, NEW p \in Peers, Change(p)
    PROVE  FedIInv' /\ writes' # writes
<1>1. PICK s \in FedServices : OnLocalServiceAdded(p, s) \/ OnLocalServiceDeleted(p, s)
  BY DEF Change
<1>2. /\ writes \in Nat /\ MaxWrites \in Nat /\ cat \in [Peers -> Catalog]
      /\ apps \in [Peers -> SUBSET FedServices]
  BY FederationConstants DEF FedIInv, FedTypeOK
<1>3. LocalChange(p, s) /\ writes' = writes + 1 /\ writes < MaxWrites
  BY <1>1 DEF OnLocalServiceAdded, OnLocalServiceDeleted, LocalChange
<1>4. apps' \in [Peers -> SUBSET FedServices]
  BY <1>1, <1>2 DEF OnLocalServiceAdded, OnLocalServiceDeleted
<1>5. CASE OnLocalServiceAdded(p, s)
  <2> DEFINE record == [origin |-> p, app |-> writes + 1, clock |-> Increment(vc[p], p),
                        tombstone |-> FALSE]
  <2>1. record \in [origin : {p}, app : 0..MaxWrites, clock : {Increment(vc[p], p)},
                    tombstone : BOOLEAN]
    BY <1>2, <1>3
  <2>2. /\ wrote' = [wrote EXCEPT ![p][s] = record]
        /\ Save(p, s, record) /\ Broadcast(p, s, record)
    BY <1>5 DEF OnLocalServiceAdded
  <2> HIDE DEF record
  <2>3. record \in {record, [record EXCEPT !.app = NoApp, !.tombstone = FALSE]}
    OBVIOUS
  <2>4. FedIInv'
    BY <1>3, <1>4, <2>1, <2>2, <2>3, ChangeIsSound
  <2> QED BY <1>2, <1>3, <2>4
<1>6. CASE OnLocalServiceDeleted(p, s)
  <2> DEFINE record == [origin |-> p,
                        app |-> IF cat[p][s] = NoRecord THEN NoApp ELSE cat[p][s].app,
                        clock |-> Increment(vc[p], p), tombstone |-> TRUE]
             sent == [record EXCEPT !.app = NoApp, !.tombstone = FALSE]
  <2>1. record \in [origin : {p}, app : 0..MaxWrites, clock : {Increment(vc[p], p)},
                    tombstone : BOOLEAN]
    BY <1>2 DEF Catalog, FederatedService, NoApp
  <2>2. /\ wrote' = [wrote EXCEPT ![p][s] = record]
        /\ Save(p, s, record) /\ Broadcast(p, s, sent)
    BY <1>6 DEF OnLocalServiceDeleted
  <2>3. sent \in {record, [record EXCEPT !.app = NoApp, !.tombstone = FALSE]}
    OBVIOUS
  <2> HIDE DEF record, sent
  <2>4. FedIInv'
    BY <1>3, <1>4, <2>1, <2>2, <2>3, ChangeIsSound
  <2> QED BY <1>2, <1>3, <2>4
<1> QED BY <1>1, <1>5, <1>6

-----------------------------------------------------------------------------
(* The theorems *)

(* Nothing is held at the start. *)
LEMMA FedIInvAtStart == FedInit => FedIInv
<1> SUFFICES ASSUME FedInit PROVE FedIInv
  OBVIOUS
<1>1. \A p \in Peers, s \in FedServices : cat[p][s] = NoRecord
  BY DEF FedInit, EmptyCatalog
<1>2. \A s \in FedServices : Versions(s) = {}
  <2> SUFFICES ASSUME NEW s \in FedServices, NEW r \in FederatedService, Held(s, r)
               PROVE  FALSE
    BY DEF Versions
  <2>1. \A p \in Peers : queue[p] = <<>> /\ Len(queue[p]) = 0
    BY DEF FedInit
  <2>2. \A p \in Peers : \A i \in 1..Len(queue[p]) : FALSE
    BY <2>1
  <2>3. \A p, q \in Peers : exchange[<<p, q>>] = NoRecord
    BY DEF FedInit
  <2>4. gossip = {}
    BY DEF FedInit
  <2>5. r # NoRecord
    BY DEF Held
  <2>6. ~ \E p \in Peers : cat[p][s] = r
    BY <1>1, <2>5
  <2>7. ~ \E p \in Peers : \E i \in 1..Len(queue[p]) :
               queue[p][i].service = s /\ queue[p][i].record = r
    BY <2>2
  <2> QED BY <2>3, <2>4, <2>6, <2>7 DEF Held
<1>3. FedTypeOK
  <2>1. ZeroClock \in Clock /\ EmptyCatalog \in Catalog
    BY FederationConstants DEF ZeroClock, Clock, EmptyCatalog, Catalog
  <2>2. \A p \in Peers : queue[p] = <<>> /\ Len(queue[p]) = 0
    BY DEF FedInit
  <2>3. restarted \in Seq(Peers) /\ Len(restarted) <= MaxRestarts
    BY FederationConstants DEF FedInit
  <2> QED BY <2>1, <2>2, <2>3, FederationConstants DEF FedInit, FedTypeOK
<1>4. ClocksAreBounded /\ OwnersLead
  BY <1>2 DEF FedInit, ZeroClock, ClocksAreBounded, OwnersLead
<1>5. HostsMakeVersions /\ CountsIdentifyVersions
  BY <1>2 DEF HostsMakeVersions, CountsIdentifyVersions
<1>6. GossipIsFromOthers
  BY DEF FedInit, GossipIsFromOthers
<1>7. ClockCoversCatalog
  BY <1>1 DEF ClockCoversCatalog
<1> QED BY <1>3, <1>4, <1>5, <1>6, <1>7 DEF FedIInv

(* Every step keeps the invariant, and none but a change of the host itself *)
(* touches the host's own services.                                         *)
LEMMA FedIInvInductive ==
    FedIInv /\ [FedNext]_fedVars => FedIInv' /\ (HostsKeepTheirOwn \/ writes' # writes)
<1> SUFFICES ASSUME FedIInv, [FedNext]_fedVars
             PROVE  FedIInv' /\ (HostsKeepTheirOwn \/ writes' # writes)
  OBVIOUS
<1>1. CASE UNCHANGED fedVars
  <2>1. UNCHANGED <<vc, cat, queue, gossip, exchange, apps, writes, wrote, known, saved, members,
                    restarted>>
    BY <1>1 DEF fedVars, clocks, network, local, membership
  <2>2. FedTypeOK'
    BY <2>1 DEF FedIInv, FedTypeOK
  <2>3. GossipIsFromOthers'
    BY <2>1 DEF FedIInv, GossipIsFromOthers
  <2>4. \A s \in FedServices : \A r \in FederatedService : Held(s, r)' => Held(s, r)
    BY <2>1 DEF Held
  <2> QED BY <2>1, <2>2, <2>3, <2>4, MovingIsSound DEF HostsKeepTheirOwn
<1>2. CASE FedNext
  <2>1. PICK p \in Peers : Sync(p) \/ Change(p) \/ Membership(p) \/ Restart(p)
    BY <1>2 DEF FedNext
  <2>2. CASE Sync(p)
    <3>1. CASE \E g \in gossip : NotifyMsg(p, g)
      BY <3>1, NotifyMsgIsSound
    <3>2. CASE GetBroadcasts(p)
      BY <3>2, GetBroadcastsIsSound
    <3>3. CASE \E q \in Peers : LocalState(p, q) \/ MergeRemoteState(p, q) \/ LoseExchange(p, q)
      BY <3>3, LocalStateIsSound, MergeRemoteStateIsSound, LoseExchangeIsSound
    <3> QED BY <2>2, <3>1, <3>2, <3>3 DEF Sync
  <2>3. CASE Change(p)
    BY <2>3, LocalChangesAreSound
  <2>4. CASE Membership(p)
    BY <2>4, MembershipIsSound DEF Membership
  <2>5. CASE Restart(p)
    BY <2>5, RestartIsSound
  <2> QED BY <2>1, <2>2, <2>3, <2>4, <2>5
<1> QED BY <1>1, <1>2

(* What the catalogs hold is held. *)
LEMMA FedIInvImpliesSound == FedIInv => ClocksAreSound
<1> SUFFICES ASSUME FedIInv,
                    NEW s \in FedServices, NEW a \in Records(s), NEW b \in Records(s),
                    a.origin = b.origin, a.clock = b.clock, ~HasRestarted(a.origin)
             PROVE  a = b \/ a.tombstone \/ b.tombstone \/ NoApp \in {a.app, b.app}
  BY DEF FedIInv, ClocksAreSound, ClockIdentifiesVersion
<1>1. \A r \in Records(s) : r \in Versions(s)
  BY DEF FedIInv, FedTypeOK, Catalog, Records, Versions, Held
<1> QED BY <1>1 DEF FedIInv, CountsIdentifyVersions

(* The type invariant of the federated catalog. *)
THEOREM FederationTypeCorrect == FedSpec => []FedTypeOK
<1>1. FedIInv /\ [FedNext]_fedVars => FedIInv'
  BY FedIInvInductive
<1>2. FedIInv => FedTypeOK
  BY DEF FedIInv
<1> QED BY <1>1, <1>2, FedIInvAtStart, PTL DEF FedSpec

(* As long as a peer runs its vector clock covers every record of its       *)
(* catalog, and a clock names one version of a service wherever it is kept, *)
(* for any number of peers, however records travel and are lost, and        *)
(* whatever ResolveConflict decides.                                        *)
THEOREM ClocksAreSoundHolds == FedSpec => []ClocksAreSound
<1>1. FedIInv /\ [FedNext]_fedVars => FedIInv'
  BY FedIInvInductive
<1> QED BY <1>1, FedIInvAtStart, FedIInvImpliesSound, PTL DEF FedSpec

(* Nothing but a change of its own makes the only host of a service change  *)
(* its record of it.                                                        *)
THEOREM OwnerDecidesHolds == FedSpec => OwnerDecides
<1>1. FedIInv /\ [FedNext]_fedVars => FedIInv'
  BY FedIInvInductive
<1>2. FedIInv /\ [FedNext]_fedVars =>
          [\A p \in Peers, s \in FedServices :
              Hosts[s] = {p} /\ cat'[p][s] # cat[p][s] => writes' # writes]_fedVars
  BY FedIInvInductive DEF HostsKeepTheirOwn
<1> QED BY <1>1, <1>2, FedIInvAtStart, PTL DEF FedSpec, OwnerDecides

-----------------------------------------------------------------------------
(* Newer records win, where the code compares them *)

(* A record of the service s that may replace p's by the documents' rule. *)
MayReplace(p, s, there) ==
    cat[p][s].origin = p \/ cat[p][s].origin # there.origin
        => ~Before(there.clock, cat[p][s].clock)

(* No two clocks are each before the other. *)
LEMMA BeforeIsStrict ==
    ASSUME NEW a \in Clock, NEW b \in Clock
    PROVE  ~(Before(a, b) /\ Before(b, a)) /\ ~Before(a, a)
<1> SUFFICES ASSUME \A q \in Peers : a[q] <= b[q] /\ b[q] <= a[q]
             PROVE  a = b
  BY DEF Before
<1>1. \A q \in Peers : a[q] \in Nat /\ b[q] \in Nat
  BY FederationConstants DEF Clock
<1>2. \A q \in Peers : a[q] = b[q]
  BY <1>1
<1> QED BY <1>2 DEF Clock

(* What ResolveConflict lets win was not before what it replaces, but for a *)
(* record of the same other origin.                                         *)
LEMMA ResolvedMayReplace ==
    ASSUME FedTypeOK, NEW p \in Peers, NEW s \in FedServices, cat[p][s] # NoRecord,
           NEW there \in FederatedService, there \in ResolveConflict(cat[p][s], there, p)
    PROVE  MayReplace(p, s, there)
<1>1. cat[p][s] \in FederatedService
  BY DEF FedTypeOK, Catalog
<1>2. cat[p][s].clock \in Clock /\ there.clock \in Clock
  BY <1>1 DEF FederatedService
<1>3. SUFFICES ASSUME cat[p][s].origin = p \/ cat[p][s].origin # there.origin,
                      Before(there.clock, cat[p][s].clock)
               PROVE  FALSE
  BY DEF MayReplace
<1>4. there \in ResolveByVectorClock(cat[p][s], there)
  BY <1>3 DEF ResolveConflict
<1>5. ~Before(cat[p][s].clock, there.clock)
  BY <1>2, <1>3, BeforeIsStrict
<1>6. there = cat[p][s]
  BY <1>3, <1>4, <1>5 DEF ResolveByVectorClock
<1> QED BY <1>2, <1>3, <1>6, BeforeIsStrict

(* What a peer accepts, from gossip or from an exchange, was resolved. *)
LEMMA AcceptedMayReplace ==
    ASSUME FedTypeOK, NEW p \in Peers, NEW offered \in Catalog, Accept(p, offered),
           NEW q \in Peers, NEW s \in FedServices, cat[q][s] # NoRecord,
           cat'[q][s] # cat[q][s], cat'[q][s] # NoRecord
    PROVE  MayReplace(q, s, cat'[q][s])
<1>1. PICK S \in SUBSET FedServices :
         /\ \A t \in S : offered[t] # NoRecord
                         /\ offered[t] \in ResolveConflict(cat[p][t], offered[t], p)
         /\ cat' = [cat EXCEPT ![p] = [t \in FedServices |->
                        IF t \in S THEN offered[t] ELSE cat[p][t]]]
  BY DEF Accept
<1>2. q = p /\ s \in S /\ cat'[p][s] = offered[s]
  BY <1>1 DEF FedTypeOK
<1>3. offered[s] \in FederatedService
  BY <1>1, <1>2 DEF Catalog
<1> QED BY <1>1, <1>2, <1>3, ResolvedMayReplace

(* A peer that did not restart writes a record with a clock that was before *)
(* none of its catalog.                                                     *)
LEMMA WrittenMayReplace ==
    ASSUME FedIInv, NEW p \in Peers, NEW t \in FedServices,
           NEW record \in [origin : {p}, app : 0..MaxWrites,
                           clock : {Increment(vc[p], p)}, tombstone : BOOLEAN],
           Save(p, t, record), ~HasRestarted(p),
           NEW s \in FedServices, cat[p][s] # NoRecord, cat'[p][s] # cat[p][s]
    PROVE  ~Before(cat'[p][s].clock, cat[p][s].clock)
<1>1. s = t /\ cat'[p][s] = record
  BY DEF Save, FedIInv, FedTypeOK, Catalog
<1>2. cat[p][s].clock[p] <= vc[p][p] /\ vc[p][p] \in Nat /\ cat[p][s].clock[p] \in Nat
  BY FederationConstants
  DEF FedIInv, ClockCoversCatalog, FedTypeOK, Catalog, FederatedService, Clock
<1>3. record.clock[p] = vc[p][p] + 1
  BY DEF Increment, FedIInv, FedTypeOK, Clock
<1>4. ~(record.clock[p] <= cat[p][s].clock[p])
  BY <1>2, <1>3
<1> QED BY <1>1, <1>4 DEF Before

(* Every step that replaces a record accepts one that is offered or saves   *)
(* one of the peer's own.                                                   *)
LEMMA StepNewerWins == FedIInv /\ [FedNext]_fedVars => NewerWinsStep
<1> SUFFICES ASSUME FedIInv, [FedNext]_fedVars PROVE NewerWinsStep
  OBVIOUS
<1>1. SUFFICES ASSUME NEW q \in Peers, NEW s \in FedServices,
                      cat[q][s] # NoRecord, cat'[q][s] # NoRecord,
                      cat[q][s].origin = q \/ cat[q][s].origin # cat'[q][s].origin,
                      writes' = writes \/ ~HasRestarted(q)
               PROVE  ~Before(cat'[q][s].clock, cat[q][s].clock)
  BY DEF NewerWinsStep
<1>2. cat[q][s] \in FederatedService /\ cat[q][s].clock \in Clock
  BY <1>1 DEF FedIInv, FedTypeOK, Catalog, FederatedService
<1>3. CASE cat'[q][s] = cat[q][s]
  BY <1>2, <1>3, BeforeIsStrict
<1>4. ASSUME NEW p \in Peers, NEW offered \in Catalog, Accept(p, offered)
      PROVE  ~Before(cat'[q][s].clock, cat[q][s].clock)
  BY <1>1, <1>3, <1>4, AcceptedMayReplace DEF FedIInv, MayReplace
<1>5. ASSUME NEW p \in Peers, NEW g \in gossip, NotifyMsg(p, g)
      PROVE  ~Before(cat'[q][s].clock, cat[q][s].clock)
  <2> DEFINE offered == [EmptyCatalog EXCEPT ![g.msg.service] = g.msg.record]
  <2>1. g.msg.service \in FedServices /\ g.msg.record \in FederatedService
    BY DEF FedIInv, FedTypeOK, GossipMessage
  <2>2. offered \in Catalog
    BY <2>1 DEF EmptyCatalog, Catalog
  <2>3. Accept(p, offered)
    BY <1>5 DEF NotifyMsg
  <2> HIDE DEF offered
  <2> QED BY <1>4, <2>2, <2>3
<1>6. ASSUME NEW p \in Peers, NEW r \in Peers, MergeRemoteState(p, r)
      PROVE  ~Before(cat'[q][s].clock, cat[q][s].clock)
  <2> DEFINE catalog == exchange[<<r, p>>]
             offered == [t \in FedServices |->
                           IF catalog[t] # NoRecord /\ catalog[t].origin # p
                           THEN catalog[t] ELSE NoRecord]
  <2>1. catalog \in Catalog
    BY <1>6 DEF MergeRemoteState, FedIInv, FedTypeOK
  <2>2. offered \in Catalog
    BY <2>1 DEF Catalog
  <2>3. Accept(p, offered)
    BY <1>6 DEF MergeRemoteState, MergeRemoteServices
  <2> HIDE DEF offered
  <2> QED BY <1>4, <2>2, <2>3
<1>7. ASSUME NEW p \in Peers, Change(p)
      PROVE  ~Before(cat'[q][s].clock, cat[q][s].clock)
  <2>1. writes' # writes
    BY <1>7, LocalChangesAreSound
  <2>2. PICK t \in FedServices : OnLocalServiceAdded(p, t) \/ OnLocalServiceDeleted(p, t)
    BY <1>7 DEF Change
  <2>3. CASE q # p
    <3>1. cat'[q] = cat[q]
      BY <2>2, <2>3 DEF OnLocalServiceAdded, OnLocalServiceDeleted, Save, FedIInv, FedTypeOK
    <3> QED BY <1>3, <3>1
  <2>4. CASE q = p
    <3>1. writes + 1 \in 0..MaxWrites
      BY <2>2, FederationConstants
      DEF OnLocalServiceAdded, OnLocalServiceDeleted, LocalChange, FedIInv, FedTypeOK
    <3>2. PICK record \in [origin : {p}, app : 0..MaxWrites,
                           clock : {Increment(vc[p], p)}, tombstone : BOOLEAN] :
             Save(p, t, record)
      <4>1. CASE OnLocalServiceAdded(p, t)
        BY <3>1, <4>1 DEF OnLocalServiceAdded
      <4>2. CASE OnLocalServiceDeleted(p, t)
        <5>1. cat[p][t] # NoRecord => cat[p][t].app \in 0..MaxWrites
          BY DEF FedIInv, FedTypeOK, Catalog, FederatedService
        <5>2. NoApp \in 0..MaxWrites
          BY FederationConstants DEF NoApp
        <5> QED BY <4>2, <5>1, <5>2 DEF OnLocalServiceDeleted
      <4> QED BY <2>2, <4>1, <4>2
    <3> QED BY <1>1, <1>3, <2>1, <2>4, <3>2, WrittenMayReplace
  <2> QED BY <2>3, <2>4
<1>8. ASSUME NEW p \in Peers, Membership(p)
      PROVE  ~Before(cat'[q][s].clock, cat[q][s].clock)
  <2>1. cat'[q][s] \in {cat[q][s], NoRecord}
    BY <1>8 DEF Membership, NotifyJoin, NotifyLeave, HandleRemovePeer, CheckPeerHealth,
                RemovePeer, clocks, FedIInv, FedTypeOK, Catalog
  <2> QED BY <1>1, <1>3, <2>1
<1>9. ASSUME NEW p \in Peers, NEW r \in Peers,
             GetBroadcasts(p) \/ LocalState(p, r) \/ LoseExchange(p, r) \/ Restart(p)
      PROVE  ~Before(cat'[q][s].clock, cat[q][s].clock)
  BY <1>3, <1>9 DEF GetBroadcasts, LocalState, LoseExchange, Restart, clocks
<1> QED
  BY <1>3, <1>5, <1>6, <1>7, <1>8, <1>9 DEF FedNext, Sync, fedVars, clocks

(* "If clock A happened-before clock B, B wins": so it is in every          *)
(* instance, unless the record came from elsewhere and is replaced by one   *)
(* of the same origin (ResolveConflict does not compare those), or a peer   *)
(* writes after a restart has reset its clock.                              *)
THEOREM NewerWinsOtherwiseHolds == FedSpec => NewerWinsOtherwise
<1>1. FedIInv /\ [FedNext]_fedVars => FedIInv'
  BY FedIInvInductive
<1>2. FedIInv /\ [FedNext]_fedVars => [NewerWinsStep]_fedVars
  BY StepNewerWins
<1> QED BY <1>1, <1>2, FedIInvAtStart, PTL DEF FedSpec, NewerWinsOtherwise
=============================================================================
