--------------------------- MODULE PlatformProofs ---------------------------
(* Proofs about the parts an instance is made of: the hub of WebSocket        *)
(* connections, the toolbox, the container handlers, the reverse proxy and    *)
(* the hot reload of the configuration, for any number of clients, topics,    *)
(* deployments, containers, requests, routes and writes of the file; and      *)
(* about their composition.                                                   *)
EXTENDS MCPlatform, FederationProofs, SequenceTheorems, FiniteSetTheorems, TLAPS

-----------------------------------------------------------------------------
(* The WebSocket hub: the inductive invariant *)

(* A connection that is not registered yet is in neither index. *)
NewcomersAreUnknown ==
    \A c \in Conns : pc[c] \in {"none", "authenticated"} =>
        c \notin clients \cup closed \cup Elements(byDevice[DeviceOf[c]])

(* What clientsByDevice lists in excess was removed by DisconnectDevice. *)
ExcessWasKicked ==
    /\ kicked \subseteq closed
    /\ \A d \in Devices : Elements(byDevice[d]) \subseteq clients \cup kicked

(* A registered connection stays so until its own handler removes it, or    *)
(* DisconnectDevice does.                                                   *)
HandlersAreRegistered ==
    \A c \in Conns : pc[c] \in {"announceOnline", "hello", "open", "leaving"} =>
        c \in clients \cup kicked

HubIInv ==
    /\ TypeOK /\ \A c \in Conns : IsFiniteSet(subs[c])
    /\ IndexesAgree /\ NewcomersAreUnknown /\ ExcessWasKicked /\ HandlersAreRegistered
    /\ OfflineAnnounced

(* Removing a client from a list that holds it once leaves the others.      *)
LEMMA WithoutFacts ==
    ASSUME NEW S, NEW list \in Seq(S), NEW c \in Elements(list),
           \A i, j \in 1..Len(list) : list[i] = list[j] => i = j
    PROVE  /\ Without(list, c) \in Seq(S)
           /\ Elements(Without(list, c)) = Elements(list) \ {c}
           /\ \A i, j \in 1..Len(Without(list, c)) :
                 Without(list, c)[i] = Without(list, c)[j] => i = j
           /\ Without(list, c) = <<>> => Elements(list) = {c}
<1> DEFINE at == CHOOSE j \in 1..Len(list) : list[j] = c
           front == SubSeq(list, 1, at - 1)
           back == SubSeq(list, at + 1, Len(list))
           rest == Without(list, c)
<1>1. at \in 1..Len(list) /\ list[at] = c /\ Len(list) \in Nat
  BY DEF Elements
<1>2. rest = front \o back
  BY DEF Without
<1> HIDE DEF at
<1>3. /\ front \in Seq(S) /\ Len(front) = at - 1
      /\ \A i \in 1..(at - 1) : front[i] = list[i]
  <2>1. \A i \in 1..(at - 1) : list[i] \in S
    BY <1>1
  <2>2. 1 \in Int /\ at - 1 \in Int
    BY <1>1
  <2>3. /\ SubSeq(list, 1, at - 1) \in Seq(S)
        /\ Len(SubSeq(list, 1, at - 1)) = IF 1 <= at - 1 THEN (at - 1) - 1 + 1 ELSE 0
        /\ \A i \in 1..((at - 1) - 1 + 1) : SubSeq(list, 1, at - 1)[i] = list[1 + i - 1]
    BY <2>1, <2>2, SubSeqProperties
  <2> QED BY <1>1, <2>3
<1>4. /\ back \in Seq(S) /\ Len(back) = Len(list) - at
      /\ \A i \in 1..(Len(list) - at) : back[i] = list[at + i]
  <2>1. \A i \in (at + 1)..Len(list) : list[i] \in S
    BY <1>1
  <2>2. at + 1 \in Int /\ Len(list) \in Int
    BY <1>1
  <2>3. /\ SubSeq(list, at + 1, Len(list)) \in Seq(S)
        /\ Len(SubSeq(list, at + 1, Len(list))) =
              IF at + 1 <= Len(list) THEN Len(list) - (at + 1) + 1 ELSE 0
        /\ \A i \in 1..(Len(list) - (at + 1) + 1) :
              SubSeq(list, at + 1, Len(list))[i] = list[(at + 1) + i - 1]
    BY <2>1, <2>2, SubSeqProperties
  <2> QED BY <1>1, <2>3
<1> HIDE DEF front, back
<1>5. /\ rest \in Seq(S) /\ Len(rest) = Len(list) - 1
      /\ \A i \in 1..Len(rest) : rest[i] = IF i < at THEN list[i] ELSE list[i + 1]
  <2>1. /\ front \o back \in Seq(S) /\ Len(front \o back) = Len(front) + Len(back)
        /\ \A i \in 1..(Len(front) + Len(back)) :
              (front \o back)[i] = IF i <= Len(front) THEN front[i] ELSE back[i - Len(front)]
    BY <1>3, <1>4, ConcatProperties
  <2>2. Len(rest) = Len(list) - 1
    BY <1>1, <1>2, <1>3, <1>4, <2>1
  <2>3. ASSUME NEW i \in 1..Len(rest)
        PROVE  rest[i] = IF i < at THEN list[i] ELSE list[i + 1]
    <3> HIDE DEF rest
    <3>1. CASE i < at
      <4>1. i \in 1..(at - 1) /\ rest[i] = front[i]
        BY <1>1, <1>2, <1>3, <1>4, <2>1, <2>2, <3>1
      <4> QED BY <1>3, <3>1, <4>1
    <3>2. CASE ~(i < at)
      <4>0. i \in 1..(Len(front) + Len(back)) /\ ~(i <= Len(front))
        BY <1>1, <1>3, <1>4, <2>2, <3>2
      <4>1. i - (at - 1) \in 1..(Len(list) - at) /\ rest[i] = back[i - (at - 1)]
        BY <1>1, <1>2, <1>3, <1>4, <2>1, <4>0
      <4>2. at + (i - (at - 1)) = i + 1
        BY <1>1
      <4> QED BY <1>4, <3>2, <4>1, <4>2
    <3> QED BY <3>1, <3>2
  <2> QED BY <1>2, <2>1, <2>2, <2>3
<1> HIDE DEF rest
<1> DEFINE from(i) == IF i < at THEN i ELSE i + 1
<1>6. ASSUME NEW i \in 1..Len(rest)
      PROVE  from(i) \in 1..Len(list) /\ from(i) # at /\ rest[i] = list[from(i)]
  BY <1>1, <1>5
<1>7. ASSUME NEW i \in 1..Len(rest), NEW j \in 1..Len(rest), rest[i] = rest[j]
      PROVE  i = j
  <2>1. from(i) = from(j)
    <3> HIDE DEF from
    <3> QED BY <1>6, <1>7
  <2> QED BY <1>1, <2>1
<1>8. Elements(rest) \subseteq Elements(list) \ {c}
  <2> HIDE DEF from
  <2>1. \A i \in 1..Len(rest) : list[from(i)] # c
    BY <1>1, <1>6
  <2> QED BY <1>6, <2>1 DEF Elements
<1>9. ASSUME NEW e \in Elements(list), e # c PROVE e \in Elements(rest)
  <2>1. PICK k \in 1..Len(list) : list[k] = e /\ k # at
    BY <1>1, <1>9 DEF Elements
  <2>2. CASE k < at
    <3>1. k \in 1..Len(rest) /\ rest[k] = e
      BY <1>1, <1>5, <2>1, <2>2
    <3> QED BY <3>1 DEF Elements
  <2>3. CASE ~(k < at)
    <3>1. k - 1 \in 1..Len(rest) /\ ~(k - 1 < at) /\ (k - 1) + 1 = k
      BY <1>1, <1>5, <2>1, <2>3
    <3>2. rest[k - 1] = e
      BY <1>5, <2>1, <3>1
    <3> QED BY <3>1, <3>2 DEF Elements
  <2> QED BY <2>2, <2>3
<1>10. Elements(rest) = Elements(list) \ {c}
  BY <1>8, <1>9
<1>11. rest = <<>> => Elements(rest) = {}
  BY DEF Elements
<1> QED BY <1>5, <1>7, <1>10, <1>11 DEF rest

(* Appending a client that a list does not hold. *)
LEMMA AppendFacts ==
    ASSUME NEW S, NEW list \in Seq(S), NEW c \in S, c \notin Elements(list),
           \A i, j \in 1..Len(list) : list[i] = list[j] => i = j
    PROVE  /\ Append(list, c) \in Seq(S)
           /\ Elements(Append(list, c)) = Elements(list) \cup {c}
           /\ \A i, j \in 1..Len(Append(list, c)) :
                 Append(list, c)[i] = Append(list, c)[j] => i = j
<1> DEFINE more == Append(list, c)
<1>1. /\ more \in Seq(S) /\ Len(more) = Len(list) + 1 /\ Len(list) \in Nat
      /\ more[Len(list) + 1] = c /\ \A i \in 1..Len(list) : more[i] = list[i]
  OBVIOUS
<1> HIDE DEF more
<1>2. \A i \in 1..Len(more) : i \in 1..Len(list) \/ i = Len(list) + 1
  BY <1>1
<1>3. \A i \in 1..Len(list) : list[i] # c /\ i \in 1..Len(more)
  BY <1>1 DEF Elements
<1>4. \A i, j \in 1..Len(more) : more[i] = more[j] => i = j
  BY <1>1, <1>2, <1>3
<1>5. Len(list) + 1 \in 1..Len(more)
  BY <1>1
<1>6. Elements(more) = Elements(list) \cup {c}
  BY <1>1, <1>2, <1>3, <1>5 DEF Elements
<1> QED BY <1>1, <1>4, <1>6 DEF more

(* A step that leaves the indexes and the announcements alone, in which no  *)
(* handler comes back to an earlier place or is through with a report.      *)
LEMMA HandlersMoveOn ==
    ASSUME HubIInv, TypeOK', \A c \in Conns : IsFiniteSet(subs'[c]),
           UNCHANGED <<registry, kicked, announced>>,
           \A c \in Conns :
               /\ pc'[c] \in {"none", "authenticated"} => pc[c] \in {"none", "authenticated"}
               /\ pc'[c] \in {"announceOnline", "hello", "open", "leaving"} =>
                     pc[c] \in {"announceOnline", "hello", "open", "leaving"}
               /\ pc[c] \in {"announceOnline", "leaving", "announceOffline"} =>
                     pc'[c] \in {"announceOnline", "leaving", "announceOffline"}
    PROVE  HubIInv'
<1>1. UNCHANGED <<clients, byDevice, closed, kicked, announced>>
  BY DEF registry
<1>2. IndexesAgree' /\ ExcessWasKicked'
  BY <1>1 DEF HubIInv, IndexesAgree, ExcessWasKicked, Elements
<1>3. NewcomersAreUnknown' /\ HandlersAreRegistered'
  BY <1>1 DEF HubIInv, NewcomersAreUnknown, HandlersAreRegistered, Elements
<1>4. OfflineAnnounced'
  BY <1>1 DEF HubIInv, OfflineAnnounced, Quiet, ClientsOf
<1> QED BY <1>2, <1>3, <1>4 DEF HubIInv

(* The places a handler passes without a change of the indexes. *)
LEMMA PassingIsSafe ==
    ASSUME HubIInv, NEW c \in Conns,
           \/ Authenticate(c) \/ AuthFails(c) \/ SendHello(c) \/ HelloFails(c)
           \/ (\E ending \in Endings : ReadFails(c, ending)) \/ PublishLastWill(c)
    PROVE  HubIInv'
<1>1. TypeOK /\ \A e \in Conns : IsFiniteSet(subs[e])
  BY DEF HubIInv
<1>2. /\ UNCHANGED <<registry, kicked, announced, subs, will, registered, admin, overtaken>>
      /\ \E label \in {"authenticated", "done", "open", "leaving"} : Goto(c, label)
      /\ leaveWith' \in {leaveWith, leaveWith \cup {c}}
      /\ published' \in {published, published \cup ({c} \cap leaveWith)}
  BY DEF Authenticate, AuthFails, SendHello, HelloFails, ReadFails, PublishLastWill,
         clientVars, willVars, deviceVars
<1>3. PICK label \in {"authenticated", "done", "open", "leaving"} :
          pc' = [pc EXCEPT ![c] = label]
  BY <1>2 DEF Goto
<1>4. /\ label = "authenticated" => pc[c] = "none"
      /\ label = "open" => pc[c] = "hello"
      /\ label = "leaving" => pc[c] = "open"
      /\ pc[c] \in {"none", "hello", "open", "publishWill"}
      /\ leaveWith' # leaveWith => published' = published
  BY <1>1, <1>3
  DEF Authenticate, AuthFails, SendHello, HelloFails, ReadFails, PublishLastWill,
                    Goto, willVars, TypeOK
<1>5. TypeOK'
  BY <1>1, <1>2, <1>3 DEF TypeOK, registry
<1>6. \A e \in Conns : pc'[e] = IF e = c THEN label ELSE pc[e]
  BY <1>1, <1>3 DEF TypeOK
<1>7. \A e \in Conns :
        /\ pc'[e] \in {"none", "authenticated"} => pc[e] \in {"none", "authenticated"}
        /\ pc'[e] \in {"announceOnline", "hello", "open", "leaving"} =>
              pc[e] \in {"announceOnline", "hello", "open", "leaving"}
        /\ pc[e] \in {"announceOnline", "leaving", "announceOffline"} =>
              pc'[e] \in {"announceOnline", "leaving", "announceOffline"}
  BY <1>4, <1>6
<1> QED BY <1>1, <1>2, <1>5, <1>7, HandlersMoveOn

(* Requests about topics and last wills. *)
LEMMA RequestsAreSafe ==
    ASSUME HubIInv, NEW c \in Conns, Topics(c) \/ Wills(c)
    PROVE  HubIInv'
<1>1. TypeOK /\ \A e \in Conns : IsFiniteSet(subs[e])
  BY DEF HubIInv
<1>2. UNCHANGED <<pc, registry, kicked, willVars, announced, deviceVars>>
  BY DEF Topics, Wills, SubscribeClientToTopics, SubscribeInvalid,
         UnsubscribeClientFromTopics,
         SetClientLastWill, ClearClientLastWill
<1>3. /\ subs' \in [Conns -> SUBSET (Patterns \ InvalidOnes)]
      /\ \A e \in Conns : /\ IsFiniteSet(subs'[e])
                          /\ Cardinality(subs'[e]) <= MaxSubscriptionsPerClient
  <2>0. /\ subs \in [Conns -> SUBSET (Patterns \ InvalidOnes)]
        /\ \A e \in Conns : Cardinality(subs[e]) \in Nat
        /\ \A e \in Conns : Cardinality(subs[e]) <= MaxSubscriptionsPerClient
        /\ MaxSubscriptionsPerClient \in Nat /\ byDevice \in [Devices -> Seq(Conns)]
        /\ DeviceOf[c] \in Devices
    BY <1>1, HubConstants, FS_CardinalityType DEF TypeOK
  <2>1. CASE Wills(c)
    BY <2>0, <1>1, <2>1 DEF Wills, SetClientLastWill, ClearClientLastWill
  <2>2. CASE Topics(c)
    <3>1. PICK P \in SUBSET Patterns :
             /\ IsFiniteSet(P)
             /\ \/ SubscribeClientToTopics(c, P)
                \/ \E A \in SUBSET P : SubscribeInvalid(c, P, A)
                \/ UnsubscribeClientFromTopics(c, P)
      BY <2>2 DEF Topics
    <3>2. \A e \in Conns : IsFiniteSet(subs[e] \cup P) /\ Cardinality(subs[e] \cup P) \in Nat
      BY <1>1, <3>1, FS_Union, FS_CardinalityType
    <3>3. CASE SubscribeClientToTopics(c, P)
      <4>1. P \cap InvalidOnes = {}
        BY <3>3 DEF SubscribeClientToTopics
      <4>2. \A e \in Reached(DeviceOf[c], P) : Fits(e, P)
        BY <2>0 DEF Reached
      <4>3. subs' = [e \in Conns |->
                        IF e \in Reached(DeviceOf[c], P) THEN subs[e] \cup P ELSE subs[e]]
        BY <3>3 DEF SubscribeClientToTopics
      <4>4. \A e \in Conns : \/ subs'[e] = subs[e]
                             \/ subs'[e] = subs[e] \cup P /\ Fits(e, P)
        BY <4>2, <4>3
      <4>5. subs' \in [Conns -> SUBSET (Patterns \ InvalidOnes)]
        BY <2>0, <3>1, <4>1, <4>3
      <4> QED BY <1>1, <2>0, <3>2, <4>4, <4>5 DEF Fits
    <3>4. CASE \E A \in SUBSET P : SubscribeInvalid(c, P, A)
      <4> DEFINE first == byDevice[DeviceOf[c]][1]
      <4>1. PICK A \in SUBSET P :
               /\ A \cap InvalidOnes = {} /\ byDevice[DeviceOf[c]] # <<>>
               /\ \/ subs' = subs
                  \/ Fits(first, P) /\ subs' = [subs EXCEPT ![first] = subs[first] \cup A]
        BY <3>4 DEF SubscribeInvalid
      <4>2. first \in Conns
        BY <2>0, <4>1
      <4>3. IsFiniteSet(subs[first] \cup A)
            /\ Cardinality(subs[first] \cup A) <= Cardinality(subs[first] \cup P)
        BY <3>2, <4>2, FS_Subset
      <4>4. /\ Cardinality(subs[first] \cup A) \in Nat
            /\ Cardinality(subs[first] \cup P) \in Nat
        BY <3>2, <4>2, <4>3, FS_CardinalityType
      <4> HIDE DEF first
      <4>5. Fits(first, P) => Cardinality(subs[first] \cup A) <= MaxSubscriptionsPerClient
        BY <2>0, <4>3, <4>4 DEF Fits
      <4> QED BY <1>1, <2>0, <3>1, <4>1, <4>2, <4>3, <4>5
    <3>5. CASE UnsubscribeClientFromTopics(c, P)
      <4>1. \A e \in Conns : subs'[e] \in SUBSET subs[e]
        BY <3>5 DEF UnsubscribeClientFromTopics
      <4>2. subs' \in [Conns -> SUBSET (Patterns \ InvalidOnes)]
        BY <2>0, <3>5 DEF UnsubscribeClientFromTopics
      <4>3. ASSUME NEW e \in Conns
            PROVE  IsFiniteSet(subs'[e]) /\ Cardinality(subs'[e]) <= Cardinality(subs[e])
                   /\ Cardinality(subs'[e]) \in Nat
        BY <1>1, <4>1, FS_Subset, FS_CardinalityType
      <4> QED BY <2>0, <4>2, <4>3
    <3> QED BY <3>1, <3>3, <3>4, <3>5
  <2> QED BY <2>1, <2>2
<1>4. will' \subseteq Conns
  <2>1. Elements(byDevice[DeviceOf[c]]) \subseteq Conns /\ will \subseteq Conns
    BY <1>1, HubConstants DEF Elements, TypeOK
  <2> QED BY <2>1 DEF Topics, Wills, SubscribeClientToTopics, SubscribeInvalid,
                      UnsubscribeClientFromTopics, SetClientLastWill, ClearClientLastWill
<1>5. TypeOK'
  BY <1>1, <1>2, <1>3, <1>4 DEF TypeOK, registry, willVars, deviceVars
<1> QED BY <1>2, <1>3, <1>5, HandlersMoveOn

(* A client that registers is appended to its device's list. *)
LEMMA SubscribeIsSafe ==
    ASSUME HubIInv, NEW c \in Conns, Subscribe(c)
    PROVE  HubIInv'
<1> DEFINE d == DeviceOf[c]
<1>1. /\ TypeOK /\ IndexesAgree /\ NewcomersAreUnknown /\ ExcessWasKicked
      /\ HandlersAreRegistered /\ OfflineAnnounced
      /\ \A e \in Conns : IsFiniteSet(subs[e])
  BY DEF HubIInv
<1>2. /\ pc[c] = "authenticated" /\ pc' = [pc EXCEPT ![c] = "announceOnline"]
      /\ clients' = clients \cup {c}
      /\ byDevice' = [byDevice EXCEPT ![d] = Append(byDevice[d], c)]
      /\ UNCHANGED <<closed, kicked, clientVars, willVars, announced, deviceVars>>
  BY DEF Subscribe, Goto
<1>3. d \in Devices /\ byDevice \in [Devices -> Seq(Conns)]
      /\ pc \in [Conns -> {"none", "authenticated", "announceOnline", "hello", "open",
                           "leaving", "announceOffline", "publishWill", "done"}]
  BY <1>1, HubConstants DEF TypeOK
<1>4. c \notin clients \cup closed \cup Elements(byDevice[d])
  BY <1>1, <1>2 DEF NewcomersAreUnknown
<1>5. /\ Append(byDevice[d], c) \in Seq(Conns)
      /\ Elements(Append(byDevice[d], c)) = Elements(byDevice[d]) \cup {c}
      /\ \A i, j \in 1..Len(Append(byDevice[d], c)) :
            Append(byDevice[d], c)[i] = Append(byDevice[d], c)[j] => i = j
  <2>1. \A i, j \in 1..Len(byDevice[d]) : byDevice[d][i] = byDevice[d][j] => i = j
    BY <1>1, <1>3 DEF IndexesAgree
  <2> HIDE DEF d
  <2> QED BY <1>3, <1>4, <2>1, AppendFacts
<1>6. byDevice'[d] = Append(byDevice[d], c)
      /\ \A e \in Devices \ {d} : byDevice'[e] = byDevice[e]
  BY <1>2, <1>3
<1>7. Elements(byDevice[d])' = Elements(byDevice[d]) \cup {c}
      /\ \A e \in Devices \ {d} : Elements(byDevice[e])' = Elements(byDevice[e])
  BY <1>3, <1>5, <1>6 DEF Elements
<1>8. \A e \in Conns : pc'[e] = IF e = c THEN "announceOnline" ELSE pc[e]
  BY <1>2, <1>3
<1>9. TypeOK' /\ \A e \in Conns : IsFiniteSet(subs'[e])
  BY <1>1, <1>2, <1>3, <1>5 DEF TypeOK, clientVars, willVars, deviceVars
<1> HIDE DEF d
<1>10. IndexesAgree'
  <2>1. \A e \in clients' : e \in Elements(byDevice[DeviceOf[e]])' /\ e \notin closed'
    BY <1>1, <1>2, <1>4, <1>7, HubConstants DEF IndexesAgree, d, TypeOK
  <2>2. \A f \in Devices : \A e \in Elements(byDevice[f])' :
            DeviceOf[e] = f /\ (e \in clients' \/ e \in closed')
    BY <1>1, <1>2, <1>7 DEF IndexesAgree, d
  <2>3. \A f \in Devices : \A i, j \in 1..Len(byDevice'[f]) :
            byDevice'[f][i] = byDevice'[f][j] => i = j
    BY <1>1, <1>5, <1>6 DEF IndexesAgree
  <2> QED BY <2>1, <2>2, <2>3 DEF IndexesAgree
<1>11. NewcomersAreUnknown'
  BY <1>1, <1>2, <1>7, <1>8, HubConstants DEF NewcomersAreUnknown
<1>12. ExcessWasKicked'
  BY <1>1, <1>2, <1>7 DEF ExcessWasKicked
<1>13. HandlersAreRegistered'
  BY <1>1, <1>2, <1>8 DEF HandlersAreRegistered
<1>14. OfflineAnnounced'
  <2>1. ~Quiet(d)'
    BY <1>8 DEF Quiet, d
  <2>2. \A f \in Devices \ {d} : (Quiet(f)' => Quiet(f)) /\ ClientsOf(f)' = ClientsOf(f)
    BY <1>2, <1>8 DEF Quiet, ClientsOf, d
  <2> QED BY <1>1, <1>2, <2>1, <2>2 DEF OfflineAnnounced
<1> QED BY <1>9, <1>10, <1>11, <1>12, <1>13, <1>14 DEF HubIInv

(* The reports to other devices. *)
LEMMA AnnouncingIsSafe ==
    ASSUME HubIInv, NEW c \in Conns, AnnounceOnline(c) \/ AnnounceOffline(c)
    PROVE  HubIInv'
<1>1. /\ TypeOK /\ IndexesAgree /\ NewcomersAreUnknown /\ ExcessWasKicked
      /\ HandlersAreRegistered /\ OfflineAnnounced
      /\ \A e \in Conns : IsFiniteSet(subs[e])
  BY DEF HubIInv
<1>2. PICK label \in {"hello", "publishWill"}, status \in {"online", "offline"} :
         /\ pc' = [pc EXCEPT ![c] = label]
         /\ announced' = [announced EXCEPT ![DeviceOf[c]] = status]
         /\ label = "hello" => pc[c] = "announceOnline" /\ status = "online"
         /\ label = "publishWill" => pc[c] = "announceOffline" /\ status = "offline"
  BY DEF AnnounceOnline, AnnounceOffline, Goto
<1>3. UNCHANGED <<clients, byDevice, closed, kicked, subs, will, leaveWith, published,
                  registered, admin, overtaken>>
  BY DEF AnnounceOnline, AnnounceOffline, registry, clientVars, willVars, deviceVars
<1>4. TypeOK' /\ \A e \in Conns : IsFiniteSet(subs'[e])
  BY <1>1, <1>2, <1>3 DEF TypeOK
<1>5. \A e \in Conns : pc'[e] = IF e = c THEN label ELSE pc[e]
  BY <1>1, <1>2 DEF TypeOK
<1>6. IndexesAgree' /\ ExcessWasKicked'
  BY <1>1, <1>3 DEF IndexesAgree, ExcessWasKicked, Elements
<1>7. NewcomersAreUnknown' /\ HandlersAreRegistered'
  BY <1>1, <1>2, <1>3, <1>5 DEF NewcomersAreUnknown, HandlersAreRegistered, Elements
<1>8. OfflineAnnounced'
  <2> SUFFICES ASSUME NEW d \in Devices, Quiet(d)', ClientsOf(d)' = {},
                      \A e \in kicked' : DeviceOf[e] # d
               PROVE  announced'[d] # "online"
    BY DEF OfflineAnnounced
  <2>1. announced'[d] = IF d = DeviceOf[c] THEN status ELSE announced[d]
    BY <1>1, <1>2 DEF TypeOK
  <2>2. CASE d = DeviceOf[c] /\ label = "hello"
    <3>1. c \in clients \cup kicked
      BY <1>1, <1>2, <2>2 DEF HandlersAreRegistered
    <3> QED BY <1>3, <2>2, <3>1 DEF ClientsOf
  <2>3. CASE d = DeviceOf[c] /\ label = "publishWill"
    BY <1>2, <2>1, <2>3
  <2>4. CASE d # DeviceOf[c]
    BY <1>1, <1>3, <1>5, <2>1, <2>4 DEF OfflineAnnounced, Quiet, ClientsOf
  <2> QED BY <2>2, <2>3, <2>4
<1> QED BY <1>4, <1>6, <1>7, <1>8 DEF HubIInv

(* The handler that removes its client announces the device offline unless  *)
(* another client of the device is left, or one that was kicked.            *)
LEMMA UnsubscribeIsSafe ==
    ASSUME HubIInv, NEW c \in Conns, UnsubscribeClient(c)
    PROVE  HubIInv'
<1> DEFINE d == DeviceOf[c]
           remaining == Without(byDevice[d], c)
           label == IF c \in clients /\ remaining = <<>> THEN "announceOffline" ELSE "publishWill"
<1>1. /\ TypeOK /\ IndexesAgree /\ NewcomersAreUnknown /\ ExcessWasKicked
      /\ HandlersAreRegistered /\ OfflineAnnounced
      /\ \A e \in Conns : IsFiniteSet(subs[e])
  BY DEF HubIInv
<1>2. /\ pc[c] = "leaving" /\ pc' = [pc EXCEPT ![c] = label]
      /\ \/ /\ c \in clients /\ clients' = clients \ {c} /\ closed' = closed \cup {c}
            /\ byDevice' = [byDevice EXCEPT ![d] = remaining]
         \/ c \notin clients /\ UNCHANGED <<clients, closed, byDevice>>
      /\ UNCHANGED <<kicked, subs, will, leaveWith, published, announced, registered, admin, overtaken>>
  BY DEF UnsubscribeClient, Goto, registry, clientVars, willVars, deviceVars
<1>3. d \in Devices /\ byDevice \in [Devices -> Seq(Conns)]
      /\ pc \in [Conns -> {"none", "authenticated", "announceOnline", "hello", "open",
                           "leaving", "announceOffline", "publishWill", "done"}]
  BY <1>1, HubConstants DEF TypeOK
<1>4. c \in clients =>
         /\ remaining \in Seq(Conns)
         /\ Elements(remaining) = Elements(byDevice[d]) \ {c}
         /\ \A i, j \in 1..Len(remaining) : remaining[i] = remaining[j] => i = j
         /\ remaining = <<>> \/ Elements(byDevice[d]) # {c}
  <2> SUFFICES ASSUME c \in clients
               PROVE  /\ remaining \in Seq(Conns)
                      /\ Elements(remaining) = Elements(byDevice[d]) \ {c}
                      /\ \A i, j \in 1..Len(remaining) : remaining[i] = remaining[j] => i = j
                      /\ remaining = <<>> \/ Elements(byDevice[d]) # {c}
    OBVIOUS
  <2>1. /\ \A i, j \in 1..Len(byDevice[d]) : byDevice[d][i] = byDevice[d][j] => i = j
        /\ c \in Elements(byDevice[d]) /\ byDevice[d] \in Seq(Conns)
    BY <1>1, <1>3 DEF IndexesAgree
  <2>2. /\ Without(byDevice[d], c) \in Seq(Conns)
        /\ Elements(Without(byDevice[d], c)) = Elements(byDevice[d]) \ {c}
        /\ \A i, j \in 1..Len(Without(byDevice[d], c)) :
              Without(byDevice[d], c)[i] = Without(byDevice[d], c)[j] => i = j
    <3> HIDE DEF d
    <3> QED BY <2>1, WithoutFacts
  <2> HIDE DEF d
  <2>3. remaining = <<>> \/ Elements(remaining) # {}
    <3>1. remaining \in Seq(Conns)
      BY <2>2
    <3> HIDE DEF remaining
    <3>2. CASE remaining # <<>>
      <4>1. 1 \in 1..Len(remaining)
        BY <3>1, <3>2
      <4> QED BY <4>1 DEF Elements
    <3> QED BY <3>2
  <2>4. Elements(remaining) = Elements(byDevice[d]) \ {c}
    BY <2>2
  <2>5. remaining = <<>> \/ Elements(byDevice[d]) # {c}
    BY <2>3, <2>4
  <2> QED BY <2>2, <2>5
<1>5. \A e \in Conns : pc'[e] = IF e = c THEN label ELSE pc[e]
  BY <1>2, <1>3
<1>6. label \in {"announceOffline", "publishWill"}
  OBVIOUS
<1> HIDE DEF remaining, label
<1>7. TypeOK' /\ \A e \in Conns : IsFiniteSet(subs'[e])
  <2> HIDE DEF d
  <2>1. byDevice' \in [Devices -> Seq(Conns)]
    BY <1>2, <1>3, <1>4
  <2>2. clients' \subseteq Conns /\ closed' \subseteq Conns
    BY <1>1, <1>2 DEF TypeOK
  <2>3. pc' \in [Conns -> {"none", "authenticated", "announceOnline", "hello", "open",
                          "leaving", "announceOffline", "publishWill", "done"}]
    BY <1>2, <1>3, <1>6
  <2> QED BY <1>1, <1>2, <2>1, <2>2, <2>3 DEF TypeOK
<1>8. /\ \A f \in Devices \ {d} : byDevice'[f] = byDevice[f]
      /\ c \in clients => byDevice'[d] = remaining
      /\ c \notin clients => byDevice'[d] = byDevice[d]
  BY <1>2, <1>3
<1>9. /\ \A f \in Devices \ {d} : Elements(byDevice[f])' = Elements(byDevice[f])
      /\ Elements(byDevice[d])' =
            IF c \in clients THEN Elements(byDevice[d]) \ {c} ELSE Elements(byDevice[d])
  <2> HIDE DEF d
  <2>1. \A f \in Devices \ {d} : Elements(byDevice[f])' = Elements(byDevice[f])
    BY <1>8 DEF Elements
  <2>2. c \in clients => Elements(byDevice[d])' = Elements(remaining)
    BY <1>8 DEF Elements
  <2>3. c \notin clients => Elements(byDevice[d])' = Elements(byDevice[d])
    BY <1>8 DEF Elements
  <2> QED BY <1>4, <2>1, <2>2, <2>3
<1>10. IndexesAgree'
  <2>1. ASSUME NEW e \in clients'
        PROVE  e \in Elements(byDevice[DeviceOf[e]])' /\ e \notin closed'
    <3>1. /\ e \in clients /\ e \in Elements(byDevice[DeviceOf[e]]) /\ e \notin closed
          /\ DeviceOf[e] \in Devices
      BY <1>1, <1>2, HubConstants DEF IndexesAgree, TypeOK
    <3>2. c \in clients => e # c
      BY <1>2
    <3> HIDE DEF d
    <3>3. e \notin closed'
      BY <1>2, <3>1, <3>2
    <3>4. e \in Elements(byDevice[DeviceOf[e]])'
      BY <1>9, <3>1, <3>2
    <3> QED BY <3>3, <3>4
  <2>2. \A f \in Devices : \A e \in Elements(byDevice[f])' :
            DeviceOf[e] = f /\ (e \in clients' \/ e \in closed')
    BY <1>1, <1>2, <1>9 DEF IndexesAgree, d
  <2>3. \A f \in Devices : \A i, j \in 1..Len(byDevice'[f]) :
            byDevice'[f][i] = byDevice'[f][j] => i = j
    BY <1>1, <1>4, <1>8 DEF IndexesAgree
  <2> QED BY <2>1, <2>2, <2>3 DEF IndexesAgree
<1>11. NewcomersAreUnknown'
  BY <1>1, <1>2, <1>5, <1>6, <1>9, HubConstants DEF NewcomersAreUnknown
<1>12. ExcessWasKicked'
  <2>1. kicked' \subseteq closed'
    BY <1>1, <1>2 DEF ExcessWasKicked
  <2>2. \A f \in Devices : Elements(byDevice[f])' \subseteq clients' \cup kicked'
    BY <1>1, <1>2, <1>9 DEF ExcessWasKicked, IndexesAgree, d
  <2> QED BY <2>1, <2>2 DEF ExcessWasKicked
<1>13. HandlersAreRegistered'
  BY <1>1, <1>2, <1>5, <1>6 DEF HandlersAreRegistered
<1>14. OfflineAnnounced'
  <2> SUFFICES ASSUME NEW f \in Devices, Quiet(f)', ClientsOf(f)' = {},
                      \A e \in kicked' : DeviceOf[e] # f
               PROVE  announced'[f] # "online"
    BY DEF OfflineAnnounced
  <2>1. CASE f # d
    BY <1>1, <1>2, <1>5, <2>1 DEF OfflineAnnounced, Quiet, ClientsOf, d
  <2>2. CASE f = d
    <3>1. c \notin kicked /\ c \in clients
      BY <1>1, <1>2, <2>2 DEF d, HandlersAreRegistered
    <3>2. pc'[c] # "announceOffline"
      BY <2>2 DEF Quiet, d
    <3>3. remaining # <<>>
      BY <1>5, <3>1, <3>2 DEF label
    <3>4. PICK e \in Elements(byDevice[d]) : e # c
      <4>1. c \in Elements(byDevice[d])
        BY <1>1, <3>1 DEF IndexesAgree, d
      <4> QED BY <1>4, <3>1, <3>3, <4>1
    <3>5. e \in clients \cup kicked /\ DeviceOf[e] = d
      BY <1>1, <1>3, <3>4 DEF ExcessWasKicked, IndexesAgree
    <3> QED BY <1>2, <2>2, <3>4, <3>5 DEF ClientsOf
  <2> QED BY <2>1, <2>2
<1> QED BY <1>7, <1>10, <1>11, <1>12, <1>13, <1>14 DEF HubIInv

(* DisconnectDevice closes what it removes from the set. *)
LEMMA DisconnectIsSafe ==
    ASSUME HubIInv, NEW d \in Devices, DisconnectDevice(d),
           UNCHANGED <<pc, subs, will, leaveWith, published, announced>>,
           registered' \in SUBSET Devices,
           admin' \in [Devices -> SUBSET {"disconnect", "save"}], overtaken' \subseteq Conns
    PROVE  HubIInv'
<1>1. /\ TypeOK /\ IndexesAgree /\ NewcomersAreUnknown /\ ExcessWasKicked
      /\ HandlersAreRegistered /\ OfflineAnnounced
      /\ \A e \in Conns : IsFiniteSet(subs[e])
  BY DEF HubIInv
<1>2. /\ kicked' = kicked \cup ClientsOf(d) /\ closed' = closed \cup ClientsOf(d)
      /\ clients' = clients \ ClientsOf(d) /\ byDevice' = byDevice
      /\ ClientsOf(d) \subseteq clients
  BY DEF DisconnectDevice, ClientsOf
<1>3. TypeOK' /\ \A e \in Conns : IsFiniteSet(subs'[e])
  BY <1>1, <1>2 DEF TypeOK
<1>4. IndexesAgree'
  BY <1>1, <1>2 DEF IndexesAgree, Elements
<1>5. NewcomersAreUnknown'
  BY <1>1, <1>2 DEF NewcomersAreUnknown, Elements
<1>6. ExcessWasKicked' /\ HandlersAreRegistered'
  BY <1>1, <1>2 DEF ExcessWasKicked, HandlersAreRegistered, Elements
<1>7. OfflineAnnounced'
  <2>1. CASE ClientsOf(d) = {}
    BY <1>1, <1>2, <2>1 DEF OfflineAnnounced, Quiet, ClientsOf
  <2>2. CASE ClientsOf(d) # {}
    BY <1>1, <1>2, <2>2 DEF OfflineAnnounced, Quiet, ClientsOf
  <2> QED BY <2>1, <2>2
<1> QED BY <1>3, <1>4, <1>5, <1>6, <1>7 DEF HubIInv

(* The requests that end connections, whole. *)
LEMMA AdminIsSafe ==
    ASSUME HubIInv, NEW d \in Devices, Admin(d)
    PROVE  HubIInv'
<1>1. TypeOK /\ \A e \in Conns : IsFiniteSet(subs[e])
  BY DEF HubIInv
<1>2. UNCHANGED <<pc, subs, will, leaveWith, published, announced>>
  BY DEF Admin, HandleWebSocketDisconnect, RevokeDevice, RevokeDisconnect, PairDisconnect,
         PairSave, clientVars, willVars
<1>3. /\ registered' \in SUBSET Devices
      /\ admin' \in [Devices -> SUBSET {"disconnect", "save"}] /\ overtaken' \subseteq Conns
  BY <1>1
  DEF Admin, HandleWebSocketDisconnect, RevokeDevice, RevokeDisconnect, PairDisconnect,
              PairSave, deviceVars, TypeOK
<1>4. CASE DisconnectDevice(d)
  BY <1>2, <1>3, <1>4, DisconnectIsSafe
<1>5. CASE UNCHANGED <<registry, kicked>>
  <2>1. TypeOK'
    BY <1>1, <1>2, <1>3, <1>5 DEF TypeOK, registry
  <2> QED BY <1>1, <1>2, <1>5, <2>1, HandlersMoveOn
<1> QED BY <1>4, <1>5
DEF Admin, HandleWebSocketDisconnect, RevokeDevice, RevokeDisconnect,
                          PairDisconnect, PairSave

(* The invariant of the hub is inductive. *)
LEMMA HubIInvInductive ==
    /\ Init => HubIInv
    /\ HubIInv /\ [Next]_vars => HubIInv'
<1>1. ASSUME Init PROVE HubIInv
  <2>1. \A d \in Devices : byDevice[d] = <<>> /\ Len(byDevice[d]) = 0
    BY <1>1 DEF Init
  <2>2. \A d \in Devices : Elements(byDevice[d]) = {}
    BY <2>1 DEF Elements
  <2>3. /\ IsFiniteSet({}) /\ Cardinality({}) = 0
    BY FS_EmptySet
  <2>4. TypeOK
    BY <1>1, <2>1, <2>3, HubConstants DEF Init, TypeOK
  <2>5. NewcomersAreUnknown /\ ExcessWasKicked /\ HandlersAreRegistered
    BY <1>1, <2>2, HubConstants
    DEF Init, NewcomersAreUnknown, ExcessWasKicked, HandlersAreRegistered
  <2>6. IndexesAgree
    BY <1>1, <2>1, <2>2 DEF Init, IndexesAgree
  <2>7. OfflineAnnounced /\ \A c \in Conns : IsFiniteSet(subs[c])
    BY <1>1, <2>3 DEF Init, OfflineAnnounced
  <2> QED BY <2>4, <2>5, <2>6, <2>7 DEF HubIInv
<1>2. ASSUME HubIInv, [Next]_vars PROVE HubIInv'
  <2>1. CASE UNCHANGED vars
    <3>1. UNCHANGED <<pc, registry, kicked, subs, will, leaveWith, published, announced,
                      registered, admin, overtaken>>
      BY <2>1 DEF vars, clientVars, willVars, deviceVars
    <3>2. TypeOK' /\ \A c \in Conns : IsFiniteSet(subs'[c])
      BY <1>2, <3>1 DEF HubIInv, TypeOK, registry
    <3> QED BY <1>2, <3>1, <3>2, HandlersMoveOn
  <2>2. CASE Next
    <3>1. CASE \E c \in Conns : Connect(c)
      BY <1>2, <3>1, PassingIsSafe, SubscribeIsSafe, AnnouncingIsSafe DEF Connect
    <3>2. CASE \E c \in Conns : \E ending \in Endings : ReadFails(c, ending)
      BY <1>2, <3>2, PassingIsSafe
    <3>3. CASE \E c \in Conns : Leave(c)
      BY <1>2, <3>3, PassingIsSafe, UnsubscribeIsSafe, AnnouncingIsSafe DEF Leave
    <3>4. CASE \E c \in Conns : Topics(c) \/ Wills(c)
      BY <1>2, <3>4, RequestsAreSafe
    <3>5. CASE \E d \in Devices : Admin(d)
      BY <1>2, <3>5, AdminIsSafe
    <3> QED BY <2>2, <3>1, <3>2, <3>3, <3>4, <3>5 DEF Next
  <2> QED BY <1>2, <2>1, <2>2
<1> QED BY <1>1, <1>2

(* The type invariant of the hub, with the limit of subscriptions. *)
THEOREM HubTypeCorrect == Spec => []TypeOK
<1>1. HubIInv => TypeOK
  BY DEF HubIInv
<1> QED BY <1>1, HubIInvInductive, PTL DEF Spec

(* Manager.clients and clientsByDevice agree as far as sends can tell,      *)
(* whatever connections come, go and are disconnected.                      *)
THEOREM IndexesAgreeHolds == Spec => []IndexesAgree
<1>1. HubIInv => IndexesAgree
  BY DEF HubIInv
<1> QED BY <1>1, HubIInvInductive, PTL DEF Spec

(* A device whose connections all ended by themselves is announced offline  *)
(* at the latest when its last handler is through.                          *)
THEOREM OfflineAnnouncedHolds == Spec => []OfflineAnnounced
<1>1. HubIInv => OfflineAnnounced
  BY DEF HubIInv
<1> QED BY <1>1, HubIInvInductive, PTL DEF Spec

(* A connection that passed the look-up of a device whose revocation is     *)
(* through was overtaken by it.                                             *)
NewcomersAreOvertaken ==
    \A c \in Conns :
        pc[c] = "authenticated" /\ DeviceOf[c] \notin registered
            /\ "disconnect" \notin admin[DeviceOf[c]] => c \in overtaken

RevokedIInv == HubIInv /\ RevokedIsDisconnected /\ NewcomersAreOvertaken

(* A connection registers after it passed the look-up, and passes it only   *)
(* while its device has a row.                                              *)
LEMMA ConnectionsPassTheLookup ==
    ASSUME TypeOK, NEW c \in Conns,
           \/ Connect(c) \/ Leave(c) \/ Topics(c) \/ Wills(c)
           \/ \E ending \in Endings : ReadFails(c, ending)
    PROVE  /\ UNCHANGED deviceVars
           /\ \A e \in clients' : e \in clients \/ pc[e] = "authenticated"
           /\ \A e \in Conns : pc'[e] = "authenticated" =>
                 pc[e] = "authenticated" \/ DeviceOf[e] \in registered
<1>1. CASE Connect(c)
  BY <1>1 DEF TypeOK, Connect, Authenticate, AuthFails, Subscribe, AnnounceOnline, SendHello,
              HelloFails, Goto, registry
<1>2. CASE Leave(c)
  BY <1>2 DEF TypeOK, Leave, UnsubscribeClient, AnnounceOffline, PublishLastWill, Goto, registry
<1>3. CASE Topics(c) \/ Wills(c)
  BY <1>3 DEF Topics, Wills, SubscribeClientToTopics, SubscribeInvalid,
              UnsubscribeClientFromTopics, SetClientLastWill, ClearClientLastWill, registry
<1>4. CASE \E ending \in Endings : ReadFails(c, ending)
  BY <1>4 DEF TypeOK, ReadFails, Goto, registry
<1> QED BY <1>1, <1>2, <1>3, <1>4

(* What keeps a revoked device out is inductive. *)
LEMMA RevokedIInvInductive ==
    /\ Init => RevokedIInv
    /\ RevokedIInv /\ [Next]_vars => RevokedIInv'
<1>1. Init => RevokedIsDisconnected /\ NewcomersAreOvertaken
  BY HubConstants DEF Init, RevokedIsDisconnected, NewcomersAreOvertaken
<1>2. ASSUME RevokedIInv, Next PROVE RevokedIsDisconnected' /\ NewcomersAreOvertaken'
  <2>1. /\ TypeOK /\ RevokedIsDisconnected /\ NewcomersAreOvertaken
        /\ clients \subseteq Conns /\ admin \in [Devices -> SUBSET {"disconnect", "save"}]
    BY <1>2 DEF RevokedIInv, HubIInv, TypeOK
  <2>2. CASE \E c \in Conns : \/ Connect(c) \/ Leave(c) \/ Topics(c) \/ Wills(c)
                              \/ \E ending \in Endings : ReadFails(c, ending)
    <3>1. /\ UNCHANGED <<registered, admin, overtaken>>
          /\ \A e \in clients' : e \in clients \/ pc[e] = "authenticated"
          /\ \A e \in Conns : pc'[e] = "authenticated" =>
                pc[e] = "authenticated" \/ DeviceOf[e] \in registered
      BY <2>1, <2>2, ConnectionsPassTheLookup DEF deviceVars
    <3>2. clients' \subseteq Conns
      BY <1>2, HubIInvInductive DEF RevokedIInv, HubIInv, TypeOK
    <3> QED BY <2>1, <3>1, <3>2, HubConstants
            DEF RevokedIsDisconnected, NewcomersAreOvertaken, ClientsOf
  <2>3. ASSUME NEW d \in Devices, Admin(d) PROVE RevokedIsDisconnected' /\ NewcomersAreOvertaken'
    <3>1. pc' = pc /\ clients' \subseteq clients /\ overtaken \subseteq overtaken'
      BY <2>3 DEF Admin, HandleWebSocketDisconnect, RevokeDevice, RevokeDisconnect,
                  PairDisconnect, PairSave, DisconnectDevice, deviceVars, registry
    <3>2. \A e \in Devices \ {d} :
             admin'[e] = admin[e] /\ (e \in registered' <=> e \in registered)
      BY <2>1, <2>3 DEF Admin, HandleWebSocketDisconnect, RevokeDevice, RevokeDisconnect,
                  PairDisconnect, PairSave, deviceVars
    <3>3. ASSUME d \notin registered', "disconnect" \notin admin'[d]
          PROVE  /\ ClientsOf(d)' \subseteq overtaken'
                 /\ \A c \in Conns : pc[c] = "authenticated" /\ DeviceOf[c] = d
                                      => c \in overtaken'
      <4>1. CASE RevokeDisconnect(d)
        BY <2>1, <4>1 DEF RevokeDisconnect, DisconnectDevice, ClientsOf
      <4>2. CASE ~RevokeDisconnect(d)
        <5>1. d \notin registered /\ "disconnect" \notin admin[d]
          BY <2>1, <2>3, <3>3, <4>2
          DEF Admin, HandleWebSocketDisconnect, RevokeDevice, PairDisconnect, PairSave,
              deviceVars
        <5> QED BY <2>1, <3>1, <5>1 DEF RevokedIsDisconnected, NewcomersAreOvertaken, ClientsOf
      <4> QED BY <4>1, <4>2
    <3> QED BY <2>1, <3>1, <3>2, <3>3, HubConstants
            DEF RevokedIsDisconnected, NewcomersAreOvertaken, ClientsOf
  <2> QED BY <1>2, <2>2, <2>3 DEF Next
<1>3. ASSUME RevokedIInv, UNCHANGED vars PROVE RevokedIsDisconnected' /\ NewcomersAreOvertaken'
  BY <1>3 DEF RevokedIInv, RevokedIsDisconnected, NewcomersAreOvertaken, ClientsOf, vars, deviceVars,
              registry
<1> QED BY <1>1, <1>2, <1>3, HubIInvInductive DEF RevokedIInv

(* Once a revocation is through, the device has no registered connection    *)
(* until it pairs again, but for one the whole revocation overtook between  *)
(* the look-up of the device and Subscribe.                                 *)
THEOREM RevokedIsDisconnectedHolds == Spec => []RevokedIsDisconnected
<1>1. RevokedIInv => RevokedIsDisconnected
  BY DEF RevokedIInv
<1> QED BY <1>1, RevokedIInvInductive, PTL DEF Spec
-----------------------------------------------------------------------------
(* Toolbox deployments: the inductive invariant *)

PartsOf(d) == IF catalog = "compose" THEN ComposeServices ELSE {deployments[d].name}

Created(d, part) == \E c \in containers : c.by = d /\ c.part = part

Up(d, part) == [by |-> d, part |-> part, up |-> TRUE] \in containers

(* What a row and a removal's copy of it name in Docker is the deployment's *)
(* own, so that no removal reaches another deployment.                      *)
RowsNameTheirOwn(d) ==
    /\ deployments[d] # NoDeployment =>
          /\ deployments[d].containerName \in ServiceNames
          /\ deployments[d].containerID \in {NoContainerID, d}
    /\ removals[d].pc = "resources" =>
          /\ removals[d].row.containerName \in ServiceNames
          /\ removals[d].row.containerID \in {NoContainerID, d}

(* A row says "deployed" only when its goroutine is over, and is there as   *)
(* long as nobody removes it; a project's steps belong to projects, and a   *)
(* single container has one part.                                           *)
RowsFollowJobs(d) ==
    /\ jobs[d].pc = "idle" => deployments[d] = NoDeployment
    /\ jobs[d].pc \notin {"idle", "over"} =>
          /\ deployments[d].status # "deployed"
          /\ removals[d].pc = "idle" => deployments[d] # NoDeployment
    /\ jobs[d].pc \in {"network", "clean", "list"} => catalog = "compose"
    /\ jobs[d].pc \in {"mark", "create"} /\ catalog = "single" =>
          \E name \in ServiceNames : jobs[d].todo = {name}

(* Until its first creation a deployment has nothing in Docker, a single    *)
(* container's until its only one.                                          *)
NothingMadeYet(d) ==
    \/ jobs[d].pc \in {"idle", "mark", "network"}
    \/ jobs[d].pc = "create" /\ catalog = "single"
    \/ jobs[d].pc = "deployFailed" /\ ~jobs[d].dirty
    => ContainersOf(d) = {}

(* How far the goroutine has come with the parts, while nobody removes the  *)
(* deployment: all but "todo" are created, then all are, then all but       *)
(* "todo" are up, then all are.                                             *)
PartsAreInPlace(d) ==
    removals[d].pc = "idle" =>
        /\ jobs[d].pc \in {"mark", "create", "record"} /\ catalog = "single" =>
              jobs[d].todo = {deployments[d].name}
        /\ jobs[d].pc = "network" => jobs[d].todo = ComposeServices
        /\ jobs[d].pc = "create" => \A part \in PartsOf(d) \ jobs[d].todo : Created(d, part)
        /\ jobs[d].pc \in {"record", "list", "start"} =>
              \A part \in PartsOf(d) : Created(d, part)
        /\ jobs[d].pc = "start" => \A part \in PartsOf(d) \ jobs[d].todo : Up(d, part)
        /\ jobs[d].pc = "finish" \/ deployments[d].status = "deployed" =>
              \A part \in PartsOf(d) : Up(d, part)

Whole(d) ==
    RowsNameTheirOwn(d) /\ RowsFollowJobs(d) /\ NothingMadeYet(d) /\ PartsAreInPlace(d)

ToolboxIInv == ToolboxTypeOK /\ \A d \in DeploymentIds : Whole(d)

(* A deployment none of whose state a step touches stays whole.             *)
LEMMA OthersStayWhole ==
    ASSUME NEW e, Whole(e), catalog' = catalog, deployments'[e] = deployments[e],
           jobs'[e] = jobs[e], removals'[e] = removals[e], ContainersOf(e)' = ContainersOf(e)
    PROVE  Whole(e)'
<1>1. \A part : Created(e, part)' <=> Created(e, part)
  BY DEF Created, ContainersOf
<1>2. \A part : Up(e, part)' <=> Up(e, part)
  <2> SUFFICES ASSUME NEW part PROVE Up(e, part)' <=> Up(e, part)
    OBVIOUS
  <2> DEFINE c == [by |-> e, part |-> part, up |-> TRUE]
  <2>1. c.by = e
    OBVIOUS
  <2> HIDE DEF c
  <2>2. (c \in containers' <=> c \in containers)
    BY <2>1 DEF ContainersOf
  <2> QED BY <2>2 DEF Up, c
<1>3. PartsOf(e)' = PartsOf(e)
  BY DEF PartsOf
<1>4. RowsNameTheirOwn(e)' /\ RowsFollowJobs(e)' /\ NothingMadeYet(e)'
  BY DEF Whole, RowsNameTheirOwn, RowsFollowJobs, NothingMadeYet
<1>5. PartsAreInPlace(e)'
  BY <1>1, <1>2, <1>3 DEF Whole, PartsAreInPlace
<1> QED BY <1>4, <1>5 DEF Whole

(* The record of a goroutine, field by field. *)
DeployPcs == {"idle", "mark", "network", "create", "clean", "record", "list",
              "start", "finish", "deployFailed", "startFailed", "over"}

(* A move of a deployment changes its own job alone, and leaves the mark *)
(* that it was cleaned up.                                               *)
LEMMA DeployGotoFacts ==
    ASSUME ToolboxTypeOK, NEW d \in DeploymentIds, NEW next \in DeployPcs,
           NEW todo \in SUBSET (ComposeServices \cup ServiceNames), DeployGoto(d, next, todo)
    PROVE  /\ jobs' \in [DeploymentIds -> [pc : DeployPcs,
                             todo : SUBSET (ComposeServices \cup ServiceNames),
                             expired : BOOLEAN, dirty : BOOLEAN]]
           /\ jobs'[d].pc = next /\ jobs'[d].todo = todo /\ jobs'[d].dirty = jobs[d].dirty
           /\ \A e \in DeploymentIds \ {d} : jobs'[e] = jobs[e]
<1>1. jobs' = [jobs EXCEPT ![d] = [jobs[d] EXCEPT !.pc = next, !.todo = todo]]
  BY DEF DeployGoto
<1>2. jobs \in [DeploymentIds -> [pc : DeployPcs,
                    todo : SUBSET (ComposeServices \cup ServiceNames),
                    expired : BOOLEAN, dirty : BOOLEAN]]
  BY DEF ToolboxTypeOK, DeployPcs
<1>3. [jobs[d] EXCEPT !.pc = next, !.todo = todo] \in
          [pc : DeployPcs, todo : SUBSET (ComposeServices \cup ServiceNames),
           expired : BOOLEAN, dirty : BOOLEAN]
  BY <1>2
<1> QED BY <1>1, <1>2, <1>3

(* Rows after an UPDATE: the other rows, and a row that is gone, stay. *)
LEMMA RowUpdateFacts ==
    ASSUME ToolboxTypeOK, NEW d \in DeploymentIds, NEW status \in DeploymentStatus,
           NEW containerID \in {NoContainerID, d}, NEW routeID \in {"", d},
           UpdateDeploymentStatus(d, status) \/ UpdateDeploymentContainer(d, containerID, routeID)
    PROVE  /\ deployments' \in [DeploymentIds -> DeploymentRow \cup {NoDeployment}]
           /\ \A e \in DeploymentIds \ {d} : deployments'[e] = deployments[e]
           /\ deployments[d] = NoDeployment => deployments' = deployments
           /\ deployments[d] # NoDeployment =>
                 /\ deployments'[d] # NoDeployment
                 /\ deployments'[d].name = deployments[d].name
                 /\ deployments'[d].containerName = deployments[d].containerName
                 /\ deployments'[d].containerID \in {deployments[d].containerID, containerID}
                 /\ deployments'[d].status \in {deployments[d].status, status}
           /\ UpdateDeploymentStatus(d, status) /\ deployments[d] # NoDeployment =>
                 deployments'[d].status = status
           /\ UpdateDeploymentContainer(d, containerID, routeID) =>
                 deployments'[d].status = deployments[d].status
<1>1. deployments \in [DeploymentIds -> DeploymentRow \cup {NoDeployment}]
  BY DEF ToolboxTypeOK
<1>2. CASE deployments[d] = NoDeployment
  BY <1>1, <1>2 DEF UpdateDeploymentStatus, UpdateDeploymentContainer
<1>3. CASE deployments[d] # NoDeployment
  <2> DEFINE row == deployments[d]
             marked == [row EXCEPT !.status = status]
             kept == [row EXCEPT !.containerID = containerID, !.routeID = routeID]
  <2>1. row \in DeploymentRow
    BY <1>1, <1>3
  <2>2. marked \in DeploymentRow /\ kept \in DeploymentRow
    BY <2>1 DEF DeploymentRow
  <2>3. /\ marked.name = row.name /\ marked.containerName = row.containerName
        /\ marked.containerID = row.containerID /\ marked.status = status
        /\ kept.name = row.name /\ kept.containerName = row.containerName
        /\ kept.containerID = containerID /\ kept.status = row.status
    BY <2>1 DEF DeploymentRow
  <2>4. \A r \in DeploymentRow : r # NoDeployment
    <3>1. \A r \in DeploymentRow : r.status \in DeploymentStatus
      BY DEF DeploymentRow
    <3>2. NoDeployment.status \notin DeploymentStatus
      BY DEF NoDeployment, DeploymentStatus
    <3> QED BY <3>1, <3>2
  <2>5. /\ UpdateDeploymentStatus(d, status) => deployments' = [deployments EXCEPT ![d] = marked]
        /\ UpdateDeploymentContainer(d, containerID, routeID) =>
              deployments' = [deployments EXCEPT ![d] = kept]
    BY <1>1, <1>3 DEF UpdateDeploymentStatus, UpdateDeploymentContainer
  <2> HIDE DEF marked, kept
  <2> QED BY <1>1, <1>3, <2>2, <2>3, <2>4, <2>5
<1> QED BY <1>2, <1>3

(* A step of one deployment leaves the others whole. *)
LEMMA StepOfOne ==
    ASSUME ToolboxIInv, NEW d \in DeploymentIds, ToolboxTypeOK', Whole(d)', catalog' = catalog,
           \A e \in DeploymentIds \ {d} :
               /\ deployments'[e] = deployments[e] /\ jobs'[e] = jobs[e]
               /\ removals'[e] = removals[e] /\ ContainersOf(e)' = ContainersOf(e)
    PROVE  ToolboxIInv'
<1>1. ASSUME NEW e \in DeploymentIds, e # d PROVE Whole(e)'
  <2>1. /\ Whole(e) /\ deployments'[e] = deployments[e] /\ jobs'[e] = jobs[e]
        /\ removals'[e] = removals[e] /\ ContainersOf(e)' = ContainersOf(e)
    BY <1>1 DEF ToolboxIInv
  <2> QED BY <2>1, OthersStayWhole
<1> QED BY <1>1 DEF ToolboxIInv

(* A request writes the row before its goroutine starts. *)
LEMMA DeployServiceIsWhole ==
    ASSUME ToolboxIInv, NEW d \in DeploymentIds, NEW name \in ServiceNames,
           NEW auto \in BOOLEAN, DeployService(d, name, auto)
    PROVE  ToolboxIInv'
<1> DEFINE row == [name |-> name, status |-> "pending", containerID |-> NoContainerID,
                   containerName |-> name, routeID |-> ""]
           job == IF auto THEN [NoDeployJob EXCEPT !.pc = "mark", !.todo = {name}] ELSE JobOver
<1>1. ToolboxTypeOK /\ Whole(d)
  BY DEF ToolboxIInv
<1>2. /\ jobs[d].pc = "idle" /\ removals[d].pc = "idle"
      /\ deployments' = [deployments EXCEPT ![d] = row] /\ jobs' = [jobs EXCEPT ![d] = job]
      /\ UNCHANGED <<catalog, removals, containers, networks, dockerFaults>>
  BY DEF DeployService
<1>3. row \in DeploymentRow /\ row # NoDeployment
  BY DEF DeploymentRow, DeploymentStatus, NoDeployment
<1>4. /\ job \in [pc : DeployPcs, todo : SUBSET (ComposeServices \cup ServiceNames),
                  expired : BOOLEAN, dirty : BOOLEAN]
      /\ (job.pc = "mark" /\ job.todo = {name}) \/ job.pc = "over"
  BY DEF NoDeployJob, JobOver, DeployPcs
<1>5. /\ row.name = name /\ row.containerName = name /\ row.containerID = NoContainerID
      /\ row.status = "pending"
  OBVIOUS
<1> HIDE DEF row, job
<1>6. ToolboxTypeOK'
  BY <1>1, <1>2, <1>3, <1>4 DEF ToolboxTypeOK, DeployPcs
<1>7. /\ deployments'[d] = row /\ jobs'[d] = job /\ ContainersOf(d)' = ContainersOf(d)
      /\ \A e \in DeploymentIds \ {d} :
            deployments'[e] = deployments[e] /\ jobs'[e] = jobs[e]
      /\ \A e : ContainersOf(e)' = ContainersOf(e)
  BY <1>1, <1>2 DEF ToolboxTypeOK, ContainersOf
<1>8. ContainersOf(d) = {}
  BY <1>1, <1>2 DEF Whole, NothingMadeYet
<1>9. Whole(d)'
  <2>1. RowsNameTheirOwn(d)' /\ RowsFollowJobs(d)' /\ NothingMadeYet(d)'
    BY <1>2, <1>3, <1>4, <1>5, <1>7, <1>8
    DEF RowsNameTheirOwn, RowsFollowJobs, NothingMadeYet
  <2>2. PartsAreInPlace(d)'
    BY <1>2, <1>4, <1>5, <1>7 DEF PartsAreInPlace
  <2> QED BY <2>1, <2>2 DEF Whole
<1> QED BY <1>2, <1>6, <1>7, <1>9, StepOfOne

(* The steps of the goroutine that leave Docker's containers alone. *)
LEMMA JobMovesOn ==
    ASSUME ToolboxIInv, NEW d \in DeploymentIds,
           \/ MarkDeploying(d) \/ NetworkCreate(d) \/ RecordIdentifier(d) \/ ListProject(d)
           \/ HandleDeploymentError(d) \/ MarkDeploymentSuccess(d)
    PROVE  ToolboxIInv'
<1>1. ToolboxTypeOK /\ RowsNameTheirOwn(d) /\ RowsFollowJobs(d) /\ NothingMadeYet(d)
      /\ PartsAreInPlace(d)
  BY DEF ToolboxIInv, Whole
<1>2. /\ UNCHANGED <<catalog, removals, containers>>
      /\ networks' \subseteq DeploymentIds /\ dockerFaults' \in 0..MaxToolboxFaults
  <2>1. UNCHANGED <<catalog, removals, containers>>
    BY DEF MarkDeploying, NetworkCreate, RecordIdentifier, ListProject,
           HandleDeploymentError,
           MarkDeploymentSuccess
  <2>2. networks' = networks \/ networks' = networks \cup {d}
    BY DEF MarkDeploying, NetworkCreate, RecordIdentifier, ListProject,
           HandleDeploymentError,
           MarkDeploymentSuccess
  <2>3. NoDockerFault \/ DockerFault
    BY DEF MarkDeploying, NetworkCreate, RecordIdentifier, ListProject,
           HandleDeploymentError,
           MarkDeploymentSuccess, NoDockerFault, CallFails
  <2>4. dockerFaults \in 0..MaxToolboxFaults /\ MaxToolboxFaults \in Nat
    BY <1>1, ToolboxConstants DEF ToolboxTypeOK
  <2>5. dockerFaults' \in 0..MaxToolboxFaults
    BY <2>3, <2>4 DEF NoDockerFault, DockerFault
  <2> QED BY <1>1, <2>1, <2>2, <2>5 DEF ToolboxTypeOK
<1>3. /\ containers \subseteq [by : DeploymentIds, part : ComposeServices \cup ServiceNames,
                               up : BOOLEAN]
      /\ jobs \in [DeploymentIds -> [pc : DeployPcs,
                      todo : SUBSET (ComposeServices \cup ServiceNames),
                      expired : BOOLEAN, dirty : BOOLEAN]]
      /\ catalog \in {"compose", "single"}
      /\ deployments \in [DeploymentIds -> DeploymentRow \cup {NoDeployment}]
  BY <1>1 DEF ToolboxTypeOK, DeployPcs
<1>4. /\ JobOver \in [pc : DeployPcs, todo : SUBSET (ComposeServices \cup ServiceNames),
                      expired : BOOLEAN, dirty : BOOLEAN]
      /\ JobOver.pc = "over"
  BY DEF JobOver, NoDeployJob, DeployPcs
<1>5. \A e : ContainersOf(e)' = ContainersOf(e)
  BY <1>2 DEF ContainersOf
<1>6. /\ PartsOf(d) = IF catalog = "compose" THEN ComposeServices ELSE {deployments[d].name}
      /\ \A part : Created(d, part)' <=> Created(d, part)
      /\ \A part : Up(d, part)' <=> Up(d, part)
  BY <1>2 DEF PartsOf, Created, Up
<1>7. ASSUME /\ jobs' \in [DeploymentIds -> [pc : DeployPcs,
                   todo : SUBSET (ComposeServices \cup ServiceNames),
                   expired : BOOLEAN, dirty : BOOLEAN]]
             /\ deployments' \in [DeploymentIds -> DeploymentRow \cup {NoDeployment}]
             /\ \A e \in DeploymentIds \ {d} :
                   deployments'[e] = deployments[e] /\ jobs'[e] = jobs[e]
             /\ RowsNameTheirOwn(d)' /\ RowsFollowJobs(d)' /\ NothingMadeYet(d)'
             /\ PartsAreInPlace(d)'
      PROVE  ToolboxIInv'
  <2>1. ToolboxTypeOK'
    BY <1>1, <1>2, <1>7 DEF ToolboxTypeOK, DeployPcs
  <2>2. Whole(d)'
    BY <1>7 DEF Whole
  <2> QED BY <1>2, <1>5, <1>7, <2>1, <2>2, StepOfOne
<1>8. CASE MarkDeploying(d)
  <2>1. /\ jobs[d].pc = "mark" /\ UpdateDeploymentStatus(d, "deploying")
        /\ \/ catalog = "compose" /\ DeployGoto(d, "network", ComposeServices)
           \/ catalog = "single" /\ DeployGoto(d, "create", jobs[d].todo)
    BY <1>3, <1>8 DEF MarkDeploying
  <2>2. /\ deployments' \in [DeploymentIds -> DeploymentRow \cup {NoDeployment}]
        /\ \A e \in DeploymentIds \ {d} : deployments'[e] = deployments[e]
        /\ deployments[d] = NoDeployment => deployments' = deployments
        /\ deployments[d] # NoDeployment =>
              /\ deployments'[d] # NoDeployment
              /\ deployments'[d].name = deployments[d].name
              /\ deployments'[d].containerName = deployments[d].containerName
              /\ deployments'[d].containerID \in {deployments[d].containerID, NoContainerID}
              /\ deployments'[d].status = "deploying"
    <3>1. "deploying" \in DeploymentStatus
      BY DEF DeploymentStatus
    <3> QED BY <1>1, <2>1, <3>1, RowUpdateFacts
  <2>3. PICK next \in {"network", "create"}, todo \in SUBSET (ComposeServices \cup ServiceNames) :
           /\ DeployGoto(d, next, todo)
           /\ next = "network" => catalog = "compose" /\ todo = ComposeServices
           /\ next = "create" => catalog = "single" /\ todo = jobs[d].todo
    BY <1>3, <2>1
  <2>4. /\ jobs' \in [DeploymentIds -> [pc : DeployPcs,
                          todo : SUBSET (ComposeServices \cup ServiceNames),
                          expired : BOOLEAN, dirty : BOOLEAN]]
        /\ jobs'[d].pc = next /\ jobs'[d].todo = todo /\ jobs'[d].dirty = jobs[d].dirty
        /\ \A e \in DeploymentIds \ {d} : jobs'[e] = jobs[e]
    BY <1>1, <2>3, DeployGotoFacts DEF DeployPcs
  <2>5. RowsNameTheirOwn(d)' /\ RowsFollowJobs(d)'
    BY <1>1, <1>2, <2>1, <2>2, <2>3, <2>4
    DEF RowsNameTheirOwn, RowsFollowJobs, NoDeployment
  <2>6. NothingMadeYet(d)'
    BY <1>1, <1>2, <1>5, <2>1, <2>3, <2>4 DEF NothingMadeYet
  <2>7. PartsAreInPlace(d)'
    BY <1>1, <1>2, <2>1, <2>2, <2>3, <2>4
    DEF PartsAreInPlace, PartsOf, RowsFollowJobs, NoDeployment
  <2> QED BY <1>7, <2>2, <2>4, <2>5, <2>6, <2>7
<1>9. CASE NetworkCreate(d)
  <2>1. PICK next \in {"create", "deployFailed"},
             todo \in SUBSET (ComposeServices \cup ServiceNames) :
           /\ jobs[d].pc = "network" /\ deployments' = deployments /\ DeployGoto(d, next, todo)
           /\ next = "create" => todo = jobs[d].todo
    BY <1>3, <1>9 DEF NetworkCreate
  <2>2. /\ jobs' \in [DeploymentIds -> [pc : DeployPcs,
                          todo : SUBSET (ComposeServices \cup ServiceNames),
                          expired : BOOLEAN, dirty : BOOLEAN]]
        /\ jobs'[d].pc = next /\ jobs'[d].todo = todo /\ jobs'[d].dirty = jobs[d].dirty
        /\ \A e \in DeploymentIds \ {d} : jobs'[e] = jobs[e]
    BY <1>1, <2>1, DeployGotoFacts DEF DeployPcs
  <2>3. RowsNameTheirOwn(d)' /\ RowsFollowJobs(d)' /\ NothingMadeYet(d)'
    BY <1>1, <1>2, <1>5, <2>1, <2>2 DEF RowsNameTheirOwn, RowsFollowJobs, NothingMadeYet
  <2>4. PartsAreInPlace(d)'
    BY <1>1, <1>2, <2>1, <2>2 DEF PartsAreInPlace, PartsOf, RowsFollowJobs
  <2> QED BY <1>3, <1>7, <2>1, <2>2, <2>3, <2>4
<1>10. CASE RecordIdentifier(d)
  <2>1. PICK next \in {"list", "start"}, todo \in SUBSET (ComposeServices \cup ServiceNames),
             containerID \in {NoContainerID, d}, routeID \in {"", d} :
           /\ jobs[d].pc = "record" /\ UpdateDeploymentContainer(d, containerID, routeID)
           /\ DeployGoto(d, next, todo)
           /\ next = "list" => catalog = "compose"
           /\ next = "start" => catalog = "single" /\ todo = jobs[d].todo
    <3>1. jobs[d].pc = "record"
      BY <1>10 DEF RecordIdentifier
    <3>2. CASE catalog = "compose"
      BY <1>10, <3>1, <3>2 DEF RecordIdentifier
    <3>3. CASE catalog = "single"
      BY <1>3, <1>10, <3>1, <3>3 DEF RecordIdentifier
    <3> QED BY <1>3, <3>2, <3>3
  <2>2. /\ deployments' \in [DeploymentIds -> DeploymentRow \cup {NoDeployment}]
        /\ \A e \in DeploymentIds \ {d} : deployments'[e] = deployments[e]
        /\ deployments[d] = NoDeployment => deployments' = deployments
        /\ deployments[d] # NoDeployment =>
              /\ deployments'[d] # NoDeployment
              /\ deployments'[d].name = deployments[d].name
              /\ deployments'[d].containerName = deployments[d].containerName
              /\ deployments'[d].containerID \in {deployments[d].containerID, containerID}
        /\ deployments'[d].status = deployments[d].status
    <3>1. "pending" \in DeploymentStatus
      BY DEF DeploymentStatus
    <3> QED BY <1>1, <2>1, <3>1, RowUpdateFacts
  <2>3. /\ jobs' \in [DeploymentIds -> [pc : DeployPcs,
                          todo : SUBSET (ComposeServices \cup ServiceNames),
                          expired : BOOLEAN, dirty : BOOLEAN]]
        /\ jobs'[d].pc = next /\ jobs'[d].todo = todo /\ jobs'[d].dirty = jobs[d].dirty
        /\ \A e \in DeploymentIds \ {d} : jobs'[e] = jobs[e]
    <3>1. next \in DeployPcs /\ DeployGoto(d, next, todo)
      BY <2>1 DEF DeployPcs
    <3> QED BY <1>1, <3>1, DeployGotoFacts
  <2>4. RowsNameTheirOwn(d)' /\ RowsFollowJobs(d)' /\ NothingMadeYet(d)'
    BY <1>1, <1>2, <2>1, <2>2, <2>3 DEF RowsNameTheirOwn, RowsFollowJobs, NothingMadeYet
  <2>5. removals[d].pc = "idle" => PartsOf(d)' = PartsOf(d)
    BY <1>1, <1>2, <2>1, <2>2 DEF PartsOf, RowsFollowJobs
  <2>6. PartsAreInPlace(d)'
    <3>1. ASSUME removals[d].pc = "idle", next = "start" PROVE PartsOf(d) \ todo = {}
      BY <1>1, <2>1, <3>1 DEF PartsAreInPlace, PartsOf
    <3>2. CASE removals[d].pc = "idle"
      <4>1. /\ jobs[d].pc = "record" /\ removals'[d] = removals[d]
            /\ deployments[d] # NoDeployment /\ deployments[d].status # "deployed"
        BY <1>1, <1>2, <2>1, <3>2 DEF RowsFollowJobs
      <4>2. \A part \in PartsOf(d) : Created(d, part)
        BY <1>1, <3>2, <4>1 DEF PartsAreInPlace
      <4>3. next = "start" => \A part \in PartsOf(d)' \ todo : Up(d, part)'
        BY <2>5, <3>1, <3>2
      <4> QED BY <1>6, <2>1, <2>2, <2>3, <2>5, <3>2, <4>1, <4>2, <4>3 DEF PartsAreInPlace
    <3>3. CASE removals[d].pc # "idle"
      BY <1>2, <3>3 DEF PartsAreInPlace
    <3> QED BY <3>2, <3>3
  <2> QED BY <1>7, <2>2, <2>3, <2>4, <2>6
<1>11. CASE ListProject(d)
  <2> DEFINE listed == {c.part : c \in ContainersOf(d)}
  <2>1. PICK next \in {"finish", "start", "startFailed"},
             todo \in SUBSET (ComposeServices \cup ServiceNames) :
           /\ jobs[d].pc = "list" /\ deployments' = deployments /\ DeployGoto(d, next, todo)
           /\ next = "finish" => listed = {}
           /\ next = "start" => todo = listed
    <3>1. listed \in SUBSET (ComposeServices \cup ServiceNames)
      BY <1>3 DEF ContainersOf
    <3>2. /\ jobs[d].pc = "list" /\ deployments' = deployments
          /\ \/ DeployGoto(d, IF listed = {} THEN "finish" ELSE "start", listed)
             \/ DeployGoto(d, "startFailed", {})
      BY <1>11 DEF ListProject
    <3> HIDE DEF listed
    <3> QED BY <3>1, <3>2
  <2>2. /\ jobs' \in [DeploymentIds -> [pc : DeployPcs,
                          todo : SUBSET (ComposeServices \cup ServiceNames),
                          expired : BOOLEAN, dirty : BOOLEAN]]
        /\ jobs'[d].pc = next /\ jobs'[d].todo = todo /\ jobs'[d].dirty = jobs[d].dirty
        /\ \A e \in DeploymentIds \ {d} : jobs'[e] = jobs[e]
    BY <1>1, <2>1, DeployGotoFacts DEF DeployPcs
  <2>3. RowsNameTheirOwn(d)' /\ RowsFollowJobs(d)' /\ NothingMadeYet(d)'
    BY <1>1, <1>2, <2>1, <2>2 DEF RowsNameTheirOwn, RowsFollowJobs, NothingMadeYet
  <2>4. \A part : Created(d, part) => part \in listed
    BY DEF Created, ContainersOf
  <2>5. PartsOf(d)' = PartsOf(d)
    BY <1>2, <2>1 DEF PartsOf
  <2> HIDE DEF listed
  <2>6. PartsAreInPlace(d)'
    BY <1>1, <1>2, <1>6, <2>1, <2>2, <2>4, <2>5 DEF PartsAreInPlace, RowsFollowJobs
  <2> QED BY <1>3, <1>7, <2>1, <2>2, <2>3, <2>6
<1>12. CASE HandleDeploymentError(d) \/ MarkDeploymentSuccess(d)
  <2>1. PICK status \in {"failed", "deployed"} :
           /\ UpdateDeploymentStatus(d, status) /\ jobs' = [jobs EXCEPT ![d] = JobOver]
           /\ status = "deployed" => jobs[d].pc = "finish"
           /\ jobs[d].pc \notin {"idle", "over"}
    BY <1>12 DEF HandleDeploymentError, MarkDeploymentSuccess, JobEnds
  <2>2. /\ deployments' \in [DeploymentIds -> DeploymentRow \cup {NoDeployment}]
        /\ \A e \in DeploymentIds \ {d} : deployments'[e] = deployments[e]
        /\ deployments[d] = NoDeployment => deployments' = deployments
        /\ deployments[d] # NoDeployment =>
              /\ deployments'[d] # NoDeployment
              /\ deployments'[d].name = deployments[d].name
              /\ deployments'[d].containerName = deployments[d].containerName
              /\ deployments'[d].containerID \in {deployments[d].containerID, NoContainerID}
              /\ deployments'[d].status = status
    <3>1. status \in DeploymentStatus
      BY DEF DeploymentStatus
    <3> QED BY <1>1, <2>1, <3>1, RowUpdateFacts
  <2>3. /\ jobs' \in [DeploymentIds -> [pc : DeployPcs,
                          todo : SUBSET (ComposeServices \cup ServiceNames),
                          expired : BOOLEAN, dirty : BOOLEAN]]
        /\ jobs'[d] = JobOver
        /\ \A e \in DeploymentIds \ {d} : jobs'[e] = jobs[e]
    BY <1>3, <1>4, <2>1
  <2>4. RowsNameTheirOwn(d)' /\ RowsFollowJobs(d)' /\ NothingMadeYet(d)'
    BY <1>1, <1>2, <1>4, <2>1, <2>2, <2>3
    DEF RowsNameTheirOwn, RowsFollowJobs, NothingMadeYet
  <2>5. PartsAreInPlace(d)'
    <3>1. PartsOf(d)' = PartsOf(d)
      BY <1>2, <2>2 DEF PartsOf
    <3>2. CASE status = "failed"
      BY <1>1, <1>2, <1>4, <2>1, <2>2, <2>3, <3>2
      DEF PartsAreInPlace, RowsFollowJobs, NoDeployment
    <3>3. CASE status = "deployed"
      <4>1. removals[d].pc = "idle" => \A part \in PartsOf(d) : Up(d, part)
        BY <1>1, <2>1, <3>3 DEF PartsAreInPlace
      <4> QED BY <1>2, <1>4, <1>6, <2>3, <3>1, <4>1 DEF PartsAreInPlace
    <3> QED BY <3>2, <3>3
  <2> QED BY <1>7, <2>2, <2>3, <2>4, <2>5
<1> QED BY <1>8, <1>9, <1>10, <1>11, <1>12

(* The deadline touches nothing but the context of the job. *)
LEMMA DeadlineKeepsWhole ==
    ASSUME ToolboxIInv, NEW d \in DeploymentIds, DeadlinePasses(d)
    PROVE  ToolboxIInv'
<1>1. ToolboxTypeOK /\ Whole(d)
  BY DEF ToolboxIInv
<1>2. /\ jobs' = [jobs EXCEPT ![d].expired = TRUE]
      /\ UNCHANGED <<catalog, deployments, removals, containers, networks, dockerFaults>>
  BY DEF DeadlinePasses
<1>3. /\ jobs' \in [DeploymentIds -> [pc : DeployPcs,
                        todo : SUBSET (ComposeServices \cup ServiceNames),
                        expired : BOOLEAN, dirty : BOOLEAN]]
      /\ jobs'[d].pc = jobs[d].pc /\ jobs'[d].todo = jobs[d].todo
      /\ jobs'[d].dirty = jobs[d].dirty
      /\ \A e \in DeploymentIds \ {d} : jobs'[e] = jobs[e]
  <2> DEFINE job == [jobs[d] EXCEPT !.expired = TRUE]
  <2>1. jobs \in [DeploymentIds -> [pc : DeployPcs,
                      todo : SUBSET (ComposeServices \cup ServiceNames),
                      expired : BOOLEAN, dirty : BOOLEAN]]
    BY <1>1 DEF ToolboxTypeOK, DeployPcs
  <2>2. job \in [pc : DeployPcs, todo : SUBSET (ComposeServices \cup ServiceNames),
                 expired : BOOLEAN, dirty : BOOLEAN]
    BY <2>1
  <2>3. job.pc = jobs[d].pc /\ job.todo = jobs[d].todo /\ job.dirty = jobs[d].dirty
    BY <2>1
  <2>4. jobs' = [jobs EXCEPT ![d] = job]
    BY <1>2, <2>1
  <2> HIDE DEF job
  <2> QED BY <2>1, <2>2, <2>3, <2>4
<1>4. ToolboxTypeOK'
  BY <1>1, <1>2, <1>3 DEF ToolboxTypeOK, DeployPcs
<1>5. /\ \A e : ContainersOf(e)' = ContainersOf(e)
      /\ PartsOf(d)' = PartsOf(d)
      /\ \A part : (Created(d, part)' <=> Created(d, part)) /\ (Up(d, part)' <=> Up(d, part))
  BY <1>2 DEF ContainersOf, PartsOf, Created, Up
<1>6. RowsNameTheirOwn(d)' /\ RowsFollowJobs(d)' /\ NothingMadeYet(d)'
  BY <1>1, <1>2, <1>3, <1>5 DEF Whole, RowsNameTheirOwn, RowsFollowJobs, NothingMadeYet
<1>7. PartsAreInPlace(d)'
  BY <1>1, <1>2, <1>3, <1>5 DEF Whole, PartsAreInPlace
<1> QED BY <1>2, <1>3, <1>4, <1>5, <1>6, <1>7, StepOfOne DEF Whole

(* A removal copies the row, then asks Docker for what the copy names, then *)
(* deletes the row.                                                         *)
LEMMA RemovalIsSafe ==
    ASSUME ToolboxIInv, NEW d \in DeploymentIds,
           RemovalBegins(d) \/ RemoveResources(d) \/ DeleteDeployment(d)
    PROVE  ToolboxIInv'
<1>1. ToolboxTypeOK /\ RowsNameTheirOwn(d) /\ RowsFollowJobs(d) /\ NothingMadeYet(d)
      /\ PartsAreInPlace(d)
  BY DEF ToolboxIInv, Whole
<1>2. /\ removals \in [DeploymentIds ->
             [pc : {"idle", "resources", "row", "done", "cut"},
              row : DeploymentRow \cup {NoDeployment}, failed : BOOLEAN]]
      /\ deployments \in [DeploymentIds -> DeploymentRow \cup {NoDeployment}]
      /\ containers \subseteq [by : DeploymentIds, part : ComposeServices \cup ServiceNames,
                               up : BOOLEAN]
      /\ dockerFaults \in 0..MaxToolboxFaults /\ MaxToolboxFaults \in Nat
  BY <1>1, ToolboxConstants DEF ToolboxTypeOK
<1>3. ASSUME NEW r \in [pc : {"idle", "resources", "row", "done", "cut"},
                         row : DeploymentRow \cup {NoDeployment}, failed : BOOLEAN],
             removals' = [removals EXCEPT ![d] = r], r.pc # "idle",
             r.pc = "resources" => /\ r.row.containerName \in ServiceNames
                                   /\ r.row.containerID \in {NoContainerID, d},
             \/ deployments' = deployments
             \/ deployments' = [deployments EXCEPT ![d] = NoDeployment],
             containers' \subseteq containers, containers \ containers' \subseteq ContainersOf(d),
             catalog' = catalog, jobs' = jobs, networks' \subseteq networks,
             dockerFaults' \in 0..MaxToolboxFaults
      PROVE  ToolboxIInv'
  <2>1. ToolboxTypeOK'
    BY <1>1, <1>2, <1>3 DEF ToolboxTypeOK
  <2>2. \A e \in DeploymentIds \ {d} :
           /\ deployments'[e] = deployments[e] /\ jobs'[e] = jobs[e]
           /\ removals'[e] = removals[e] /\ ContainersOf(e)' = ContainersOf(e)
    BY <1>2, <1>3 DEF ContainersOf
  <2>3. /\ removals'[d] = r
        /\ deployments'[d] \in {deployments[d], NoDeployment}
        /\ NoDeployment.status # "deployed"
        /\ ContainersOf(d) = {} => ContainersOf(d)' = {}
    BY <1>2, <1>3 DEF ContainersOf, NoDeployment
  <2>4. RowsNameTheirOwn(d)' /\ RowsFollowJobs(d)' /\ NothingMadeYet(d)' /\ PartsAreInPlace(d)'
    BY <1>1, <1>3, <2>3
    DEF RowsNameTheirOwn, RowsFollowJobs, NothingMadeYet, PartsAreInPlace
  <2> QED BY <1>3, <2>1, <2>2, <2>4, StepOfOne DEF Whole
<1>4. CASE RemovalBegins(d)
  <2> DEFINE r == [pc |-> "resources", row |-> deployments[d], failed |-> FALSE]
  <2>1. /\ deployments[d] # NoDeployment /\ deployments[d] \in DeploymentRow \cup {NoDeployment}
        /\ removals' = [removals EXCEPT ![d] = r]
        /\ UNCHANGED <<catalog, deployments, jobs, containers, networks, dockerFaults>>
    BY <1>2, <1>4 DEF RemovalBegins
  <2>2. /\ deployments[d].containerName \in ServiceNames
        /\ deployments[d].containerID \in {NoContainerID, d}
    BY <1>1, <2>1 DEF RowsNameTheirOwn
  <2>3. /\ r \in [pc : {"idle", "resources", "row", "done", "cut"},
                  row : DeploymentRow \cup {NoDeployment}, failed : BOOLEAN]
        /\ r.pc = "resources" /\ r.row = deployments[d]
    BY <2>1
  <2> HIDE DEF r
  <2> QED BY <1>2, <1>3, <2>1, <2>2, <2>3
<1>5. CASE RemoveResources(d)
  <2> DEFINE row == removals[d].row
             asked == [removals[d] EXCEPT !.pc = "row"]
             refused == [removals[d] EXCEPT !.pc = "row", !.failed = TRUE]
  <2>1. /\ removals[d].pc = "resources" /\ UNCHANGED <<catalog, deployments, jobs>>
        /\ \/ /\ containers' = containers \ RemovedContainers(row)
              /\ networks' = networks \ RemovedNetworks(row)
              /\ removals' = [removals EXCEPT ![d] = asked]
              /\ dockerFaults' = dockerFaults
           \/ /\ removals' = [removals EXCEPT ![d] = refused]
              /\ UNCHANGED <<containers, networks>>
              /\ DockerFault
    BY <1>5 DEF RemoveResources, NoDockerFault
  <2>2. row.containerName \in ServiceNames /\ row.containerID \in {NoContainerID, d}
    BY <1>1, <2>1 DEF RowsNameTheirOwn
  <2>3. RemovedContainers(row) \subseteq ContainersOf(d)
    BY <2>2, ToolboxConstants DEF RemovedContainers, IsComposeProject, ContainersOf
  <2>4. /\ asked \in [pc : {"idle", "resources", "row", "done", "cut"},
                      row : DeploymentRow \cup {NoDeployment}, failed : BOOLEAN]
        /\ refused \in [pc : {"idle", "resources", "row", "done", "cut"},
                        row : DeploymentRow \cup {NoDeployment}, failed : BOOLEAN]
        /\ asked.pc = "row" /\ refused.pc = "row"
    BY <1>2
  <2>5. /\ containers' \subseteq containers /\ containers \ containers' \subseteq ContainersOf(d)
        /\ networks' \subseteq networks
    BY <2>1, <2>3
  <2>6. dockerFaults' \in 0..MaxToolboxFaults
    BY <1>2, <2>1 DEF DockerFault
  <2> HIDE DEF row, asked, refused
  <2>7. CASE removals' = [removals EXCEPT ![d] = asked]
    BY <1>3, <2>1, <2>4, <2>5, <2>6, <2>7
  <2>8. CASE removals' = [removals EXCEPT ![d] = refused]
    BY <1>3, <2>1, <2>4, <2>5, <2>6, <2>8
  <2> QED BY <2>1, <2>7, <2>8
<1>6. CASE DeleteDeployment(d)
  <2> DEFINE r == [removals[d] EXCEPT !.pc = "done"]
  <2>1. /\ deployments' = [deployments EXCEPT ![d] = NoDeployment]
        /\ removals' = [removals EXCEPT ![d] = r]
        /\ UNCHANGED <<catalog, jobs, containers, networks, dockerFaults>>
    BY <1>6 DEF DeleteDeployment
  <2>2. /\ r \in [pc : {"idle", "resources", "row", "done", "cut"},
                  row : DeploymentRow \cup {NoDeployment}, failed : BOOLEAN]
        /\ r.pc = "done"
    BY <1>2
  <2> HIDE DEF r
  <2> QED BY <1>2, <1>3, <2>1, <2>2
<1> QED BY <1>4, <1>5, <1>6

(* The steps of the goroutine that change its own containers only. *)
LEMMA DockerStepIsSafe ==
    ASSUME ToolboxIInv, NEW d \in DeploymentIds,
           CreatePart(d) \/ CleanUpProject(d) \/ StartPart(d)
    PROVE  ToolboxIInv'
<1>1. ToolboxTypeOK /\ RowsNameTheirOwn(d) /\ RowsFollowJobs(d) /\ NothingMadeYet(d)
      /\ PartsAreInPlace(d)
  BY DEF ToolboxIInv, Whole
<1>2. /\ containers \subseteq [by : DeploymentIds, part : ComposeServices \cup ServiceNames,
                               up : BOOLEAN]
      /\ jobs \in [DeploymentIds -> [pc : DeployPcs,
                      todo : SUBSET (ComposeServices \cup ServiceNames),
                      expired : BOOLEAN, dirty : BOOLEAN]]
      /\ catalog \in {"compose", "single"} /\ networks \subseteq DeploymentIds
      /\ dockerFaults \in 0..MaxToolboxFaults /\ MaxToolboxFaults \in Nat
  BY <1>1, ToolboxConstants DEF ToolboxTypeOK, DeployPcs
<1>3. UNCHANGED <<catalog, deployments, removals>>
  BY DEF CreatePart, CleanUpProject, StartPart
<1>4. dockerFaults' \in 0..MaxToolboxFaults
  <2>1. NoDockerFault \/ DockerFault
    BY DEF CreatePart, CleanUpProject, StartPart, CallFails, NoDockerFault
  <2> QED BY <1>2, <2>1 DEF NoDockerFault, DockerFault
<1>5. networks' = networks \/ networks' = networks \ {d}
  BY DEF CreatePart, CleanUpProject, StartPart
<1>6. ASSUME NEW next \in DeployPcs, NEW todo \in SUBSET (ComposeServices \cup ServiceNames),
             NEW dirty \in BOOLEAN,
             jobs' \in [DeploymentIds -> [pc : DeployPcs,
                            todo : SUBSET (ComposeServices \cup ServiceNames),
                            expired : BOOLEAN, dirty : BOOLEAN]],
             jobs'[d].pc = next, jobs'[d].todo = todo, jobs'[d].dirty = dirty,
             \A e \in DeploymentIds \ {d} : jobs'[e] = jobs[e],
             containers' \subseteq [by : DeploymentIds, part : ComposeServices \cup ServiceNames,
                                    up : BOOLEAN],
             \A c : c.by # d => (c \in containers' <=> c \in containers),
             jobs[d].pc \notin {"idle", "over"}, next \notin {"idle", "over", "mark", "network", "list"},
             next = "clean" => catalog = "compose",
             next = "create" /\ catalog = "single" => \E name \in ServiceNames : todo = {name},
             NothingMadeYet(d)', PartsAreInPlace(d)'
      PROVE  ToolboxIInv'
  <2>1. ToolboxTypeOK'
    BY <1>1, <1>2, <1>3, <1>4, <1>5, <1>6 DEF ToolboxTypeOK, DeployPcs
  <2>2. \A e \in DeploymentIds \ {d} :
           /\ deployments'[e] = deployments[e] /\ jobs'[e] = jobs[e]
           /\ removals'[e] = removals[e] /\ ContainersOf(e)' = ContainersOf(e)
    BY <1>3, <1>6 DEF ContainersOf
  <2>3. RowsNameTheirOwn(d)' /\ RowsFollowJobs(d)'
    BY <1>1, <1>3, <1>6 DEF RowsNameTheirOwn, RowsFollowJobs
  <2> QED BY <1>3, <1>6, <2>1, <2>2, <2>3, StepOfOne DEF Whole
<1>7. PartsOf(d)' = PartsOf(d)
  BY <1>3 DEF PartsOf
<1>8. CASE CreatePart(d)
  <2>1. jobs[d].pc = "create"
    BY <1>8 DEF CreatePart
  <2>2. PICK part \in jobs[d].todo :
           \/ /\ containers' = containers \cup {[by |-> d, part |-> part, up |-> FALSE]}
              /\ IF jobs[d].todo = {part} THEN DeployGoto(d, "record", {part})
                                          ELSE DeployGoto(d, "create", jobs[d].todo \ {part})
           \/ AfterCreateFails(d) /\ containers' = containers
    BY <1>8 DEF CreatePart
  <2>3. part \in ComposeServices \cup ServiceNames
        /\ jobs[d].todo \in SUBSET (ComposeServices \cup ServiceNames)
    BY <1>2
  <2>4. /\ removals[d].pc = "idle" => deployments[d].status # "deployed"
        /\ removals[d].pc = "idle" =>
              \A p \in PartsOf(d) \ jobs[d].todo : Created(d, p)
        /\ catalog = "single" => ContainersOf(d) = {} /\ \E name \in ServiceNames : jobs[d].todo = {name}
        /\ removals[d].pc = "idle" /\ catalog = "single" =>
              jobs[d].todo = {deployments[d].name}
    BY <1>1, <2>1 DEF RowsFollowJobs, PartsAreInPlace, NothingMadeYet
  <2>5. CASE containers' = containers \cup {[by |-> d, part |-> part, up |-> FALSE]}
             /\ IF jobs[d].todo = {part} THEN DeployGoto(d, "record", {part})
                                         ELSE DeployGoto(d, "create", jobs[d].todo \ {part})
    <3> DEFINE new == [by |-> d, part |-> part, up |-> FALSE]
    <3>1. /\ new \in [by : DeploymentIds, part : ComposeServices \cup ServiceNames, up : BOOLEAN]
          /\ new.by = d /\ new.part = part /\ containers' = containers \cup {new}
      BY <2>3, <2>5
    <3> HIDE DEF new
    <3>2. PICK next \in {"record", "create"}, todo \in SUBSET (ComposeServices \cup ServiceNames) :
             /\ DeployGoto(d, next, todo)
             /\ next = "record" => jobs[d].todo = {part} /\ todo = {part}
             /\ next = "create" => jobs[d].todo # {part} /\ todo = jobs[d].todo \ {part}
      <4>1. CASE jobs[d].todo = {part}
        BY <2>3, <2>5, <4>1
      <4>2. CASE jobs[d].todo # {part}
        BY <2>3, <2>5, <4>2
      <4> QED BY <4>1, <4>2
    <3>3. /\ jobs' \in [DeploymentIds -> [pc : DeployPcs,
                            todo : SUBSET (ComposeServices \cup ServiceNames),
                            expired : BOOLEAN, dirty : BOOLEAN]]
          /\ jobs'[d].pc = next /\ jobs'[d].todo = todo /\ jobs'[d].dirty = jobs[d].dirty
          /\ \A e \in DeploymentIds \ {d} : jobs'[e] = jobs[e]
      <4>1. next \in DeployPcs /\ DeployGoto(d, next, todo)
        BY <3>2 DEF DeployPcs
      <4> QED BY <1>1, <4>1, DeployGotoFacts
    <3>4. next = "create" => catalog = "compose"
      BY <1>2, <2>2, <2>4, <3>2
    <3>5. NothingMadeYet(d)'
      BY <1>3, <3>2, <3>3, <3>4 DEF NothingMadeYet
    <3>6. /\ \A p : Created(d, p) => Created(d, p)'
          /\ Created(d, part)'
      BY <3>1 DEF Created
    <3>7. removals[d].pc = "idle" => \A p \in PartsOf(d) \ (jobs[d].todo \ {part}) : Created(d, p)'
      BY <2>4, <3>6
    <3>8. PartsAreInPlace(d)'
      <4>1. CASE next = "record"
        BY <1>3, <1>7, <2>4, <3>2, <3>3, <3>7, <4>1 DEF PartsAreInPlace
      <4>2. CASE next = "create"
        BY <1>3, <1>7, <2>4, <3>2, <3>3, <3>4, <3>7, <4>2 DEF PartsAreInPlace
      <4> QED BY <3>2, <4>1, <4>2
    <3>9. /\ containers' \subseteq [by : DeploymentIds, part : ComposeServices \cup ServiceNames,
                                    up : BOOLEAN]
          /\ \A c : c.by # d => (c \in containers' <=> c \in containers)
      BY <1>2, <3>1
    <3>10. next \in DeployPcs /\ jobs[d].dirty \in BOOLEAN
      BY <1>2, <3>2 DEF DeployPcs
    <3> QED BY <1>6, <2>1, <3>2, <3>3, <3>4, <3>5, <3>8, <3>9, <3>10
  <2>6. CASE AfterCreateFails(d) /\ containers' = containers
    <3>1. PICK next \in {"clean", "deployFailed"} :
             /\ DeployGoto(d, next, {})
             /\ IF catalog = "compose" THEN next = "clean" ELSE next = "deployFailed"
      BY <2>6 DEF AfterCreateFails
    <3>2. /\ jobs' \in [DeploymentIds -> [pc : DeployPcs,
                            todo : SUBSET (ComposeServices \cup ServiceNames),
                            expired : BOOLEAN, dirty : BOOLEAN]]
          /\ jobs'[d].pc = next /\ jobs'[d].todo = {} /\ jobs'[d].dirty = jobs[d].dirty
          /\ \A e \in DeploymentIds \ {d} : jobs'[e] = jobs[e]
      <4>1. next \in DeployPcs /\ DeployGoto(d, next, {})
            /\ {} \in SUBSET (ComposeServices \cup ServiceNames)
        BY <3>1 DEF DeployPcs
      <4> QED BY <1>1, <4>1, DeployGotoFacts
    <3>3. NothingMadeYet(d)'
      BY <1>2, <1>3, <2>4, <2>6, <3>1, <3>2 DEF NothingMadeYet, ContainersOf
    <3>4. PartsAreInPlace(d)'
      BY <1>3, <2>4, <3>1, <3>2 DEF PartsAreInPlace
    <3>5. /\ next \in DeployPcs /\ jobs[d].dirty \in BOOLEAN
          /\ next = "clean" => catalog = "compose"
          /\ {} \in SUBSET (ComposeServices \cup ServiceNames)
      BY <1>2, <3>1 DEF DeployPcs
    <3> QED BY <1>2, <1>6, <2>1, <2>6, <3>1, <3>2, <3>3, <3>4, <3>5
  <2> QED BY <2>2, <2>5, <2>6
<1>9. CASE CleanUpProject(d)
  <2>1. jobs[d].pc = "clean"
    BY <1>9 DEF CleanUpProject
  <2>2. removals[d].pc = "idle" => deployments[d].status # "deployed"
    BY <1>1, <2>1 DEF RowsFollowJobs
  <2>3. CASE DeployGoto(d, "deployFailed", {}) /\ containers' = containers \ ContainersOf(d)
    <3>1. /\ jobs' \in [DeploymentIds -> [pc : DeployPcs,
                            todo : SUBSET (ComposeServices \cup ServiceNames),
                            expired : BOOLEAN, dirty : BOOLEAN]]
          /\ jobs'[d].pc = "deployFailed" /\ jobs'[d].todo = {}
          /\ jobs'[d].dirty = jobs[d].dirty
          /\ \A e \in DeploymentIds \ {d} : jobs'[e] = jobs[e]
      <4>1. "deployFailed" \in DeployPcs /\ {} \in SUBSET (ComposeServices \cup ServiceNames)
        BY DEF DeployPcs
      <4> QED BY <1>1, <2>3, <4>1, DeployGotoFacts
    <3>2. NothingMadeYet(d)' /\ PartsAreInPlace(d)'
      BY <1>3, <2>2, <2>3, <3>1 DEF NothingMadeYet, PartsAreInPlace, ContainersOf
    <3>3. /\ containers' \subseteq [by : DeploymentIds, part : ComposeServices \cup ServiceNames,
                                    up : BOOLEAN]
          /\ \A c : c.by # d => (c \in containers' <=> c \in containers)
      BY <1>2, <2>3 DEF ContainersOf
    <3>4. "deployFailed" \in DeployPcs /\ jobs[d].dirty \in BOOLEAN
          /\ {} \in SUBSET (ComposeServices \cup ServiceNames)
      BY <1>2 DEF DeployPcs
    <3> QED BY <1>6, <2>1, <3>1, <3>2, <3>3, <3>4
  <2>4. CASE /\ jobs' = [jobs EXCEPT ![d].pc = "deployFailed", ![d].dirty = TRUE]
             /\ \E kept \in SUBSET ContainersOf(d) :
                   containers' = (containers \ ContainersOf(d)) \cup kept
    <3> DEFINE job == [jobs[d] EXCEPT !.pc = "deployFailed", !.dirty = TRUE]
    <3>1. /\ job \in [pc : DeployPcs, todo : SUBSET (ComposeServices \cup ServiceNames),
                      expired : BOOLEAN, dirty : BOOLEAN]
          /\ job.pc = "deployFailed" /\ job.todo = jobs[d].todo /\ job.dirty
      BY <1>2 DEF DeployPcs
    <3>2. jobs' = [jobs EXCEPT ![d] = job]
      BY <2>4
    <3> HIDE DEF job
    <3>3. /\ jobs' \in [DeploymentIds -> [pc : DeployPcs,
                            todo : SUBSET (ComposeServices \cup ServiceNames),
                            expired : BOOLEAN, dirty : BOOLEAN]]
          /\ jobs'[d].pc = "deployFailed" /\ jobs'[d].todo = jobs[d].todo
          /\ jobs'[d].dirty
          /\ \A e \in DeploymentIds \ {d} : jobs'[e] = jobs[e]
      BY <1>2, <3>1, <3>2
    <3>4. NothingMadeYet(d)' /\ PartsAreInPlace(d)'
      BY <1>3, <2>2, <3>3 DEF NothingMadeYet, PartsAreInPlace
    <3>5. /\ containers' \subseteq [by : DeploymentIds, part : ComposeServices \cup ServiceNames,
                                    up : BOOLEAN]
          /\ \A c : c.by # d => (c \in containers' <=> c \in containers)
      BY <1>2, <2>4 DEF ContainersOf
    <3>6. /\ "deployFailed" \in DeployPcs /\ jobs'[d].dirty \in BOOLEAN
          /\ jobs[d].todo \in SUBSET (ComposeServices \cup ServiceNames)
      BY <1>2, <3>3 DEF DeployPcs
    <3> QED BY <1>6, <2>1, <3>3, <3>4, <3>5, <3>6
  <2> QED BY <1>9, <2>3, <2>4 DEF CleanUpProject
<1>10. CASE StartPart(d)
  <2> DEFINE created(part) == {c \in ContainersOf(d) : c.part = part}
             started(part) == {[c EXCEPT !.up = TRUE] : c \in created(part)}
  <2>1. jobs[d].pc = "start"
    BY <1>10 DEF StartPart
  <2>2. PICK part \in jobs[d].todo :
           \/ /\ created(part) # {}
              /\ containers' = (containers \ created(part)) \cup started(part)
              /\ IF jobs[d].todo = {part} THEN DeployGoto(d, "finish", {})
                                          ELSE DeployGoto(d, "start", jobs[d].todo \ {part})
           \/ DeployGoto(d, "startFailed", {}) /\ containers' = containers
    BY <1>10 DEF StartPart
  <2>3. /\ removals[d].pc = "idle" => deployments[d].status # "deployed"
        /\ removals[d].pc = "idle" =>
              /\ \A p \in PartsOf(d) : Created(d, p)
              /\ \A p \in PartsOf(d) \ jobs[d].todo : Up(d, p)
    BY <1>1, <2>1 DEF RowsFollowJobs, PartsAreInPlace
  <2>4. ASSUME NEW next \in DeployPcs, NEW todo \in SUBSET (ComposeServices \cup ServiceNames),
               DeployGoto(d, next, todo)
        PROVE  /\ jobs' \in [DeploymentIds -> [pc : DeployPcs,
                                 todo : SUBSET (ComposeServices \cup ServiceNames),
                                 expired : BOOLEAN, dirty : BOOLEAN]]
               /\ jobs'[d].pc = next /\ jobs'[d].todo = todo /\ jobs'[d].dirty = jobs[d].dirty
               /\ jobs[d].dirty \in BOOLEAN
               /\ \A e \in DeploymentIds \ {d} : jobs'[e] = jobs[e]
    BY <1>1, <1>2, <2>4, DeployGotoFacts
  <2>5. CASE /\ created(part) # {}
             /\ containers' = (containers \ created(part)) \cup started(part)
             /\ IF jobs[d].todo = {part} THEN DeployGoto(d, "finish", {})
                                         ELSE DeployGoto(d, "start", jobs[d].todo \ {part})
    <3>1. PICK next \in {"finish", "start"}, todo \in SUBSET (ComposeServices \cup ServiceNames) :
             /\ DeployGoto(d, next, todo) /\ todo = jobs[d].todo \ {part}
             /\ next = "finish" => todo = {}
      <4>1. jobs[d].todo \ {part} \in SUBSET (ComposeServices \cup ServiceNames)
        BY <1>2
      <4>2. CASE jobs[d].todo = {part}
        BY <2>5, <4>1, <4>2
      <4>3. CASE jobs[d].todo # {part}
        BY <2>5, <4>1, <4>3
      <4> QED BY <4>2, <4>3
    <3>2. next \in DeployPcs
      BY <3>1 DEF DeployPcs
    <3>3. /\ jobs' \in [DeploymentIds -> [pc : DeployPcs,
                            todo : SUBSET (ComposeServices \cup ServiceNames),
                            expired : BOOLEAN, dirty : BOOLEAN]]
          /\ jobs'[d].pc = next /\ jobs'[d].todo = todo /\ jobs'[d].dirty = jobs[d].dirty
          /\ jobs[d].dirty \in BOOLEAN
          /\ \A e \in DeploymentIds \ {d} : jobs'[e] = jobs[e]
      BY <2>4, <3>1, <3>2
    <3>4. \A c \in created(part) :
             /\ [c EXCEPT !.up = TRUE] \in [by : DeploymentIds,
                       part : ComposeServices \cup ServiceNames, up : BOOLEAN]
             /\ [c EXCEPT !.up = TRUE] = [by |-> d, part |-> part, up |-> TRUE]
             /\ c.by = d /\ c.part = part
      <4> SUFFICES ASSUME NEW c \in created(part)
                   PROVE  /\ [c EXCEPT !.up = TRUE] \in [by : DeploymentIds,
                                    part : ComposeServices \cup ServiceNames, up : BOOLEAN]
                          /\ [c EXCEPT !.up = TRUE] = [by |-> d, part |-> part, up |-> TRUE]
                          /\ c.by = d /\ c.part = part
        OBVIOUS
      <4> DEFINE up == [c EXCEPT !.up = TRUE]
      <4>1. c \in [by : DeploymentIds, part : ComposeServices \cup ServiceNames, up : BOOLEAN]
            /\ c.by = d /\ c.part = part
        BY <1>2 DEF ContainersOf
      <4>2. /\ up \in [by : DeploymentIds, part : ComposeServices \cup ServiceNames, up : BOOLEAN]
            /\ up.by = d /\ up.part = part /\ up.up = TRUE
        BY <4>1
      <4> HIDE DEF up
      <4>3. up = [by |-> up.by, part |-> up.part, up |-> up.up]
        BY <4>2
      <4>4. up = [by |-> d, part |-> part, up |-> TRUE]
        BY <4>2, <4>3
      <4> QED BY <4>1, <4>2, <4>4 DEF up
    <3> DEFINE new == [by |-> d, part |-> part, up |-> TRUE]
    <3>5. started(part) = {new}
      <4> HIDE DEF new, created
      <4>1. \A c \in created(part) : [c EXCEPT !.up = TRUE] = new
        BY <3>4 DEF new
      <4> QED BY <2>5, <4>1
    <3>6. new.by = d /\ new.part = part
          /\ new \in [by : DeploymentIds, part : ComposeServices \cup ServiceNames, up : BOOLEAN]
      <4>1. PICK c \in created(part) : TRUE
        BY <2>5
      <4>2. [c EXCEPT !.up = TRUE] = new
        BY <3>4
      <4> QED BY <3>4, <4>1, <4>2
    <3>7. /\ new \in containers'
          /\ \A c : c.by # d \/ c.part # part => (c \in containers' <=> c \in containers)
          /\ containers' \subseteq [by : DeploymentIds, part : ComposeServices \cup ServiceNames,
                                    up : BOOLEAN]
      <4> HIDE DEF new, started
      <4> QED BY <1>2, <2>5, <3>4, <3>5, <3>6
    <3>8. \A p : Created(d, p) => Created(d, p)'
      <4> HIDE DEF new
      <4> QED BY <3>6, <3>7 DEF Created
    <3>9. Up(d, part)' /\ \A p : Up(d, p) /\ p # part => Up(d, p)'
      <4>1. \A p : [by |-> d, part |-> p, up |-> TRUE].part = p
        OBVIOUS
      <4> QED BY <3>7, <4>1 DEF Up
    <3>10. removals[d].pc = "idle" => /\ \A p \in PartsOf(d) : Created(d, p)'
                                      /\ \A p \in PartsOf(d) \ todo : Up(d, p)'
      BY <2>3, <3>1, <3>8, <3>9
    <3>11. NothingMadeYet(d)' /\ PartsAreInPlace(d)'
      <4> HIDE DEF new, created, started
      <4>1. NothingMadeYet(d)'
        BY <1>3, <3>1, <3>3 DEF NothingMadeYet
      <4>2. CASE next = "finish"
        BY <1>3, <1>7, <2>3, <3>1, <3>3, <3>10, <4>1, <4>2 DEF PartsAreInPlace
      <4>3. CASE next = "start"
        BY <1>3, <1>7, <2>3, <3>3, <3>10, <4>1, <4>3 DEF PartsAreInPlace
      <4> QED BY <3>1, <4>2, <4>3
    <3>12. \A c : c.by # d => (c \in containers' <=> c \in containers)
      BY <3>7
    <3> HIDE DEF new, created, started
    <3> QED BY <1>6, <2>1, <3>1, <3>2, <3>3, <3>7, <3>11, <3>12
  <2>6. CASE DeployGoto(d, "startFailed", {}) /\ containers' = containers
    <3>1. "startFailed" \in DeployPcs /\ {} \in SUBSET (ComposeServices \cup ServiceNames)
      BY DEF DeployPcs
    <3>2. /\ jobs' \in [DeploymentIds -> [pc : DeployPcs,
                            todo : SUBSET (ComposeServices \cup ServiceNames),
                            expired : BOOLEAN, dirty : BOOLEAN]]
          /\ jobs'[d].pc = "startFailed" /\ jobs'[d].todo = {}
          /\ jobs'[d].dirty = jobs[d].dirty /\ jobs[d].dirty \in BOOLEAN
          /\ \A e \in DeploymentIds \ {d} : jobs'[e] = jobs[e]
      BY <2>4, <2>6, <3>1
    <3>3. NothingMadeYet(d)' /\ PartsAreInPlace(d)'
      BY <1>3, <2>3, <3>2 DEF NothingMadeYet, PartsAreInPlace
    <3> HIDE DEF created, started
    <3> QED BY <1>2, <1>6, <2>1, <2>6, <3>1, <3>2, <3>3
  <2> QED BY <2>2, <2>5, <2>6
<1> QED BY <1>8, <1>9, <1>10

(* A restart drops the goroutines and the removals; rows and containers stay. *)
LEMMA RestartIsSafe ==
    ASSUME ToolboxIInv, ToolboxRestart
    PROVE  ToolboxIInv'
<1>1. ToolboxTypeOK
  BY DEF ToolboxIInv
<1>2. /\ jobs' = [d \in DeploymentIds |->
                    IF jobs[d].pc = "idle" THEN NoDeployJob ELSE JobOver]
      /\ removals' = [d \in DeploymentIds |->
                        IF removals[d].pc \in {"resources", "row"}
                        THEN [NoRemoval EXCEPT !.pc = "cut"] ELSE removals[d]]
      /\ UNCHANGED <<catalog, deployments, containers, networks, dockerFaults>>
  BY DEF ToolboxRestart
<1>3. /\ NoDeployJob \in [pc : DeployPcs, todo : SUBSET (ComposeServices \cup ServiceNames),
                          expired : BOOLEAN, dirty : BOOLEAN]
      /\ JobOver \in [pc : DeployPcs, todo : SUBSET (ComposeServices \cup ServiceNames),
                      expired : BOOLEAN, dirty : BOOLEAN]
      /\ NoDeployJob.pc = "idle" /\ JobOver.pc = "over"
      /\ [NoRemoval EXCEPT !.pc = "cut"] \in [pc : {"idle", "resources", "row", "done", "cut"},
              row : DeploymentRow \cup {NoDeployment}, failed : BOOLEAN]
      /\ [NoRemoval EXCEPT !.pc = "cut"].pc = "cut"
  BY DEF NoDeployJob, JobOver, NoRemoval, DeployPcs
<1>4. ToolboxTypeOK'
  BY <1>1, <1>2, <1>3 DEF ToolboxTypeOK, DeployPcs
<1>5. ASSUME NEW d \in DeploymentIds PROVE Whole(d)'
  <2>1. RowsNameTheirOwn(d) /\ RowsFollowJobs(d) /\ NothingMadeYet(d) /\ PartsAreInPlace(d)
    BY DEF ToolboxIInv, Whole
  <2>2. /\ jobs'[d].pc \in {"idle", "over"} /\ (jobs'[d].pc = "idle" => jobs[d].pc = "idle")
        /\ removals'[d].pc # "resources"
        /\ removals'[d].pc = "idle" => removals[d].pc = "idle"
    BY <1>2, <1>3
  <2>3. ContainersOf(d)' = ContainersOf(d) /\ PartsOf(d)' = PartsOf(d)
        /\ \A part : Up(d, part)' <=> Up(d, part)
    BY <1>2 DEF ContainersOf, PartsOf, Up
  <2>4. RowsNameTheirOwn(d)' /\ RowsFollowJobs(d)' /\ NothingMadeYet(d)'
    BY <1>2, <2>1, <2>2, <2>3 DEF RowsNameTheirOwn, RowsFollowJobs, NothingMadeYet
  <2>5. PartsAreInPlace(d)'
    BY <1>2, <2>1, <2>2, <2>3 DEF PartsAreInPlace
  <2> QED BY <2>4, <2>5 DEF Whole
<1> QED BY <1>4, <1>5 DEF ToolboxIInv

(* Nothing is deployed at the start, and every row that is already there *)
(* names containers of its own.                                          *)
LEMMA ToolboxInitIsSafe == ToolboxInit => ToolboxIInv
<1> SUFFICES ASSUME ToolboxInit PROVE ToolboxIInv
  OBVIOUS
<1>1. /\ NoDeployJob \in [pc : DeployPcs, todo : SUBSET (ComposeServices \cup ServiceNames),
                          expired : BOOLEAN, dirty : BOOLEAN]
      /\ NoRemoval \in [pc : {"idle", "resources", "row", "done", "cut"},
                        row : DeploymentRow \cup {NoDeployment}, failed : BOOLEAN]
      /\ NoDeployJob.pc = "idle" /\ NoRemoval.pc = "idle" /\ NoDeployment.status = "absent"
  BY DEF NoDeployJob, NoRemoval, NoDeployment, DeployPcs
<1>2. ToolboxTypeOK
  <2>1. 0 \in 0..MaxToolboxFaults
    BY ToolboxConstants
  <2> QED BY <1>1, <2>1 DEF ToolboxInit, ToolboxTypeOK, DeployPcs
<1>3. ASSUME NEW d \in DeploymentIds PROVE Whole(d)
  <2>1. /\ deployments[d] = NoDeployment /\ jobs[d].pc = "idle" /\ removals[d].pc = "idle"
        /\ ContainersOf(d) = {}
    BY <1>1 DEF ToolboxInit, ContainersOf
  <2> QED BY <1>1, <2>1 DEF Whole, RowsNameTheirOwn, RowsFollowJobs, NothingMadeYet,
                            PartsAreInPlace
<1> QED BY <1>2, <1>3 DEF ToolboxIInv

(* Every deployment, every removal and every fault of the runtime keeps *)
(* the invariant.                                                       *)
LEMMA ToolboxIInvInductive == ToolboxIInv /\ [ToolboxNext]_toolboxVars => ToolboxIInv'
<1> SUFFICES ASSUME ToolboxIInv, [ToolboxNext]_toolboxVars PROVE ToolboxIInv'
  OBVIOUS
<1>1. ASSUME NEW d \in DeploymentIds, NEW name \in ServiceNames, NEW auto \in BOOLEAN,
             DeployService(d, name, auto)
      PROVE  ToolboxIInv'
  BY <1>1, DeployServiceIsWhole
<1>2. ASSUME NEW d \in DeploymentIds,
             \/ MarkDeploying(d) \/ NetworkCreate(d) \/ RecordIdentifier(d) \/ ListProject(d)
             \/ HandleDeploymentError(d) \/ MarkDeploymentSuccess(d)
      PROVE  ToolboxIInv'
  BY <1>2, JobMovesOn
<1>3. ASSUME NEW d \in DeploymentIds, DeadlinePasses(d) PROVE ToolboxIInv'
  BY <1>3, DeadlineKeepsWhole
<1>4. ASSUME NEW d \in DeploymentIds, CreatePart(d) \/ CleanUpProject(d) \/ StartPart(d)
      PROVE  ToolboxIInv'
  BY <1>4, DockerStepIsSafe
<1>5. ASSUME NEW d \in DeploymentIds,
             RemovalBegins(d) \/ RemoveResources(d) \/ DeleteDeployment(d)
      PROVE  ToolboxIInv'
  BY <1>5, RemovalIsSafe
<1>6. CASE ToolboxRestart
  BY <1>6, RestartIsSafe
<1>7. CASE UNCHANGED toolboxVars
  <2>1. ToolboxTypeOK'
    BY <1>7 DEF toolboxVars, ToolboxIInv, ToolboxTypeOK
  <2>2. ASSUME NEW e \in DeploymentIds PROVE Whole(e)'
    <3>1. /\ Whole(e) /\ catalog' = catalog /\ deployments'[e] = deployments[e]
          /\ jobs'[e] = jobs[e] /\ removals'[e] = removals[e]
          /\ ContainersOf(e)' = ContainersOf(e)
      BY <1>7 DEF toolboxVars, ToolboxIInv, ContainersOf
    <3> QED BY <3>1, OthersStayWhole
  <2> QED BY <2>1, <2>2 DEF ToolboxIInv
<1> QED BY <1>1, <1>2, <1>3, <1>4, <1>5, <1>6, <1>7 DEF ToolboxNext

(* Rows, goroutines, removals and containers have their types. *)
THEOREM ToolboxTypeCorrect == ToolboxSpec => []ToolboxTypeOK
<1>1. ToolboxIInv => ToolboxTypeOK
  BY DEF ToolboxIInv
<1> QED BY <1>1, ToolboxInitIsSafe, ToolboxIInvInductive, PTL DEF ToolboxSpec

(* What is shown as deployed runs until its own removal begins, and what failed *)
(* to be created is cleaned up, whatever the other deployments and removals do: *)
(* performDeployment, RemoveDeployment.                                         *)
THEOREM DeploymentsAreWholeHolds == ToolboxSpec => []DeploymentsAreWhole
<1>1. ToolboxIInv => DeploymentsAreWhole
  <2> SUFFICES ASSUME ToolboxIInv PROVE DeploymentsAreWhole
    OBVIOUS
  <2>1. DeployedRuns
    BY DEF ToolboxIInv, Whole, PartsAreInPlace, PartsOf, Up, DeployedRuns
  <2>2. FailedCreationLeavesNothing
    BY DEF ToolboxIInv, Whole, NothingMadeYet, FailedCreationLeavesNothing
  <2> QED BY <2>1, <2>2 DEF DeploymentsAreWhole
<1> QED BY <1>1, ToolboxInitIsSafe, ToolboxIInvInductive, PTL DEF ToolboxSpec

(* What the removal of a single container needs.  Its ID is in the row from *)
(* the moment the container is to be started.                               *)
RowHasContainer(d) ==
    /\ jobs[d].pc \in {"start", "finish"} /\ catalog = "single" /\ deployments[d] # NoDeployment =>
          deployments[d].containerID = d
    /\ deployments[d].status = "deployed" =>
          jobs[d].pc = "over" /\ (catalog = "single" => deployments[d].containerID = d)

(* A removal that read such a row has the ID too, comes when the goroutine  *)
(* is over, and has removed the container once Docker answered.             *)
RemovalReaches(d) ==
    removals[d].row.status = "deployed" =>
        /\ jobs[d].pc = "over"
        /\ catalog = "single" =>
              /\ removals[d].row.containerID = d
              /\ removals[d].pc \in {"row", "done"} /\ ~removals[d].failed => ContainersOf(d) = {}

RemovalsReach == \A d \in DeploymentIds : RowHasContainer(d) /\ RemovalReaches(d)
(* A step that leaves a deployment, its goroutine, its removal and its      *)
(* containers alone.                                                        *)
LEMMA OthersStayInReach ==
    ASSUME NEW e, RowHasContainer(e), RemovalReaches(e), catalog' = catalog,
           deployments'[e] = deployments[e], jobs'[e] = jobs[e],
           removals'[e] = removals[e], ContainersOf(e)' = ContainersOf(e)
    PROVE  RowHasContainer(e)' /\ RemovalReaches(e)'
BY DEF RowHasContainer, RemovalReaches

(* A step of the goroutine of d, or the request that starts it: while it    *)
(* runs no removal has read a row that says "deployed".                     *)
LEMMA JobKeepsReach ==
    ASSUME ToolboxIInv, RemovalsReach, NEW d \in DeploymentIds,
           \/ \E name \in ServiceNames, auto \in BOOLEAN : DeployService(d, name, auto)
           \/ MarkDeploying(d) \/ DeadlinePasses(d) \/ NetworkCreate(d) \/ CreatePart(d)
           \/ CleanUpProject(d) \/ RecordIdentifier(d) \/ ListProject(d) \/ StartPart(d)
           \/ HandleDeploymentError(d) \/ MarkDeploymentSuccess(d)
    PROVE  RemovalsReach'
<1>1. /\ jobs \in [DeploymentIds -> [pc : DeployPcs,
                       todo : SUBSET (ComposeServices \cup ServiceNames),
                       expired : BOOLEAN, dirty : BOOLEAN]]
      /\ deployments \in [DeploymentIds -> DeploymentRow \cup {NoDeployment}]
  BY DEF ToolboxIInv, ToolboxTypeOK, DeployPcs
<1>2. RowHasContainer(d) /\ RemovalReaches(d) /\ RowsFollowJobs(d)
  BY DEF RemovalsReach, ToolboxIInv, Whole
<1>3. UNCHANGED <<catalog, removals>> /\ jobs[d].pc # "over"
  BY DEF DeployService, MarkDeploying, DeadlinePasses, NetworkCreate, CreatePart,
         CleanUpProject, RecordIdentifier, ListProject, StartPart,
         HandleDeploymentError, MarkDeploymentSuccess
<1>4. removals'[d].row.status # "deployed"
  BY <1>2, <1>3 DEF RemovalReaches
<1>5. \A e \in DeploymentIds \ {d} : deployments'[e] = deployments[e] /\ jobs'[e] = jobs[e]
  <2>1. \/ deployments' = deployments
        \/ \E row : deployments' = [deployments EXCEPT ![d] = row]
    BY DEF DeployService, MarkDeploying, DeadlinePasses, NetworkCreate, CreatePart,
           CleanUpProject, RecordIdentifier, ListProject, StartPart,
           HandleDeploymentError, MarkDeploymentSuccess,
           UpdateDeploymentStatus, UpdateDeploymentContainer
  <2>2. \E job : jobs' = [jobs EXCEPT ![d] = job]
    BY DEF DeployService, MarkDeploying, DeadlinePasses, NetworkCreate, CreatePart,
           AfterCreateFails, CleanUpProject, RecordIdentifier, ListProject, StartPart,
           HandleDeploymentError, MarkDeploymentSuccess, DeployGoto, JobEnds
  <2> QED BY <1>1, <2>1, <2>2
<1>6. \A e \in DeploymentIds \ {d} : ContainersOf(e)' = ContainersOf(e)
  <2>1. ASSUME CreatePart(d) PROVE \A c : c.by # d => (c \in containers' <=> c \in containers)
    <3>1. PICK part : \/ containers' = containers \cup {[by |-> d, part |-> part, up |-> FALSE]}
                      \/ containers' = containers
      BY <2>1 DEF CreatePart
    <3> QED BY <3>1
  <2>2. ASSUME CleanUpProject(d) PROVE \A c : c.by # d => (c \in containers' <=> c \in containers)
    <3>1. PICK kept \in SUBSET ContainersOf(d) :
              containers' = (containers \ ContainersOf(d)) \cup kept
      BY <2>2 DEF CleanUpProject
    <3> QED BY <3>1 DEF ContainersOf
  <2>3. ASSUME StartPart(d) PROVE \A c : c.by # d => (c \in containers' <=> c \in containers)
    <3> DEFINE created(part) == {c \in ContainersOf(d) : c.part = part}
    <3>1. PICK part :
              \/ containers' = (containers \ created(part))
                                  \cup {[c EXCEPT !.up = TRUE] : c \in created(part)}
              \/ containers' = containers
      BY <2>3 DEF StartPart
    <3>2. \A c \in ContainersOf(d) : c \in [by : DeploymentIds, part : ComposeServices \cup ServiceNames, up : BOOLEAN]
      BY DEF ContainersOf, ToolboxIInv, ToolboxTypeOK
    <3>3. \A c \in ContainersOf(d) : c.by = d /\ [c EXCEPT !.up = TRUE].by = d
      BY <3>2 DEF ContainersOf
    <3> DEFINE before == created(part)
               after == {[c EXCEPT !.up = TRUE] : c \in created(part)}
    <3>4. (\A c \in before : c.by = d) /\ (\A c \in after : c.by = d)
      BY <3>3
    <3>5. containers' = (containers \ before) \cup after \/ containers' = containers
      BY <3>1
    <3> HIDE DEF before, after
    <3> QED BY <3>4, <3>5
  <2>4. containers' = containers \/ CreatePart(d) \/ CleanUpProject(d) \/ StartPart(d)
    BY DEF DeployService, MarkDeploying, DeadlinePasses, NetworkCreate, RecordIdentifier,
           ListProject, HandleDeploymentError, MarkDeploymentSuccess
  <2>5. CASE containers' = containers
    BY <2>5 DEF ContainersOf
  <2>6. CASE \A c : c.by # d => (c \in containers' <=> c \in containers)
    BY <2>6 DEF ContainersOf
  <2> QED BY <2>1, <2>2, <2>3, <2>4, <2>5, <2>6
<1>7. RowHasContainer(d)'
  <2>1. ASSUME NEW name \in ServiceNames, NEW auto \in BOOLEAN, DeployService(d, name, auto)
        PROVE  RowHasContainer(d)'
    BY <1>1, <2>1 DEF RowHasContainer, DeployService, NoDeployJob, JobOver
  <2>2. ASSUME DeadlinePasses(d) PROVE RowHasContainer(d)'
    BY <1>1, <1>2, <2>2 DEF RowHasContainer, DeadlinePasses
  <2>3. ASSUME CreatePart(d) \/ CleanUpProject(d) \/ StartPart(d) PROVE RowHasContainer(d)'
    <3>1. /\ deployments' = deployments
          /\ jobs'[d].pc \in {"start", "finish"} => jobs[d].pc = "start"
          /\ jobs[d].pc \notin {"idle", "over"}
      BY <1>1, <2>3 DEF CreatePart, CleanUpProject, StartPart, AfterCreateFails, DeployGoto
    <3> QED BY <1>2, <1>3, <3>1 DEF RowHasContainer, RowsFollowJobs
  <2>4. ASSUME NetworkCreate(d) \/ ListProject(d) PROVE RowHasContainer(d)'
    <3>1. /\ deployments' = deployments
          /\ catalog = "compose"
          /\ jobs[d].pc \notin {"idle", "over"}
      BY <1>2, <2>4 DEF NetworkCreate, ListProject, RowsFollowJobs
    <3> QED BY <1>2, <1>3, <3>1 DEF RowHasContainer, RowsFollowJobs
  <2>5. ASSUME MarkDeploying(d) \/ HandleDeploymentError(d) PROVE RowHasContainer(d)'
    <3>1. /\ deployments'[d].status # "deployed"
          /\ jobs'[d].pc \notin {"start", "finish"}
      <4>1. NoDeployment.status # "deployed"
        BY DEF NoDeployment
      <4>2. deployments'[d].status # "deployed"
        BY <1>1, <2>5, <4>1
        DEF MarkDeploying, HandleDeploymentError, UpdateDeploymentStatus, DeploymentRow
      <4> QED BY <1>1, <2>5, <4>2
              DEF MarkDeploying, HandleDeploymentError, DeployGoto, JobEnds, JobOver, NoDeployJob
    <3> QED BY <3>1 DEF RowHasContainer
  <2>6. ASSUME RecordIdentifier(d) PROVE RowHasContainer(d)'
    <3>1. deployments[d].status # "deployed"
      BY <1>2, <2>6 DEF RecordIdentifier, RowsFollowJobs
    <3>2. catalog = "compose" \/ catalog = "single"
      BY DEF ToolboxIInv, ToolboxTypeOK
    <3>3. CASE deployments[d] = NoDeployment
      <4>1. deployments' = deployments
        BY <2>6, <3>3 DEF RecordIdentifier, UpdateDeploymentContainer
      <4> QED BY <1>3, <3>1, <3>3, <4>1 DEF RowHasContainer
    <3>4. CASE deployments[d] # NoDeployment
      <4>1. deployments[d] \in DeploymentRow
        BY <1>1, <3>4
      <4>2. PICK id, route :
                /\ deployments' = [deployments EXCEPT
                       ![d] = [deployments[d] EXCEPT !.containerID = id, !.routeID = route]]
                /\ catalog = "single" => id = d
        BY <1>1, <2>6, <3>2, <3>4 DEF RecordIdentifier, UpdateDeploymentContainer
      <4>3. deployments'[d].status = deployments[d].status /\ deployments'[d].containerID = id
        BY <1>1, <4>1, <4>2 DEF DeploymentRow
      <4> QED BY <1>3, <3>1, <4>2, <4>3 DEF RowHasContainer
    <3> QED BY <3>3, <3>4
  <2>7. ASSUME MarkDeploymentSuccess(d) PROVE RowHasContainer(d)'
    <3>1. jobs[d].pc = "finish" /\ jobs'[d].pc = "over"
      BY <1>1, <2>7 DEF MarkDeploymentSuccess, JobEnds, JobOver, NoDeployJob
    <3>2. CASE deployments[d] = NoDeployment
      <4>1. deployments' = deployments /\ NoDeployment.status # "deployed"
        BY <2>7, <3>2 DEF MarkDeploymentSuccess, UpdateDeploymentStatus, NoDeployment
      <4> QED BY <3>1, <3>2, <4>1 DEF RowHasContainer
    <3>3. CASE deployments[d] # NoDeployment
      <4>1. deployments'[d].containerID = deployments[d].containerID
        BY <1>1, <2>7, <3>3 DEF MarkDeploymentSuccess, UpdateDeploymentStatus, DeploymentRow
      <4> QED BY <1>2, <1>3, <3>1, <3>3, <4>1 DEF RowHasContainer
    <3> QED BY <3>2, <3>3
  <2> QED BY <2>1, <2>2, <2>3, <2>4, <2>5, <2>6, <2>7
<1>8. ASSUME NEW e \in DeploymentIds, e # d PROVE RowHasContainer(e)' /\ RemovalReaches(e)'
  <2>1. RowHasContainer(e) /\ RemovalReaches(e)
    BY DEF RemovalsReach
  <2> QED BY <1>3, <1>5, <1>6, <1>8, <2>1, OthersStayInReach
<1> QED BY <1>4, <1>7, <1>8 DEF RemovalsReach, RemovalReaches

(* A step of the removal of d: it reads the row once and removes by what it *)
(* read.                                                                    *)
LEMMA RemovalKeepsReach ==
    ASSUME ToolboxIInv, RemovalsReach, NEW d \in DeploymentIds,
           RemovalBegins(d) \/ RemoveResources(d) \/ DeleteDeployment(d)
    PROVE  RemovalsReach'
<1>1. /\ removals \in [DeploymentIds ->
             [pc : {"idle", "resources", "row", "done", "cut"},
              row : DeploymentRow \cup {NoDeployment}, failed : BOOLEAN]]
      /\ deployments \in [DeploymentIds -> DeploymentRow \cup {NoDeployment}]
  BY DEF ToolboxIInv, ToolboxTypeOK
<1>2. RowHasContainer(d) /\ RemovalReaches(d) /\ RowsNameTheirOwn(d)
  BY DEF RemovalsReach, ToolboxIInv, Whole
<1>3. UNCHANGED <<catalog, jobs>>
  BY DEF RemovalBegins, RemoveResources, DeleteDeployment
<1>4. \A e \in DeploymentIds \ {d} :
          deployments'[e] = deployments[e] /\ removals'[e] = removals[e]
  BY <1>1 DEF RemovalBegins, RemoveResources, DeleteDeployment
<1>5. RemoveResources(d) => RemovedContainers(removals[d].row) \subseteq ContainersOf(d)
  BY <1>2, ToolboxConstants
  DEF RemoveResources, RowsNameTheirOwn, RemovedContainers, IsComposeProject, ContainersOf
<1>6. \A e \in DeploymentIds \ {d} : ContainersOf(e)' = ContainersOf(e)
  BY <1>5 DEF RemovalBegins, RemoveResources, DeleteDeployment, ContainersOf
<1>7. RowHasContainer(d)'
  <2>1. deployments'[d] \in {deployments[d], NoDeployment} /\ NoDeployment.status # "deployed"
    BY <1>1 DEF RemovalBegins, RemoveResources, DeleteDeployment, NoDeployment
  <2> QED BY <1>2, <1>3, <2>1 DEF RowHasContainer
<1>8. RemovalReaches(d)'
  <2>1. CASE RemovalBegins(d)
    <3>1. removals'[d].pc = "resources" /\ removals'[d].row = deployments[d]
      BY <1>1, <2>1 DEF RemovalBegins
    <3> QED BY <1>2, <1>3, <3>1 DEF RowHasContainer, RemovalReaches
  <2>2. CASE RemoveResources(d)
    <3>1. /\ removals[d].pc = "resources"
          /\ removals'[d].row = removals[d].row /\ removals'[d].pc = "row"
          /\ \/ removals'[d].failed
             \/ containers' = containers \ RemovedContainers(removals[d].row)
      BY <1>1, <2>2 DEF RemoveResources
    <3>2. ASSUME removals[d].row.containerID = d
          PROVE  ContainersOf(d) \subseteq RemovedContainers(removals[d].row)
      <4>1. removals[d].row.containerName \in ServiceNames
        BY <1>2, <3>1 DEF RowsNameTheirOwn
      <4>2. ~IsComposeProject(removals[d].row.containerName)
        BY <4>1, ToolboxConstants DEF IsComposeProject
      <4>3. d # NoContainerID
        BY ToolboxConstants
      <4> QED BY <3>2, <4>2, <4>3 DEF RemovedContainers, ContainersOf
    <3> QED BY <1>2, <1>3, <3>1, <3>2 DEF RemovalReaches, ContainersOf
  <2>3. CASE DeleteDeployment(d)
    <3>1. /\ removals[d].pc = "row" /\ removals'[d].pc = "done"
          /\ removals'[d].row = removals[d].row /\ removals'[d].failed = removals[d].failed
          /\ containers' = containers
      BY <1>1, <2>3 DEF DeleteDeployment
    <3> QED BY <1>2, <1>3, <3>1 DEF RemovalReaches, ContainersOf
  <2> QED BY <2>1, <2>2, <2>3
<1>9. ASSUME NEW e \in DeploymentIds, e # d PROVE RowHasContainer(e)' /\ RemovalReaches(e)'
  <2>1. RowHasContainer(e) /\ RemovalReaches(e)
    BY DEF RemovalsReach
  <2> QED BY <1>3, <1>4, <1>6, <1>9, <2>1, OthersStayInReach
<1> QED BY <1>7, <1>8, <1>9 DEF RemovalsReach

(* A restart forgets what a removal had read and starts no goroutine again. *)
LEMMA RestartKeepsReach ==
    ASSUME ToolboxIInv, RemovalsReach, ToolboxRestart
    PROVE  RemovalsReach'
<1> SUFFICES ASSUME NEW d \in DeploymentIds PROVE RowHasContainer(d)' /\ RemovalReaches(d)'
  BY DEF RemovalsReach
<1>1. /\ UNCHANGED <<catalog, deployments, containers>>
      /\ jobs'[d] = IF jobs[d].pc = "idle" THEN NoDeployJob ELSE JobOver
      /\ removals'[d] = IF removals[d].pc \in {"resources", "row"}
                        THEN [NoRemoval EXCEPT !.pc = "cut"] ELSE removals[d]
  BY DEF ToolboxRestart
<1>2. RowHasContainer(d) /\ RemovalReaches(d)
  BY DEF RemovalsReach
<1>3. jobs'[d].pc \in {"idle", "over"} /\ (jobs[d].pc = "over" => jobs'[d].pc = "over")
  BY <1>1 DEF NoDeployJob, JobOver
<1>4. removals'[d] = removals[d] \/ removals'[d].row.status # "deployed"
  <2>1. NoDeployment.status # "deployed"
    BY DEF NoDeployment
  <2>2. [NoRemoval EXCEPT !.pc = "cut"].row = NoDeployment
    BY DEF NoRemoval
  <2> QED BY <1>1, <2>1, <2>2
<1> QED BY <1>1, <1>2, <1>3, <1>4 DEF RowHasContainer, RemovalReaches, ContainersOf

(* RemoveDeployment: "Remove Docker container/project if it exists".  For   *)
(* single containers it does: once the removal of a finished deployment is  *)
(* answered, with no Docker error, its container is gone, whatever the      *)
(* other deployments and removals do.                                       *)
THEOREM RemovedContainerIsGoneHolds == ToolboxSpec => []RemovedContainerIsGone
<1>1. ToolboxInit => RemovalsReach
  <2>1. /\ NoDeployment.status # "deployed" /\ NoRemoval.row = NoDeployment
        /\ NoDeployJob.pc = "idle"
    BY DEF NoDeployment, NoRemoval, NoDeployJob
  <2> QED BY <2>1 DEF ToolboxInit, RemovalsReach, RowHasContainer, RemovalReaches
<1>2. ToolboxIInv /\ RemovalsReach /\ [ToolboxNext]_toolboxVars => RemovalsReach'
  <2> SUFFICES ASSUME ToolboxIInv, RemovalsReach, [ToolboxNext]_toolboxVars
               PROVE  RemovalsReach'
    OBVIOUS
  <2>1. CASE UNCHANGED toolboxVars
    BY <2>1 DEF toolboxVars, RemovalsReach, RowHasContainer, RemovalReaches, ContainersOf
  <2> QED BY <2>1, JobKeepsReach, RemovalKeepsReach, RestartKeepsReach DEF ToolboxNext
<1>3. RemovalsReach => RemovedContainerIsGone
  BY DEF RemovalsReach, RemovalReaches, RemovedContainerIsGone, RemovedIsGone
<1> QED BY <1>1, <1>2, <1>3, ToolboxInitIsSafe, ToolboxIInvInductive, PTL DEF ToolboxSpec
-----------------------------------------------------------------------------
(* Starting, stopping and restarting containers: the inductive invariant *)

BulkIds == bulk.waiting \cup bulk.inFlight \cup bulk.ok \cup bulk.failed

(* Every operation of a bulk request is in exactly one place: waiting for   *)
(* the semaphore, in a call, or among the results.                          *)
BulkIsPartitioned ==
    /\ bulk.waiting \cap bulk.inFlight = {} /\ bulk.waiting \cap bulk.ok = {}
    /\ bulk.waiting \cap bulk.failed = {} /\ bulk.inFlight \cap bulk.ok = {}
    /\ bulk.inFlight \cap bulk.failed = {} /\ bulk.ok \cap bulk.failed = {}

BulkIsCounted ==
    /\ bulk.total = Cardinality(BulkIds)
    /\ bulk.success = Cardinality(bulk.ok)
    /\ Cardinality(bulk.inFlight) <= MaxConcurrentBulkOps

BulkWaitsForAll == bulk.pc = "answered" => bulk.waiting = {} /\ bulk.inFlight = {}

ContainersIInv ==
    ContainersTypeOK /\ BulkIsPartitioned /\ BulkIsCounted /\ BulkWaitsForAll

BulkRequest ==
    [pc : {"none", "running", "answered"}, action : ContainerActions,
     waiting : SUBSET BulkOperation, inFlight : SUBSET BulkOperation,
     ok : SUBSET BulkOperation, failed : SUBSET BulkOperation, total : Nat, success : Nat]

SingleOp ==
    [pc : {"idle", "inspect", "act", "mark", "tell", "over"}, action : ContainerActions,
     id : ContainerIds, app : BOOLEAN, device : BOOLEAN,
     outcome : {"none", "completed", "failed"}]

(* There are finitely many operations to choose from, ... *)
LEMMA OperationsAreFinite == IsFiniteSet(BulkOperation)
<1>1. IsFiniteSet(1..MaxBatch)
  BY ContainersAssumption, FS_Interval
<1> QED BY <1>1, ContainersAssumption, FS_Product DEF BulkOperation

(* ... so the sets of a bulk request are finite. *)
LEMMA BulkIsFinite ==
    ASSUME NEW b \in BulkRequest
    PROVE  /\ IsFiniteSet(b.waiting) /\ IsFiniteSet(b.inFlight)
           /\ IsFiniteSet(b.ok) /\ IsFiniteSet(b.failed)
  BY OperationsAreFinite, FS_Subset DEF BulkRequest

(* A runtime call leaves the containers' states and the faults with their types. *)
LEMMA PerformFacts ==
    ASSUME ContainersTypeOK, NEW action \in ContainerActions, NEW c \in ContainerIds,
           NEW ok \in BOOLEAN, Perform(action, c, ok)
    PROVE  /\ containerState' \in [ContainerIds -> {"running", "stopped", "gone"}]
           /\ runtimeFaults' \in 0..MaxRuntimeFaults
<1>1. /\ containerState \in [ContainerIds -> {"running", "stopped", "gone"}]
      /\ runtimeFaults \in 0..MaxRuntimeFaults /\ MaxRuntimeFaults \in Nat
  BY ContainersAssumption DEF ContainersTypeOK
<1>2. StateAfter(action, c) \in {"running", "stopped", "gone"}
  BY DEF StateAfter
<1>3. /\ containerState' = containerState
         \/ containerState' = [containerState EXCEPT ![c] = StateAfter(action, c)]
      /\ runtimeFaults' = runtimeFaults \/ RuntimeFault
  BY DEF Perform
<1> QED BY <1>1, <1>2, <1>3 DEF RuntimeFault

(* Joining one-element lists, as BuildRegistry does. *)
LEMMA PairsConcatenate ==
    ASSUME NEW a, NEW b
    PROVE  <<a>> \o <<>> = <<a>> /\ <<>> \o <<b>> = <<b>> /\ <<a>> \o <<b>> = <<a, b>>
<1> DEFINE S == {a, b}
<1>1. /\ <<a>> \in Seq(S) /\ Len(<<a>>) = 1 /\ <<a>>[1] = a
      /\ <<b>> \in Seq(S) /\ Len(<<b>>) = 1 /\ <<b>>[1] = b
      /\ <<a, b>> \in Seq(S) /\ Len(<<a, b>>) = 2 /\ <<a, b>>[1] = a /\ <<a, b>>[2] = b
  OBVIOUS
<1> HIDE DEF S
<1> DEFINE s == <<a>>  t == <<b>>  u == <<a, b>>
<1>2. s \in Seq(S) /\ t \in Seq(S) /\ u \in Seq(S) /\ Len(s) = 1 /\ Len(t) = 1 /\ Len(u) = 2
      /\ s[1] = a /\ t[1] = b /\ u[1] = a /\ u[2] = b
  BY <1>1
<1> HIDE DEF s, t, u
<1>3. s \o <<>> = s /\ <<>> \o t = t
  BY <1>2, ConcatEmptySeq
<1>4. s \o t = u
  <2>1. /\ s \o t \in Seq(S) /\ Len(s \o t) = 2
        /\ \A i \in 1 .. 2 : (s \o t)[i] = IF i <= 1 THEN s[1] ELSE t[i - 1]
    <3>1. /\ s \o t \in Seq(S)
         /\ Len(s \o t) = Len(s) + Len(t)
         /\ \A i \in 1 .. Len(s) + Len(t) : (s \o t)[i] =
                     IF i <= Len(s) THEN s[i] ELSE t[i - Len(s)]
      BY <1>2, ConcatProperties
    <3> QED BY <3>1, <1>2
  <2>2. \A i \in 1 .. 2 : (s \o t)[i] = u[i]
    BY <2>1, <1>2
  <2> QED BY <2>1, <2>2, <1>2, SeqEqual
<1> QED BY <1>3, <1>4 DEF s, t, u

(* At the start every list of runtimes that BuildRegistry makes has a *)
(* primary, and no bulk request runs.                                 *)
LEMMA ContainersInitIsSafe == ContainersInit => ContainersIInv
<1> SUFFICES ASSUME ContainersInit PROVE ContainersIInv
  OBVIOUS
<1>1. /\ bulk = NoBulk /\ NoBulk \in BulkRequest /\ bulk.pc = "none"
      /\ bulk.waiting = {} /\ bulk.inFlight = {} /\ bulk.ok = {} /\ bulk.failed = {}
      /\ bulk.total = 0 /\ bulk.success = 0
  BY DEF ContainersInit, NoBulk, BulkRequest, ContainerActions
<1>2. runtimes \in {<<"docker">>, <<"kubernetes">>, <<"docker", "kubernetes">>}
  <2>1. PICK docker \in BOOLEAN, kubernetes \in BOOLEAN :
           (docker \/ kubernetes) /\ runtimes = BuildRegistry(docker, kubernetes)
    BY DEF ContainersInit
  <2>2. /\ BuildRegistry(TRUE, FALSE) = <<"docker">>
        /\ BuildRegistry(FALSE, TRUE) = <<"kubernetes">>
        /\ BuildRegistry(TRUE, TRUE) = <<"docker", "kubernetes">>
    <3>1. /\ <<"docker">> \o <<>> = <<"docker">> /\ <<>> \o <<"kubernetes">> = <<"kubernetes">>
          /\ <<"docker">> \o <<"kubernetes">> = <<"docker", "kubernetes">>
      BY PairsConcatenate
    <3> QED BY <3>1 DEF BuildRegistry
  <2> QED BY <2>1, <2>2
<1>3. ops \in [SingleOps -> SingleOp]
  <2> DEFINE idle == [pc |-> "idle", action |-> "start", id |-> CHOOSE c \in ContainerIds : TRUE,
                      app |-> FALSE, device |-> FALSE, outcome |-> "none"]
  <2>1. (CHOOSE c \in ContainerIds : TRUE) \in ContainerIds
    BY ContainersAssumption
  <2>2. idle \in SingleOp
    BY <2>1 DEF SingleOp, ContainerActions
  <2> QED BY <2>2 DEF ContainersInit
<1>4. ContainersTypeOK
  BY <1>1, <1>2, <1>3, ContainersAssumption
  DEF ContainersInit, ContainersTypeOK, BulkRequest, SingleOp
<1>5. BulkIsPartitioned /\ BulkIsCounted /\ BulkWaitsForAll
  BY <1>1, ContainersAssumption, FS_EmptySet
  DEF BulkIsPartitioned, BulkIsCounted, BulkWaitsForAll, BulkIds
<1> QED BY <1>4, <1>5 DEF ContainersIInv

(* Single requests leave the bulk request alone. *)
LEMMA SingleRequestsAreSafe ==
    ASSUME ContainersIInv, NEW r \in SingleOps,
           \/ \E action \in ContainerActions, c \in ContainerIds, device \in BOOLEAN :
                 HandleContainer(r, action, c, device)
           \/ InspectApp(r) \/ ExecuteContainer(r) \/ MarkAppUnhealthy(r) \/ TellDevice(r)
    PROVE  ContainersIInv'
<1>1. UNCHANGED <<runtimes, bulk>>
  BY DEF HandleContainer, InspectApp, ExecuteContainer, MarkAppUnhealthy, TellDevice
<1>2. /\ ops \in [SingleOps -> SingleOp] /\ ContainersTypeOK /\ ops[r] \in SingleOp
      /\ containerState \in [ContainerIds -> {"running", "stopped", "gone"}]
      /\ runtimeFaults \in 0..MaxRuntimeFaults
      /\ markedDown \subseteq ContainerIds
      /\ told \in [SingleOps -> {"none", "completed", "failed"}]
  BY DEF ContainersIInv, ContainersTypeOK, SingleOp
<1>3. BulkIsPartitioned' /\ BulkIsCounted' /\ BulkWaitsForAll'
  BY <1>1 DEF ContainersIInv, BulkIsPartitioned, BulkIsCounted, BulkWaitsForAll, BulkIds
<1>4. ASSUME NEW op \in SingleOp, ops' = [ops EXCEPT ![r] = op],
             containerState' \in [ContainerIds -> {"running", "stopped", "gone"}],
             runtimeFaults' \in 0..MaxRuntimeFaults, markedDown' \subseteq ContainerIds,
             told' \in [SingleOps -> {"none", "completed", "failed"}]
      PROVE  ContainersIInv'
  <2>1. ops' \in [SingleOps -> SingleOp]
    BY <1>2, <1>4
  <2>2. ContainersTypeOK'
    BY <1>1, <1>2, <1>4, <2>1 DEF ContainersTypeOK, SingleOp
  <2> QED BY <1>3, <2>2 DEF ContainersIInv
<1>5. ASSUME NEW action \in ContainerActions, NEW c \in ContainerIds, NEW device \in BOOLEAN,
             HandleContainer(r, action, c, device)
      PROVE  ContainersIInv'
  <2> DEFINE op == [pc |-> IF action = "stop" THEN "inspect" ELSE "act", action |-> action,
                    id |-> c, app |-> FALSE, device |-> device, outcome |-> "none"]
  <2>1. op \in SingleOp
    BY DEF SingleOp
  <2>2. /\ ops' = [ops EXCEPT ![r] = op]
        /\ UNCHANGED <<containerState, markedDown, told, runtimeFaults>>
    BY <1>5 DEF HandleContainer
  <2> HIDE DEF op
  <2> QED BY <1>2, <1>4, <2>1, <2>2
<1>6. CASE InspectApp(r)
  <2> DEFINE app == Reaches(ops[r].id) /\ containerState[ops[r].id] # "gone"
             op == [ops[r] EXCEPT !.pc = "act", !.app = app]
  <2>1. app \in BOOLEAN
    OBVIOUS
  <2> HIDE DEF app
  <2>2. op \in SingleOp
    BY <1>2, <2>1 DEF SingleOp
  <2>3. /\ ops' = [ops EXCEPT ![r] = op]
        /\ UNCHANGED <<containerState, markedDown, told, runtimeFaults>>
    BY <1>6 DEF InspectApp, app
  <2> HIDE DEF op
  <2> QED BY <1>2, <1>4, <2>2, <2>3
<1>7. CASE ExecuteContainer(r)
  <2>1. PICK ok \in BOOLEAN :
           /\ IF Reaches(ops[r].id) THEN Perform(ops[r].action, ops[r].id, ok)
              ELSE ~ok /\ UNCHANGED <<containerState, runtimeFaults>>
           /\ ops' = [ops EXCEPT
                 ![r].pc = IF ok /\ ops[r].action = "stop" /\ ops[r].app THEN "mark" ELSE "tell",
                 ![r].outcome = IF ok THEN "completed" ELSE "failed"]
           /\ UNCHANGED <<markedDown, told>>
    BY <1>7 DEF ExecuteContainer
  <2> DEFINE next == IF ok /\ ops[r].action = "stop" /\ ops[r].app THEN "mark" ELSE "tell"
             outcome == IF ok THEN "completed" ELSE "failed"
             op == [ops[r] EXCEPT !.pc = next, !.outcome = outcome]
  <2>2. next \in {"mark", "tell"} /\ outcome \in {"completed", "failed"}
    OBVIOUS
  <2>3. ops' = [ops EXCEPT ![r] = op]
    BY <2>1
  <2> HIDE DEF next, outcome
  <2>4. op \in SingleOp
    BY <1>2, <2>2 DEF SingleOp
  <2>5. ops[r].action \in ContainerActions /\ ops[r].id \in ContainerIds
    BY <1>2 DEF SingleOp
  <2>6. /\ containerState' \in [ContainerIds -> {"running", "stopped", "gone"}]
        /\ runtimeFaults' \in 0..MaxRuntimeFaults
    <3>1. CASE Perform(ops[r].action, ops[r].id, ok)
      BY <1>2, <2>5, <3>1, PerformFacts
    <3>2. CASE UNCHANGED <<containerState, runtimeFaults>>
      BY <1>2, <3>2
    <3> QED BY <2>1, <3>1, <3>2
  <2> HIDE DEF op
  <2> QED BY <1>2, <1>4, <2>1, <2>3, <2>4, <2>6
<1>8. CASE MarkAppUnhealthy(r)
  <2> DEFINE op == [ops[r] EXCEPT !.pc = "tell"]
  <2>1. op \in SingleOp /\ ops[r].id \in ContainerIds
    BY <1>2 DEF SingleOp
  <2>2. /\ ops' = [ops EXCEPT ![r] = op] /\ markedDown' = markedDown \cup {ops[r].id}
        /\ UNCHANGED <<containerState, told, runtimeFaults>>
    BY <1>8 DEF MarkAppUnhealthy
  <2> HIDE DEF op
  <2> QED BY <1>2, <1>4, <2>1, <2>2
<1>9. CASE TellDevice(r)
  <2> DEFINE op == [ops[r] EXCEPT !.pc = "over"]
  <2>1. op \in SingleOp /\ ops[r].outcome \in {"none", "completed", "failed"}
    BY <1>2 DEF SingleOp
  <2>2. /\ ops' = [ops EXCEPT ![r] = op]
        /\ UNCHANGED <<containerState, markedDown, runtimeFaults>>
        /\ told' = told \/ told' = [told EXCEPT ![r] = ops[r].outcome]
    BY <1>9 DEF TellDevice
  <2>3. told' \in [SingleOps -> {"none", "completed", "failed"}]
    BY <1>2, <2>1, <2>2
  <2> HIDE DEF op
  <2> QED BY <1>2, <1>4, <2>1, <2>2, <2>3
<1> QED BY <1>5, <1>6, <1>7, <1>8, <1>9

(* The bulk request. *)
LEMMA BulkIsSafe ==
    ASSUME ContainersIInv,
           \/ \E action \in ContainerActions, ids \in SUBSET BulkOperation : BulkStarts(action, ids)
           \/ \E c \in BulkOperation : BulkAcquire(c) \/ BulkPerform(c)
           \/ BulkAnswer
    PROVE  ContainersIInv'
<1>1. /\ ContainersTypeOK /\ bulk \in BulkRequest
      /\ BulkIsPartitioned /\ BulkIsCounted /\ BulkWaitsForAll
  BY DEF ContainersIInv, ContainersTypeOK, BulkRequest
<1>2. UNCHANGED <<runtimes, ops, markedDown, told>>
  BY DEF BulkStarts, BulkAcquire, BulkPerform, BulkAnswer
<1>3. ASSUME NEW b \in BulkRequest, bulk' = b, BulkIsPartitioned', BulkIsCounted',
             BulkWaitsForAll',
             containerState' \in [ContainerIds -> {"running", "stopped", "gone"}],
             runtimeFaults' \in 0..MaxRuntimeFaults
      PROVE  ContainersIInv'
  BY <1>1, <1>2, <1>3 DEF ContainersIInv, ContainersTypeOK, BulkRequest
<1>4. /\ containerState \in [ContainerIds -> {"running", "stopped", "gone"}]
      /\ runtimeFaults \in 0..MaxRuntimeFaults
  BY <1>1 DEF ContainersTypeOK
<1>5. ASSUME NEW action \in ContainerActions, NEW ids \in SUBSET BulkOperation,
             BulkStarts(action, ids)
      PROVE  ContainersIInv'
  <2> DEFINE total == Cardinality(ids)
             b == [NoBulk EXCEPT !.pc = "running", !.action = action, !.waiting = ids,
                                 !.total = total]
  <2>1. /\ bulk' = b /\ UNCHANGED <<containerState, runtimeFaults>>
    BY <1>5 DEF BulkStarts
  <2>2. total \in Nat
    BY OperationsAreFinite, FS_Subset, FS_CardinalityType
  <2> HIDE DEF total
  <2>3. /\ b \in BulkRequest /\ b.pc = "running" /\ b.waiting = ids /\ b.inFlight = {}
        /\ b.ok = {} /\ b.failed = {} /\ b.total = total /\ b.success = 0
    BY <2>2 DEF NoBulk, BulkRequest
  <2> HIDE DEF b
  <2>4. BulkIsPartitioned' /\ BulkIsCounted' /\ BulkWaitsForAll'
    BY <2>1, <2>3, ContainersAssumption, FS_EmptySet
    DEF BulkIsPartitioned, BulkIsCounted, BulkWaitsForAll, BulkIds, total
  <2> QED BY <1>3, <1>4, <2>1, <2>3, <2>4
<1>6. ASSUME NEW c \in BulkOperation, BulkAcquire(c) PROVE ContainersIInv'
  <2> DEFINE b == [bulk EXCEPT !.waiting = @ \ {c}, !.inFlight = @ \cup {c}]
  <2>1. /\ bulk.pc = "running" /\ c \in bulk.waiting
        /\ Cardinality(bulk.inFlight) < MaxConcurrentBulkOps
        /\ bulk' = b /\ UNCHANGED <<containerState, runtimeFaults>>
    BY <1>6 DEF BulkAcquire
  <2>2. /\ b \in BulkRequest /\ b.pc = "running" /\ b.waiting = bulk.waiting \ {c}
        /\ b.inFlight = bulk.inFlight \cup {c}
        /\ b.ok = bulk.ok /\ b.failed = bulk.failed /\ b.total = bulk.total
        /\ b.success = bulk.success
    BY <1>1, <2>1 DEF BulkRequest
  <2> HIDE DEF b
  <2>3. BulkIsPartitioned' /\ BulkWaitsForAll'
    BY <1>1, <2>1, <2>2 DEF BulkIsPartitioned, BulkWaitsForAll
  <2>4. BulkIds' = BulkIds
    BY <2>1, <2>2 DEF BulkIds
  <2>5. Cardinality(bulk'.inFlight) <= MaxConcurrentBulkOps
    <3>1. IsFiniteSet(bulk.inFlight)
      BY <1>1, BulkIsFinite
    <3>2. /\ Cardinality(bulk.inFlight) \in Nat
          /\ Cardinality(bulk.inFlight \cup {c}) =
                IF c \in bulk.inFlight THEN Cardinality(bulk.inFlight)
                                       ELSE Cardinality(bulk.inFlight) + 1
      BY <3>1, FS_AddElement, FS_CardinalityType
    <3> QED BY <2>1, <2>2, <3>2, ContainersAssumption
  <2>6. BulkIsCounted'
    BY <1>1, <2>1, <2>2, <2>4, <2>5 DEF BulkIsCounted
  <2> QED BY <1>3, <1>4, <2>1, <2>2, <2>3, <2>6
<1>7. ASSUME NEW c \in BulkOperation, BulkPerform(c) PROVE ContainersIInv'
  <2>1. PICK ok \in BOOLEAN :
           /\ c \in bulk.inFlight
           /\ IF RuntimeOf(ContainerOf(c)) = GetPrimary
              THEN Perform(bulk.action, ContainerOf(c), ok)
              ELSE ~ok /\ UNCHANGED <<containerState, runtimeFaults>>
           /\ bulk' = [bulk EXCEPT !.inFlight = @ \ {c},
                         !.ok = IF ok THEN @ \cup {c} ELSE @,
                         !.failed = IF ok THEN @ ELSE @ \cup {c},
                         !.success = IF ok THEN @ + 1 ELSE @]
    BY <1>7 DEF BulkPerform
  <2> DEFINE okNow == IF ok THEN bulk.ok \cup {c} ELSE bulk.ok
             failedNow == IF ok THEN bulk.failed ELSE bulk.failed \cup {c}
             successNow == IF ok THEN bulk.success + 1 ELSE bulk.success
             b == [bulk EXCEPT !.inFlight = @ \ {c}, !.ok = okNow, !.failed = failedNow,
                               !.success = successNow]
  <2>2. bulk' = b
    BY <2>1
  <2>3. /\ okNow \subseteq BulkOperation /\ failedNow \subseteq BulkOperation
        /\ successNow \in Nat
    BY <1>1 DEF BulkRequest
  <2>4. /\ okNow \cup failedNow = bulk.ok \cup bulk.failed \cup {c}
        /\ c \notin bulk.ok /\ c \notin bulk.failed /\ c \notin bulk.waiting
        /\ okNow \cap failedNow = {} /\ okNow \subseteq bulk.ok \cup {c}
        /\ failedNow \subseteq bulk.failed \cup {c}
    BY <1>1, <2>1 DEF BulkIsPartitioned
  <2>5. successNow = Cardinality(okNow)
    <3>1. IsFiniteSet(bulk.ok)
      BY <1>1, BulkIsFinite
    <3> QED BY <1>1, <2>4, <3>1, FS_AddElement DEF BulkIsCounted
  <2> HIDE DEF okNow, failedNow, successNow
  <2>6. /\ b \in BulkRequest /\ b.pc = bulk.pc /\ b.waiting = bulk.waiting
        /\ b.inFlight = bulk.inFlight \ {c} /\ b.ok = okNow /\ b.failed = failedNow
        /\ b.total = bulk.total /\ b.success = successNow
    BY <1>1, <2>3 DEF BulkRequest
  <2> HIDE DEF b
  <2>7. BulkIsPartitioned' /\ BulkWaitsForAll'
    BY <1>1, <2>1, <2>2, <2>4, <2>6 DEF BulkIsPartitioned, BulkWaitsForAll
  <2>8. BulkIds' = BulkIds
    BY <2>1, <2>2, <2>4, <2>6 DEF BulkIds
  <2>9. Cardinality(bulk'.inFlight) <= MaxConcurrentBulkOps
    <3>1. IsFiniteSet(bulk.inFlight)
      BY <1>1, BulkIsFinite
    <3>2. Cardinality(bulk.inFlight \ {c}) = Cardinality(bulk.inFlight) - 1
          /\ Cardinality(bulk.inFlight) \in Nat
      BY <2>1, <3>1, FS_RemoveElement, FS_CardinalityType
    <3> QED BY <1>1, <2>2, <2>6, <3>2, ContainersAssumption DEF BulkIsCounted
  <2>10. BulkIsCounted'
    BY <1>1, <2>2, <2>5, <2>6, <2>8, <2>9 DEF BulkIsCounted
  <2>11. /\ containerState' \in [ContainerIds -> {"running", "stopped", "gone"}]
         /\ runtimeFaults' \in 0..MaxRuntimeFaults
    <3>1. CASE Perform(bulk.action, ContainerOf(c), ok)
      <4>1. bulk.action \in ContainerActions /\ ContainerOf(c) \in ContainerIds
        BY <1>1 DEF BulkRequest, BulkOperation, ContainerOf
      <4> QED BY <1>1, <3>1, <4>1, PerformFacts
    <3>2. CASE UNCHANGED <<containerState, runtimeFaults>>
      BY <1>4, <3>2
    <3> QED BY <2>1, <3>1, <3>2
  <2> QED BY <1>3, <2>2, <2>6, <2>7, <2>10, <2>11
<1>8. CASE BulkAnswer
  <2> DEFINE b == [bulk EXCEPT !.pc = "answered"]
  <2>1. /\ bulk.waiting = {} /\ bulk.inFlight = {} /\ bulk' = b
        /\ UNCHANGED <<containerState, runtimeFaults>>
    BY <1>8 DEF BulkAnswer, BulkAllDone
  <2>2. /\ b \in BulkRequest /\ b.waiting = bulk.waiting /\ b.inFlight = bulk.inFlight
        /\ b.ok = bulk.ok /\ b.failed = bulk.failed /\ b.total = bulk.total
        /\ b.success = bulk.success
    BY <1>1 DEF BulkRequest
  <2> HIDE DEF b
  <2>3. BulkIsPartitioned' /\ BulkIsCounted' /\ BulkWaitsForAll'
    BY <1>1, <2>1, <2>2 DEF BulkIsPartitioned, BulkIsCounted, BulkWaitsForAll, BulkIds
  <2> QED BY <1>3, <1>4, <2>1, <2>2, <2>3
<1> QED BY <1>5, <1>6, <1>7, <1>8

(* Every step of a single request, of the bulk request and of its workers *)
(* keeps the invariant.                                                   *)
LEMMA ContainersIInvInductive ==
    ContainersIInv /\ [ContainersNext]_containerVars => ContainersIInv'
<1> SUFFICES ASSUME ContainersIInv, [ContainersNext]_containerVars PROVE ContainersIInv'
  OBVIOUS
<1>1. CASE UNCHANGED containerVars
  BY <1>1
  DEF containerVars, ContainersIInv, ContainersTypeOK, BulkIsPartitioned, BulkIsCounted,
     BulkWaitsForAll, BulkIds
<1>2. ASSUME NEW r \in SingleOps,
             \/ \E action \in ContainerActions, c \in ContainerIds, device \in BOOLEAN :
                   HandleContainer(r, action, c, device)
             \/ InspectApp(r) \/ ExecuteContainer(r) \/ MarkAppUnhealthy(r) \/ TellDevice(r)
      PROVE  ContainersIInv'
  BY <1>2, SingleRequestsAreSafe
<1>3. ASSUME HandleRestartAll \/ HandleStopAll \/ HandleStartAll \/ HandleBatchOperation
      PROVE  ContainersIInv'
  <2>1. \A ids \in SUBSET ContainerIds : Once(ids) \in SUBSET BulkOperation
    BY ContainersAssumption DEF Once, BulkOperation
  <2>2. /\ \A all \in BOOLEAN : Once(ListContainers(all)) \in SUBSET BulkOperation
        /\ Once(ListContainers(TRUE) \ ListContainers(FALSE)) \in SUBSET BulkOperation
    BY <2>1 DEF ListContainers
  <2>3. {"start", "stop", "restart"} = ContainerActions
    BY DEF ContainerActions
  <2>4. ASSUME HandleBatchOperation
        PROVE  \E action \in ContainerActions, ids \in SUBSET BulkOperation :
                  BulkStarts(action, ids)
    BY <2>4 DEF HandleBatchOperation
  <2>5. \E action \in ContainerActions, ids \in SUBSET BulkOperation : BulkStarts(action, ids)
    BY <1>3, <2>2, <2>3, <2>4 DEF HandleRestartAll, HandleStopAll, HandleStartAll
  <2> QED BY <2>5, BulkIsSafe
<1>4. ASSUME (\E c \in BulkOperation : BulkAcquire(c) \/ BulkPerform(c)) \/ BulkAnswer
      PROVE  ContainersIInv'
  BY <1>4, BulkIsSafe
<1> QED BY <1>1, <1>2, <1>3, <1>4 DEF ContainersNext

(* Runtimes, requests and containers have their types. *)
THEOREM ContainersTypeCorrect == ContainersSpec => []ContainersTypeOK
<1>1. ContainersIInv => ContainersTypeOK
  BY DEF ContainersIInv
<1> QED BY <1>1, ContainersInitIsSafe, ContainersIInvInductive, PTL DEF ContainersSpec

(* The answer to a bulk request accounts for every entry of its list, however   *)
(* often a container is named, and no more calls run at a time than the         *)
(* semaphore allows (HandleBatchOperation of containers_bulk.go).               *)
THEOREM BulkAnswerIsCompleteHolds == ContainersSpec => []BulkAnswerIsComplete
<1>1. ContainersIInv => BulkAnswerIsComplete
  <2> SUFFICES ASSUME ContainersIInv PROVE BulkAnswerIsComplete
    OBVIOUS
  <2>1. bulk \in BulkRequest /\ BulkIsPartitioned /\ BulkIsCounted /\ BulkWaitsForAll
    BY DEF ContainersIInv, ContainersTypeOK, BulkRequest
  <2>2. IsFiniteSet(bulk.ok) /\ IsFiniteSet(bulk.failed)
    BY <2>1, BulkIsFinite
  <2>3. ASSUME bulk.pc = "answered"
        PROVE  /\ Cardinality(bulk.ok \cup bulk.failed) = bulk.total
               /\ bulk.success = Cardinality(bulk.ok)
               /\ bulk.total - bulk.success = Cardinality(bulk.failed)
    <3>1. BulkIds = bulk.ok \cup bulk.failed
      BY <2>1, <2>3 DEF BulkWaitsForAll, BulkIds
    <3>2. /\ Cardinality(bulk.ok \cup bulk.failed) =
                Cardinality(bulk.ok) + Cardinality(bulk.failed) - Cardinality(bulk.ok \cap bulk.failed)
          /\ Cardinality(bulk.ok \cap bulk.failed) = 0
          /\ Cardinality(bulk.ok) \in Nat /\ Cardinality(bulk.failed) \in Nat
      BY <2>1, <2>2, FS_Union, FS_EmptySet, FS_CardinalityType DEF BulkIsPartitioned
    <3> QED BY <2>1, <3>1, <3>2 DEF BulkIsCounted
  <2> QED BY <2>1, <2>3 DEF BulkIsCounted, BulkAnswerIsComplete
<1> QED BY <1>1, ContainersInitIsSafe, ContainersIInvInductive, PTL DEF ContainersSpec
-----------------------------------------------------------------------------
(* The reverse proxy: the inductive invariant *)

ProxyPcs == {"idle", "routed", "proxy", "inject", "send", "persist",
             "dial", "validate", "greet", "copy", "drain", "over"}
UpgradePcs == {"dial", "validate", "greet", "copy", "drain"}

Request == [pc : ProxyPcs, device : ProxyDevices \cup {NoDevice},
            target : Targets \cup {NoTarget, Peer}, plain : BOOLEAN, sent : SUBSET Row,
            setCookies : Seq(SetCookie), reply : 0..MaxReplies]

ProxyShapes ==
    /\ ProxyTypeOK
    /\ proxied \in [ProxyRequests -> Request]
    /\ replyTo \in Seq(ProxyDevices)
    /\ forgotten \subseteq DOMAIN replyTo

(* What holds of each request: it has a route, carries cookies of its own   *)
(* device only, has a reply that nobody deleted while it saves cookies, and *)
(* connections only while it upgrades.                                      *)
Sound(r) ==
    /\ proxied[r].pc \in {"routed", "proxy", "inject", "dial"} => proxied[r].target # NoTarget
    /\ proxied[r].pc = "idle" => proxied[r].sent = {}
    /\ \A c \in proxied[r].sent :
          c.reply \in DOMAIN replyTo /\ replyTo[c.reply] = proxied[r].device
    /\ proxied[r].pc = "persist" =>
          /\ proxied[r].device \in ProxyDevices /\ proxied[r].setCookies # <<>>
          /\ proxied[r].reply \in DOMAIN replyTo \ forgotten
          /\ replyTo[proxied[r].reply] = proxied[r].device
    /\ proxied[r].pc \notin UpgradePcs => conns[r] = {}

(* Every kept cookie came from a reply to its device that was not deleted.  *)
JarIsSound ==
    \A c \in jar : c.reply \in DOMAIN replyTo \ forgotten /\ replyTo[c.reply] = c.device

Tunnels == {r \in ProxyRequests : proxied[r].pc \in {"copy", "drain"}}

ProxyIInv ==
    /\ ProxyShapes
    /\ \A r \in ProxyRequests : Sound(r)
    /\ JarIsSound
    /\ active = Cardinality(Tunnels)
    /\ CacheFollowsRoutes /\ NoTarget \notin cached

(* A request that a step does not touch stays sound: replies are only added. *)
LEMMA RequestStaysSound ==
    ASSUME NEW r, Sound(r), proxied'[r] = proxied[r], conns'[r] = conns[r],
           \A n \in DOMAIN replyTo : n \in DOMAIN replyTo' /\ replyTo'[n] = replyTo[n],
           proxied[r].pc = "persist" => proxied[r].reply \notin forgotten'
    PROVE  Sound(r)'
  BY DEF Sound

(* The tunnels are finitely many, and there are no more of them than *)
(* requests.                                                         *)
LEMMA TunnelsAreCounted ==
    ASSUME ProxyIInv
    PROVE  IsFiniteSet(Tunnels) /\ active \in 0..Cardinality(ProxyRequests)
<1>1. IsFiniteSet(ProxyRequests) /\ Tunnels \subseteq ProxyRequests
  BY ProxyAssumption DEF Tunnels
<1> QED BY <1>1, FS_Subset DEF ProxyIInv, ProxyShapes, ProxyTypeOK

(* What a step of one request has to show. *)
LEMMA StepOfOneRequest ==
    ASSUME ProxyIInv, NEW r \in ProxyRequests, NEW q \in Request,
           proxied' = [proxied EXCEPT ![r] = q],
           NEW open \in SUBSET {"client", "upstream"},
           conns' = [conns EXCEPT ![r] = open],
           UNCHANGED <<target, changes, healthy, atPeer, forgotten>>,
           replyTo' \in Seq(ProxyDevices), Len(replyTo') <= MaxReplies,
           \A n \in DOMAIN replyTo : n \in DOMAIN replyTo' /\ replyTo'[n] = replyTo[n],
           jar' \subseteq Row, JarIsSound',
           cached' \subseteq Targets \cup {Peer}, strays' \subseteq Targets,
           CacheFollowsRoutes', NoTarget \notin cached',
           Sound(r)', active' = Cardinality(Tunnels')
    PROVE  ProxyIInv'
<1>1. /\ ProxyTypeOK /\ proxied \in [ProxyRequests -> Request] /\ forgotten \subseteq DOMAIN replyTo
  BY DEF ProxyIInv, ProxyShapes
<1>2. /\ proxied' \in [ProxyRequests -> Request]
      /\ conns' \in [ProxyRequests -> SUBSET {"client", "upstream"}]
      /\ proxied'[r] = q
      /\ \A e \in ProxyRequests \ {r} : proxied'[e] = proxied[e] /\ conns'[e] = conns[e]
  BY <1>1 DEF ProxyTypeOK
<1>3. ASSUME NEW e \in ProxyRequests PROVE Sound(e)'
  <2>1. CASE e = r
    BY <2>1
  <2>2. CASE e # r
    <3>1. /\ Sound(e) /\ proxied'[e] = proxied[e] /\ conns'[e] = conns[e]
          /\ proxied[e].pc = "persist" => proxied[e].reply \notin forgotten'
      BY <1>2, <2>2 DEF ProxyIInv, Sound
    <3> QED BY <3>1, RequestStaysSound
  <2> QED BY <2>1, <2>2
<1>4. active' \in 0..Cardinality(ProxyRequests)
  <2>1. Tunnels' \subseteq ProxyRequests /\ IsFiniteSet(ProxyRequests)
    BY ProxyAssumption DEF Tunnels
  <2>2. /\ IsFiniteSet(Tunnels') /\ Cardinality(Tunnels') <= Cardinality(ProxyRequests)
    BY <2>1, FS_Subset
  <2>3. Cardinality(Tunnels') \in Nat /\ Cardinality(ProxyRequests) \in Nat
    BY <2>1, <2>2, FS_CardinalityType
  <2> QED BY <2>2, <2>3
<1>5. forgotten' \subseteq DOMAIN replyTo'
  BY <1>1
<1>6. ASSUME NEW e \in ProxyRequests
      PROVE  /\ proxied'[e].pc \in ProxyPcs /\ proxied'[e].sent \subseteq Row
             /\ proxied'[e].pc \in {"proxy", "inject", "dial"} => proxied'[e].target # NoTarget
  BY <1>2, <1>3 DEF Request, Sound
<1>7. ProxyTypeOK'
  <2>1. forgotten' \subseteq 1..MaxReplies /\ UNCHANGED <<target, changes, healthy, atPeer>>
    BY <1>1 DEF ProxyTypeOK
  <2> QED BY <1>1, <1>2, <1>4, <1>6, <2>1 DEF ProxyTypeOK, ProxyPcs
<1> QED BY <1>2, <1>3, <1>5, <1>7 DEF ProxyIInv, ProxyShapes

(* A step that neither opens nor closes a tunnel leaves the gauge right. *)
LEMMA SameTunnels ==
    ASSUME ProxyIInv, NEW r \in ProxyRequests, NEW q \in Request,
           proxied' = [proxied EXCEPT ![r] = q], active' = active,
           q.pc \in {"copy", "drain"} <=> proxied[r].pc \in {"copy", "drain"}
    PROVE  active' = Cardinality(Tunnels')
<1>1. proxied \in [ProxyRequests -> Request]
  BY DEF ProxyIInv, ProxyShapes
<1>2. Tunnels' = Tunnels
  BY <1>1 DEF Tunnels
<1> QED BY <1>2 DEF ProxyIInv

(* At the start nothing is routed, the jar is empty and no connection is *)
(* open.                                                                 *)
LEMMA ProxyInitIsSafe == ProxyInit => ProxyIInv
<1> SUFFICES ASSUME ProxyInit PROVE ProxyIInv
  OBVIOUS
<1>1. NoRequest \in Request /\ NoRequest.pc = "idle" /\ NoRequest.sent = {}
  <2>1. 0 \in 0..MaxReplies /\ <<>> \in Seq(SetCookie)
    BY ProxyAssumption
  <2> QED BY <2>1 DEF NoRequest, Request, ProxyPcs
<1>2. \A r \in ProxyRequests : proxied[r] = NoRequest /\ conns[r] = {}
  BY DEF ProxyInit
<1>3. Tunnels = {} /\ Cardinality(Tunnels) = 0
  BY <1>1, <1>2, FS_EmptySet DEF Tunnels
<1>4. /\ proxied \in [ProxyRequests -> Request]
      /\ conns \in [ProxyRequests -> SUBSET {"client", "upstream"}]
      /\ replyTo = <<>> /\ Len(replyTo) = 0 /\ 0 <= MaxReplies
  BY <1>1, ProxyAssumption DEF ProxyInit
<1>5. active \in 0..Cardinality(ProxyRequests)
  BY ProxyAssumption, FS_CardinalityType DEF ProxyInit
<1>6. changes \in [RouteEditors -> RouteChange]
  BY DEF ProxyInit, NoChange, RouteChange
<1>7. ProxyShapes
  BY <1>1, <1>2, <1>4, <1>5, <1>6 DEF ProxyInit, ProxyShapes, ProxyTypeOK
<1>8. \A r \in ProxyRequests : Sound(r)
  BY <1>1, <1>2 DEF Sound
<1> QED BY <1>3, <1>7, <1>8
        DEF ProxyInit, ProxyIInv, JarIsSound, CacheFollowsRoutes

(* The changes of the route, which overlap: what leaves the memory is at the *)
(* target, being evicted, or a stray.                                        *)
LEMMA RouteChangesAreSafe ==
    ASSUME ProxyIInv,
           \/ \E t \in Targets \cup {NoTarget} :
                 \/ \E e \in RouteEditors, kind \in {"upsert", "remove"} : ChangeTarget(e, kind, t)
                 \/ RoutesReplaced(t)
           \/ \E e \in RouteEditors : ChangeSaved(e) \/ ChangeFails(e)
           \/ HealthChanges
    PROVE  ProxyIInv'
<1>1. UNCHANGED <<jar, proxied, conns, active, replyTo, forgotten>>
  BY DEF ChangeTarget, RoutesReplaced, ChangeSaved, ChangeFails, HealthChanges
<1>2. /\ (\A r \in ProxyRequests : Sound(r))' /\ JarIsSound' /\ active' = Cardinality(Tunnels')
  BY <1>1 DEF ProxyIInv, Sound, JarIsSound, Tunnels
<1>3. /\ target \in Targets \cup {NoTarget} /\ cached \subseteq Targets \cup {Peer}
      /\ changes \in [RouteEditors -> RouteChange]
      /\ strays \subseteq Targets /\ healthy \in BOOLEAN /\ atPeer \in BOOLEAN
      /\ NoTarget \notin cached /\ cached \subseteq {target, Peer} \cup Evicting \cup strays
  BY DEF ProxyIInv, ProxyShapes, ProxyTypeOK, CacheFollowsRoutes
<1>4. NoChange \in RouteChange /\ ~NoChange.moved
  BY DEF NoChange, RouteChange
<1>5. ASSUME target' \in Targets \cup {NoTarget}, cached' \subseteq cached,
             changes' \in [RouteEditors -> RouteChange],
             strays' \subseteq Targets, healthy' \in BOOLEAN, atPeer' \in BOOLEAN,
             cached' \subseteq {target', Peer} \cup Evicting' \cup strays'
      PROVE  ProxyIInv'
  <2>1. ProxyTypeOK' /\ ProxyShapes'
    BY <1>1, <1>3, <1>5 DEF ProxyIInv, ProxyShapes, ProxyTypeOK
  <2> QED BY <1>2, <1>3, <1>5, <2>1 DEF ProxyIInv, CacheFollowsRoutes
<1>6. ASSUME NEW e \in RouteEditors, NEW c \in RouteChange, changes' = [changes EXCEPT ![e] = c]
      PROVE  /\ changes' \in [RouteEditors -> RouteChange]
             /\ Evicting \subseteq Evicting'
                   \cup (IF changes[e].moved THEN {changes[e].old} ELSE {})
             /\ c.moved => c.old \in Evicting'
  BY <1>3, <1>6 DEF Evicting
<1>7. ASSUME NEW t \in Targets \cup {NoTarget}, NEW e \in RouteEditors,
             NEW kind \in {"upsert", "remove"}, ChangeTarget(e, kind, t)
      PROVE  ProxyIInv'
  <2> DEFINE moved == target \notin {NoTarget, t}
             c == [kind |-> kind, old |-> target, moved |-> moved]
  <2>1. /\ changes[e] = NoChange /\ changes' = [changes EXCEPT ![e] = c] /\ target' = t
        /\ UNCHANGED <<healthy, atPeer, cached, strays>>
    BY <1>7 DEF ChangeTarget
  <2>2. c \in RouteChange /\ c.old = target /\ c.moved = moved
    BY <1>3 DEF RouteChange
  <2>3. moved \/ target \in {NoTarget, t}
    OBVIOUS
  <2> HIDE DEF c, moved
  <2>4. /\ changes' \in [RouteEditors -> RouteChange] /\ Evicting \subseteq Evicting'
        /\ moved => target \in Evicting'
    BY <1>4, <1>6, <2>1, <2>2
  <2> QED BY <1>3, <1>5, <2>1, <2>3, <2>4
<1>8. ASSUME NEW t \in Targets \cup {NoTarget}, RoutesReplaced(t)
      PROVE  ProxyIInv'
  <2>1. Evicting' = Evicting
    BY <1>8 DEF RoutesReplaced, Evicting
  <2> QED BY <1>3, <1>5, <1>8, <2>1 DEF RoutesReplaced
<1>9. ASSUME NEW e \in RouteEditors, ChangeSaved(e) PROVE ProxyIInv'
  <2> DEFINE c == changes[e]
  <2>1. /\ changes' = [changes EXCEPT ![e] = NoChange]
        /\ cached' = IF c.moved THEN cached \ {c.old} ELSE cached
        /\ strays' = IF c.moved THEN strays \ {c.old} ELSE strays
        /\ UNCHANGED <<target, healthy, atPeer>>
    BY <1>9 DEF ChangeSaved, Delete
  <2>2. /\ changes' \in [RouteEditors -> RouteChange]
        /\ Evicting \subseteq Evicting' \cup (IF c.moved THEN {c.old} ELSE {})
    BY <1>4, <1>6, <2>1
  <2> HIDE DEF c
  <2> QED BY <1>3, <1>5, <2>1, <2>2
<1>10. ASSUME NEW e \in RouteEditors, ChangeFails(e) PROVE ProxyIInv'
  <2> DEFINE c == changes[e]
             left == IF c.kind = "upsert" THEN target ELSE c.old
  <2>1. /\ changes' = [changes EXCEPT ![e] = NoChange]
        /\ target' = IF c.kind = "upsert" THEN c.old ELSE target
        /\ strays' = strays \cup ({left} \ {target', NoTarget})
        /\ UNCHANGED <<cached, healthy, atPeer>>
    BY <1>10 DEF ChangeFails
  <2>2. /\ changes' \in [RouteEditors -> RouteChange]
        /\ Evicting \subseteq Evicting' \cup (IF c.moved THEN {c.old} ELSE {})
    BY <1>4, <1>6, <2>1
  <2>3. c \in RouteChange /\ c.old \in Targets \cup {NoTarget}
    BY <1>3 DEF RouteChange
  <2> HIDE DEF c
  <2> QED BY <1>3, <1>5, <2>1, <2>2, <2>3
<1>11. CASE HealthChanges
  <2>1. Evicting' = Evicting
    BY <1>11 DEF HealthChanges, Evicting
  <2> QED BY <1>3, <1>5, <1>11, <2>1 DEF HealthChanges
<1> QED BY <1>7, <1>8, <1>9, <1>10, <1>11

(* The steps of a request that leave the tunnels, the replies and the jar alone. *)
LEMMA RequestMovesOn ==
    ASSUME ProxyIInv, NEW r \in ProxyRequests,
           \/ \E d \in ProxyDevices \cup {NoDevice} : RequestRouted(r, d)
           \/ \E token \in {"none", "invalid", "unscoped", "scoped"},
                 bySubdomain, upgrade \in BOOLEAN :
                HandleProxy(r, token, bySubdomain, upgrade)
           \/ GetOrCreate(r) \/ InjectRequestCookies(r)
    PROVE  ProxyIInv'
<1>1. /\ proxied \in [ProxyRequests -> Request] /\ Sound(r) /\ JarIsSound
      /\ target \in Targets \cup {NoTarget} /\ jar \subseteq Row
      /\ conns \in [ProxyRequests -> SUBSET {"client", "upstream"}]
      /\ cached \subseteq Targets \cup {Peer} /\ strays \subseteq Targets
      /\ replyTo \in Seq(ProxyDevices) /\ Len(replyTo) <= MaxReplies
      /\ CacheFollowsRoutes /\ NoTarget \notin cached
  BY DEF ProxyIInv, ProxyShapes, ProxyTypeOK
<1>2. UNCHANGED <<target, changes, healthy, atPeer, jar, active, replyTo, forgotten>>
  BY DEF RequestRouted, HandleProxy, GetOrCreate, InjectRequestCookies
<1>3. ASSUME NEW q \in Request, proxied' = [proxied EXCEPT ![r] = q],
             NEW open \in SUBSET {"client", "upstream"}, conns' = [conns EXCEPT ![r] = open],
             q.pc \notin {"copy", "drain", "persist"}, proxied[r].pc \notin {"copy", "drain"},
             q.pc \in {"routed", "proxy", "inject", "dial"} => q.target # NoTarget,
             q.pc # "idle",
             \A c \in q.sent : c.reply \in DOMAIN replyTo /\ replyTo[c.reply] = q.device,
             q.pc \notin UpgradePcs => open = {},
             cached' \subseteq Targets \cup {Peer}, strays' \subseteq Targets,
             CacheFollowsRoutes', NoTarget \notin cached'
      PROVE  ProxyIInv'
  <2>1. active' = Cardinality(Tunnels')
    BY <1>2, <1>3, SameTunnels
  <2>2. proxied'[r] = q /\ conns'[r] = open
    BY <1>1, <1>3
  <2>3. Sound(r)'
    BY <1>2, <1>3, <2>2 DEF Sound
  <2>4. JarIsSound'
    BY <1>1, <1>2 DEF JarIsSound
  <2> QED BY <1>1, <1>2, <1>3, <2>1, <2>3, <2>4, StepOfOneRequest
<1>4. conns = [conns EXCEPT ![r] = conns[r]] /\ conns[r] \in SUBSET {"client", "upstream"}
  BY <1>1
<1>5. proxied[r] \in Request
  BY <1>1
<1>6. cached' = cached /\ strays' = strays => CacheFollowsRoutes' /\ NoTarget \notin cached'
  BY <1>1, <1>2 DEF CacheFollowsRoutes, Evicting
<1>7. ASSUME NEW d \in ProxyDevices \cup {NoDevice}, RequestRouted(r, d)
      PROVE  ProxyIInv'
  <2> DEFINE q == [proxied[r] EXCEPT !.pc = "routed", !.device = d, !.target = target]
  <2>1. /\ proxied[r].pc = "idle" /\ target # NoTarget /\ proxied' = [proxied EXCEPT ![r] = q]
        /\ UNCHANGED <<cached, conns, strays>>
    BY <1>7 DEF RequestRouted
  <2>2. /\ q \in Request /\ q.pc = "routed" /\ q.target = target /\ q.sent = proxied[r].sent
    BY <1>1, <1>5 DEF Request, ProxyPcs
  <2>3. q.sent = {} /\ conns[r] = {}
    BY <1>1, <2>1, <2>2 DEF Sound, UpgradePcs
  <2> HIDE DEF q
  <2> QED BY <1>1, <1>3, <1>4, <1>6, <2>1, <2>2, <2>3
<1>8. ASSUME NEW token \in {"none", "invalid", "unscoped", "scoped"},
             NEW bySubdomain \in BOOLEAN, NEW upgrade \in BOOLEAN,
             HandleProxy(r, token, bySubdomain, upgrade)
      PROVE  ProxyIInv'
  <2> DEFINE admitted == Admission(token, bySubdomain)
             next == CASE admitted \notin {"remote", "local"} -> "over"
                       [] admitted = "local" /\ upgrade -> "dial"
                       [] OTHER -> "proxy"
             to == IF admitted = "remote" THEN Peer ELSE proxied[r].target
             plain == admitted = "remote" \/ bySubdomain
             q == [proxied[r] EXCEPT !.pc = next, !.target = to, !.plain = plain]
             open == IF admitted = "local" /\ upgrade THEN {"client"} ELSE conns[r]
  <2>1. /\ proxied[r].pc = "routed" /\ UNCHANGED <<cached, strays>>
        /\ proxied' = [proxied EXCEPT ![r] = q]
    BY <1>8 DEF HandleProxy
  <2>2. conns' = [conns EXCEPT ![r] = open]
    BY <1>1, <1>4, <1>8 DEF HandleProxy
  <2>3. next \in {"over", "dial", "proxy"} /\ (next = "dial" <=> admitted = "local" /\ upgrade)
    OBVIOUS
  <2>4. to \in Targets \cup {NoTarget, Peer} /\ to # NoTarget /\ plain \in BOOLEAN
    BY <1>1, <1>5, <2>1 DEF Sound, Request, Peer, NoTarget
  <2>5. conns[r] = {} /\ open \in SUBSET {"client", "upstream"}
        /\ (next # "dial" => open = {})
    BY <1>1, <1>4, <2>1, <2>3 DEF Sound, UpgradePcs
  <2> HIDE DEF next, to, plain, open
  <2>6. /\ q \in Request /\ q.pc = next /\ q.target = to /\ q.sent = proxied[r].sent
        /\ q.device = proxied[r].device
    BY <1>5, <2>3, <2>4 DEF Request, ProxyPcs
  <2> HIDE DEF q
  <2>7. \A c \in q.sent : c.reply \in DOMAIN replyTo /\ replyTo[c.reply] = q.device
    BY <1>1, <2>6 DEF Sound
  <2>8. /\ q.pc \notin {"copy", "drain", "persist", "idle"}
        /\ proxied[r].pc \notin {"copy", "drain"}
        /\ q.pc \notin UpgradePcs => open = {}
    BY <2>1, <2>3, <2>5, <2>6 DEF UpgradePcs
  <2> QED BY <1>1, <1>3, <1>6, <2>1, <2>2, <2>4, <2>5, <2>6, <2>7, <2>8
<1>9. CASE GetOrCreate(r)
  <2> DEFINE t == proxied[r].target
             next == IF proxied[r].plain \/ proxied[r].device = NoDevice THEN "send" ELSE "inject"
             q == [proxied[r] EXCEPT !.pc = next]
  <2>1. /\ proxied[r].pc = "proxy" /\ cached' = cached \cup {t}
        /\ strays' = IF t \in {Peer, target} THEN strays ELSE strays \cup {t}
        /\ proxied' = [proxied EXCEPT ![r] = q] /\ UNCHANGED conns
    BY <1>9 DEF GetOrCreate, Step
  <2>2. t # NoTarget /\ t \in Targets \cup {Peer}
    BY <1>1, <1>5, <2>1 DEF Sound, Request
  <2>3. next \in {"send", "inject"}
    OBVIOUS
  <2> HIDE DEF next
  <2>4. /\ q \in Request /\ q.pc = next /\ q.target = t /\ q.sent = proxied[r].sent
        /\ q.device = proxied[r].device
    BY <1>5, <2>3 DEF Request, ProxyPcs
  <2> HIDE DEF q, t
  <2>5. /\ cached' \subseteq Targets \cup {Peer} /\ strays' \subseteq Targets
        /\ CacheFollowsRoutes' /\ NoTarget \notin cached'
    BY <1>1, <1>2, <2>1, <2>2 DEF CacheFollowsRoutes, Evicting
  <2>6. \A c \in q.sent : c.reply \in DOMAIN replyTo /\ replyTo[c.reply] = q.device
    BY <1>1, <2>4 DEF Sound
  <2>7. conns[r] = {}
    BY <1>1, <2>1 DEF Sound, UpgradePcs
  <2> QED BY <1>3, <1>4, <2>1, <2>2, <2>3, <2>4, <2>5, <2>6, <2>7
<1>10. CASE InjectRequestCookies(r)
  <2> DEFINE cookies == GetProxyCookies(proxied[r].device)
             q == [proxied[r] EXCEPT !.pc = "send", !.sent = cookies]
  <2>1. /\ proxied[r].pc = "inject" /\ proxied' = [proxied EXCEPT ![r] = q]
        /\ UNCHANGED <<cached, conns, strays>>
    BY <1>10 DEF InjectRequestCookies
  <2>2. /\ cookies \subseteq Row
        /\ \A c \in cookies : c.reply \in DOMAIN replyTo /\ replyTo[c.reply] = proxied[r].device
    BY <1>1 DEF GetProxyCookies, JarIsSound
  <2> HIDE DEF cookies
  <2>3. /\ q \in Request /\ q.pc = "send" /\ q.sent = cookies /\ q.device = proxied[r].device
    BY <1>5, <2>2 DEF Request, ProxyPcs
  <2> HIDE DEF q
  <2>4. conns[r] = {}
    BY <1>1, <2>1 DEF Sound, UpgradePcs
  <2> QED BY <1>1, <1>3, <1>4, <1>6, <2>1, <2>2, <2>3, <2>4
<1> QED BY <1>7, <1>8, <1>9, <1>10

(* The steps of an upgrade. *)
LEMMA UpgradeIsSafe ==
    ASSUME ProxyIInv, NEW r \in ProxyRequests,
           \/ \E ok \in BOOLEAN : \/ DialUpstream(r, ok) \/ ValidateUpgradeResponse(r, ok)
                                  \/ GreetClient(r, ok)
           \/ CopyEnds(r) \/ TunnelCloses(r)
    PROVE  ProxyIInv'
<1>1. /\ proxied \in [ProxyRequests -> Request] /\ Sound(r) /\ JarIsSound /\ jar \subseteq Row
      /\ conns \in [ProxyRequests -> SUBSET {"client", "upstream"}]
      /\ cached \subseteq Targets \cup {Peer} /\ strays \subseteq Targets
      /\ replyTo \in Seq(ProxyDevices) /\ Len(replyTo) <= MaxReplies
      /\ CacheFollowsRoutes /\ NoTarget \notin cached /\ active = Cardinality(Tunnels)
  BY DEF ProxyIInv, ProxyShapes, ProxyTypeOK
<1>2. UNCHANGED <<target, changes, healthy, atPeer, cached, strays, jar, replyTo, forgotten>>
  BY DEF DialUpstream, ValidateUpgradeResponse, GreetClient, CopyEnds, TunnelCloses
<1>3. conns = [conns EXCEPT ![r] = conns[r]] /\ conns[r] \in SUBSET {"client", "upstream"}
  BY <1>1
<1>4. ASSUME NEW next \in {"validate", "greet", "copy", "drain", "over"},
             NEW open \in SUBSET {"client", "upstream"},
             proxied[r].pc \in UpgradePcs, next = "over" => open = {},
             Step(r, next), conns' = [conns EXCEPT ![r] = open],
             active' = IF next = "copy" THEN active + 1
                       ELSE IF next = "over" /\ proxied[r].pc = "drain" THEN active - 1 ELSE active,
             next = "copy" => proxied[r].pc = "greet",
             next = "drain" => proxied[r].pc = "copy",
             next \in {"validate", "greet", "over"} => proxied[r].pc # "copy",
             next \in {"validate", "greet"} => proxied[r].pc # "drain"
      PROVE  ProxyIInv'
  <2> DEFINE q == [proxied[r] EXCEPT !.pc = next]
  <2>1. proxied' = [proxied EXCEPT ![r] = q]
    BY <1>4 DEF Step
  <2>2. /\ q \in Request /\ q.pc = next /\ q.sent = proxied[r].sent
        /\ q.device = proxied[r].device
    <3>1. proxied[r] \in Request /\ next \in ProxyPcs
      BY <1>1, <1>4 DEF ProxyPcs
    <3> QED BY <3>1 DEF Request
  <2> HIDE DEF q
  <2>3. proxied'[r] = q /\ conns'[r] = open
        /\ \A e \in ProxyRequests \ {r} : proxied'[e] = proxied[e]
    BY <1>1, <1>4, <2>1
  <2>4. active' = Cardinality(Tunnels')
    <3>1. IsFiniteSet(Tunnels)
      BY TunnelsAreCounted
    <3>2. CASE next = "copy"
      <4>1. Tunnels' = Tunnels \cup {r} /\ r \notin Tunnels
        BY <1>4, <2>2, <2>3, <3>2 DEF Tunnels
      <4> QED BY <1>1, <1>4, <3>1, <3>2, <4>1, FS_AddElement
    <3>3. CASE next = "over" /\ proxied[r].pc = "drain"
      <4>1. Tunnels' = Tunnels \ {r} /\ r \in Tunnels
        BY <1>4, <2>2, <2>3, <3>3 DEF Tunnels
      <4> QED BY <1>1, <1>4, <3>1, <3>3, <4>1, FS_RemoveElement
    <3>4. CASE next # "copy" /\ ~(next = "over" /\ proxied[r].pc = "drain")
      <4>1. q.pc \in {"copy", "drain"} <=> proxied[r].pc \in {"copy", "drain"}
        BY <1>4, <2>2, <3>4
      <4>2. active' = active
        BY <1>4, <3>4
      <4> QED BY <2>1, <2>2, <4>1, <4>2, SameTunnels
    <3> QED BY <3>2, <3>3, <3>4
  <2>5. Sound(r)'
    <3>1. \A c \in proxied[r].sent :
             c.reply \in DOMAIN replyTo /\ replyTo[c.reply] = proxied[r].device
      BY <1>1 DEF Sound
    <3> QED BY <1>2, <1>4, <2>2, <2>3, <3>1 DEF Sound, UpgradePcs
  <2>6. JarIsSound' /\ CacheFollowsRoutes' /\ NoTarget \notin cached'
    BY <1>1, <1>2 DEF JarIsSound, CacheFollowsRoutes, Evicting
  <2> QED BY <1>1, <1>2, <1>4, <2>1, <2>2, <2>4, <2>5, <2>6, StepOfOneRequest
<1>5. ASSUME NEW ok \in BOOLEAN, DialUpstream(r, ok) PROVE ProxyIInv'
  <2>1. /\ proxied[r].pc = "dial" /\ active' = active
        /\ \/ ok /\ Step(r, "validate") /\ conns' = [conns EXCEPT ![r] = {"client", "upstream"}]
           \/ ~ok /\ Step(r, "over") /\ conns' = [conns EXCEPT ![r] = {}]
    BY <1>5 DEF DialUpstream, Close
  <2> QED BY <1>4, <2>1 DEF UpgradePcs
<1>6. ASSUME NEW ok \in BOOLEAN, ValidateUpgradeResponse(r, ok) PROVE ProxyIInv'
  <2>1. /\ proxied[r].pc = "validate" /\ active' = active
        /\ \/ ok /\ Step(r, "greet") /\ conns' = conns
           \/ ~ok /\ Step(r, "over") /\ conns' = [conns EXCEPT ![r] = {}]
    BY <1>6 DEF ValidateUpgradeResponse, Rejects, Close
  <2> QED BY <1>3, <1>4, <2>1 DEF UpgradePcs
<1>7. ASSUME NEW ok \in BOOLEAN, GreetClient(r, ok) PROVE ProxyIInv'
  <2>1. /\ proxied[r].pc = "greet"
        /\ \/ ok /\ Step(r, "copy") /\ conns' = conns /\ active' = active + 1
           \/ ~ok /\ Step(r, "over") /\ conns' = [conns EXCEPT ![r] = {}] /\ active' = active
    BY <1>7 DEF GreetClient, Close
  <2> QED BY <1>3, <1>4, <2>1 DEF UpgradePcs
<1>8. CASE CopyEnds(r)
  <2>1. proxied[r].pc = "copy" /\ Step(r, "drain") /\ conns' = conns /\ active' = active
    BY <1>8 DEF CopyEnds
  <2> QED BY <1>3, <1>4, <2>1 DEF UpgradePcs
<1>9. CASE TunnelCloses(r)
  <2>1. /\ proxied[r].pc = "drain" /\ Step(r, "over") /\ conns' = [conns EXCEPT ![r] = {}]
        /\ active' = active - 1
    BY <1>9 DEF TunnelCloses, Close
  <2> QED BY <1>4, <2>1 DEF UpgradePcs
<1> QED BY <1>5, <1>6, <1>7, <1>8, <1>9

(* The reply and the cookies of a request. *)
LEMMA ReplyIsSafe ==
    ASSUME ProxyIInv, NEW r \in ProxyRequests, NEW setCookies \in SetCookieLists,
           ReplyArrives(r, setCookies)
    PROVE  ProxyIInv'
<1>1. /\ proxied \in [ProxyRequests -> Request] /\ Sound(r) /\ JarIsSound /\ jar \subseteq Row
      /\ conns \in [ProxyRequests -> SUBSET {"client", "upstream"}]
      /\ cached \subseteq Targets \cup {Peer} /\ strays \subseteq Targets
      /\ replyTo \in Seq(ProxyDevices) /\ Len(replyTo) <= MaxReplies
      /\ forgotten \subseteq DOMAIN replyTo
      /\ CacheFollowsRoutes /\ NoTarget \notin cached
  BY DEF ProxyIInv, ProxyShapes, ProxyTypeOK
<1>2. /\ proxied[r].pc = "send"
      /\ UNCHANGED <<target, changes, healthy, atPeer, cached, jar, conns, active, forgotten,
                     strays>>
  BY DEF ReplyArrives
<1>3. conns' = [conns EXCEPT ![r] = {}] /\ {} \in SUBSET {"client", "upstream"}
  BY <1>1, <1>2 DEF Sound, UpgradePcs
<1>4. setCookies \in Seq(SetCookie)
  <2>1. <<>> \in Seq(SetCookie)
    OBVIOUS
  <2>2. \A a \in SetCookie : <<a>> \in Seq(SetCookie)
    OBVIOUS
  <2>3. ASSUME NEW a \in SetCookie, NEW b \in SetCookie PROVE <<a, b>> \in Seq(SetCookie)
    <3>1. <<a, b>> \in [1..2 -> SetCookie]
      OBVIOUS
    <3> QED BY <3>1
  <2>4. \/ setCookies = <<>>
        \/ \E a \in SetCookie : setCookies = <<a>>
        \/ \E a \in SetCookie : \E b \in SetCookie : setCookies = <<a, b>>
    BY DEF SetCookieLists
  <2> QED BY <2>1, <2>2, <2>3, <2>4
<1>5. CacheFollowsRoutes' /\ NoTarget \notin cached'
  BY <1>1, <1>2 DEF CacheFollowsRoutes, Evicting
<1>6. /\ \A c \in proxied[r].sent :
            c.reply \in DOMAIN replyTo /\ replyTo[c.reply] = proxied[r].device
      /\ Len(replyTo) \in Nat /\ DOMAIN replyTo = 1..Len(replyTo)
  BY <1>1 DEF Sound
<1>7. CASE setCookies = <<>>
  <2> DEFINE q == [proxied[r] EXCEPT !.pc = "over"]
  <2>1. proxied' = [proxied EXCEPT ![r] = q] /\ replyTo' = replyTo
    BY <1>7 DEF ReplyArrives, Step
  <2>2. /\ q \in Request /\ q.pc = "over" /\ q.sent = proxied[r].sent
        /\ q.device = proxied[r].device
    BY <1>1 DEF Request, ProxyPcs
  <2> HIDE DEF q
  <2>3. proxied'[r] = q /\ conns'[r] = {}
    BY <1>1, <1>3, <2>1
  <2>4. Sound(r)'
    BY <1>6, <2>1, <2>2, <2>3 DEF Sound
  <2>5. active' = Cardinality(Tunnels')
    BY <1>2, <2>1, <2>2, SameTunnels
  <2>6. JarIsSound'
    BY <1>1, <1>2, <2>1 DEF JarIsSound
  <2> QED BY <1>1, <1>2, <1>3, <1>5, <2>1, <2>2, <2>4, <2>5, <2>6, StepOfOneRequest
<1>8. CASE setCookies # <<>>
  <2> DEFINE q == [proxied[r] EXCEPT !.pc = "persist", !.setCookies = setCookies,
                                     !.reply = Len(replyTo) + 1]
             d == proxied[r].device
  <2>1. /\ proxied' = [proxied EXCEPT ![r] = q] /\ replyTo' = Append(replyTo, d)
        /\ d # NoDevice /\ Len(replyTo) < MaxReplies
    BY <1>8 DEF ReplyArrives
  <2>2. d \in ProxyDevices
    BY <1>1, <2>1 DEF Request
  <2>3. Len(replyTo) + 1 \in 0..MaxReplies
    BY <1>6, <2>1, ProxyAssumption
  <2>4. /\ q \in Request /\ q.pc = "persist" /\ q.sent = proxied[r].sent /\ q.device = d
        /\ q.setCookies = setCookies /\ q.reply = Len(replyTo) + 1
    BY <1>1, <1>4, <2>3 DEF Request, ProxyPcs
  <2> HIDE DEF q, d
  <2>5. /\ replyTo' \in Seq(ProxyDevices) /\ Len(replyTo') = Len(replyTo) + 1
        /\ DOMAIN replyTo' = 1..(Len(replyTo) + 1)
        /\ replyTo'[Len(replyTo) + 1] = d
        /\ \A n \in DOMAIN replyTo : n \in DOMAIN replyTo' /\ replyTo'[n] = replyTo[n]
    BY <1>1, <1>6, <2>1, <2>2
  <2>6. proxied'[r] = q /\ conns'[r] = {} /\ Len(replyTo) + 1 \notin forgotten'
    BY <1>1, <1>2, <1>3, <1>6, <2>1
  <2>7. Len(replyTo) + 1 \in DOMAIN replyTo' \ forgotten'
    BY <1>6, <2>5, <2>6
  <2>8. \A c \in q.sent : c.reply \in DOMAIN replyTo' /\ replyTo'[c.reply] = q.device
    BY <1>6, <2>4, <2>5 DEF d
  <2>9. Sound(r)'
    BY <1>8, <2>2, <2>4, <2>5, <2>6, <2>7, <2>8 DEF Sound
  <2>10. active' = Cardinality(Tunnels')
    BY <1>2, <2>1, <2>4, SameTunnels
  <2>11. JarIsSound'
    BY <1>1, <1>2, <2>5 DEF JarIsSound
  <2>12. Len(replyTo') <= MaxReplies
    BY <1>6, <2>1, <2>5, ProxyAssumption
  <2> QED BY <1>1, <1>2, <1>3, <1>5, <2>1, <2>4, <2>5, <2>9, <2>10, <2>11, <2>12,
             StepOfOneRequest
<1> QED BY <1>7, <1>8

(* Capturing a Set-Cookie header writes to the jar of the device that *)
(* asked, and to no other.                                            *)
LEMMA CaptureIsSafe ==
    ASSUME ProxyIInv, NEW r \in ProxyRequests, NEW ok \in BOOLEAN, CaptureCookie(r, ok)
    PROVE  ProxyIInv'
<1> DEFINE cookies == proxied[r].setCookies
           d == proxied[r].device
           next == IF ok /\ Len(cookies) > 1 THEN "persist" ELSE "over"
           q == [proxied[r] EXCEPT !.pc = next, !.setCookies = Tail(cookies)]
<1>1. /\ proxied \in [ProxyRequests -> Request] /\ Sound(r) /\ JarIsSound /\ jar \subseteq Row
      /\ conns \in [ProxyRequests -> SUBSET {"client", "upstream"}]
      /\ cached \subseteq Targets \cup {Peer} /\ strays \subseteq Targets
      /\ replyTo \in Seq(ProxyDevices) /\ Len(replyTo) <= MaxReplies
      /\ CacheFollowsRoutes /\ NoTarget \notin cached
  BY DEF ProxyIInv, ProxyShapes, ProxyTypeOK
<1>2. /\ proxied[r].pc = "persist" /\ proxied' = [proxied EXCEPT ![r] = q]
      /\ jar' = IF ok THEN JarAfter(d, Head(cookies), proxied[r].reply) ELSE jar
      /\ UNCHANGED <<target, changes, healthy, atPeer, cached, conns, active, replyTo, forgotten,
                     strays>>
  BY DEF CaptureCookie
<1>3. /\ d \in ProxyDevices /\ cookies # <<>> /\ cookies \in Seq(SetCookie)
      /\ proxied[r].reply \in DOMAIN replyTo \ forgotten /\ replyTo[proxied[r].reply] = d
      /\ \A c \in proxied[r].sent : c.reply \in DOMAIN replyTo /\ replyTo[c.reply] = d
      /\ conns[r] = {}
  BY <1>1, <1>2 DEF Sound, Request, UpgradePcs
<1>4. /\ Head(cookies) \in SetCookie /\ Tail(cookies) \in Seq(SetCookie)
      /\ Len(Tail(cookies)) = Len(cookies) - 1 /\ Len(cookies) \in Nat
      /\ Len(cookies) > 1 => Tail(cookies) # <<>>
  <2> HIDE DEF cookies
  <2>1. /\ Head(cookies) \in SetCookie /\ Tail(cookies) \in Seq(SetCookie)
        /\ Len(Tail(cookies)) = Len(cookies) - 1
    BY <1>3, HeadTailProperties
  <2>2. Len(cookies) \in Nat /\ Len(<<>>) = 0
    BY <1>3
  <2> QED BY <2>1, <2>2
<1>5. next \in {"persist", "over"} /\ (next = "persist" => Len(cookies) > 1)
  OBVIOUS
<1> HIDE DEF next, cookies
<1>6. /\ q \in Request /\ q.pc = next /\ q.sent = proxied[r].sent /\ q.device = d
      /\ q.setCookies = Tail(cookies) /\ q.reply = proxied[r].reply
  BY <1>1, <1>4, <1>5 DEF Request, ProxyPcs
<1> HIDE DEF q, d
<1>7. conns' = [conns EXCEPT ![r] = {}] /\ {} \in SUBSET {"client", "upstream"}
      /\ proxied'[r] = q /\ conns'[r] = {}
  BY <1>1, <1>2, <1>3
<1>8. jar' \subseteq Row /\ JarIsSound'
  <2> DEFINE reply == proxied[r].reply
             new(n) == [device |-> d, name |-> n, reply |-> reply]
  <2>1. reply \in 1..MaxReplies
    <3>1. DOMAIN replyTo = 1..Len(replyTo) /\ Len(replyTo) \in Nat
      BY <1>1
    <3> QED BY <1>1, <1>3, <3>1, ProxyAssumption
  <2>2. \A n \in CookieNames : new(n) \in Row /\ new(n).reply = reply /\ new(n).device = d
    BY <1>3, <2>1 DEF Row
  <2>3. \A c \in jar' : c \in jar \/ \E n \in CookieNames : c = new(n)
    <3> HIDE DEF new
    <3>1. Head(cookies).name \in CookieNames
      BY <1>4 DEF SetCookie
    <3> QED BY <1>2, <3>1 DEF JarAfter, RowsOf, new
  <2> HIDE DEF new, reply
  <2>4. \A c \in jar' : c.reply \in DOMAIN replyTo \ forgotten /\ replyTo[c.reply] = c.device
    BY <1>1, <1>3, <2>2, <2>3 DEF JarIsSound, reply
  <2> QED BY <1>1, <1>2, <2>2, <2>3, <2>4 DEF JarIsSound
<1>9. Sound(r)'
  BY <1>2, <1>3, <1>4, <1>5, <1>6, <1>7 DEF Sound
<1>10. active' = Cardinality(Tunnels')
  BY <1>2, <1>5, <1>6, SameTunnels
<1>11. CacheFollowsRoutes' /\ NoTarget \notin cached'
  BY <1>1, <1>2 DEF CacheFollowsRoutes, Evicting
<1> QED BY <1>1, <1>2, <1>6, <1>7, <1>8, <1>9, <1>10, <1>11, StepOfOneRequest

(* A device deletes its sessions. *)
LEMMA DeleteSessionsIsSafe ==
    ASSUME ProxyIInv, NEW d \in ProxyDevices, DeleteSessions(d)
    PROVE  ProxyIInv'
<1> DEFINE covered == {n \in DOMAIN replyTo : replyTo[n] = d /\ n \notin Saving}
<1>1. /\ jar' = jar \ RowsOf(d) /\ forgotten' = forgotten \cup covered
      /\ UNCHANGED <<target, changes, healthy, atPeer, cached, proxied, conns, active, replyTo,
                     strays>>
  BY DEF DeleteSessions
<1>2. ASSUME NEW e \in ProxyRequests PROVE Sound(e)'
  <2>1. Sound(e)
    BY DEF ProxyIInv
  <2>2. proxied[e].pc = "persist" => proxied[e].reply \notin covered
    BY DEF Saving
  <2>3. proxied[e].pc = "persist" => proxied[e].reply \notin forgotten'
    BY <1>1, <2>1, <2>2 DEF Sound
  <2> HIDE DEF covered
  <2> QED BY <1>1, <2>1, <2>3, RequestStaysSound
<1>3. JarIsSound'
  BY <1>1 DEF ProxyIInv, JarIsSound, RowsOf
<1>4. ProxyShapes'
  <2>1. /\ replyTo \in Seq(ProxyDevices) /\ Len(replyTo) <= MaxReplies
        /\ forgotten \subseteq DOMAIN replyTo /\ jar \subseteq Row
    BY DEF ProxyIInv, ProxyShapes, ProxyTypeOK
  <2>2. forgotten' \subseteq DOMAIN replyTo /\ DOMAIN replyTo \subseteq 1..MaxReplies
        /\ jar' \subseteq Row
    BY <1>1, <2>1, ProxyAssumption
  <2> QED BY <1>1, <2>2 DEF ProxyIInv, ProxyShapes, ProxyTypeOK
<1>5. active' = Cardinality(Tunnels') /\ CacheFollowsRoutes' /\ NoTarget \notin cached'
  BY <1>1 DEF ProxyIInv, Tunnels, CacheFollowsRoutes, Evicting
<1> QED BY <1>2, <1>3, <1>4, <1>5 DEF ProxyIInv

(* Every step of a request, every change of a route and every loss of a *)
(* cache entry keeps the invariant.                                     *)
LEMMA ProxyIInvInductive == ProxyIInv /\ [ProxyNext]_proxyVars => ProxyIInv'
<1> SUFFICES ASSUME ProxyIInv, [ProxyNext]_proxyVars PROVE ProxyIInv'
  OBVIOUS
<1>1. CASE UNCHANGED proxyVars
  BY <1>1 DEF proxyVars, ProxyIInv, ProxyShapes, ProxyTypeOK, Sound, JarIsSound, Tunnels,
     CacheFollowsRoutes, Evicting
<1>2. ASSUME NEW r \in ProxyRequests,
             \/ \E d \in ProxyDevices \cup {NoDevice} : RequestRouted(r, d)
             \/ \E token \in {"none", "invalid", "unscoped", "scoped"},
                   bySubdomain, upgrade \in BOOLEAN :
                  HandleProxy(r, token, bySubdomain, upgrade)
             \/ GetOrCreate(r) \/ InjectRequestCookies(r)
      PROVE  ProxyIInv'
  BY <1>2, RequestMovesOn
<1>3. ASSUME NEW r \in ProxyRequests,
             \/ \E ok \in BOOLEAN : \/ DialUpstream(r, ok) \/ ValidateUpgradeResponse(r, ok)
                                    \/ GreetClient(r, ok)
             \/ CopyEnds(r) \/ TunnelCloses(r)
      PROVE  ProxyIInv'
  BY <1>3, UpgradeIsSafe
<1>4. ASSUME NEW r \in ProxyRequests,
             \/ \E setCookies \in SetCookieLists : ReplyArrives(r, setCookies)
             \/ \E ok \in BOOLEAN : CaptureCookie(r, ok)
      PROVE  ProxyIInv'
  BY <1>4, ReplyIsSafe, CaptureIsSafe
<1>5. ASSUME NEW d \in ProxyDevices, DeleteSessions(d) PROVE ProxyIInv'
  BY <1>5, DeleteSessionsIsSafe
<1> QED BY <1>1, <1>2, <1>3, <1>4, <1>5, RouteChangesAreSafe DEF ProxyNext

(* Routes, requests, cookies and connections have their types. *)
THEOREM ProxyTypeCorrect == ProxySpec => []ProxyTypeOK
<1>1. ProxyIInv => ProxyTypeOK
  BY DEF ProxyIInv, ProxyShapes
<1> QED BY <1>1, ProxyInitIsSafe, ProxyIInvInductive, PTL DEF ProxySpec

(* The cookies kept for a device and those its requests carry came from replies *)
(* to that device, and what it deleted does not come back:                      *)
(* InjectRequestCookies, CaptureResponseCookies and the deletions.              *)
THEOREM CookiesAreOwnHolds == ProxySpec => []CookiesAreOwn
<1>1. ProxyIInv => CookiesAreOwn
  BY DEF ProxyIInv, JarIsSound, Sound, CookiesAreOwn
<1> QED BY <1>1, ProxyInitIsSafe, ProxyIInvInductive, PTL DEF ProxySpec

(* Every way out of an upgrade closes what it opened, the gauge counts the      *)
(* tunnels, and the cache of proxies follows the routes but for the exceptions  *)
(* the code has: WebSocketProxy.ServeHTTP and Cache.                            *)
THEOREM NothingLeaksHolds == ProxySpec => []NothingLeaks
<1>1. ProxyIInv => NothingLeaks
  BY DEF ProxyIInv, Sound, UpgradePcs, Tunnels, NothingLeaks, TunnelsAreClosed
<1> QED BY <1>1, ProxyInitIsSafe, ProxyIInvInductive, PTL DEF ProxySpec
-----------------------------------------------------------------------------
(* Hot reload of the configuration: the inductive invariant *)

(* A write is an event, a running timer or a waiting callback, or has been  *)
(* taken by a reload.                                                       *)
CallbacksAreWrites ==
    /\ callbacks <= fileWrites
    /\ event \/ debounceTimer => callbacks + 1 <= fileWrites
    /\ event /\ debounceTimer => callbacks + 2 <= fileWrites

(* A reload whose file was written again meanwhile has another one to come. *)
AnotherReloadFollows ==
    watcher = "running" /\ reloading.pc # "idle" /\ reloading.new # file /\ ~gaveUp
    => event \/ debounceTimer \/ callbacks > 0

(* The parts the reload has been through *)
Passed == CASE reloading.pc = "tokens" -> {"table"}
            [] reloading.pc = "discovery" -> {"table", "tokens"}
            [] reloading.pc = "checker" -> {"table", "tokens", "discovery"}
            [] reloading.pc = "commit" -> Parts
            [] OTHER -> {}

(* A part the reload has been through and that is not ahead of              *)
(* currentConfig had no change to take.                                     *)
PassedAreAlike == \A p \in Passed \ mixed : ~Changed(p)

ConfigIInv ==
    /\ ConfigTypeOK
    /\ reloading \in [pc : Parts \cup {"idle", "commit"}, new : ConfigFiles]
    /\ CallbacksAreWrites
    /\ NoWriteIsLost /\ AnotherReloadFollows
    /\ PartsFollowConfig /\ PassedAreAlike

(* The program starts with the configuration its parts were made of. *)
LEMMA ConfigInitIsSafe == ConfigInit => ConfigIInv
<1> SUFFICES ASSUME ConfigInit PROVE ConfigIInv
  OBVIOUS
<1>1. /\ IdleReload \in [pc : Parts \cup {"idle", "commit"}, new : ConfigFiles]
      /\ IdleReload.pc = "idle"
  BY ConfigAssumption DEF IdleReload
<1>2. ConfigTypeOK
  <2>1. file \in ConfigFiles /\ currentConfig \in ConfigFiles /\ reloading = IdleReload
    BY ConfigAssumption DEF ConfigInit
  <2>2. 0 \in 0..MaxFileWrites /\ 0 \in 0..MaxReloadFaults
    BY ConfigAssumption
  <2>3. DOMAIN parts = Parts
    BY DEF ConfigInit
  <2> QED BY <1>1, <2>1, <2>2, <2>3 DEF ConfigInit, ConfigTypeOK
<1>3. CallbacksAreWrites
  BY DEF ConfigInit, CallbacksAreWrites
<1>4. NoWriteIsLost /\ AnotherReloadFollows
  BY <1>1 DEF ConfigInit, NoWriteIsLost, AnotherReloadFollows
<1>5. PartsFollowConfig
  <2>1. \A p \in Parts : parts[p] = currentConfig[p]
    BY DEF ConfigInit
  <2>2. "tokens" \in Parts
    BY DEF Parts
  <2> QED BY <2>1 DEF PartsFollowConfig
<1>6. PassedAreAlike
  BY <1>1 DEF ConfigInit, PassedAreAlike, Passed
<1> QED BY <1>1, <1>2, <1>3, <1>4, <1>5, <1>6 DEF ConfigIInv, ConfigInit

(* The watcher's steps touch neither the parts nor the reload under way. *)
LEMMA WatcherIsSafe ==
    ASSUME ConfigIInv,
           \/ \E f \in ConfigFiles : WriteFile(f)
           \/ WatchEvent \/ TimerFires \/ WatcherStop \/ StopTimer \/ LoopEnds
    PROVE  ConfigIInv'
<1>1. UNCHANGED <<reloading, currentConfig, parts, mixed, reloadFaults>>
  BY DEF WriteFile, WatchEvent, TimerFires, WatcherStop, StopTimer, LoopEnds
<1>2. /\ file \in ConfigFiles /\ fileWrites \in 0..MaxFileWrites /\ callbacks \in 0..MaxFileWrites
      /\ event \in BOOLEAN /\ debounceTimer \in BOOLEAN /\ gaveUp \in BOOLEAN
      /\ watcher \in {"running", "cancelled", "closed", "stopped", "down"}
      /\ MaxFileWrites \in Nat /\ CallbacksAreWrites /\ NoWriteIsLost /\ AnotherReloadFollows
      /\ PartsFollowConfig /\ PassedAreAlike
  BY ConfigAssumption DEF ConfigIInv, ConfigTypeOK
<1>3. watcher = "down" => watcher' = "down"
  BY DEF WriteFile, WatchEvent, TimerFires, WatcherStop, StopTimer, LoopEnds
<1>4. PartsFollowConfig' /\ PassedAreAlike'
  <2>1. PartsFollowConfig'
    BY <1>1, <1>2, <1>3 DEF PartsFollowConfig
  <2>2. \A p : Changed(p)' <=> Changed(p)
    BY <1>1 DEF Changed
  <2>3. Passed' = Passed
    BY <1>1 DEF Passed
  <2>4. PassedAreAlike'
    BY <1>1, <1>2, <2>2, <2>3 DEF PassedAreAlike
  <2> QED BY <2>1, <2>4
<1>5. ASSUME NEW f \in ConfigFiles, WriteFile(f)
      PROVE  /\ file' \in ConfigFiles /\ fileWrites' \in 0..MaxFileWrites
             /\ callbacks' \in 0..MaxFileWrites /\ event' \in BOOLEAN
             /\ debounceTimer' \in BOOLEAN /\ gaveUp' \in BOOLEAN
             /\ watcher' \in {"running", "cancelled", "closed", "stopped", "down"}
             /\ CallbacksAreWrites' /\ NoWriteIsLost' /\ AnotherReloadFollows'
  <2>1. /\ fileWrites < MaxFileWrites /\ file' = f /\ fileWrites' = fileWrites + 1
        /\ event' = (event \/ watcher \in {"running", "cancelled"}) /\ gaveUp' = FALSE
        /\ UNCHANGED <<debounceTimer, callbacks, watcher>>
    BY <1>5 DEF WriteFile
  <2>2. /\ file' \in ConfigFiles /\ fileWrites' \in 0..MaxFileWrites
        /\ callbacks' \in 0..MaxFileWrites /\ event' \in BOOLEAN
        /\ debounceTimer' \in BOOLEAN /\ gaveUp' \in BOOLEAN
        /\ watcher' \in {"running", "cancelled", "closed", "stopped", "down"}
    <3>1. event' \in BOOLEAN /\ debounceTimer' \in BOOLEAN /\ gaveUp' \in BOOLEAN
      BY <1>2, <2>1, Zenon
    <3> QED BY <1>2, <2>1, <3>1
  <2>4. CallbacksAreWrites'
    BY <1>2, <2>1 DEF CallbacksAreWrites
  <2>5. NoWriteIsLost' /\ AnotherReloadFollows'
    BY <2>1 DEF NoWriteIsLost, AnotherReloadFollows
  <2> QED BY <2>2, <2>4, <2>5
<1>6. ASSUME WatchEvent \/ TimerFires \/ WatcherStop \/ StopTimer \/ LoopEnds
      PROVE  /\ file' \in ConfigFiles /\ fileWrites' \in 0..MaxFileWrites
             /\ callbacks' \in 0..MaxFileWrites /\ event' \in BOOLEAN
             /\ debounceTimer' \in BOOLEAN /\ gaveUp' \in BOOLEAN
             /\ watcher' \in {"running", "cancelled", "closed", "stopped", "down"}
             /\ CallbacksAreWrites' /\ NoWriteIsLost' /\ AnotherReloadFollows'
  <2>1. /\ UNCHANGED <<file, fileWrites, reloading, currentConfig, gaveUp>>
        /\ event' \in BOOLEAN /\ callbacks' \in {callbacks, callbacks + 1}
        /\ debounceTimer' \in BOOLEAN
        /\ watcher' \in {"running", "cancelled", "closed", "stopped", "down"}
        /\ watcher' = "running" => watcher = "running"
    BY <1>1, <1>2, <1>6 DEF WatchEvent, TimerFires, WatcherStop, StopTimer, LoopEnds,
                            DebounceReload, fileVars
  <2>2. \/ event /\ ~event' /\ debounceTimer' /\ callbacks' = callbacks
        \/ event' = event /\ debounceTimer /\ ~debounceTimer' /\ callbacks' = callbacks + 1
        \/ /\ (event' => event) /\ (debounceTimer' => debounceTimer)
           /\ callbacks' = callbacks /\ watcher' # "running"
    BY <1>2, <1>6
    DEF WatchEvent, TimerFires, WatcherStop, StopTimer, LoopEnds, DebounceReload
  <2>3. CallbacksAreWrites'
    <3>1. CASE event /\ ~event' /\ debounceTimer' /\ callbacks' = callbacks
      BY <1>2, <2>1, <3>1 DEF CallbacksAreWrites
    <3>2. CASE event' = event /\ debounceTimer /\ ~debounceTimer' /\ callbacks' = callbacks + 1
      BY <1>2, <2>1, <3>2 DEF CallbacksAreWrites
    <3>3. CASE (event' => event) /\ (debounceTimer' => debounceTimer) /\ callbacks' = callbacks
      BY <1>2, <2>1, <3>3 DEF CallbacksAreWrites
    <3> QED BY <2>2, <3>1, <3>2, <3>3
  <2>4. callbacks' \in 0..MaxFileWrites
    BY <1>2, <2>1, <2>3 DEF CallbacksAreWrites
  <2>5. ASSUME watcher' = "running", event \/ debounceTimer \/ callbacks > 0
        PROVE  event' \/ debounceTimer' \/ callbacks' > 0
    BY <1>2, <2>2, <2>5
  <2>6. NoWriteIsLost' /\ AnotherReloadFollows'
    BY <1>2, <2>1, <2>5 DEF NoWriteIsLost, AnotherReloadFollows
  <2> QED BY <1>2, <2>1, <2>3, <2>4, <2>6
<1>7. ConfigTypeOK' /\ CallbacksAreWrites' /\ NoWriteIsLost' /\ AnotherReloadFollows'
  BY <1>1, <1>5, <1>6 DEF ConfigIInv, ConfigTypeOK
<1> QED BY <1>1, <1>4, <1>7 DEF ConfigIInv

(* A shutdown stops the watcher and leaves the configuration and the parts *)
(* as they are.                                                            *)
LEMMA ShutdownIsSafe ==
    ASSUME ConfigIInv, ShutdownServices
    PROVE  ConfigIInv'
<1>1. /\ watcher' = "down" /\ DOMAIN parts' = DOMAIN parts
      /\ UNCHANGED <<file, fileWrites, event, debounceTimer, callbacks, reloading, currentConfig,
                     mixed, gaveUp, reloadFaults>>
  BY DEF ShutdownServices, fileVars
<1> QED BY <1>1 DEF ConfigIInv, ConfigTypeOK, CallbacksAreWrites, NoWriteIsLost,
     AnotherReloadFollows, PartsFollowConfig, PassedAreAlike, Passed, Changed

(* A reload begins with the file as it is, or refuses it. *)
LEMMA ReloadBeginsIsSafe ==
    ASSUME ConfigIInv, ReloadBegins
    PROVE  ConfigIInv'
<1>1. /\ callbacks > 0 /\ reloading.pc = "idle" /\ callbacks' = callbacks - 1
      /\ \/ reloading' = [pc |-> "table", new |-> file] /\ gaveUp' = gaveUp
         \/ gaveUp' = TRUE /\ reloading' = reloading
      /\ UNCHANGED <<file, fileWrites, event, debounceTimer, currentConfig, parts, mixed, watcher,
                     reloadFaults>>
  BY DEF ReloadBegins, fileVars
<1>2. /\ file \in ConfigFiles /\ fileWrites \in 0..MaxFileWrites /\ callbacks \in 0..MaxFileWrites
      /\ MaxFileWrites \in Nat /\ gaveUp \in BOOLEAN
      /\ reloading \in [pc : Parts \cup {"idle", "commit"}, new : ConfigFiles]
  BY ConfigAssumption DEF ConfigIInv, ConfigTypeOK
<1>3. /\ reloading' \in [pc : Parts \cup {"idle", "commit"}, new : ConfigFiles]
      /\ reloading'.pc \in {"idle", "table"} /\ gaveUp' \in BOOLEAN
      /\ reloading'.new = file \/ (reloading'.pc = "idle" /\ gaveUp')
      /\ reloading'.pc = "idle" => gaveUp'
  <2>1. CASE reloading' = [pc |-> "table", new |-> file] /\ gaveUp' = gaveUp
    BY <1>2, <2>1 DEF Parts
  <2>2. CASE gaveUp' = TRUE /\ reloading' = reloading
    BY <1>1, <1>2, <2>2
  <2> QED BY <1>1, <2>1, <2>2
<1>4. ConfigTypeOK'
  BY <1>1, <1>2, <1>3 DEF ConfigIInv, ConfigTypeOK
<1>5. CallbacksAreWrites'
  BY <1>1, <1>2 DEF ConfigIInv, CallbacksAreWrites
<1>6. NoWriteIsLost' /\ AnotherReloadFollows'
  BY <1>1, <1>3 DEF NoWriteIsLost, AnotherReloadFollows
<1>7. PartsFollowConfig' /\ PassedAreAlike'
  BY <1>1, <1>3 DEF ConfigIInv, PartsFollowConfig, PassedAreAlike, Passed
<1> QED BY <1>3, <1>4, <1>5, <1>6, <1>7 DEF ConfigIInv

(* The reload comes to the next part. *)
LEMMA PartReloadsIsSafe ==
    ASSUME ConfigIInv, NEW part \in Parts, PartReloads(part)
    PROVE  ConfigIInv'
<1>1. /\ reloading.pc = part /\ reloading' = [reloading EXCEPT !.pc = NextPart(part)]
      /\ parts' = IF Changed(part) THEN [parts EXCEPT ![part] = reloading.new[part]] ELSE parts
      /\ mixed' = IF Changed(part) THEN mixed \cup {part} ELSE mixed
      /\ UNCHANGED <<file, fileWrites, event, debounceTimer, callbacks, currentConfig, gaveUp,
                     watcher, reloadFaults>>
  BY DEF PartReloads, fileVars
<1>2. /\ reloading \in [pc : Parts \cup {"idle", "commit"}, new : ConfigFiles]
      /\ DOMAIN parts = Parts /\ mixed \subseteq Parts
  BY DEF ConfigIInv, ConfigTypeOK
<1>3. NextPart(part) \in {"tokens", "discovery", "checker", "commit"}
  BY DEF Parts, NextPart
<1>4. /\ reloading' \in [pc : Parts \cup {"idle", "commit"}, new : ConfigFiles]
      /\ reloading'.pc = NextPart(part) /\ reloading'.new = reloading.new
  BY <1>1, <1>2, <1>3 DEF Parts
<1>5. DOMAIN parts' = Parts /\ mixed' \subseteq Parts
      /\ \A p \in Parts \ mixed' : p \notin mixed /\ parts'[p] = parts[p]
  BY <1>1, <1>2
<1>6. ConfigTypeOK'
  BY <1>1, <1>4, <1>5 DEF ConfigIInv, ConfigTypeOK
<1>7. reloading.pc # "idle" /\ reloading'.pc # "idle"
  BY <1>1, <1>3, <1>4 DEF Parts
<1>8. CallbacksAreWrites' /\ NoWriteIsLost' /\ AnotherReloadFollows'
  BY <1>1, <1>4, <1>7
  DEF ConfigIInv, CallbacksAreWrites, NoWriteIsLost, AnotherReloadFollows
<1>9. PartsFollowConfig'
  BY <1>1, <1>5 DEF ConfigIInv, PartsFollowConfig
<1>10. Passed' \subseteq Passed \cup {part}
  BY <1>1, <1>4 DEF Passed, NextPart, Parts
<1>11. \A p : Changed(p)' <=> Changed(p)
  BY <1>1, <1>4 DEF Changed
<1>12. mixed \subseteq mixed' /\ (part \notin mixed' => ~Changed(part))
  BY <1>1
<1>13. PassedAreAlike'
  BY <1>10, <1>11, <1>12 DEF ConfigIInv, PassedAreAlike
<1> QED BY <1>4, <1>6, <1>8, <1>9, <1>13 DEF ConfigIInv

(* A part that fails ends the reload. *)
LEMMA PartFailsIsSafe ==
    ASSUME ConfigIInv, NEW part \in Parts, PartFails(part)
    PROVE  ConfigIInv'
<1>1. /\ reloading.pc = part /\ reloading' = IdleReload /\ mixed' = mixed \cup {part}
      /\ gaveUp' = (gaveUp \/ reloading.new = file)
      /\ reloadFaults < MaxReloadFaults /\ reloadFaults' = reloadFaults + 1
      /\ UNCHANGED <<file, fileWrites, event, debounceTimer, callbacks, currentConfig, watcher>>
  BY DEF PartFails, fileVars
<1>2. parts' = parts \/ \E x : parts' = [parts EXCEPT ![part] = x]
  BY DEF PartFails
<1>3. /\ IdleReload \in [pc : Parts \cup {"idle", "commit"}, new : ConfigFiles]
      /\ IdleReload.pc = "idle"
  BY ConfigAssumption DEF IdleReload
<1>4. /\ DOMAIN parts = Parts /\ mixed \subseteq Parts /\ reloadFaults \in 0..MaxReloadFaults
      /\ MaxReloadFaults \in Nat
  BY ConfigAssumption DEF ConfigIInv, ConfigTypeOK
<1>5. /\ DOMAIN parts' = Parts /\ mixed' \subseteq Parts /\ reloadFaults' \in 0..MaxReloadFaults
      /\ \A p \in Parts \ mixed' : p \notin mixed /\ parts'[p] = parts[p]
  BY <1>1, <1>2, <1>4
<1>6. ConfigTypeOK'
  BY <1>1, <1>3, <1>5 DEF ConfigIInv, ConfigTypeOK
<1>7. CallbacksAreWrites' /\ NoWriteIsLost' /\ AnotherReloadFollows'
  BY <1>1, <1>3 DEF ConfigIInv, CallbacksAreWrites, NoWriteIsLost, AnotherReloadFollows
<1>8. PartsFollowConfig' /\ PassedAreAlike'
  BY <1>1, <1>3, <1>5 DEF ConfigIInv, PartsFollowConfig, PassedAreAlike, Passed
<1> QED BY <1>1, <1>3, <1>6, <1>7, <1>8 DEF ConfigIInv

(* The watcher keeps the configuration all parts have been through. *)
LEMMA ReloadSucceedsIsSafe ==
    ASSUME ConfigIInv, ReloadSucceeds
    PROVE  ConfigIInv'
<1>1. /\ reloading.pc = "commit" /\ currentConfig' = reloading.new /\ reloading' = IdleReload
      /\ mixed' = {p \in mixed : parts[p] # reloading.new[p]}
      /\ UNCHANGED <<file, fileWrites, event, debounceTimer, callbacks, parts, gaveUp, watcher,
                     reloadFaults>>
  BY DEF ReloadSucceeds, fileVars
<1>2. /\ IdleReload \in [pc : Parts \cup {"idle", "commit"}, new : ConfigFiles]
      /\ IdleReload.pc = "idle"
  BY ConfigAssumption DEF IdleReload
<1>3. ConfigTypeOK'
  BY <1>1, <1>2 DEF ConfigIInv, ConfigTypeOK
<1>4. CallbacksAreWrites' /\ NoWriteIsLost' /\ AnotherReloadFollows'
  BY <1>1, <1>2 DEF ConfigIInv, CallbacksAreWrites, NoWriteIsLost, AnotherReloadFollows
<1>5. ASSUME watcher # "down", NEW p \in Parts \ mixed'
      PROVE  IF p = "tokens" THEN Cardinality(parts[p]) = Cardinality(reloading.new[p])
             ELSE parts[p] = reloading.new[p]
  <2>1. CASE p \in mixed
    BY <1>1, <1>5, <2>1
  <2>2. CASE p \notin mixed
    <3>1. p \in Passed /\ ~Changed(p)
      BY <1>1, <1>5, <2>2 DEF ConfigIInv, PassedAreAlike, Passed
    <3>2. IF p = "tokens" THEN Cardinality(parts[p]) = Cardinality(currentConfig[p])
          ELSE parts[p] = currentConfig[p]
      BY <1>5, <2>2 DEF ConfigIInv, PartsFollowConfig
    <3> QED BY <3>1, <3>2 DEF Changed
  <2> QED BY <2>1, <2>2
<1>6. PartsFollowConfig'
  BY <1>1, <1>5 DEF PartsFollowConfig
<1>7. PassedAreAlike'
  BY <1>1, <1>2 DEF PassedAreAlike, Passed
<1> QED BY <1>1, <1>2, <1>3, <1>4, <1>6, <1>7 DEF ConfigIInv

(* Every write, every event, every callback and every step of a reload *)
(* keeps the invariant.                                                *)
LEMMA ConfigIInvInductive == ConfigIInv /\ [ConfigNext]_configVars => ConfigIInv'
<1> SUFFICES ASSUME ConfigIInv, [ConfigNext]_configVars PROVE ConfigIInv'
  OBVIOUS
<1>1. CASE UNCHANGED configVars
  BY <1>1
  DEF configVars, fileVars, watchVars, ConfigIInv, ConfigTypeOK, CallbacksAreWrites,
     NoWriteIsLost, AnotherReloadFollows, PartsFollowConfig, PassedAreAlike, Passed, Changed
<1> QED BY <1>1, WatcherIsSafe, ShutdownIsSafe, ReloadBeginsIsSafe, PartReloadsIsSafe,
           PartFailsIsSafe, ReloadSucceedsIsSafe DEF ConfigNext

(* The file, the watcher and the reload have their types; no more callbacks     *)
(* wait than the file was written: internal/config/watcher.go.                  *)
THEOREM ConfigTypeCorrect == ConfigSpec => []ConfigTypeOK
<1>1. ConfigIInv => ConfigTypeOK
  BY DEF ConfigIInv
<1> QED BY <1>1, ConfigInitIsSafe, ConfigIInvInductive, PTL DEF ConfigSpec

(* No write to the file is lost, whatever reload was under way, and no part of  *)
(* the program is left behind: debounceReload, performReload and                *)
(* handleConfigReload.                                                          *)
THEOREM ProgramFollowsFileHolds == ConfigSpec => []ProgramFollowsFile
<1>1. ConfigIInv => ProgramFollowsFile
  BY DEF ConfigIInv, ProgramFollowsFile
<1> QED BY <1>1, ConfigInitIsSafe, ConfigIInvInductive, PTL DEF ConfigSpec

-----------------------------------------------------------------------------
(* The composition. *)

(* Whatever part of the instance runs, each of its parts behaves as its own   *)
(* specification says.                                                        *)
THEOREM PlatformRunsItsParts ==
    PlatformSpec => /\ Spec
                /\ FedSpec
                /\ ToolboxSpec
                /\ ContainersSpec
                /\ ProxySpec
                /\ ConfigSpec
<1>1. PlatformInit => /\ Init
                      /\ FedInit
                      /\ ToolboxInit
                      /\ ContainersInit
                      /\ ProxyInit
                      /\ ConfigInit
    BY DEF PlatformInit
<1>2. [PlatformNext]_platformVars => /\ [Next]_vars
                                    /\ [FedNext]_fedVars
                                    /\ [ToolboxNext]_toolboxVars
                                    /\ [ContainersNext]_containerVars
                                    /\ [ProxyNext]_proxyVars
                                    /\ [ConfigNext]_configVars
    BY DEF PlatformNext, platformVars
<1> QED BY <1>1, <1>2, PTL DEF PlatformSpec, Spec, FedSpec, ToolboxSpec, ContainersSpec, ProxySpec, ConfigSpec

(* The part that runs keeps its types, for any number of clients, peers,      *)
(* deployments, containers, requests and writes of the file.                  *)
THEOREM PlatformTypeCorrect == PlatformSpec => []PlatformTypeOK
<1> DEFINE Focus == focus \in {"hub", "federation", "toolbox", "containers", "sessions", "routing",
                            "config"}
<1>1. PlatformSpec => []Focus
    <2>1. PlatformInit => Focus
        BY DEF PlatformInit
    <2>2. Focus /\ [PlatformNext]_platformVars => Focus'
        BY DEF PlatformNext, platformVars
    <2> QED BY <2>1, <2>2, PTL DEF PlatformSpec
<1>2. /\ Focus
      /\ TypeOK
      /\ FedTypeOK
      /\ ToolboxTypeOK
      /\ ContainersTypeOK
      /\ ProxyTypeOK
      /\ ConfigTypeOK
      => PlatformTypeOK
    BY DEF PlatformTypeOK
<1> HIDE DEF Focus
<1> QED BY <1>1, <1>2, PlatformRunsItsParts,
           HubTypeCorrect, FederationTypeCorrect, ToolboxTypeCorrect,
           ContainersTypeCorrect, ProxyTypeCorrect, ConfigTypeCorrect, PTL
=============================================================================
