---------------------------- MODULE WebSocketHub ----------------------------
(***************************************************************************)
(* The WebSocket hub: Manager and Client of internal/websocket, the        *)
(* handler goroutine of cmd/nekzus/websocket_handlers.go (one for each     *)
(* connection) and the requests that end connections of a device           *)
(* (administrative disconnect, revocation, pairing again).                 *)
(*                                                                         *)
(* The manager keeps two indexes of the connected clients: the set         *)
(* "clients" and, for lookups by device, the lists "byDevice".  Both are   *)
(* changed under one lock; broadcasts and the publication of a last will   *)
(* happen after it is released.                                            *)
(*                                                                         *)
(* Every connection belongs to a paired device.  The reserved IDs "admin"  *)
(* and "anonymous" skip the look-up in Authenticate and are left out.      *)
(***************************************************************************)
EXTENDS Naturals, Sequences, FiniteSets

CONSTANTS
    Conns,        \* connections that may be opened, each once
    Devices,      \* device IDs
    DeviceOf,     \* the device that opens each connection
    Patterns,     \* topic patterns clients ask for
    InvalidOnes,  \* the patterns ValidatePattern refuses
    MaxSubscriptionsPerClient,
    Env           \* environment events this instance admits, see Next

ASSUME HubConstants ==
    /\ DeviceOf \in [Conns -> Devices]
    /\ InvalidOnes \subseteq Patterns
    /\ MaxSubscriptionsPerClient \in Nat

VARIABLES
    pc,          \* where the handler of each connection stands
    clients,     \* Manager.clients
    byDevice,    \* Manager.clientsByDevice
    closed,      \* clients whose send channel is closed
    kicked,      \* clients DisconnectDevice closed the connection of
    subs,        \* Client.subscriptions
    will,        \* clients with a last will
    leaveWith,   \* leaving clients whose last will is to be published
    published,   \* clients whose last will was published
    announced,   \* the device status broadcast last
    registered,  \* rows of the devices table
    admin,       \* what a revocation and a pairing of a device have left to do
    overtaken    \* connections that had passed the look-up of the device, but not
                 \* registered, when a revocation was through (history)

registry == <<clients, byDevice, closed>>
clientVars == <<subs, will>>
willVars == <<leaveWith, published>>
deviceVars == <<registered, admin, overtaken>>
vars == <<pc, registry, kicked, clientVars, willVars, announced, deviceVars>>

Elements(list) == {list[i] : i \in 1..Len(list)}

TypeOK ==
    /\ pc \in [Conns -> {"none", "authenticated", "announceOnline", "hello", "open",
                         "leaving", "announceOffline", "publishWill", "done"}]
    /\ clients \subseteq Conns /\ byDevice \in [Devices -> Seq(Conns)]
    /\ closed \subseteq Conns /\ kicked \subseteq Conns
    /\ subs \in [Conns -> SUBSET (Patterns \ InvalidOnes)] /\ will \subseteq Conns
    /\ \A c \in Conns : Cardinality(subs[c]) <= MaxSubscriptionsPerClient
    /\ leaveWith \subseteq Conns
    /\ published \subseteq leaveWith
    /\ announced \in [Devices -> {"none", "online", "offline"}]
    /\ registered \subseteq Devices
    /\ admin \in [Devices -> SUBSET {"disconnect", "save"}]
    /\ overtaken \subseteq Conns

Init ==
    /\ pc = [c \in Conns |-> "none"]
    /\ clients = {} /\ byDevice = [d \in Devices |-> <<>>] /\ closed = {}
    /\ kicked = {} /\ subs = [c \in Conns |-> {}] /\ will = {}
    /\ leaveWith = {} /\ published = {}
    /\ announced = [d \in Devices |-> "none"]
    /\ registered = Devices /\ admin = [d \in Devices |-> {}] /\ overtaken = {}

Goto(c, label) == pc' = [pc EXCEPT ![c] = label]

ClientsOf(d) == {c \in clients : DeviceOf[c] = d}

-----------------------------------------------------------------------------
(* handleWebSocket: the connection is opened *)

(* The token is valid, the device has a row and the answer was written. *)
Authenticate(c) ==
    /\ pc[c] = "none" /\ DeviceOf[c] \in registered
    /\ Goto(c, "authenticated")
    /\ UNCHANGED <<registry, kicked, clientVars, willVars, announced, deviceVars>>

(* No or a wrong message, an invalid token, no device or a failed write. *)
AuthFails(c) ==
    /\ pc[c] = "none"
    /\ Goto(c, "done")
    /\ UNCHANGED <<registry, kicked, clientVars, willVars, announced, deviceVars>>

(* Manager.Subscribe up to the end of its critical section. *)
Subscribe(c) ==
    /\ pc[c] = "authenticated"
    /\ clients' = clients \cup {c}
    /\ byDevice' = [byDevice EXCEPT ![DeviceOf[c]] = Append(@, c)]
    /\ Goto(c, "announceOnline")
    /\ UNCHANGED <<closed, kicked, clientVars, willVars, announced, deviceVars>>

(* The rest of Subscribe: PublishDeviceStatus.  The callback it starts is   *)
(* RetryDevice of module NotificationQueue.                                 *)
AnnounceOnline(c) ==
    /\ pc[c] = "announceOnline"
    /\ announced' = [announced EXCEPT ![DeviceOf[c]] = "online"]
    /\ Goto(c, "hello")
    /\ UNCHANGED <<registry, kicked, clientVars, willVars, deviceVars>>

SendHello(c) ==
    /\ pc[c] = "hello" /\ c \notin kicked
    /\ Goto(c, "open")
    /\ UNCHANGED <<registry, kicked, clientVars, willVars, announced, deviceVars>>

(* The handler returns, and the client stays registered. *)
HelloFails(c) ==
    /\ pc[c] = "hello" /\ (c \in kicked \/ "write_error" \in Env)
    /\ Goto(c, "done")
    /\ UNCHANGED <<registry, kicked, clientVars, willVars, announced, deviceVars>>

-----------------------------------------------------------------------------
(* handleWebSocket: the connection ends *)

(* What ReadMessage may report: a close frame with code 1000, 1001 or       *)
(* another one; the end of the stream without a close frame, which the      *)
(* library reports as code 1006; or an error of the network, which includes *)
(* a missed pong and a connection closed by this process.                   *)
Endings == {"normal", "goingAway", "otherCode", "abnormal", "netError"}

(* IsUnexpectedCloseError(err, CloseGoingAway, CloseAbnormalClosure): a     *)
(* close code that is not one of the two.                                   *)
IsUnexpectedCloseError(ending) == ending \in {"normal", "otherCode"}

(* The read loop is left, and unsubscribeClient takes the last will before  *)
(* it takes the lock.                                                       *)
ReadFails(c, ending) ==
    /\ pc[c] = "open"
    /\ leaveWith' = IF IsUnexpectedCloseError(ending) /\ c \in will
                    THEN leaveWith \cup {c} ELSE leaveWith
    /\ Goto(c, "leaving")
    /\ UNCHANGED <<registry, kicked, clientVars, published, announced, deviceVars>>

(* append(clients[:i], clients[i+1:]...) for the client's place i. *)
Without(list, c) ==
    LET i == CHOOSE j \in 1..Len(list) : list[j] = c
    IN  SubSeq(list, 1, i - 1) \o SubSeq(list, i + 1, Len(list))

\* Mutant: the remaining connections are counted before this one is removed.
UnsubscribeCountsItself(c) ==
    LET d == DeviceOf[c]
        remaining == Without(byDevice[d], c)
    IN  /\ pc[c] = "leaving"
        /\ IF c \in clients
           THEN /\ clients' = clients \ {c}
                /\ byDevice' = [byDevice EXCEPT ![d] = remaining]
                /\ closed' = closed \cup {c}
           ELSE UNCHANGED registry
        /\ Goto(c, IF c \in clients /\ byDevice[d] = <<>>
                   THEN "announceOffline" ELSE "publishWill")
        /\ UNCHANGED <<kicked, clientVars, willVars, announced, deviceVars>>

(* unsubscribeClient under the lock.  Nothing happens to a client that      *)
(* DisconnectDevice has removed from the set.                               *)
UnsubscribeClient(c) ==
    LET d == DeviceOf[c]
        remaining == Without(byDevice[d], c)
    IN  /\ pc[c] = "leaving"
        /\ IF c \in clients
           THEN /\ clients' = clients \ {c}
                /\ byDevice' = [byDevice EXCEPT ![d] = remaining]
                /\ closed' = closed \cup {c}
           ELSE UNCHANGED registry
        /\ Goto(c, IF c \in clients /\ remaining = <<>>
                   THEN "announceOffline" ELSE "publishWill")
        /\ UNCHANGED <<kicked, clientVars, willVars, announced, deviceVars>>

AnnounceOffline(c) ==
    /\ pc[c] = "announceOffline"
    /\ announced' = [announced EXCEPT ![DeviceOf[c]] = "offline"]
    /\ Goto(c, "publishWill")
    /\ UNCHANGED <<registry, kicked, clientVars, willVars, deviceVars>>

PublishLastWill(c) ==
    /\ pc[c] = "publishWill"
    /\ published' = published \cup ({c} \cap leaveWith)
    /\ Goto(c, "done")
    /\ UNCHANGED <<registry, kicked, clientVars, leaveWith, announced, deviceVars>>

-----------------------------------------------------------------------------
(* Requests a connection serves: they apply to every client byDevice lists  *)
(* for its device.  Each client is changed under its own lock and the steps *)
(* for different clients commute, so that the loop is one step.             *)

\* Mutant: the limit does not count the patterns of the request.
FitsBefore(c, P) == Cardinality(subs[c]) <= MaxSubscriptionsPerClient

(* Client.SubscribeToTopics counts the patterns the client does not have,   *)
(* the ones that are not valid included.                                    *)
Fits(c, P) == Cardinality(subs[c] \cup P) <= MaxSubscriptionsPerClient

(* The loop stops at the first client that refuses the patterns. *)
Reached(d, P) ==
    LET list == byDevice[d]
    IN  {list[i] : i \in {j \in 1..Len(list) : \A k \in 1..j : Fits(list[k], P)}}

SubscribeClientToTopics(c, P) ==
    /\ pc[c] = "open" /\ P \cap InvalidOnes = {}
    /\ subs' = [e \in Conns |-> IF e \in Reached(DeviceOf[c], P) THEN subs[e] \cup P ELSE subs[e]]
    /\ UNCHANGED <<pc, registry, kicked, will, willVars, announced, deviceVars>>

(* The first client that has room takes the patterns A, which stand before  *)
(* the first invalid one, and refuses the rest; the others are not asked.   *)
SubscribeInvalid(c, P, A) ==
    LET list == byDevice[DeviceOf[c]]
    IN  /\ pc[c] = "open" /\ P \cap InvalidOnes # {} /\ A \cap InvalidOnes = {}
        /\ list # <<>>
        /\ subs' = IF Fits(list[1], P) THEN [subs EXCEPT ![list[1]] = @ \cup A] ELSE subs
        /\ UNCHANGED <<pc, registry, kicked, will, willVars, announced, deviceVars>>

UnsubscribeClientFromTopics(c, P) ==
    /\ pc[c] = "open"
    /\ subs' = [e \in Conns |->
                  IF e \in Elements(byDevice[DeviceOf[c]]) THEN subs[e] \ P ELSE subs[e]]
    /\ UNCHANGED <<pc, registry, kicked, will, willVars, announced, deviceVars>>

SetClientLastWill(c) ==
    /\ pc[c] = "open"
    /\ will' = will \cup Elements(byDevice[DeviceOf[c]])
    /\ UNCHANGED <<pc, registry, kicked, subs, willVars, announced, deviceVars>>

ClearClientLastWill(c) ==
    /\ pc[c] = "open"
    /\ will' = will \ Elements(byDevice[DeviceOf[c]])
    /\ UNCHANGED <<pc, registry, kicked, subs, willVars, announced, deviceVars>>

-----------------------------------------------------------------------------
(* Requests that end the connections of a device *)

\* Mutant: the send channel stays open.
DisconnectKeepsChannel(d) ==
    /\ kicked' = kicked \cup ClientsOf(d)
    /\ clients' = clients \ ClientsOf(d)
    /\ UNCHANGED <<byDevice, closed>>

\* Mutant: the loop over the clients stops at the first match.
DisconnectFirstOnly(d) ==
    \E S \in SUBSET ClientsOf(d) :
        /\ Cardinality(S) = 1 \/ ClientsOf(d) = {}
        /\ kicked' = kicked \cup S
        /\ closed' = closed \cup S
        /\ clients' = clients \ S
        /\ UNCHANGED byDevice

(* Manager.DisconnectDevice, under the lock throughout. *)
DisconnectDevice(d) ==
    /\ kicked' = kicked \cup ClientsOf(d)
    /\ closed' = closed \cup ClientsOf(d)
    /\ clients' = clients \ ClientsOf(d)
    /\ UNCHANGED byDevice

HandleWebSocketDisconnect(d) ==
    /\ DisconnectDevice(d)
    /\ UNCHANGED <<pc, clientVars, willVars, announced, deviceVars>>

(* HandleRevokeDevice deletes the device, then disconnects it; HandlePair    *)
(* disconnects the device, then saves it, and a failed save is only logged. *)
(* A revocation and a pairing of one device overlap freely.                 *)
RevokeDevice(d) ==
    /\ d \in registered /\ "disconnect" \notin admin[d]
    /\ registered' = registered \ {d}
    /\ admin' = [admin EXCEPT ![d] = @ \cup {"disconnect"}]
    /\ UNCHANGED <<pc, registry, kicked, clientVars, willVars, announced, overtaken>>

RevokeDisconnect(d) ==
    /\ "disconnect" \in admin[d]
    /\ DisconnectDevice(d)
    /\ admin' = [admin EXCEPT ![d] = @ \ {"disconnect"}]
    /\ overtaken' = overtaken \cup {c \in Conns : DeviceOf[c] = d /\ pc[c] = "authenticated"}
    /\ UNCHANGED <<pc, clientVars, willVars, announced, registered>>

PairDisconnect(d) ==
    /\ "save" \notin admin[d]
    /\ DisconnectDevice(d)
    /\ admin' = [admin EXCEPT ![d] = @ \cup {"save"}]
    /\ UNCHANGED <<pc, clientVars, willVars, announced, registered, overtaken>>

PairSave(d) ==
    /\ "save" \in admin[d]
    /\ registered' \in {registered \cup {d}, registered}
    /\ admin' = [admin EXCEPT ![d] = @ \ {"save"}]
    /\ UNCHANGED <<pc, registry, kicked, clientVars, willVars, announced, overtaken>>

-----------------------------------------------------------------------------
Connect(c) ==
    \/ Authenticate(c) \/ AuthFails(c) \/ Subscribe(c) \/ AnnounceOnline(c)
    \/ SendHello(c) \/ HelloFails(c)

Leave(c) == UnsubscribeClient(c) \/ AnnounceOffline(c) \/ PublishLastWill(c)

(* A request lists finitely many patterns. *)
Topics(c) ==
    \E P \in SUBSET Patterns :
        /\ P # {} /\ IsFiniteSet(P)
        /\ \/ SubscribeClientToTopics(c, P)
           \/ \E A \in SUBSET P : SubscribeInvalid(c, P, A)
           \/ UnsubscribeClientFromTopics(c, P)

Wills(c) == SetClientLastWill(c) \/ ClearClientLastWill(c)

Admin(d) ==
    \/ HandleWebSocketDisconnect(d)
    \/ RevokeDevice(d) \/ RevokeDisconnect(d)
    \/ PairDisconnect(d) \/ PairSave(d)

Next ==
    \/ \E c \in Conns :
          \/ Connect(c)
          \/ \E ending \in Endings : ReadFails(c, ending)
          \/ Leave(c)
          \/ "topics" \in Env /\ Topics(c)
          \/ "will" \in Env /\ Wills(c)
    \/ "admin" \in Env /\ \E d \in Devices : Admin(d)

Spec == Init /\ [][Next]_vars

-----------------------------------------------------------------------------
(* Safety *)

(* The two indexes agree as far as sends can tell: every client in          *)
(* Manager.clients is listed under its device, exactly once and with an     *)
(* open channel, and what clientsByDevice lists in excess (clients that     *)
(* DisconnectDevice removed) has a closed channel, so that TrySend refuses  *)
(* it.                                                                      *)
IndexesAgree ==
    /\ \A c \in clients : c \in Elements(byDevice[DeviceOf[c]]) /\ c \notin closed
    /\ \A d \in Devices :
          /\ \A c \in Elements(byDevice[d]) :
                DeviceOf[c] = d /\ (c \in clients \/ c \in closed)
          /\ \A i, j \in 1..Len(byDevice[d]) : byDevice[d][i] = byDevice[d][j] => i = j

(* No goroutine of device d is between a change of the registry and the     *)
(* broadcast that reports it.                                               *)
Quiet(d) ==
    \A c \in Conns : DeviceOf[c] = d =>
        pc[c] \notin {"announceOnline", "leaving", "announceOffline"}

(* A device whose connections all ended by themselves is announced          *)
(* "offline" at the latest when its last handler is through, whatever the   *)
(* order in which connections come and go.                                  *)
OfflineAnnounced ==
    \A d \in Devices :
        Quiet(d) /\ ClientsOf(d) = {} /\ (\A c \in kicked : DeviceOf[c] # d)
            => announced[d] # "online"

(* A revoked device stays out: once its revocation is through, no           *)
(* connection of it is registered, and none comes back until it pairs       *)
(* again, whatever other requests and connections do.  The exception is     *)
(* exactly the one the code has: a connection that had passed the look-up   *)
(* of the device and was overtaken by the whole revocation.                 *)
RevokedIsDisconnected ==
    \A d \in Devices \ registered :
        "disconnect" \notin admin[d] => ClientsOf(d) \subseteq overtaken

-----------------------------------------------------------------------------
(* What comments claim and the code does not do *)

(* "Broadcast device offline status if no connections remain": the handler  *)
(* that removes the last client of a device goes on to announce it.  It     *)
(* does not if clientsByDevice still lists a client DisconnectDevice has    *)
(* removed.                                                                 *)
LastOneAnnounces ==
    [][\A c \in Conns :
          UnsubscribeClient(c) /\ ClientsOf(DeviceOf[c]) = {c}
              => pc'[c] = "announceOffline"]_vars
=============================================================================
