------------------------------- MODULE Proxy -------------------------------
(***************************************************************************)
(* Requests on their way through the reverse proxy                         *)
(* (cmd/nekzus/proxy_handlers.go, internal/proxy): the decisions on a      *)
(* request for an app, the cache of proxies by target, the session cookies *)
(* that are kept for a device, and the tunnel of a WebSocket upgrade.      *)
(*                                                                         *)
(* One app: its route is its target, or none.  The route demands a scope,  *)
(* keeps cookies and allows WebSockets.  A request reads the route and     *)
(* then goes on with what it read.  Rewriting paths, headers, HTML and     *)
(* cookie attributes is string processing and left out.                    *)
(***************************************************************************)
EXTENDS Naturals, Sequences, FiniteSets

CONSTANTS Targets,        \* addresses the route may have
          ProxyDevices,   \* devices
          CookieNames,    \* names of cookies the app sets
          ProxyRequests,  \* requests
          RouteEditors,   \* callers that change the route, one change at a time each
          MaxReplies      \* bound on replies with cookies

ASSUME ProxyAssumption == MaxReplies \in Nat /\ IsFiniteSet(ProxyRequests)

VARIABLES target,     \* the app's route as the registry has it
          changes,    \* the changes of the route that are being saved, by caller
          healthy,    \* what the service health checker says
          atPeer,     \* the federated catalog has the app at a peer
          cached,     \* keys of the proxy cache
          jar,        \* table proxy_session_cookies
          proxied,    \* the requests
          conns,      \* connections of the upgrades that are open
          active,     \* gauge WebSocketConnectionsActive
          replyTo,    \* devices the replies with cookies were for (history)
          forgotten,  \* replies whose cookies a deletion covered (history)
          strays      \* targets that the route left, or a request cached, with no
                      \* eviction to follow (history)

proxyVars == <<target, changes, healthy, atPeer, cached, jar, proxied, conns, active,
               replyTo, forgotten, strays>>

NoTarget == "none"
NoDevice == "none"
Peer == "peer"
NoChange == [kind |-> "none", old |-> NoTarget, moved |-> FALSE]
NoRequest == [pc |-> "idle", device |-> NoDevice, target |-> NoTarget, plain |-> TRUE,
              sent |-> {}, setCookies |-> <<>>, reply |-> 0]

\* A Set-Cookie header: a value, an expiry in the past, or Max-Age below zero.
SetCookie == [name : CookieNames, kind : {"value", "expired", "delete"}]
\* A change that is being saved: what the memory had, and whether the target moved.
RouteChange == [kind : {"none", "upsert", "remove"}, old : Targets \cup {NoTarget}, moved : BOOLEAN]
Row == [device : ProxyDevices, name : CookieNames, reply : 1..MaxReplies]

ProxyTypeOK ==
  /\ target \in Targets \cup {NoTarget}
  /\ changes \in [RouteEditors -> RouteChange]
  /\ healthy \in BOOLEAN /\ atPeer \in BOOLEAN
  /\ cached \subseteq Targets \cup {Peer}
  /\ jar \subseteq Row
  /\ \A r \in ProxyRequests :
       /\ proxied[r].pc \in {"idle", "routed", "proxy", "inject", "send", "persist",
                             "dial", "validate", "greet", "copy", "drain", "over"}
       /\ proxied[r].sent \subseteq Row
       /\ proxied[r].pc \in {"proxy", "inject", "dial"} => proxied[r].target # NoTarget
  /\ conns \in [ProxyRequests -> SUBSET {"client", "upstream"}]
  /\ active \in 0..Cardinality(ProxyRequests)
  /\ Len(replyTo) <= MaxReplies
  /\ forgotten \subseteq 1..MaxReplies /\ strays \subseteq Targets

ProxyInit ==
  /\ target \in Targets \cup {NoTarget} /\ changes = [e \in RouteEditors |-> NoChange]
  /\ healthy \in BOOLEAN /\ atPeer \in BOOLEAN
  /\ cached = {} /\ jar = {}
  /\ proxied = [r \in ProxyRequests |-> NoRequest]
  /\ conns = [r \in ProxyRequests |-> {}]
  /\ active = 0 /\ replyTo = <<>> /\ forgotten = {} /\ strays = {}

Step(r, pc) == proxied' = [proxied EXCEPT ![r].pc = pc]

---------------------------------------------------------------------------
(* The route changes *)

\* UpsertRoute and RemoveRoute change the memory under the lock and then save
\* without it, so the changes of two callers overlap ...
ChangeTarget(e, kind, new) ==
  /\ changes[e] = NoChange
  /\ IF kind = "remove" THEN new = NoTarget /\ target # NoTarget ELSE new # NoTarget
  /\ changes' = [changes EXCEPT ![e] = [kind |-> kind, old |-> target,
                                       moved |-> target \notin {NoTarget, new}]]
  /\ target' = new
  /\ UNCHANGED <<healthy, atPeer, cached, jar, proxied, conns, active, replyTo,
                 forgotten, strays>>

\* Mutant: the present target is evicted.
EvictNew(old) == cached \ {target}

\* ... and the callback evicts the proxy for the old target, if there is a new one.
Delete(old) == cached \ {old}

ChangeSaved(e) ==
  LET c == changes[e] IN
  /\ c # NoChange
  /\ changes' = [changes EXCEPT ![e] = NoChange]
  /\ cached' = IF c.moved THEN Delete(c.old) ELSE cached
  /\ strays' = IF c.moved THEN strays \ {c.old} ELSE strays
  /\ UNCHANGED <<target, healthy, atPeer, jar, proxied, conns, active, replyTo, forgotten>>

\* An upsert is rolled back to what it found, whatever others have saved since; a
\* removal is not.  Neither evicts anything.
ChangeFails(e) ==
  LET c == changes[e]
      left == IF c.kind = "upsert" THEN target ELSE c.old IN
  /\ c # NoChange
  /\ changes' = [changes EXCEPT ![e] = NoChange]
  /\ target' = IF c.kind = "upsert" THEN c.old ELSE target
  /\ strays' = strays \cup ({left} \ {target', NoTarget})
  /\ UNCHANGED <<healthy, atPeer, cached, jar, proxied, conns, active, replyTo, forgotten>>

\* ReplaceRoutes (a reload) and UpsertRouteWithValidation have no callback.
RoutesReplaced(new) ==
  /\ target # new
  /\ target' = new
  /\ strays' = strays \cup ({target} \ {NoTarget})
  /\ UNCHANGED <<changes, healthy, atPeer, cached, jar, proxied, conns, active, replyTo,
                 forgotten>>

HealthChanges ==
  /\ healthy' = ~healthy
  /\ UNCHANGED <<target, changes, atPeer, cached, jar, proxied, conns, active, replyTo,
                 forgotten, strays>>

---------------------------------------------------------------------------
(* A request *)

\* GetRouteByPath or GetRouteBySubdomain; without a route the answer is 404.
RequestRouted(r, d) ==
  /\ proxied[r].pc = "idle" /\ target # NoTarget
  /\ proxied' = [proxied EXCEPT ![r].pc = "routed", ![r].device = d, ![r].target = target]
  /\ UNCHANGED <<target, changes, healthy, atPeer, cached, jar, conns, active, replyTo,
                 forgotten, strays>>

\* The checks between route and proxy.  A request without a token is let
\* through here (the middleware has authenticated it).  Only requests by path
\* look for a peer, which has its own cookies and health.
Admission(token, bySubdomain) ==
  CASE token = "invalid" -> "unauthorized"
    [] token = "unscoped" -> "forbidden"
    [] token \notin {"invalid", "unscoped"} /\ ~bySubdomain /\ atPeer -> "remote"
    [] OTHER -> IF healthy THEN "local" ELSE "unavailable"

HandleProxy(r, token, bySubdomain, upgrade) ==
  LET admitted == Admission(token, bySubdomain) IN
  /\ proxied[r].pc = "routed"
  /\ proxied' = [proxied EXCEPT
       ![r].pc = CASE admitted \notin {"remote", "local"} -> "over"
                   [] admitted = "local" /\ upgrade -> "dial"
                   [] OTHER -> "proxy",
       ![r].target = IF admitted = "remote" THEN Peer ELSE @,
       ![r].plain = admitted = "remote" \/ bySubdomain]
  /\ conns' = IF admitted = "local" /\ upgrade
              THEN [conns EXCEPT ![r] = {"client"}] ELSE conns
  /\ UNCHANGED <<target, changes, healthy, atPeer, cached, jar, active, replyTo, forgotten,
                 strays>>

\* The route may have changed since it was read.
GetOrCreate(r) ==
  LET t == proxied[r].target IN
  /\ proxied[r].pc = "proxy"
  /\ cached' = cached \cup {t}
  /\ strays' = IF t \in {Peer, target} THEN strays ELSE strays \cup {t}
  /\ Step(r, IF proxied[r].plain \/ proxied[r].device = NoDevice THEN "send" ELSE "inject")
  /\ UNCHANGED <<target, changes, healthy, atPeer, jar, conns, active, replyTo, forgotten>>

---------------------------------------------------------------------------
(* Session cookies *)

\* Mutant: the cookies of the app, whoever they were for.
GetAppCookies(d) == jar

\* GetProxyCookies: rows of the device.
GetProxyCookies(d) == {c \in jar : c.device = d}

InjectRequestCookies(r) ==
  /\ proxied[r].pc = "inject"
  /\ proxied' = [proxied EXCEPT ![r].pc = "send",
                                ![r].sent = GetProxyCookies(proxied[r].device)]
  /\ UNCHANGED <<target, changes, healthy, atPeer, cached, jar, conns, active, replyTo,
                 forgotten, strays>>

\* The app answers, with cookies or without; the cookies of a request that
\* keeps them are saved by a goroutine after the answer was passed on.
ReplyArrives(r, setCookies) ==
  LET keeps == ~proxied[r].plain /\ proxied[r].device # NoDevice IN
  /\ proxied[r].pc = "send"
  /\ setCookies # <<>> => keeps /\ Len(replyTo) < MaxReplies
  /\ IF setCookies = <<>>
     THEN Step(r, "over") /\ UNCHANGED replyTo
     ELSE /\ proxied' = [proxied EXCEPT ![r].pc = "persist", ![r].setCookies = setCookies,
                                        ![r].reply = Len(replyTo) + 1]
          /\ replyTo' = Append(replyTo, proxied[r].device)
  /\ UNCHANGED <<target, changes, healthy, atPeer, cached, jar, conns, active, forgotten,
                 strays>>

RowsOf(d) == {c \in jar : c.device = d}

\* DeleteProxyCookiesForApp and SaveProxyCookie (an upsert) by kind of cookie.
JarAfter(d, cookie, reply) ==
  CASE cookie.kind = "expired" -> jar
    [] cookie.kind = "delete" -> jar \ RowsOf(d)
    [] OTHER -> {c \in jar : c.device # d \/ c.name # cookie.name}
                \cup {[device |-> d, name |-> cookie.name, reply |-> reply]}

\* CaptureResponseCookies, one cookie at a time; an error ends it.
CaptureCookie(r, ok) ==
  LET cookies == proxied[r].setCookies IN
  /\ proxied[r].pc = "persist"
  /\ ~ok => Head(cookies).kind = "value"
  /\ jar' = IF ok THEN JarAfter(proxied[r].device, Head(cookies), proxied[r].reply) ELSE jar
  /\ proxied' = [proxied EXCEPT ![r].pc = IF ok /\ Len(cookies) > 1 THEN "persist" ELSE "over",
                                ![r].setCookies = Tail(cookies)]
  /\ UNCHANGED <<target, changes, healthy, atPeer, cached, conns, active, replyTo, forgotten,
                 strays>>

\* Replies whose cookies are still being saved.
Saving == {proxied[r].reply : r \in {q \in ProxyRequests : proxied[q].pc = "persist"}}

\* The device deletes its sessions (for the app, or all).
DeleteSessions(d) ==
  /\ RowsOf(d) # {}
  /\ jar' = jar \ RowsOf(d)
  /\ forgotten' = forgotten \cup {n \in DOMAIN replyTo : replyTo[n] = d /\ n \notin Saving}
  /\ UNCHANGED <<target, changes, healthy, atPeer, cached, proxied, conns, active, replyTo,
                 strays>>

---------------------------------------------------------------------------
(* WebSocket upgrades: WebSocketProxy.ServeHTTP after Hijack *)

Close(r, open) == conns' = [conns EXCEPT ![r] = open]

\* dialUpstream closes what it opened when the handshake with the app fails.
DialUpstream(r, ok) ==
  /\ proxied[r].pc = "dial"
  /\ Step(r, IF ok THEN "validate" ELSE "over")
  /\ Close(r, IF ok THEN {"client", "upstream"} ELSE {})
  /\ UNCHANGED <<target, changes, healthy, atPeer, cached, jar, active, replyTo, forgotten,
                 strays>>

\* Mutant: the connection to the app is forgotten.
KeepsUpstream(r) == Close(r, {"upstream"})

\* The answer of the app is no valid upgrade: 502, and both are closed.
Rejects(r) == Close(r, {})

ValidateUpgradeResponse(r, ok) ==
  /\ proxied[r].pc = "validate"
  /\ Step(r, IF ok THEN "greet" ELSE "over")
  /\ IF ok THEN UNCHANGED conns ELSE Rejects(r)
  /\ UNCHANGED <<target, changes, healthy, atPeer, cached, jar, active, replyTo, forgotten,
                 strays>>

\* The 101 and what followed it are written to the client; OnConnect.
GreetClient(r, ok) ==
  /\ proxied[r].pc = "greet"
  /\ Step(r, IF ok THEN "copy" ELSE "over")
  /\ IF ok THEN UNCHANGED conns ELSE Close(r, {})
  /\ active' = IF ok THEN active + 1 ELSE active
  /\ UNCHANGED <<target, changes, healthy, atPeer, cached, jar, replyTo, forgotten, strays>>

\* One of the two copies ends: the context is cancelled, deadlines are set.
CopyEnds(r) ==
  /\ proxied[r].pc = "copy"
  /\ Step(r, "drain")
  /\ UNCHANGED <<target, changes, healthy, atPeer, cached, jar, conns, active, replyTo,
                 forgotten, strays>>

\* The other ends or 200 ms pass; OnDisconnect.
TunnelCloses(r) ==
  /\ proxied[r].pc = "drain"
  /\ Step(r, "over")
  /\ Close(r, {})
  /\ active' = active - 1
  /\ UNCHANGED <<target, changes, healthy, atPeer, cached, jar, replyTo, forgotten, strays>>

SetCookieLists == {<<>>} \cup {<<a>> : a \in SetCookie} \cup {<<a, b>> : a, b \in SetCookie}

ProxyNext ==
  \/ \E t \in Targets \cup {NoTarget} :
       \/ \E e \in RouteEditors, kind \in {"upsert", "remove"} : ChangeTarget(e, kind, t)
       \/ RoutesReplaced(t)
  \/ \E e \in RouteEditors : ChangeSaved(e) \/ ChangeFails(e)
  \/ HealthChanges
  \/ \E r \in ProxyRequests :
       \/ \E d \in ProxyDevices \cup {NoDevice} : RequestRouted(r, d)
       \/ \E token \in {"none", "invalid", "unscoped", "scoped"},
             bySubdomain, upgrade \in BOOLEAN :
            HandleProxy(r, token, bySubdomain, upgrade)
       \/ GetOrCreate(r) \/ InjectRequestCookies(r)
       \/ \E setCookies \in SetCookieLists : ReplyArrives(r, setCookies)
       \/ \E ok \in BOOLEAN : \/ CaptureCookie(r, ok) \/ DialUpstream(r, ok)
                              \/ ValidateUpgradeResponse(r, ok) \/ GreetClient(r, ok)
       \/ CopyEnds(r) \/ TunnelCloses(r)
  \/ \E d \in ProxyDevices : DeleteSessions(d)

ProxySpec == ProxyInit /\ [][ProxyNext]_proxyVars

---------------------------------------------------------------------------
(* Properties *)

\* The cookies kept for a device, and those a request of the device carries to
\* the app, came from replies to that device; and what the device deleted does
\* not come back, unless its goroutine was still saving it.
CookiesAreOwn ==
  /\ \A c \in jar : replyTo[c.reply] = c.device /\ c.reply \notin forgotten
  /\ \A r \in ProxyRequests : \A c \in proxied[r].sent : replyTo[c.reply] = proxied[r].device

\* Every way out of an upgrade closes what it opened: a request that is over has
\* no connection left, and the gauge of active connections is the number of
\* tunnels, whichever of the steps failed.
TunnelsAreClosed ==
  /\ \A r \in ProxyRequests : proxied[r].pc = "over" => conns[r] = {}
  /\ active = Cardinality({r \in ProxyRequests : proxied[r].pc \in {"copy", "drain"}})

\* The old targets whose eviction is under way.
Evicting == {changes[e].old : e \in {f \in RouteEditors : changes[f].moved}}

\* The cache follows the routes, also while changes of several callers overlap: a
\* proxy is kept for the present target, for a peer, or for one whose eviction is
\* under way.  The exceptions are exactly those the code has: requests that read
\* the route before it changed, what a rollback took from memory (also when it was
\* another caller's, saved meanwhile), removals the table refused, and the changes
\* without a callback.
CacheFollowsRoutes == cached \subseteq {target, Peer} \cup Evicting \cup strays

\* What the proxy opens or keeps for requests does not outlive its use: neither
\* the connections of an upgrade nor a proxy for an address the route has left.
NothingLeaks == TunnelsAreClosed /\ CacheFollowsRoutes
=============================================================================
