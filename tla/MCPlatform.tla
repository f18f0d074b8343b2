----------------------------- MODULE MCPlatform -----------------------------
(***************************************************************************)
(* What an instance does for the services around it, for TLC: the          *)
(* WebSocket hub, the federated catalog, the deployments and containers,   *)
(* the proxy, and the configuration that all of them follow.  They share   *)
(* no state, so a behaviour runs one of them, chosen at the start, and the *)
(* others stay in one of their initial states.                             *)
(***************************************************************************)
EXTENDS WebSocketHub, Federation, Toolbox, Containers, Proxy, ConfigReload

CONSTANTS d1, p1, p2, bad

VARIABLE focus  \* the component that runs

\* All connections belong to one device: different devices share nothing
\* but the lock.
MCDeviceOf == [c \in Conns |-> d1]

MCInvalidOnes == {bad} \cap Patterns

\* "a1" has one host, "a2" (the same image run by two instances) has two.
MCHosts == [s \in FedServices |-> IF s = "a1" THEN {"i1"} ELSE {"i1", "i2"}]

ConfigFile(loads, fixed, table, tokens, discovery, checker) ==
    [loads |-> loads, fixed |-> fixed, table |-> table, tokens |-> tokens,
     discovery |-> discovery, checker |-> checker]

MCFirstConfig == ConfigFile(TRUE, 1, 1, {"t1"}, 1, 1)

\* A change of everything, one of the tokens only (as many as before), one that
\* needs a restart, and a file that is half written.
MCConfigFiles == {MCFirstConfig, ConfigFile(TRUE, 1, 2, {"t1", "t2"}, 2, 2),
                  ConfigFile(TRUE, 1, 1, {"t2"}, 1, 1), ConfigFile(TRUE, 2, 1, {"t1"}, 1, 1),
                  ConfigFile(FALSE, 1, 1, {"t1"}, 1, 1)}

\* Containers start alike: a bulk operation takes them in any order, and what one
\* of them is does not matter to the others.
PlatformInit ==
    /\ focus \in {"hub", "federation", "toolbox", "containers", "sessions", "routing",
                 "config"}
    /\ Init /\ FedInit /\ ConfigInit
    /\ ToolboxInit /\ (focus # "toolbox" => catalog = "single")
    /\ ContainersInit
    /\ \E s \in {"running", "stopped"} : containerState = [c \in ContainerIds |-> s]
    /\ focus # "containers" =>
          /\ runtimes = BuildRegistry(TRUE, FALSE)
          /\ containerState = [c \in ContainerIds |-> "running"]
    /\ ProxyInit
    /\ IF focus = "sessions" THEN target = "t1" ELSE target = NoTarget /\ healthy /\ ~atPeer

\* The cookies and the tunnels of requests do not depend on the target of the
\* route, so one behaviour keeps the route, ...
RouteStays == UNCHANGED <<target, changes>>

\* ... and the other changes it under one request that keeps no cookies.
OneRequestAlong ==
    /\ \A r \in ProxyRequests : IF r = "q1" THEN proxied'[r].device = NoDevice
                                 ELSE UNCHANGED proxied[r]
    /\ UNCHANGED <<healthy, conns>>

PlatformNext ==
    /\ UNCHANGED focus
    /\ \/ /\ focus = "hub" /\ Next
          /\ UNCHANGED <<fedVars, toolboxVars, containerVars, proxyVars, configVars>>
       \/ /\ focus = "federation" /\ FedNext
          /\ UNCHANGED <<vars, toolboxVars, containerVars, proxyVars, configVars>>
       \/ /\ focus = "toolbox" /\ ToolboxNext
          /\ UNCHANGED <<vars, fedVars, containerVars, proxyVars, configVars>>
       \/ /\ focus = "containers" /\ ContainersNext
          /\ UNCHANGED <<vars, fedVars, toolboxVars, proxyVars, configVars>>
       \/ /\ focus \in {"sessions", "routing"} /\ ProxyNext
          /\ IF focus = "sessions" THEN RouteStays ELSE OneRequestAlong
          /\ UNCHANGED <<vars, fedVars, toolboxVars, containerVars, configVars>>
       \/ /\ focus = "config" /\ ConfigNext
          /\ UNCHANGED <<vars, fedVars, toolboxVars, containerVars, proxyVars>>

platformVars == <<focus, vars, fedVars, toolboxVars, containerVars, proxyVars, configVars>>

PlatformSpec == PlatformInit /\ [][PlatformNext]_platformVars

\* The type invariant of the component that runs; the others have not moved.
PlatformTypeOK ==
    CASE focus = "hub" -> TypeOK
      [] focus = "federation" -> FedTypeOK
      [] focus = "toolbox" -> ToolboxTypeOK
      [] focus = "containers" -> ContainersTypeOK
      [] focus \in {"sessions", "routing"} -> ProxyTypeOK
      [] focus = "config" -> ConfigTypeOK
=============================================================================
