-------------------------- MODULE DiscoveryWorkers --------------------------
(***************************************************************************)
(* What a scan proposes (internal/discovery/docker.go, kubernetes.go): the *)
(* labels, networks and ports of a container or a service decide whether   *)
(* it is proposed and with which host and port.                            *)
(*                                                                         *)
(* The inputs are enumerated and each is processed in one step. Go visits  *)
(* a map in no particular order: where the code takes the first network of *)
(* a map, any of them may be it, and two loops may find different ones.    *)
(***************************************************************************)
EXTENDS Naturals, Sequences, FiniteSets

CONSTANTS Networks,      \* networks of the Docker host
          HttpPort,      \* a port services listen on
          OtherPort,     \* another one
          NonHTTPPort    \* a port of knownNonHTTPPorts

VARIABLES seen,       \* what the scan came across
          settings,   \* network settings of the Docker worker
          scan        \* "seen", "skipped", or the proposal

workerVars == <<seen, settings, scan>>

Setting == {"none", "true", "false"}
NoProposal == [outcome |-> "seen", probed |-> "none", host |-> "none", port |-> 0]

(***************************************************************************)
(* Docker.                                                                 *)
(***************************************************************************)
\* test: nekzus.test; skip: nekzus.skip; infra: the name or the image is one
\* of nekzus itself or of well-known infrastructure.
IsSystemContainer(c) == ~c.test /\ (c.skip \/ c.infra)

\* Networks of the container that the lists leave.
Allowed(c) == {n \in c.nets : /\ settings.include # <<>> =>
                                   \E k \in 1..Len(settings.include) : settings.include[k] = n
                              /\ n \notin settings.exclude}

\* "preferred": the first of the list that the container is on.
Preferred(c) == {n \in Allowed(c) :
                   \E k \in 1..Len(settings.include) :
                     /\ settings.include[k] = n
                     /\ \A j \in 1..k - 1 : settings.include[j] \notin Allowed(c)}

\* filterNetworks: the sets it may return.
FilterNetworks(c) ==
  CASE settings.mode = "all" \/ Allowed(c) = {} -> {Allowed(c)}
    [] settings.mode = "preferred" /\ Preferred(c) # {} -> {Preferred(c)}
    [] OTHER -> {{n} : n \in Allowed(c)}

\* Mapped ports, and exposed ones that are not mapped; TCP only.
MergePorts(c) ==
  c.mapped \cup {[private |-> e, public |-> 0] :
                   e \in c.exposed \ {p.private : p \in c.mapped}}

\* The port the default filter looks at, in the list of known ports and with
\* its HTTP probe.
ProbedPort(p) == IF p.public # 0 THEN p.public ELSE p.private

\* On the networks it answers on, what speaks HTTP answers the probe.
FilterPorts(c, probed) ==
  CASE c.primary # 0 -> {p \in MergePorts(c) : p.private = c.primary}
    [] c.primary = 0 /\ c.allPorts -> MergePorts(c)
    [] OTHER -> {p \in MergePorts(c) : /\ ProbedPort(p) # NonHTTPPort
                                       /\ ProbedPort(p) \in c.speaks
                                       /\ probed \in c.answers}

Skips(c) == c.self \/ IsSystemContainer(c) \/ c.enable = "false" \/ ~c.valid

\* Mutant: the probe takes any address of the container (getContainerIP).
ProcessContainerProbingAny ==
  /\ scan.outcome = "seen" /\ seen.kind = "container"
  /\ ~Skips(seen)
  /\ \E nets \in FilterNetworks(seen) :
       \E probed \in seen.nets, host \in nets : \E p \in FilterPorts(seen, probed) :
         scan' = [outcome |-> "proposed", probed |-> probed, host |-> host,
                  port |-> p.private]
  /\ UNCHANGED <<seen, settings>>

\* The host is taken from the filtered networks once for the probe and once
\* for the proposal; the port is the first of those that are left.
ProcessContainer ==
  /\ scan.outcome = "seen" /\ seen.kind = "container"
  /\ ~Skips(seen)
  /\ \E nets \in FilterNetworks(seen) :
       \E probed, host \in nets : \E p \in FilterPorts(seen, probed) :
         scan' = [outcome |-> "proposed", probed |-> probed, host |-> host,
                  port |-> p.private]
  /\ UNCHANGED <<seen, settings>>

SkipContainer ==
  /\ scan.outcome = "seen" /\ seen.kind = "container"
  /\ \/ Skips(seen) \/ {} \in FilterNetworks(seen)
     \/ \E nets \in FilterNetworks(seen) : \E probed \in nets : FilterPorts(seen, probed) = {}
  /\ scan' = [NoProposal EXCEPT !.outcome = "skipped"]
  /\ UNCHANGED <<seen, settings>>

(***************************************************************************)
(* Kubernetes.                                                             *)
(***************************************************************************)
\* Labels of the namespace, known when it was fetched by name: a worker that
\* scans all namespaces never fetches one.
NamespaceEnable(s) == IF s.cached THEN s.nsEnable ELSE "none"

HasIstioSidecar(s) == s.istio
HasIdentifyingLabel(s) == s.named
IsUserFacingHelmChart(s) == s.chart = "userFacing"

\* Inference for a service nothing decides about.
Inferred(s) == /\ ~s.systemNs
               /\ \/ HasIstioSidecar(s)
                  \/ s.external /\ HasIdentifyingLabel(s)
                  \/ s.frontend
                  \/ s.named /\ IsUserFacingHelmChart(s)

IsEnabled(s) ==
  CASE NamespaceEnable(s) = "false" /\ s.enable # "true" -> FALSE
    [] NamespaceEnable(s) = "true" -> s.enable # "false"
    [] NamespaceEnable(s) # "true" /\ s.enable = "true" -> TRUE
    [] NamespaceEnable(s) = "none" /\ s.enable = "false" -> FALSE
    [] OTHER -> Inferred(s)

\* An ingress: its own label, then the system namespaces, then a name label.
\* Neither the labels of its namespace nor those of its backend are read.
IsIngressEnabled(s) == \/ s.enable = "true"
                       \/ s.enable = "none" /\ ~s.systemNs /\ s.named

ProcessService ==
  /\ scan.outcome = "seen" /\ seen.kind = "service"
  /\ scan' = [NoProposal EXCEPT !.outcome = IF IsEnabled(seen) /\ ~seen.headless
                                            THEN "proposed" ELSE "skipped"]
  /\ UNCHANGED <<seen, settings>>

\* The backend service must have been listed.
ProcessIngress ==
  /\ scan.outcome = "seen" /\ seen.kind = "ingress"
  /\ scan' = [NoProposal EXCEPT !.outcome = IF IsIngressEnabled(seen) /\ seen.backend
                                            THEN "proposed" ELSE "skipped"]
  /\ UNCHANGED <<seen, settings>>

(***************************************************************************)
(* The inputs.                                                             *)
(***************************************************************************)
Published == {[private |-> HttpPort, public |-> OtherPort],
              [private |-> OtherPort, public |-> HttpPort],
              [private |-> HttpPort, public |-> 0]}

Containers ==
  [kind : {"container"}, self : BOOLEAN, test : BOOLEAN, skip : BOOLEAN,
   infra : {FALSE}, valid : {TRUE}, enable : {"none", "false"}, nets : {Networks},
   mapped : {{}} \cup {{p} : p \in Published}, exposed : {{}, {HttpPort, NonHTTPPort}},
   speaks : {{HttpPort}}, answers : {Networks}, primary : {0, OtherPort},
   allPorts : BOOLEAN]
  \cup
  [kind : {"container"}, self : {FALSE}, test : {FALSE}, skip : {FALSE},
   infra : BOOLEAN, valid : BOOLEAN, enable : {"none"}, nets : SUBSET Networks,
   mapped : {{}}, exposed : {{HttpPort}}, speaks : {{HttpPort}}, answers : SUBSET Networks,
   primary : {0}, allPorts : {FALSE}]

Services ==
  [kind : {"service"}, enable : Setting, nsEnable : Setting, cached : BOOLEAN,
   systemNs : BOOLEAN, istio : BOOLEAN, external : BOOLEAN, frontend : BOOLEAN,
   named : BOOLEAN, chart : {"none", "backend", "userFacing"}, headless : BOOLEAN]

\* backend: its service was listed, with this label of its own.
Ingresses == [kind : {"ingress"}, enable : Setting, nsEnable : Setting, systemNs : BOOLEAN,
              named : BOOLEAN, backend : BOOLEAN, backendEnable : Setting]

Lists == {<<>>} \cup {<<n>> : n \in Networks}
               \cup {<<n, m>> : n \in Networks, m \in Networks}

WorkersInit ==
  /\ \/ /\ seen \in Containers
        /\ settings \in [include : Lists, exclude : SUBSET Networks,
                         mode : {"all", "first", "preferred"}]
     \/ /\ seen \in Services \cup Ingresses
        /\ settings = [include |-> <<>>, exclude |-> {}, mode |-> "all"]
  /\ scan = NoProposal

WorkersNext == ProcessContainer \/ SkipContainer \/ ProcessService \/ ProcessIngress

WorkersSpec == WorkersInit /\ [][WorkersNext]_workerVars

(***************************************************************************)
(* Properties.                                                             *)
(***************************************************************************)
WorkersTypeOK ==
  /\ seen \in Containers \cup Services \cup Ingresses
  /\ scan \in [outcome : {"seen", "skipped", "proposed"}, probed : Networks \cup {"none"},
              host : Networks \cup {"none"}, port : {0, HttpPort, OtherPort, NonHTTPPort}]

\* What was proposed is reached over a network the lists allow, in mode
\* "preferred" over none that comes after another usable one.
HostIsAllowed ==
  /\ scan.host \in seen.nets /\ scan.host \notin settings.exclude
  /\ settings.include # <<>> =>
       \E k \in 1..Len(settings.include) : scan.host = settings.include[k]
  /\ settings.mode = "preferred" =>
       \A k \in 1..Len(settings.include) :
         /\ scan.host = settings.include[k]
         /\ \A j \in 1..k - 1 : settings.include[j] # scan.host
         => \A j \in 1..k - 1 :
              settings.include[j] \in settings.exclude \/ settings.include[j] \notin seen.nets

\* A port found by probing is proposed for the network it answered on. The
\* exception is mode "all" with several networks left: the proposal may then
\* name a network nobody probed.
HostWasProbed ==
  /\ seen.primary = 0 /\ ~seen.allPorts => scan.probed \in seen.answers
  /\ scan.probed \in Allowed(seen)
  /\ scan.host # scan.probed => settings.mode = "all"

\* A service is switched off by its own label, and by its namespace's unless
\* its own label says otherwise. The exception is a namespace that was never
\* fetched, as by a worker that scans all of them: its label is not known.
ServiceIsNotOff ==
  /\ seen.enable # "false"
  /\ seen.nsEnable = "false" => seen.enable = "true" \/ ~seen.cached
  /\ seen.systemNs => seen.enable = "true" \/ (seen.cached /\ seen.nsEnable = "true")

\* An ingress is switched off by its own label alone: it is proposed although
\* its namespace or its backend service is switched off.
IngressIsNotOff ==
  /\ seen.enable # "false" /\ seen.backend
  /\ seen.systemNs => seen.enable = "true"

\* Whatever the labels, lists and networks of what a scan comes across: a
\* container, service or ingress switched off where the code looks is not
\* proposed (where it does not look, see above), a container is proposed for
\* a network that is allowed and, but for the exception, was probed, and a
\* service that asks for it is not skipped.
ProposalsAreAllowed ==
  /\ scan.outcome = "proposed" =>
       CASE seen.kind = "container" ->
              /\ seen.enable # "false" /\ ~seen.self /\ (seen.skip => seen.test)
              /\ seen.primary # 0 => scan.port = seen.primary
              /\ HostIsAllowed /\ HostWasProbed
         [] seen.kind = "service" -> ServiceIsNotOff
         [] seen.kind = "ingress" -> IngressIsNotOff
  /\ scan.outcome = "skipped" /\ seen.kind = "service" =>
       ~(seen.enable = "true" /\ ~seen.headless)
==============================================================================
