------------------------------- MODULE Server -------------------------------
(***************************************************************************)
(* The life of the HTTP server in Application.Run: the goroutine that      *)
(* serves, the event loop, the upgrade from HTTP to HTTPS that a request   *)
(* asks for when it has made the first certificate (UpgradeToTLS), the     *)
(* goroutine that restarts the server with TLS (restartServerWithTLS) and  *)
(* the shutdown on a signal.                                               *)
(*                                                                         *)
(* Server objects are numbered in the order of their creation; the one     *)
(* app.httpServer names is "current".  Channel serverDone is replaced by   *)
(* the event loop: "done" tells whether the present one is closed.  The    *)
(* listening address is one resource: net/http refuses a second listener,  *)
(* Shutdown closes the listener at once, makes ListenAndServe return and   *)
(* then waits for requests in progress; a server that was shut down before *)
(* it listens never listens.  (net/http is external.)                      *)
(***************************************************************************)
EXTENDS Naturals, FiniteSets

CONSTANTS CertRequests,  \* requests that make a certificate while HTTP serves
          MaxServers,    \* bound on server objects
          MaxCutOffs     \* bound on shutdowns that run into their ten seconds

ASSUME ServerAssumption ==
    /\ MaxServers \in Nat \ {0} /\ MaxCutOffs \in Nat
    /\ "first" \notin CertRequests   \* the name of the goroutine of the first server

Restarters == CertRequests   \* at most one restart goroutine per request's signal

VARIABLES addressTaken, \* another program listens on the address
          tlsEnabled,   \* app.tlsEnabled
          signal,       \* whether tlsUpgrade (capacity 1) holds a signal
          current,      \* app.httpServer
          servers,      \* objects made: "new", "listening", "closed"
          goroutines,   \* who runs ListenAndServe: pc and its server
          done,         \* whether the present app.serverDone is closed
          upgrading,    \* tlsUpgradeInProgress of the event loop
          requests,     \* the certificate requests
          cutOffs,      \* shutdowns that ran into their timeout
          serverErr,    \* serverErrors (capacity 1) holds an error
          process       \* "up", or why Run returned

serverVars == <<addressTaken, tlsEnabled, signal, current, servers, goroutines, done, upgrading,
                requests, cutOffs, serverErr, process>>

Goroutines == {"first"} \cup Restarters
Idle0 == [pc |-> "none", server |-> 0]

ServerTypeOK ==
    /\ addressTaken \in BOOLEAN
    /\ tlsEnabled \in BOOLEAN /\ signal \in BOOLEAN /\ done \in BOOLEAN
    /\ upgrading \in BOOLEAN /\ serverErr \in BOOLEAN
    /\ current \in 1..MaxServers /\ cutOffs \in 0..MaxCutOffs
    /\ servers \in [1..MaxServers -> {"unmade", "new", "listening", "closed"}]
    /\ goroutines \in [Goroutines ->
          [pc : {"none", "listen", "serve", "shutdown", "drain", "make", "close", "over"},
           server : 0..MaxServers]]
    /\ requests \in [CertRequests -> {"idle", "made", "asked", "over"}]
    /\ process \in {"up", "error", "panic", "done", "stopped"}

\* Start-up: the background jobs are started one after the other, then the
\* server, with TLS when a certificate is there already.
RunStarts ==
    /\ addressTaken \in BOOLEAN
    /\ tlsEnabled \in BOOLEAN
    /\ signal = FALSE
    /\ current = 1
    /\ servers = [s \in 1..MaxServers |-> IF s = 1 THEN "new" ELSE "unmade"]
    /\ goroutines = [g \in Goroutines |->
          IF g = "first" THEN [pc |-> "listen", server |-> 1] ELSE Idle0]
    /\ done = FALSE
    /\ upgrading = FALSE
    /\ requests = [r \in CertRequests |-> "idle"]
    /\ cutOffs = 0
    /\ serverErr = FALSE
    /\ process = "up"

Up == process = "up"
Listening == {s \in 1..MaxServers : servers[s] = "listening"}
At(g, pc) == Up /\ goroutines[g].pc = pc
Move(g, pc) == goroutines' = [goroutines EXCEPT ![g].pc = pc]

---------------------------------------------------------------------------
(* The goroutines that serve *)

\* ListenAndServe or ListenAndServeTLS: another listener on the address is an
\* error, a server that was shut down before returns at once.
Listen(g) ==
    /\ At(g, "listen")
    /\ LET s == goroutines[g].server
       IN  \/ /\ servers[s] = "new" /\ ~addressTaken /\ Listening = {}
              /\ servers' = [servers EXCEPT ![s] = "listening"]
              /\ Move(g, "serve")
              /\ UNCHANGED serverErr
           \/ /\ servers[s] = "new" /\ (addressTaken \/ Listening # {})
              /\ serverErr' = TRUE
              /\ Move(g, "close")
              /\ UNCHANGED servers
           \/ /\ servers[s] = "closed"
              /\ Move(g, "close")
              /\ UNCHANGED <<servers, serverErr>>
    /\ UNCHANGED <<addressTaken, cutOffs, tlsEnabled, signal, current, done, upgrading, requests, process>>

\* Shutdown closed the listener: ListenAndServe returns ErrServerClosed.
ServeReturns(g) ==
    /\ At(g, "serve") /\ servers[goroutines[g].server] = "closed"
    /\ Move(g, "close")
    /\ UNCHANGED <<addressTaken, cutOffs, tlsEnabled, signal, current, servers, done, upgrading, requests,
                   serverErr, process>>

\* close(app.serverDone): closing a closed channel panics.
CloseDone(g) ==
    /\ At(g, "close")
    /\ Move(g, "over")
    /\ done' = TRUE
    /\ process' = IF done THEN "panic" ELSE process
    /\ UNCHANGED <<addressTaken, cutOffs, tlsEnabled, signal, current, servers, upgrading, requests, serverErr>>

---------------------------------------------------------------------------
(* A request makes a certificate and asks for the upgrade *)

\* Requests run while a server listens; one in progress goes on during Shutdown.
MakeCertificate(r) ==
    /\ Up /\ requests[r] = "idle" /\ Listening # {}
    /\ requests' = [requests EXCEPT ![r] = "made"]
    /\ UNCHANGED <<addressTaken, cutOffs, tlsEnabled, signal, current, servers, goroutines, done, upgrading,
                   serverErr, process>>

\* Mutant: the signal is given up because nobody receives at this moment.
SignalNever == FALSE

\* The non-blocking send: a full channel drops the signal.
SignalAfterSend == IF tlsEnabled THEN signal ELSE TRUE

\* UpgradeToTLS, after IsTLSEnabled.
UpgradeToTLS(r) ==
    /\ Up /\ requests[r] = "made"
    /\ requests' = [requests EXCEPT ![r] = "asked"]
    /\ signal' = SignalAfterSend
    /\ UNCHANGED <<addressTaken, cutOffs, tlsEnabled, current, servers, goroutines, done, upgrading, serverErr, process>>

RequestEnds(r) ==
    /\ Up /\ requests[r] = "asked"
    /\ requests' = [requests EXCEPT ![r] = "over"]
    /\ UNCHANGED <<addressTaken, cutOffs, tlsEnabled, signal, current, servers, goroutines, done, upgrading,
                   serverErr, process>>

---------------------------------------------------------------------------
(* restartServerWithTLS *)

ShutDownCurrent(g) ==
    /\ At(g, "shutdown")
    /\ servers' = [servers EXCEPT ![current] = "closed"]
    /\ Move(g, "drain")
    /\ UNCHANGED <<addressTaken, cutOffs, tlsEnabled, signal, current, done, upgrading, requests, serverErr, process>>

InProgress == {r \in CertRequests : requests[r] \in {"made", "asked"}}

\* Shutdown returns when the requests in progress have ended, or after ten
\* seconds with an error; Close then cuts the connections, not the handlers.
Drain(g) ==
    /\ At(g, "drain")
    /\ \/ InProgress = {} /\ UNCHANGED cutOffs
       \/ InProgress # {} /\ cutOffs < MaxCutOffs /\ cutOffs' = cutOffs + 1
    /\ Move(g, "make")
    /\ UNCHANGED <<addressTaken, tlsEnabled, signal, current, servers, done, upgrading, requests,
                   serverErr, process>>

NextServer == Cardinality({s \in 1..MaxServers : servers[s] # "unmade"}) + 1

\* The new server object, the flag and the base URL.
MakeTLSServer(g) ==
    /\ At(g, "make") /\ NextServer <= MaxServers
    /\ servers' = [servers EXCEPT ![NextServer] = "new"]
    /\ current' = NextServer
    /\ tlsEnabled' = TRUE
    /\ goroutines' = [goroutines EXCEPT ![g] = [pc |-> "listen", server |-> NextServer]]
    /\ UNCHANGED <<addressTaken, cutOffs, signal, done, upgrading, requests, serverErr, process>>

---------------------------------------------------------------------------
(* The event loop *)

LoopError ==
    /\ Up /\ serverErr
    /\ process' = "error"
    /\ UNCHANGED <<addressTaken, cutOffs, tlsEnabled, signal, current, servers, goroutines, done, upgrading,
                   requests, serverErr>>

\* app.serverDone = make(chan struct{}).
DoneAfterUpgrade == FALSE

LoopServerDone ==
    /\ Up /\ done
    /\ IF upgrading
       THEN done' = DoneAfterUpgrade /\ upgrading' = FALSE /\ UNCHANGED process
       ELSE process' = "done" /\ UNCHANGED <<done, upgrading>>
    /\ UNCHANGED <<addressTaken, cutOffs, tlsEnabled, signal, current, servers, goroutines, requests, serverErr>>

LoopUpgrade ==
    /\ Up /\ signal
    /\ \E g \in Restarters :
          /\ goroutines[g].pc = "none"
          /\ goroutines' = [goroutines EXCEPT ![g].pc = "shutdown"]
    /\ signal' = FALSE
    /\ upgrading' = TRUE
    /\ UNCHANGED <<addressTaken, cutOffs, tlsEnabled, current, servers, done, requests, serverErr, process>>

\* SIGINT or SIGTERM: Shutdown stops the watcher, discovery, the jobs, the
\* queue, the peers and the limiters in this order, then the HTTP server, and
\* closes the database last.
ShutdownSignal ==
    /\ Up
    /\ process' = "stopped"
    /\ servers' = [servers EXCEPT ![current] = "closed"]
    /\ UNCHANGED <<addressTaken, cutOffs, tlsEnabled, signal, current, goroutines, done, upgrading, requests, serverErr>>

\* The goroutines that serve and that restart the server.
ServerStep(g) == \/ Listen(g) \/ ServeReturns(g) \/ CloseDone(g)
                 \/ ShutDownCurrent(g) \/ Drain(g) \/ MakeTLSServer(g)

ServerNext ==
    \/ \E g \in Goroutines : ServerStep(g)
    \/ \E r \in CertRequests : MakeCertificate(r) \/ UpgradeToTLS(r) \/ RequestEnds(r)
    \/ LoopError \/ LoopServerDone \/ LoopUpgrade \/ ShutdownSignal

\* Goroutines that can run do run, and the event loop takes what is there.
ServerFairness ==
    /\ \A g \in Goroutines : WF_serverVars(ServerStep(g))
    /\ \A r \in CertRequests : WF_serverVars(RequestEnds(r))
    /\ WF_serverVars(LoopServerDone) /\ WF_serverVars(LoopUpgrade)

ServerSpec == RunStarts /\ [][ServerNext]_serverVars
ServerFairSpec == ServerSpec /\ ServerFairness

---------------------------------------------------------------------------
(* Properties *)

\* "Channel is full or closed, upgrade already in progress": asking for the
\* upgrade, once or more often, never ends the process; only a signal does, or
\* an address that another program holds from the start.
UpgradeKeepsServing == addressTaken \/ process \in {"up", "stopped"}

\* Where it does hold: while one restart at most has been started, however many
\* requests asked for it; the loop is told once that the old server is gone.
OneUpgradeKeepsServing ==
    (\A g, h \in Restarters :
        goroutines[g].pc # "none" /\ goroutines[h].pc # "none" => g = h)
            => UpgradeKeepsServing

\* A request that asked for the upgrade over HTTP leads to a listening TLS server
\* unless the process ends, by a signal or as UpgradeKeepsServing says it should
\* not: no step of the hand-over waits for one that cannot come.
UpgradeCompletes ==
    \A r \in CertRequests :
        requests[r] = "asked" ~> (process # "up" \/ (tlsEnabled /\ Listening # {}))
=============================================================================
