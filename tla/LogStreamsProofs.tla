-------------------------- MODULE LogStreamsProofs --------------------------
(* Proofs about LogStreams, for any number of streams and devices, and       *)
(* about Server, whose requests start them, for any number of requests and   *)
(* server objects; and about the composition of what must make progress.     *)
EXTENDS MCProgress, NotificationQueueProofs, FederationProofs, ScriptsProofs,
        FiniteSetTheorems, TLAPS

-----------------------------------------------------------------------------
(* The log streams.                                                         *)

(* The inductive invariant: a tracked stream was started, so the stream a   *)
(* start adds is neither the one it replaces nor cancelled already.         *)
LogsIInv == LogsTypeOK /\ TrackedNotCancelled /\ StartedOnly

(* Nothing is tracked or cancelled when the manager is created. *)
LEMMA LogsInitially == LogsInit => LogsIInv
BY StreamConstants DEF LogsInit, LogsIInv, LogsTypeOK, TrackedNotCancelled, StartedOnly

(* A start cancels the tracked stream and tracks one nobody knew. *)
LEMMA StartPreserves ==
    ASSUME LogsIInv, NEW s \in Streams, HandleStartStream(s)
    PROVE  LogsIInv'
<1>d. StreamDevice[s] \in LogDevices
    BY StreamConstants
<1>1. LogsTypeOK'
    BY <1>d DEF LogsIInv, LogsTypeOK, HandleStartStream
<1>2. s \notin cancelled'
    BY <1>d DEF LogsIInv, LogsTypeOK, StartedOnly, HandleStartStream
<1>3. TrackedNotCancelled'
    <2> SUFFICES ASSUME NEW d \in LogDevices, streams'[d] # NoStream
                 PROVE  StreamDevice[streams'[d]] = d /\ streams'[d] \notin cancelled'
        BY DEF TrackedNotCancelled
    <2>1. CASE d = StreamDevice[s]
        BY <2>1, <1>2 DEF LogsIInv, LogsTypeOK, HandleStartStream
    <2>2. CASE d # StreamDevice[s]
        BY <2>2, <1>d DEF LogsIInv, LogsTypeOK, TrackedNotCancelled, HandleStartStream
    <2> QED BY <2>1, <2>2
<1>4. StartedOnly'
    <2> SUFFICES ASSUME NEW r \in Streams, goroutine'[r] = "none"
                 PROVE  r \notin cancelled' /\ streams'[StreamDevice[r]] # r
        BY DEF StartedOnly
    <2>1. r # s /\ goroutine[r] = "none"
        BY DEF LogsIInv, LogsTypeOK, HandleStartStream
    <2>2. r # streams[StreamDevice[s]]
        BY <1>d, <2>1, StreamConstants DEF LogsIInv, TrackedNotCancelled, StartedOnly
    <2> QED BY <1>d, <2>1, <2>2, StreamConstants DEF LogsIInv, LogsTypeOK, StartedOnly, HandleStartStream
<1> QED BY <1>1, <1>3, <1>4 DEF LogsIInv

(* A stop cancels the tracked stream and forgets it. *)
LEMMA StopPreserves ==
    ASSUME LogsIInv, NEW d \in LogDevices, StopStream(d)
    PROVE  LogsIInv'
<1>1. LogsTypeOK'
    BY DEF LogsIInv, LogsTypeOK, StopStream
<1>2. TrackedNotCancelled'
    BY DEF LogsIInv, LogsTypeOK, TrackedNotCancelled, StopStream
<1>3. StartedOnly'
    BY StreamConstants DEF LogsIInv, LogsTypeOK, TrackedNotCancelled, StartedOnly, StopStream
<1> QED BY <1>1, <1>2, <1>3 DEF LogsIInv

(* The steps of the goroutine cancel nothing and track nothing. *)
LEMMA GoroutinePreserves ==
    ASSUME LogsIInv, NEW s \in Streams,
           StreamCancelled(s) \/ StreamEnds(s) \/ RemoveStream(s)
    PROVE  LogsIInv'
<1>d. StreamDevice[s] \in LogDevices
    BY StreamConstants
<1>1. LogsTypeOK'
    BY <1>d DEF LogsIInv, LogsTypeOK, StreamCancelled, StreamEnds, RemoveStream
<1>2. TrackedNotCancelled'
    BY DEF LogsIInv, LogsTypeOK, TrackedNotCancelled, StreamCancelled, StreamEnds, RemoveStream
<1>3. StartedOnly'
    BY StreamConstants
    DEF LogsIInv, LogsTypeOK, StartedOnly, StreamCancelled, StreamEnds, RemoveStream
<1> QED BY <1>1, <1>2, <1>3 DEF LogsIInv

(* Every step keeps the invariant. *)
LEMMA LogsPreserves == LogsIInv /\ [LogsNext]_logVars => LogsIInv'
<1> SUFFICES ASSUME LogsIInv, [LogsNext]_logVars PROVE LogsIInv'
    OBVIOUS
<1>1. CASE UNCHANGED logVars
    BY <1>1 DEF LogsIInv, LogsTypeOK, TrackedNotCancelled, StartedOnly, logVars
<1>2. CASE \E s \in Streams : HandleStartStream(s)
    BY <1>2, StartPreserves
<1>3. CASE \E s \in Streams : StreamCancelled(s) \/ StreamEnds(s) \/ RemoveStream(s)
    BY <1>3, GoroutinePreserves
<1>4. CASE \E d \in LogDevices : StopStream(d)
    BY <1>4, StopPreserves
<1> QED BY <1>1, <1>2, <1>3, <1>4 DEF LogsNext

(* The manager never tracks a cancelled stream or one of another device,    *)
(* however starts, stops and the ends of streams interleave                 *)
(* (LogStreamManager).                                                      *)
THEOREM TrackedNotCancelledHolds == LogsSpec => []TrackedNotCancelled
<1>1. LogsIInv => TrackedNotCancelled
    BY DEF LogsIInv
<1> QED BY <1>1, LogsInitially, LogsPreserves, PTL DEF LogsSpec

(* Streams and entries of the manager keep their types (LogStreamManager).  *)
THEOREM LogsTypeCorrect == LogsSpec => []LogsTypeOK
<1>1. LogsIInv => LogsTypeOK
    BY DEF LogsIInv
<1> QED BY <1>1, LogsInitially, LogsPreserves, PTL DEF LogsSpec
(* As long as no cancelled stream was removed, the streams of a device that *)
(* are not cancelled and not removed are the tracked one.                   *)
Alive(d) == {s \in Streams \ cancelled : StreamDevice[s] = d /\ goroutine[s] \in {"running", "ending"}}

NoLateRemoval(d) == \A s \in cancelled : StreamDevice[s] = d => goroutine[s] # "done"

AliveIsTracked == \A d \in LogDevices : NoLateRemoval(d) => Alive(d) \subseteq {streams[d]}

(* A start cancels what is tracked before it tracks another stream.         *)
LEMMA LogsStayTracked ==
    LogsIInv /\ AliveIsTracked /\ [LogsNext]_logVars => AliveIsTracked'
<1> SUFFICES ASSUME LogsIInv, AliveIsTracked, [LogsNext]_logVars,
                    NEW d \in LogDevices, NoLateRemoval(d)'
             PROVE  Alive(d)' \subseteq {streams'[d]}
  BY DEF AliveIsTracked
<1>0. /\ StreamDevice \in [Streams -> LogDevices] /\ NoStream \notin Streams
      /\ streams \in [LogDevices -> Streams \cup {NoStream}]
      /\ cancelled \subseteq Streams
      /\ goroutine \in [Streams -> {"none", "running", "ending", "done"}]
  BY StreamConstants DEF LogsIInv, LogsTypeOK
<1>1. CASE UNCHANGED logVars
  BY <1>1 DEF logVars, AliveIsTracked, NoLateRemoval, Alive
<1>2. ASSUME NEW s \in Streams, HandleStartStream(s) PROVE Alive(d)' \subseteq {streams'[d]}
  <2>1. NoLateRemoval(d)
    BY <1>0, <1>2 DEF NoLateRemoval, HandleStartStream
  <2> QED BY <1>0, <1>2, <2>1 DEF AliveIsTracked, Alive, HandleStartStream
<1>3. ASSUME NEW s \in Streams, StreamCancelled(s) \/ StreamEnds(s)
      PROVE  Alive(d)' \subseteq {streams'[d]}
  <2>1. NoLateRemoval(d)
    BY <1>0, <1>3 DEF NoLateRemoval, StreamCancelled, StreamEnds
  <2> QED BY <1>0, <1>3, <2>1 DEF AliveIsTracked, Alive, StreamCancelled, StreamEnds
<1>4. ASSUME NEW s \in Streams, RemoveStream(s) PROVE Alive(d)' \subseteq {streams'[d]}
  <2>1. NoLateRemoval(d)
    BY <1>0, <1>4 DEF NoLateRemoval, RemoveStream
  <2>2. Alive(d) \subseteq {streams[d]}
    BY <2>1 DEF AliveIsTracked
  <2>3. CASE StreamDevice[s] = d
    <3>1. s \notin cancelled
      BY <1>0, <1>4, <2>3 DEF NoLateRemoval, RemoveStream
    <3>2. Alive(d) \subseteq {s}
      BY <1>4, <2>2, <2>3, <3>1 DEF Alive, RemoveStream
    <3> QED BY <1>0, <1>4, <3>2 DEF Alive, RemoveStream
  <2>4. CASE StreamDevice[s] # d
    BY <1>0, <1>4, <2>2, <2>4 DEF Alive, RemoveStream
  <2> QED BY <2>3, <2>4
<1>5. ASSUME NEW e \in LogDevices, StopStream(e) PROVE Alive(d)' \subseteq {streams'[d]}
  <2>1. NoLateRemoval(d)
    BY <1>5 DEF NoLateRemoval, StopStream
  <2> QED BY <1>0, <1>5, <2>1 DEF AliveIsTracked, Alive, StopStream
<1> QED BY <1>1, <1>2, <1>3, <1>4, <1>5 DEF LogsNext

(* "Enforces single stream per device constraint" holds until a stream that  *)
(* was cancelled runs its deferred RemoveStream.                             *)
THEOREM SingleBeforeRemovalsHolds == LogsSpec => []SingleBeforeRemovals
<1>1. LogsInit => AliveIsTracked
  BY DEF LogsInit, AliveIsTracked, Alive
<1>2. AliveIsTracked => SingleBeforeRemovals
  BY DEF AliveIsTracked, Alive, NoLateRemoval, SingleBeforeRemovals, Running
<1> QED BY <1>1, <1>2, LogsStayTracked, LogsInitially, LogsPreserves, PTL DEF LogsSpec
-----------------------------------------------------------------------------
(* The HTTP server.                                                         *)

(* A goroutine that listens or serves does so with a server object that was *)
(* made, and so was the one app.httpServer names.                           *)
ServersAreMade ==
    /\ servers[current] # "unmade"
    /\ \A g \in Goroutines : goroutines[g].pc \in {"listen", "serve"} =>
          goroutines[g].server \in 1..MaxServers /\ servers[goroutines[g].server] # "unmade"

ServerIInv == ServerTypeOK /\ ServersAreMade

(* The next server object is one that there is a number for. *)
LEMMA NextServerIsANumber == NextServer \in Nat /\ NextServer >= 1
<1> DEFINE made == {s \in 1..MaxServers : servers[s] # "unmade"}
<1>1. IsFiniteSet(1..MaxServers) /\ made \subseteq 1..MaxServers
  BY ServerAssumption, FS_Interval
<1>2. Cardinality(made) \in Nat
  BY <1>1, FS_Subset, FS_CardinalityType
<1> QED BY <1>2 DEF NextServer

Pcs == {"none", "listen", "serve", "shutdown", "drain", "make", "close", "over"}
GoroutineStates == [Goroutines -> [pc : Pcs, server : 0..MaxServers]]

(* A goroutine that moves on keeps its server. *)
LEMMA MoveKeepsTheServer ==
    ASSUME goroutines \in GoroutineStates, NEW g \in Goroutines, NEW next \in Pcs, Move(g, next)
    PROVE  /\ goroutines' \in GoroutineStates
           /\ goroutines'[g].pc = next /\ goroutines'[g].server = goroutines[g].server
           /\ \A h \in Goroutines \ {g} : goroutines'[h] = goroutines[h]
BY DEF Move, GoroutineStates

(* What a goroutine does unmakes no server, and it is given one it makes.   *)
LEMMA GoroutinesArePreserved ==
    ASSUME ServerIInv, NEW g \in Goroutines, ServerStep(g)
    PROVE  ServerIInv'
<1>1. /\ goroutines \in GoroutineStates
      /\ servers \in [1..MaxServers -> {"unmade", "new", "listening", "closed"}]
  BY DEF ServerIInv, ServerTypeOK, GoroutineStates, Pcs
<1>2. CASE Listen(g)
  <2> DEFINE s == goroutines[g].server
  <2>1. /\ goroutines[g].pc = "listen" /\ UNCHANGED current
        /\ servers' = servers \/ servers' = [servers EXCEPT ![s] = "listening"]
        /\ Move(g, "serve") \/ Move(g, "close")
    BY <1>2 DEF Listen, At
  <2>2. s \in 1..MaxServers /\ servers[s] # "unmade"
    BY <2>1 DEF ServerIInv, ServersAreMade
  <2>3. /\ servers' \in [1..MaxServers -> {"unmade", "new", "listening", "closed"}]
        /\ \A t \in 1..MaxServers : servers[t] # "unmade" => servers'[t] # "unmade"
    BY <1>1, <2>1, <2>2
  <2>4. /\ goroutines' \in GoroutineStates
        /\ \A h \in Goroutines : goroutines'[h].server = goroutines[h].server
        /\ \A h \in Goroutines : goroutines'[h].pc \in {"listen", "serve"} =>
              goroutines[h].pc \in {"listen", "serve"}
    BY <1>1, <2>1, MoveKeepsTheServer DEF Pcs
  <2>5. ServersAreMade'
    BY <2>1, <2>3, <2>4 DEF ServerIInv, ServerTypeOK, ServersAreMade
  <2> QED BY <1>2, <2>3, <2>4, <2>5
          DEF Listen, ServerIInv, ServerTypeOK, GoroutineStates, Pcs
<1>3. CASE ServeReturns(g) \/ CloseDone(g) \/ Drain(g)
  <2>1. Move(g, "close") \/ Move(g, "over") \/ Move(g, "make")
    BY <1>3 DEF ServeReturns, CloseDone, Drain
  <2>2. /\ goroutines' \in GoroutineStates
        /\ \A h \in Goroutines : goroutines'[h].server = goroutines[h].server
        /\ \A h \in Goroutines : goroutines'[h].pc \in {"listen", "serve"} =>
              goroutines[h].pc \in {"listen", "serve"}
    BY <1>1, <2>1, MoveKeepsTheServer DEF Pcs
  <2>3. UNCHANGED <<current, servers>>
    BY <1>3 DEF ServeReturns, CloseDone, Drain
  <2>4. ServersAreMade'
    BY <2>2, <2>3 DEF ServerIInv, ServersAreMade
  <2>5. /\ UNCHANGED <<addressTaken, tlsEnabled, signal, upgrading, requests, serverErr>>
        /\ done' \in {done, TRUE} /\ process' \in {process, "panic"}
    BY <1>3 DEF ServeReturns, CloseDone, Drain
  <2>6. cutOffs' = cutOffs \/ (cutOffs < MaxCutOffs /\ cutOffs' = cutOffs + 1)
    BY <1>3 DEF ServeReturns, CloseDone, Drain
  <2>7. cutOffs' \in 0..MaxCutOffs
    BY <2>6, ServerAssumption DEF ServerIInv, ServerTypeOK
  <2> QED BY <2>2, <2>3, <2>4, <2>5, <2>7
          DEF ServerIInv, ServerTypeOK, GoroutineStates, Pcs
<1> USE ServerAssumption DEF ServerIInv, ServerTypeOK, ServersAreMade, Move, At
<1>4. CASE ShutDownCurrent(g)
  BY <1>4 DEF ShutDownCurrent
<1>5. CASE MakeTLSServer(g)
  <2>1. NextServer \in 1..MaxServers
    BY <1>5, NextServerIsANumber DEF MakeTLSServer
  <2> HIDE DEF ServersAreMade
  <2>2. ServerTypeOK'
    BY <1>5, <2>1 DEF MakeTLSServer
  <2>3. ServersAreMade'
    BY <1>5, <2>1 DEF MakeTLSServer, ServersAreMade
  <2> QED BY <2>2, <2>3
<1> QED BY <1>2, <1>3, <1>4, <1>5 DEF ServerStep

(* No step of a request, of the event loop or of a signal unmakes a server. *)
LEMMA ServerPreserves == ServerIInv /\ [ServerNext]_serverVars => ServerIInv'
<1> SUFFICES ASSUME ServerIInv, [ServerNext]_serverVars PROVE ServerIInv'
  OBVIOUS
<1> USE DEF ServerIInv, ServerTypeOK, ServersAreMade
<1>1. CASE UNCHANGED serverVars
  BY <1>1 DEF serverVars
<1>2. CASE \E r \in CertRequests : MakeCertificate(r) \/ UpgradeToTLS(r) \/ RequestEnds(r)
  BY <1>2 DEF MakeCertificate, UpgradeToTLS, SignalAfterSend, RequestEnds
<1>3. CASE LoopError \/ LoopServerDone
  BY <1>3 DEF LoopError, LoopServerDone, DoneAfterUpgrade
<1>4. CASE LoopUpgrade
  <2>1. PICK g \in Restarters : goroutines' = [goroutines EXCEPT ![g].pc = "shutdown"]
    BY <1>4 DEF LoopUpgrade
  <2>2. g \in Goroutines
    BY DEF Goroutines
  <2>3. ServersAreMade'
    BY <1>4, <2>1, <2>2 DEF LoopUpgrade
  <2> HIDE DEF ServersAreMade
  <2> QED BY <1>4, <2>1, <2>2, <2>3 DEF LoopUpgrade
<1>5. CASE ShutdownSignal
  BY <1>5 DEF ShutdownSignal
<1> QED BY <1>1, <1>2, <1>3, <1>4, <1>5, GoroutinesArePreserved DEF ServerNext

(* The first server object is made at the start.                            *)
LEMMA ServerInitially == RunStarts => ServerIInv
<1> SUFFICES ASSUME RunStarts PROVE ServerIInv
  OBVIOUS
<1>1. \A g \in Goroutines :
        goroutines[g] = IF g = "first" THEN [pc |-> "listen", server |-> 1] ELSE Idle0
  BY DEF RunStarts
<1>2. goroutines \in [Goroutines -> [pc : {"none", "listen"}, server : 0..MaxServers]]
  BY ServerAssumption DEF RunStarts, Idle0
<1>3. 1 \in 1..MaxServers /\ servers[1] = "new" /\ current = 1
  BY ServerAssumption DEF RunStarts
<1>4. ServersAreMade
  BY <1>1, <1>3 DEF ServersAreMade, Idle0
<1>5. ServerTypeOK
  <2>1. goroutines \in GoroutineStates
    BY <1>2 DEF GoroutineStates, Pcs
  <2>2. 0 \in 0..MaxCutOffs
    BY ServerAssumption
  <2>3. servers \in [1..MaxServers -> {"unmade", "new", "listening", "closed"}]
    BY DEF RunStarts
  <2>4. /\ addressTaken \in BOOLEAN /\ tlsEnabled \in BOOLEAN
        /\ signal = FALSE /\ done = FALSE /\ upgrading = FALSE /\ serverErr = FALSE
        /\ cutOffs = 0 /\ process = "up" /\ requests = [r \in CertRequests |-> "idle"]
    BY DEF RunStarts
  <2> QED BY <1>3, <2>1, <2>2, <2>3, <2>4 DEF ServerTypeOK, GoroutineStates, Pcs
<1> QED BY <1>4, <1>5 DEF ServerIInv

(* Every variable of the server's life keeps its type, and nobody listens,  *)
(* serves or shuts down a server that was not made: Application.Run and     *)
(* restartServerWithTLS, for any number of requests and servers.            *)
THEOREM ServerTypeCorrect == ServerSpec => [](ServerTypeOK /\ ServersAreMade)
<1>1. ServerIInv => ServerTypeOK /\ ServersAreMade
  BY DEF ServerIInv
<1> QED BY <1>1, ServerInitially, ServerPreserves, PTL DEF ServerSpec

OneRestart ==
    \A g, h \in Restarters : goroutines[g].pc # "none" /\ goroutines[h].pc # "none" => g = h

(* The first server until a restart shuts it down, and how the event loop   *)
(* hears of its end, once: from its goroutine, before that knows of it and  *)
(* after.                                                                   *)
FirstServes ==
    /\ goroutines["first"].server = 1
    /\ \/ goroutines["first"].pc = "listen" /\ servers[1] = "new"
       \/ goroutines["first"].pc = "serve" /\ servers[1] = "listening"
    /\ ~done

FirstIsShutDown ==
    /\ goroutines["first"].server = 1 /\ servers[1] = "closed"
    /\ \/ goroutines["first"].pc \in {"serve", "close"} /\ ~done /\ upgrading
       \/ goroutines["first"].pc = "over" /\ (done <=> upgrading)

OnlyMade(made) == \A s \in 1..MaxServers : servers[s] # "unmade" => s \in made

(* Before the restart: the first server starts, or serves if anybody has    *)
(* asked for an upgrade.                                                    *)
BeforeRestart ==
    /\ FirstServes /\ ~upgrading /\ current = 1 /\ OnlyMade({1})
    /\ signal \/ (\E r \in CertRequests : requests[r] # "idle") =>
          goroutines["first"].pc = "serve"

(* During the restart by g, and with the server it made. *)
DuringRestart(g) ==
    /\ goroutines["first"].pc # "listen"
    /\ \/ /\ goroutines[g].pc = "shutdown"
          /\ FirstServes /\ upgrading /\ current = 1 /\ OnlyMade({1})
       \/ /\ goroutines[g].pc \in {"drain", "make"}
          /\ FirstIsShutDown /\ current = 1 /\ OnlyMade({1})
       \/ /\ goroutines[g].pc \in {"listen", "serve"} /\ goroutines[g].server = 2
          /\ FirstIsShutDown /\ current = 2 /\ OnlyMade({1, 2})
          /\ servers[2] = IF goroutines[g].pc = "listen" THEN "new" ELSE "listening"

(* Where the hand-over stands, as long as nobody has sent a signal to the   *)
(* process.                                                                 *)
HandOver ==
    /\ ~serverErr
    /\ (\A g \in Restarters : goroutines[g].pc = "none") => BeforeRestart
    /\ \A g \in Restarters : goroutines[g].pc # "none" => DuringRestart(g)

HandOverGoesWell ==
    OneRestart /\ ~addressTaken => (process = "stopped" \/ (process = "up" /\ HandOver))

(* The goroutines of restarts are others than the first. *)
LEMMA GoroutineNames ==
    /\ "first" \in Goroutines /\ Restarters \subseteq Goroutines /\ "first" \notin Restarters
    /\ \A g \in Goroutines : g = "first" \/ g \in Restarters
BY ServerAssumption DEF Goroutines, Restarters

(* Before a restart only the first goroutine runs, and a signal starts one. *)
LEMMA BeforeRestartStep ==
    ASSUME ServerIInv, ServerNext, HandOver, OneRestart', ~addressTaken, process = "up",
           process' # "stopped", \A g \in Restarters : goroutines[g].pc = "none"
    PROVE  process' = "up" /\ HandOver'
<1>1. /\ goroutines \in GoroutineStates /\ 1 \in 1..MaxServers /\ current \in 1..MaxServers
      /\ servers \in [1..MaxServers -> {"unmade", "new", "listening", "closed"}]
      /\ requests \in [CertRequests -> {"idle", "made", "asked", "over"}]
  BY ServerAssumption DEF ServerIInv, ServerTypeOK, GoroutineStates, Pcs
<1>2. BeforeRestart /\ ~serverErr
  BY DEF HandOver
<1>3. ASSUME process' = "up", ~serverErr', BeforeRestart',
             \A g \in Restarters : goroutines'[g].pc = "none"
      PROVE  process' = "up" /\ HandOver'
  BY <1>3 DEF HandOver
<1>4. ASSUME NEW g \in Goroutines, ServerStep(g) PROVE process' = "up" /\ HandOver'
  <2>1. g = "first"
    BY <1>4, GoroutineNames DEF ServerStep, Listen, ServeReturns, CloseDone, ShutDownCurrent,
                                Drain, MakeTLSServer, At
  <2>2. CASE Listen(g)
    <3>1. goroutines["first"].pc = "listen" /\ servers[1] = "new"
      BY <1>2, <2>1, <2>2 DEF Listen, At, BeforeRestart, FirstServes
    <3>2. Listening = {} /\ goroutines["first"].server = 1
      BY <1>1, <1>2, <3>1 DEF Listening, BeforeRestart, OnlyMade, FirstServes
    <3>3. /\ servers' = [servers EXCEPT ![1] = "listening"]
          /\ goroutines' = [goroutines EXCEPT !["first"].pc = "serve"]
          /\ UNCHANGED <<serverErr, done, upgrading, current, signal, requests, process>>
      BY <2>1, <2>2, <3>1, <3>2 DEF Listen, Move
    <3>4. /\ goroutines'["first"].pc = "serve" /\ goroutines'["first"].server = 1
          /\ \A h \in Restarters : goroutines'[h] = goroutines[h]
      BY <1>1, <3>2, <3>3, GoroutineNames DEF GoroutineStates
    <3>5. /\ servers'[1] = "listening"
          /\ \A s \in 1..MaxServers \ {1} : servers'[s] = servers[s]
      BY <1>1, <3>3
    <3>6. BeforeRestart'
      BY <1>2, <3>3, <3>4, <3>5 DEF BeforeRestart, FirstServes, OnlyMade
    <3> QED BY <1>2, <1>3, <3>3, <3>4, <3>6
  <2>3. ~(ServeReturns(g) \/ CloseDone(g) \/ ShutDownCurrent(g) \/ Drain(g) \/ MakeTLSServer(g))
    BY <1>2, <2>1 DEF BeforeRestart, FirstServes, ServeReturns, CloseDone, ShutDownCurrent,
                      Drain, MakeTLSServer, At
  <2> QED BY <1>4, <2>2, <2>3 DEF ServerStep
<1>5. ASSUME NEW r \in CertRequests, MakeCertificate(r) \/ UpgradeToTLS(r) \/ RequestEnds(r)
      PROVE  process' = "up" /\ HandOver'
  <2>1. goroutines["first"].pc = "serve"
    <3>1. CASE MakeCertificate(r)
      <4>1. PICK s \in 1..MaxServers : servers[s] = "listening"
        BY <3>1 DEF MakeCertificate, Listening
      <4>2. s = 1
        BY <1>2, <4>1 DEF BeforeRestart, OnlyMade
      <4> QED BY <1>2, <4>1, <4>2 DEF BeforeRestart, FirstServes
    <3>2. CASE UpgradeToTLS(r) \/ RequestEnds(r)
      BY <1>2, <3>2 DEF BeforeRestart, UpgradeToTLS, RequestEnds
    <3> QED BY <1>5, <3>1, <3>2
  <2>2. UNCHANGED <<goroutines, servers, serverErr, done, upgrading, current, process>>
    BY <1>5 DEF MakeCertificate, UpgradeToTLS, RequestEnds
  <2>3. BeforeRestart'
    BY <1>2, <2>1, <2>2 DEF BeforeRestart, FirstServes, OnlyMade
  <2> QED BY <1>2, <1>3, <2>2, <2>3
<1>6. ~LoopError /\ ~LoopServerDone /\ ~ShutdownSignal
  BY <1>2 DEF LoopError, LoopServerDone, ShutdownSignal, BeforeRestart, FirstServes
<1>7. CASE LoopUpgrade
  <2>1. PICK g \in Restarters : goroutines' = [goroutines EXCEPT ![g].pc = "shutdown"]
    BY <1>7 DEF LoopUpgrade
  <2>2. goroutines["first"].pc = "serve"
    BY <1>2, <1>7 DEF LoopUpgrade, BeforeRestart
  <2>3. /\ goroutines'[g].pc = "shutdown" /\ goroutines'["first"] = goroutines["first"]
        /\ \A h \in Restarters \ {g} : goroutines'[h].pc = "none"
    BY <1>1, <2>1, GoroutineNames DEF GoroutineStates
  <2>4. upgrading' /\ UNCHANGED <<servers, serverErr, done, current, process>>
    BY <1>7 DEF LoopUpgrade
  <2>5. DuringRestart(g)'
    BY <1>2, <2>2, <2>3, <2>4 DEF DuringRestart, BeforeRestart, FirstServes, OnlyMade
  <2> QED BY <1>2, <2>3, <2>4, <2>5 DEF HandOver
<1> QED BY <1>4, <1>5, <1>6, <1>7 DEF ServerNext

(* With one server made and shut down, the next number is two. *)
LEMMA SecondServer ==
    ASSUME servers[1] # "unmade", 1 \in 1..MaxServers, OnlyMade({1})
    PROVE  NextServer = 2
<1>1. {s \in 1..MaxServers : servers[s] # "unmade"} = {1}
  BY DEF OnlyMade
<1> QED BY <1>1, FS_Singleton DEF NextServer

(* While g restarts the server only g and the first goroutine run, and the  *)
(* event loop hears once that the first server is gone.                     *)
LEMMA DuringRestartStep ==
    ASSUME ServerIInv, ServerNext, HandOver, OneRestart, OneRestart', ~addressTaken,
           process = "up", process' # "stopped",
           NEW r \in Restarters, goroutines[r].pc # "none"
    PROVE  process' = "up" /\ HandOver'
<1>1. /\ goroutines \in GoroutineStates /\ 1 \in 1..MaxServers /\ current \in 1..MaxServers
      /\ servers \in [1..MaxServers -> {"unmade", "new", "listening", "closed"}]
      /\ MaxServers \in Nat
  BY ServerAssumption DEF ServerIInv, ServerTypeOK, GoroutineStates, Pcs
<1>2. DuringRestart(r) /\ ~serverErr
  BY DEF HandOver
<1>3. ASSUME process' = "up", ~serverErr', DuringRestart(r)', goroutines'[r].pc # "none"
      PROVE  process' = "up" /\ HandOver'
  BY <1>3 DEF HandOver, OneRestart
<1>4. r \in Goroutines /\ r # "first" /\ "first" \in Goroutines
  BY GoroutineNames
<1>5. ASSUME NEW g \in Goroutines, ServerStep(g) PROVE process' = "up" /\ HandOver'
  <2>1. g = "first" \/ g = r
    BY <1>5, GoroutineNames
    DEF ServerStep, Listen, ServeReturns, CloseDone, ShutDownCurrent, Drain, MakeTLSServer, At,
        OneRestart
  <2>2. CASE Listen(g)
    <3>1. g = r /\ goroutines[r].pc = "listen"
      BY <1>2, <2>1, <2>2 DEF Listen, At, DuringRestart
    <3>2. /\ goroutines[r].server = 2 /\ servers[2] = "new" /\ servers[1] = "closed"
          /\ current = 2 /\ OnlyMade({1, 2}) /\ FirstIsShutDown
      BY <1>2, <3>1 DEF DuringRestart, FirstIsShutDown
    <3>3. Listening = {}
      BY <3>2 DEF Listening, OnlyMade
    <3>4. /\ servers' = [servers EXCEPT ![2] = "listening"]
          /\ goroutines' = [goroutines EXCEPT ![r].pc = "serve"]
          /\ UNCHANGED <<serverErr, done, upgrading, current, process>>
      BY <2>2, <3>1, <3>2, <3>3 DEF Listen, Move
    <3>5. /\ goroutines'[r].pc = "serve" /\ goroutines'[r].server = 2
          /\ goroutines'["first"] = goroutines["first"]
      BY <1>1, <1>4, <3>2, <3>4 DEF GoroutineStates
    <3>6. /\ servers'[2] = "listening"
          /\ \A s \in 1..MaxServers \ {2} : servers'[s] = servers[s]
      BY <1>1, <3>2, <3>4
    <3>7. DuringRestart(r)'
      BY <1>1, <1>2, <3>2, <3>4, <3>5, <3>6 DEF DuringRestart, FirstIsShutDown, OnlyMade
    <3> QED BY <1>2, <1>3, <3>4, <3>5, <3>7
  <2>3. CASE ServeReturns(g)
    <3>1. g = "first" /\ goroutines["first"].pc = "serve" /\ servers[1] = "closed"
      BY <1>2, <2>1, <2>3 DEF ServeReturns, At, DuringRestart, FirstServes, FirstIsShutDown
    <3>2. /\ goroutines' = [goroutines EXCEPT !["first"].pc = "close"]
          /\ UNCHANGED <<servers, serverErr, done, upgrading, current, process>>
      BY <2>3, <3>1 DEF ServeReturns, Move
    <3>3. /\ goroutines'["first"].pc = "close" /\ goroutines'[r] = goroutines[r]
          /\ goroutines'["first"].server = goroutines["first"].server
      BY <1>1, <1>4, <3>2 DEF GoroutineStates
    <3>4. DuringRestart(r)'
      BY <1>2, <3>1, <3>2, <3>3 DEF DuringRestart, FirstServes, FirstIsShutDown, OnlyMade
    <3> QED BY <1>2, <1>3, <3>2, <3>3, <3>4
  <2>4. CASE CloseDone(g)
    <3>1. g = "first" /\ goroutines["first"].pc = "close" /\ ~done
      BY <1>2, <2>1, <2>4 DEF CloseDone, At, DuringRestart, FirstServes, FirstIsShutDown
    <3>2. /\ goroutines' = [goroutines EXCEPT !["first"].pc = "over"] /\ done'
          /\ UNCHANGED <<servers, serverErr, upgrading, current, process>>
      BY <2>4, <3>1 DEF CloseDone, Move
    <3>3. /\ goroutines'["first"].pc = "over" /\ goroutines'[r] = goroutines[r]
          /\ goroutines'["first"].server = goroutines["first"].server
      BY <1>1, <1>4, <3>2 DEF GoroutineStates
    <3>4. DuringRestart(r)'
      BY <1>2, <3>1, <3>2, <3>3 DEF DuringRestart, FirstServes, FirstIsShutDown, OnlyMade
    <3> QED BY <1>2, <1>3, <3>2, <3>3, <3>4
  <2>5. CASE ShutDownCurrent(g) \/ Drain(g) \/ MakeTLSServer(g)
    <3>1. g = r /\ goroutines[r].pc \in {"shutdown", "drain", "make"}
      BY <1>2, <2>1, <2>5 DEF ShutDownCurrent, Drain, MakeTLSServer, At, DuringRestart,
                              FirstServes, FirstIsShutDown
    <3>2. CASE ShutDownCurrent(r)
      <4>1. /\ FirstServes /\ upgrading /\ current = 1 /\ OnlyMade({1})
            /\ goroutines["first"].pc = "serve"
        BY <1>2, <3>2 DEF ShutDownCurrent, At, DuringRestart, FirstServes
      <4>2. /\ goroutines' = [goroutines EXCEPT ![r].pc = "drain"]
            /\ servers' = [servers EXCEPT ![1] = "closed"]
            /\ UNCHANGED <<serverErr, done, upgrading, current, process>>
        BY <3>2, <4>1 DEF ShutDownCurrent, Move
      <4>3. goroutines'[r].pc = "drain" /\ goroutines'["first"] = goroutines["first"]
        BY <1>1, <1>4, <4>2 DEF GoroutineStates
      <4>4. /\ servers'[1] = "closed"
            /\ \A s \in 1..MaxServers \ {1} : servers'[s] = servers[s]
        BY <1>1, <4>2
      <4>5. DuringRestart(r)'
        BY <4>1, <4>2, <4>3, <4>4 DEF DuringRestart, FirstServes, FirstIsShutDown, OnlyMade
      <4> QED BY <1>2, <1>3, <4>2, <4>3, <4>5
    <3>3. CASE Drain(r)
      <4>1. FirstIsShutDown /\ current = 1 /\ OnlyMade({1})
        BY <1>2, <3>3 DEF Drain, At, DuringRestart
      <4>2. /\ goroutines' = [goroutines EXCEPT ![r].pc = "make"]
            /\ UNCHANGED <<servers, serverErr, done, upgrading, current, process>>
        BY <3>3 DEF Drain, Move
      <4>3. goroutines'[r].pc = "make" /\ goroutines'["first"] = goroutines["first"]
        BY <1>1, <1>4, <4>2 DEF GoroutineStates
      <4>4. DuringRestart(r)'
        BY <1>2, <4>1, <4>2, <4>3 DEF DuringRestart, FirstIsShutDown, OnlyMade
      <4> QED BY <1>2, <1>3, <4>2, <4>3, <4>4
    <3>4. CASE MakeTLSServer(r)
      <4>1. FirstIsShutDown /\ current = 1 /\ OnlyMade({1})
        BY <1>2, <3>4 DEF MakeTLSServer, At, DuringRestart
      <4>2. NextServer = 2 /\ 2 \in 1..MaxServers
        BY <1>1, <3>4, <4>1, SecondServer DEF FirstIsShutDown, MakeTLSServer
      <4>3. /\ goroutines' = [goroutines EXCEPT ![r] = [pc |-> "listen", server |-> 2]]
            /\ servers' = [servers EXCEPT ![2] = "new"] /\ current' = 2
            /\ UNCHANGED <<serverErr, done, upgrading, process>>
        BY <3>4, <4>2 DEF MakeTLSServer
      <4>4. /\ goroutines'[r].pc = "listen" /\ goroutines'[r].server = 2
            /\ goroutines'["first"] = goroutines["first"]
        BY <1>1, <1>4, <4>3 DEF GoroutineStates
      <4>5. /\ servers'[2] = "new"
            /\ \A s \in 1..MaxServers \ {2} : servers'[s] = servers[s]
        BY <1>1, <4>2, <4>3
      <4>6. DuringRestart(r)'
        BY <1>1, <1>2, <4>1, <4>3, <4>4, <4>5 DEF DuringRestart, FirstIsShutDown, OnlyMade
      <4> QED BY <1>2, <1>3, <4>3, <4>4, <4>6
    <3> QED BY <2>5, <3>1, <3>2, <3>3, <3>4
  <2> QED BY <1>5, <2>2, <2>3, <2>4, <2>5 DEF ServerStep
<1>6. ASSUME NEW q \in CertRequests, MakeCertificate(q) \/ UpgradeToTLS(q) \/ RequestEnds(q)
      PROVE  process' = "up" /\ HandOver'
  <2>1. UNCHANGED <<goroutines, servers, serverErr, done, upgrading, current, process>>
    BY <1>6 DEF MakeCertificate, UpgradeToTLS, RequestEnds
  <2> QED BY <1>2, <1>3, <2>1 DEF DuringRestart, FirstServes, FirstIsShutDown, OnlyMade
<1>7. CASE LoopServerDone
  <2>1. /\ goroutines["first"].pc = "over" /\ upgrading
        /\ goroutines[r].pc # "shutdown" /\ FirstIsShutDown
    BY <1>2, <1>7 DEF LoopServerDone, DuringRestart, FirstServes, FirstIsShutDown
  <2>2. /\ ~done' /\ ~upgrading'
        /\ UNCHANGED <<goroutines, servers, serverErr, current, process>>
    BY <1>7, <2>1 DEF LoopServerDone, DoneAfterUpgrade
  <2> QED BY <1>2, <1>3, <2>1, <2>2 DEF DuringRestart, FirstIsShutDown, OnlyMade
<1>8. ~LoopError /\ ~ShutdownSignal /\ ~LoopUpgrade
  <2>1. ~LoopError /\ ~ShutdownSignal
    BY <1>2 DEF LoopError, ShutdownSignal
  <2>2. ASSUME LoopUpgrade PROVE FALSE
    <3>1. PICK g \in Restarters : /\ goroutines[g].pc = "none"
                                  /\ goroutines' = [goroutines EXCEPT ![g].pc = "shutdown"]
      BY <2>2 DEF LoopUpgrade
    <3>2. goroutines'[g].pc = "shutdown" /\ goroutines'[r] = goroutines[r] /\ g # r
      BY <1>1, <1>4, <3>1, GoroutineNames DEF GoroutineStates
    <3> QED BY <3>2 DEF OneRestart
  <2> QED BY <2>1, <2>2
<1> QED BY <1>5, <1>6, <1>7, <1>8 DEF ServerNext

(* Nothing stops the start of a restart from being one. *)
LEMMA RestartsStayStarted ==
    ASSUME ServerIInv, [ServerNext]_serverVars, NEW g \in Restarters, goroutines[g].pc # "none"
    PROVE  goroutines'[g].pc # "none"
<1>1. goroutines \in GoroutineStates /\ g \in Goroutines
  BY GoroutineNames DEF ServerIInv, ServerTypeOK, GoroutineStates, Pcs
<1>2. ASSUME NEW h \in Goroutines, ServerStep(h) PROVE goroutines'[g].pc # "none"
  <2>1. \/ \E next \in {"serve", "close", "over", "drain", "make"} : Move(h, next)
        \/ goroutines' = [goroutines EXCEPT ![h] = [pc |-> "listen", server |-> NextServer]]
    BY <1>2 DEF ServerStep, Listen, ServeReturns, CloseDone, ShutDownCurrent, Drain,
                MakeTLSServer
  <2> QED BY <1>1, <2>1 DEF Move, GoroutineStates
<1>3. CASE LoopUpgrade
  <2>1. PICK h \in Restarters : goroutines' = [goroutines EXCEPT ![h].pc = "shutdown"]
    BY <1>3 DEF LoopUpgrade
  <2> QED BY <1>1, <2>1 DEF GoroutineStates
<1>4. CASE UNCHANGED goroutines
  BY <1>4
<1> QED BY <1>2, <1>3, <1>4 DEF ServerNext, MakeCertificate, UpgradeToTLS, RequestEnds,
                                LoopError, LoopServerDone, ShutdownSignal, serverVars

(* No step spoils the hand-over while there is one restart. *)
LEMMA HandOverStep ==
    ServerIInv /\ HandOverGoesWell /\ [ServerNext]_serverVars => HandOverGoesWell'
<1> SUFFICES ASSUME ServerIInv, HandOverGoesWell, [ServerNext]_serverVars,
                    OneRestart', ~addressTaken', process' # "stopped"
             PROVE  process' = "up" /\ HandOver'
  BY DEF HandOverGoesWell
<1>1. OneRestart
  BY RestartsStayStarted DEF OneRestart
<1>2. CASE UNCHANGED serverVars
  <2>1. HandOver' <=> HandOver
    BY <1>2 DEF serverVars, HandOver, BeforeRestart, DuringRestart, FirstServes,
                FirstIsShutDown, OnlyMade
  <2> QED BY <1>1, <1>2, <2>1 DEF serverVars, HandOverGoesWell
<1>3. CASE ServerNext
  <2>1. addressTaken' = addressTaken /\ process = "up"
    BY <1>3 DEF ServerNext, ServerStep, Listen, ServeReturns, CloseDone, ShutDownCurrent, Drain,
                MakeTLSServer, MakeCertificate, UpgradeToTLS, RequestEnds, LoopError,
                LoopServerDone, LoopUpgrade, ShutdownSignal, At, Up
  <2>2. HandOver
    BY <1>1, <2>1 DEF HandOverGoesWell
  <2> QED BY <1>1, <1>3, <2>1, <2>2, BeforeRestartStep, DuringRestartStep
<1> QED BY <1>2, <1>3

(* Asking for the upgrade to TLS does not end the process as long as one     *)
(* restart at most was started: restartServerWithTLS and the event loop hand *)
(* serverDone and the address over to one another in any order of requests,  *)
(* slow ones included, for any number of them.                               *)
THEOREM OneUpgradeKeepsServingHolds == ServerSpec => []OneUpgradeKeepsServing
<1>1. RunStarts => HandOverGoesWell
  <2> SUFFICES ASSUME RunStarts PROVE process = "up" /\ HandOver
    BY DEF HandOverGoesWell
  <2>1. /\ goroutines["first"] = [pc |-> "listen", server |-> 1]
        /\ \A g \in Restarters : goroutines[g] = Idle0
    BY GoroutineNames DEF RunStarts
  <2>2. /\ servers = [s \in 1..MaxServers |-> IF s = 1 THEN "new" ELSE "unmade"]
        /\ 1 \in 1..MaxServers /\ ~done /\ ~upgrading /\ ~signal /\ ~serverErr
        /\ current = 1 /\ process = "up" /\ \A r \in CertRequests : requests[r] = "idle"
    BY ServerAssumption DEF RunStarts
  <2>3. BeforeRestart
    BY <2>1, <2>2 DEF BeforeRestart, FirstServes, OnlyMade
  <2> QED BY <2>1, <2>2, <2>3 DEF HandOver, Idle0
<1>2. HandOverGoesWell => OneUpgradeKeepsServing
  BY DEF HandOverGoesWell, OneRestart, OneUpgradeKeepsServing, UpgradeKeepsServing
<1> QED BY <1>1, <1>2, HandOverStep, ServerInitially, ServerPreserves, PTL DEF ServerSpec

-----------------------------------------------------------------------------
(* The composition. *)

(* Whatever component runs, and under whatever fairness, each of the          *)
(* components behaves as its own specification says.                          *)
THEOREM ProgressRunsItsParts ==
    ProgressSpec => /\ Spec
                /\ FedSpec
                /\ ScriptsSpec
                /\ LogsSpec
                /\ ServerSpec
<1>1. ProgressInit => /\ Init
                      /\ FedInit
                      /\ ScriptsInit
                      /\ LogsInit
                      /\ RunStarts
    BY DEF ProgressInit
<1>2. [ProgressNext]_progressVars => /\ [Next]_vars
                                    /\ [FedNext]_fedVars
                                    /\ [ScriptsNext]_scriptsVars
                                    /\ [LogsNext]_logVars
                                    /\ [ServerNext]_serverVars
    BY DEF ProgressNext, progressVars
<1> QED BY <1>1, <1>2, PTL DEF ProgressSpec, Spec, FedSpec, ScriptsSpec, LogsSpec, ServerSpec

(* The component that runs keeps its types, for any number of notifications,  *)
(* peers, executions, streams and requests.                                   *)
THEOREM ProgressTypeCorrect == ProgressSpec => []ProgressTypeOK
<1> DEFINE Focus == focus \in {"queue", "federation", "scripts", "logs", "server"}
<1>1. ProgressSpec => []Focus
    <2>1. ProgressInit => Focus
        BY DEF ProgressInit
    <2>2. Focus /\ [ProgressNext]_progressVars => Focus'
        BY DEF ProgressNext, progressVars
    <2> QED BY <2>1, <2>2, PTL DEF ProgressSpec
<1>2. /\ Focus
      /\ TypeOK
      /\ FedTypeOK
      /\ ScriptsTypeOK
      /\ LogsTypeOK
      /\ ServerTypeOK
      => ProgressTypeOK
    BY DEF ProgressTypeOK
<1> HIDE DEF Focus
<1> QED BY <1>1, <1>2, ProgressRunsItsParts,
           QueueTypeCorrect, FederationTypeCorrect, ScriptsTypeCorrect,
           LogsTypeCorrect, ServerTypeCorrect, PTL
=============================================================================
