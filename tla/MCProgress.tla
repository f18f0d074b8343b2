----------------------------- MODULE MCProgress -----------------------------
(***************************************************************************)
(* What must eventually happen, for TLC: the queue stops, federated        *)
(* catalogs converge, script executions and log streams end, and the       *)
(* upgrade to TLS is completed.  The components share no state here, so a  *)
(* behaviour runs one of them, chosen at the start, under the fairness its *)
(* module states, and the others stay in one of their initial states.      *)
(***************************************************************************)
EXTENDS NotificationQueue, Federation, Scripts, LogStreams, Server

VARIABLE focus  \* the component that runs

\* All notifications go to one device, so that a short buffer overflows.
MCDeviceOf == [n \in Notifs |-> "d1"]

MCHosts == [s \in FedServices |-> {"i1"}]

\* Two streams of one device and one of another.
MCStreamDevice == [s \in Streams |-> IF s = "s3" THEN "d2" ELSE "d1"]

ProgressInit ==
    /\ focus \in {"queue", "federation", "scripts", "logs", "server"}
    /\ Init /\ FedInit /\ LogsInit
    /\ ScriptsInit /\ (focus # "scripts" => scriptRows = {})
    /\ RunStarts /\ (focus # "server" => ~addressTaken /\ ~tlsEnabled)

ProgressNext ==
    /\ UNCHANGED focus
    /\ \/ /\ focus = "queue" /\ Next
          /\ UNCHANGED <<fedVars, scriptsVars, logVars, serverVars>>
       \/ /\ focus = "federation" /\ FedNext
          /\ UNCHANGED <<vars, scriptsVars, logVars, serverVars>>
       \/ /\ focus = "scripts" /\ ScriptsNext
          /\ UNCHANGED <<vars, fedVars, logVars, serverVars>>
       \/ /\ focus = "logs" /\ LogsNext
          /\ UNCHANGED <<vars, fedVars, scriptsVars, serverVars>>
       \/ /\ focus = "server" /\ ServerNext
          /\ UNCHANGED <<vars, fedVars, scriptsVars, logVars>>

\* StopFairness, FedFairness, ScriptsFairness, LogsFairness and ServerFairness,
\* each for the behaviours that run its component.
ProgressFairness ==
    /\ \A w \in Workers : WF_vars(focus = "queue" /\ (Worker(w) \/ Deliver(w)))
    /\ WF_vars(focus = "queue" /\ StopReturns)
    /\ \A p, q \in Peers :
          p # q => /\ WF_fedVars(focus = "federation" /\ LocalState(p, q))
                   /\ SF_fedVars(focus = "federation" /\ MergeRemoteState(p, q))
    /\ \A e \in ExecIds : WF_scriptsVars(focus = "scripts" /\ JobStep(e))
    /\ WF_scriptsVars(focus = "scripts" /\ RunnerTake)
    /\ \A s \in Streams : WF_logVars(focus = "logs" /\ (StreamCancelled(s) \/ RemoveStream(s)))
    /\ \A g \in Goroutines : WF_serverVars(focus = "server" /\ ServerStep(g))
    /\ \A r \in CertRequests : WF_serverVars(focus = "server" /\ RequestEnds(r))
    /\ WF_serverVars(focus = "server" /\ LoopServerDone)
    /\ WF_serverVars(focus = "server" /\ LoopUpgrade)

progressVars == <<focus, vars, fedVars, scriptsVars, logVars, serverVars>>

ProgressSpec ==
    /\ ProgressInit /\ [][ProgressNext]_progressVars
    /\ ProgressFairness

\* The component that runs keeps its variables in their types.
ProgressTypeOK ==
    CASE focus = "queue" -> TypeOK
      [] focus = "federation" -> FedTypeOK
      [] focus = "scripts" -> ScriptsTypeOK
      [] focus = "logs" -> LogsTypeOK
      [] focus = "server" -> ServerTypeOK
=============================================================================
