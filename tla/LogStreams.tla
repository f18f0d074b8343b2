----------------------------- MODULE LogStreams -----------------------------
(***************************************************************************)
(* Streaming of container logs to devices: LogStreamManager and            *)
(* ContainerLogsHandler of internal/handlers.                              *)
(*                                                                         *)
(* A stream is one goroutine (streamLogs) with a context of its own.  The  *)
(* manager keeps one entry per device, which every operation takes under   *)
(* its lock; the goroutine drops that entry when it returns.               *)
(***************************************************************************)
EXTENDS Naturals, FiniteSets

CONSTANTS
    Streams,   \* calls of HandleStartStream, each for an existing container
    LogDevices,
    StreamDevice,  \* the device that asks for each stream
    NoStream

ASSUME StreamConstants ==
    StreamDevice \in [Streams -> LogDevices] /\ NoStream \notin Streams

VARIABLES
    streams,    \* LogStreamManager.streams
    cancelled,  \* streams whose context is cancelled
    goroutine   \* streamLogs: "none", "running", "ending" (returned, its
                \* deferred RemoveStream still to run) or "done"

logVars == <<streams, cancelled, goroutine>>

LogsTypeOK ==
    /\ streams \in [LogDevices -> Streams \cup {NoStream}]
    /\ cancelled \subseteq Streams
    /\ goroutine \in [Streams -> {"none", "running", "ending", "done"}]

LogsInit ==
    /\ streams = [d \in LogDevices |-> NoStream]
    /\ cancelled = {}
    /\ goroutine = [s \in Streams |-> "none"]

Running(d) == {s \in Streams : StreamDevice[s] = d /\ goroutine[s] = "running"}

(* HandleStartStream for a container that exists: StartStream cancels the   *)
(* device's tracked stream and tracks the new one in its place.             *)
HandleStartStream(s) ==
    LET d == StreamDevice[s]
    IN  /\ goroutine[s] = "none"
        /\ cancelled' = cancelled \cup ({streams[d]} \ {NoStream})
        /\ streams' = [streams EXCEPT ![d] = s]
        /\ goroutine' = [goroutine EXCEPT ![s] = "running"]

\* Mutant: the entry is not deleted.
StopStreamKeepsEntry(d) ==
    /\ cancelled' = cancelled \cup ({streams[d]} \ {NoStream})
    /\ UNCHANGED <<goroutine, streams>>

(* StopStream: by a stop request of the device, or StopAllForDevice when a  *)
(* connection of the device ends.                                           *)
StopStream(d) ==
    /\ cancelled' = cancelled \cup ({streams[d]} \ {NoStream})
    /\ streams' = [streams EXCEPT ![d] = NoStream]
    /\ UNCHANGED goroutine

\* Mutant: the reader asks the manager instead of its context.
StreamAsksManager(s) ==
    /\ goroutine[s] = "running" /\ s \in cancelled /\ streams[StreamDevice[s]] = s
    /\ goroutine' = [goroutine EXCEPT ![s] = "ending"]
    /\ UNCHANGED <<streams, cancelled>>

(* streamLogs sees its context cancelled. *)
StreamCancelled(s) ==
    /\ goroutine[s] = "running" /\ s \in cancelled
    /\ goroutine' = [goroutine EXCEPT ![s] = "ending"]
    /\ UNCHANGED <<streams, cancelled>>

(* The container stopped, or opening or reading its log failed. *)
StreamEnds(s) ==
    /\ goroutine[s] = "running"
    /\ goroutine' = [goroutine EXCEPT ![s] = "ending"]
    /\ UNCHANGED <<streams, cancelled>>

(* The deferred RemoveStream forgets the device's entry, whichever stream   *)
(* it is for.                                                               *)
RemoveStream(s) ==
    /\ goroutine[s] = "ending"
    /\ streams' = [streams EXCEPT ![StreamDevice[s]] = NoStream]
    /\ goroutine' = [goroutine EXCEPT ![s] = "done"]
    /\ UNCHANGED cancelled

LogsNext ==
    \/ \E s \in Streams :
          \/ HandleStartStream(s) \/ StreamCancelled(s)
          \/ StreamEnds(s) \/ RemoveStream(s)
    \/ \E d \in LogDevices : StopStream(d)

(* A goroutine whose context is cancelled is run: closing the context       *)
(* unblocks its read.  One that has returned runs its deferred calls.       *)
LogsFairness == \A s \in Streams : WF_logVars(StreamCancelled(s) \/ RemoveStream(s))

LogsSpec == LogsInit /\ [][LogsNext]_logVars
LogsFairSpec == LogsSpec /\ LogsFairness

-----------------------------------------------------------------------------
(* The manager's entry for a device is a stream of that device that nobody  *)
(* has cancelled: cancelling and forgetting a stream happen under one lock, *)
(* so a stop never spends itself on a stream that was already cancelled     *)
(* while another one runs tracked.                                          *)
TrackedNotCancelled ==
    \A d \in LogDevices : streams[d] # NoStream =>
        StreamDevice[streams[d]] = d /\ streams[d] \notin cancelled

(* Only streams that were started are tracked or cancelled: what makes      *)
(* TrackedNotCancelled inductive.                                           *)
StartedOnly ==
    \A s \in Streams : goroutine[s] = "none" =>
        s \notin cancelled /\ streams[StreamDevice[s]] # s

(* A cancelled stream ends, whatever becomes of the manager's entry. *)
CancelledEnds == \A s \in Streams : s \in cancelled ~> goroutine[s] = "done"

(* "Enforces single stream per device constraint": at most one stream of a  *)
(* device runs with its context not cancelled.  The first stream's          *)
(* RemoveStream deletes the entry of the stream that replaced it, which no  *)
(* later start or stop can find.                                            *)
SingleStreamPerDevice ==
    \A d \in LogDevices : Cardinality(Running(d) \ cancelled) <= 1

(* Where it does hold: as long as no cancelled stream of the device has run *)
(* its deferred RemoveStream, every stream that runs on is the tracked one. *)
SingleBeforeRemovals ==
    \A d \in LogDevices :
        (\A s \in cancelled : StreamDevice[s] = d => goroutine[s] # "done")
            => Running(d) \ cancelled \subseteq {streams[d]}
=============================================================================
