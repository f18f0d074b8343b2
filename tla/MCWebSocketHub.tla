--------------------------- MODULE MCWebSocketHub ---------------------------
(* Instances of WebSocketHub for TLC. *)
EXTENDS WebSocketHub

CONSTANTS d1, p1, p2, bad

\* All connections belong to one device: different devices share nothing
\* but the lock.
MCDeviceOf == [c \in Conns |-> d1]

MCInvalidOnes == {bad} \cap Patterns
=============================================================================
