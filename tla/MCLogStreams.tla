---------------------------- MODULE MCLogStreams ----------------------------
(* Instances of LogStreams for TLC. *)
EXTENDS LogStreams

CONSTANTS d1, d2, s1, s2, s3, s4

\* Three streams of one device and one of another.
MCDeviceOf == [s \in Streams |-> IF s = s4 THEN d2 ELSE d1]
=============================================================================
