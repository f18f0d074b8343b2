---------------------------- MODULE MCFederation ----------------------------
(* Instances of Federation for TLC. *)
EXTENDS Federation

CONSTANTS p1, p2, p3, a1, a2

\* a1 has one host, a2 (the same image run by two instances) has two.
MCHosts == [s \in FedServices |-> IF s = a1 THEN {p1} ELSE {p1, p2}]
=============================================================================
