------------------------------ MODULE MCProbes ------------------------------
(* Instances of Probes for TLC. *)
EXTENDS Probes, TLC

CONSTANTS n1, n2, p1, p2, p3, f1, f2

Interchangeable == Permutations(Probers) \cup Permutations(Flights)
=============================================================================
