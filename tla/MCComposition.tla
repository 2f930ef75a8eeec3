--------------------------- MODULE MCComposition ---------------------------
(* Instances of Composition for TLC. *)
EXTENDS Composition, TLC

CONSTANTS u1, u2, d1, d2

Interchangeable == Permutations(Users)
============================================================================
