---------------------------- MODULE MCDistribution ----------------------------
(* A small instance of Distribution for TLC. *)
EXTENDS Distribution, TLC

Symmetry == Permutations(Dist)
=============================================================================
