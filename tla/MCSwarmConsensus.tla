--------------------------- MODULE MCSwarmConsensus ---------------------------
(***************************************************************************)
(* SwarmConsensus on small instances; the drones are interchangeable.      *)
(***************************************************************************)
EXTENDS SwarmConsensus, TLC

Symmetry == Permutations(Drones)
=============================================================================
