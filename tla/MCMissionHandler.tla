--------------------------- MODULE MCMissionHandler ---------------------------
(* Bounded instances of MissionHandler for TLC. *)
EXTENDS MissionHandler, TLC

\* A score that keeps the reputation and one that lowers it below a tier.
MCScores == {40, 60}

Symmetry == Permutations(Threads) \cup Permutations(Missions)
=============================================================================
