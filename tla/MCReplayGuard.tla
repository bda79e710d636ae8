---------------------------- MODULE MCReplayGuard ----------------------------
(***************************************************************************)
(* ReplayGuard on small instances: model values for guards, threads and    *)
(* missions; all three are interchangeable.                                *)
(***************************************************************************)
EXTENDS ReplayGuard, TLC

Symmetry == Permutations(Guards) \cup Permutations(Threads)
              \cup Permutations(Missions)
=============================================================================
