------------------------------ MODULE Reputation ------------------------------
(***************************************************************************)
(* dronesync/reputation.py: the score of a drone, 0 to 100, moved by every *)
(* mission it flies, and the tier that follows from it.  record_mission    *)
(* reads the score, computes and writes it back without a lock; the module *)
(* that composes it decides what may happen in between.                    *)
(***************************************************************************)
EXTENDS Integers

BaseScore == 50
MaxScore == 100
MinScore == 0
ReputationScores == MinScore..MaxScore

Tiers == {"ELITE", "TRUSTED", "ACTIVE", "ROOKIE"}

Smaller(a, b) == IF a <= b THEN a ELSE b
Larger(a, b) == IF a >= b THEN a ELSE b

ComputeTier(score) ==
  CASE score >= 90 -> "ELITE"
    [] score >= 75 /\ score < 90 -> "TRUSTED"
    [] score >= 50 /\ score < 75 -> "ACTIVE"
    [] score < 50 -> "ROOKIE"

\* What a mission earns: an unsafe one costs 10 whatever its score.
Earned(missionScore, missionSafe) ==
  CASE ~missionSafe -> -10
    [] missionSafe /\ missionScore >= 95 -> 3
    [] missionSafe /\ missionScore \in 80..94 -> 1
    [] missionSafe /\ missionScore < 60 -> -3
    [] missionSafe /\ missionScore \in 60..79 -> 0

UpdatedScore(score, missionScore, missionSafe) ==
  Larger(MinScore, Smaller(MaxScore, score + Earned(missionScore, missionSafe)))
=============================================================================
