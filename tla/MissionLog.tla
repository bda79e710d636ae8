------------------------------ MODULE MissionLog -------------------------------
(***************************************************************************)
(* The books of flown missions.                                            *)
(*                                                                         *)
(* dronesync/mission_history.py: a list of entries, each hashed together   *)
(* with the hash of the one before.  The list is a public attribute, so    *)
(* that anything may happen to it between two calls.  A hash is the        *)
(* sequence of what was hashed into it.                                    *)
(*                                                                         *)
(* dronesync/economics.py: the rewards of a miner, with a bonus for        *)
(* missions that go well one after the other; of two miners, to compare    *)
(* them.  Scores are percent, rewards ten-thousandths of a KNX, tiers      *)
(* tenths.                                                                 *)
(***************************************************************************)
EXTENDS Integers, Sequences, SequencesExt, FiniteSetsExt

CONSTANTS
  Points,      \* scores of missions
  MaxLogged,   \* bound on the missions added to a history
  MaxEdits,    \* bound on the changes of the list
  Multipliers, \* tenths by which a tier multiplies
  Breaches,    \* safety violations of a mission
  MaxBonus,    \* MAX_STREAK_BONUS in ten-thousandths
  MaxRewards   \* bound on the missions paid

\* Scores, multipliers and breaches are not negative.
ASSUME MissionLogAssumption ==
  /\ Points \subseteq Nat /\ Multipliers \subseteq Nat /\ Breaches \subseteq Nat
  /\ MaxBonus \in Nat

VARIABLES
  log,      \* MissionHistory.missions: [score, prev, hash]
  tip,      \* _chain_hash
  added,    \* history: the scores that were added
  edits,    \* changes of the list so far
  better,   \* a calculator: [streak, total]
  worse,    \* one whose missions were never better: the same
  rewards   \* missions each was paid for

logVars == <<log, tip, added, edits>>
rewardVars == <<better, worse, rewards>>

Zero == << >>
Hash(prev, score) == Append(prev, score)

LogInit ==
  /\ log = << >>
  /\ tip = Zero
  /\ added = << >>
  /\ edits = 0

AddEntry(score) ==
  /\ Len(added) < MaxLogged
  /\ log' = Append(log, [score |-> score, prev |-> tip, hash |-> Hash(tip, score)])
  /\ tip' = Hash(tip, score)
  /\ added' = Append(added, score)
  /\ UNCHANGED edits

\* An entry lost, two swapped, or one with another score or another prev_hash.
Changes ==
  {RemoveAt(log, i) : i \in DOMAIN log}
    \cup {[log EXCEPT ![i] = log[i + 1], ![i + 1] = log[i]] : i \in 1 .. Len(log) - 1}
    \cup {[log EXCEPT ![i].score = s] : i \in DOMAIN log, s \in Points}
    \cup {[log EXCEPT ![i].prev = Zero] : i \in DOMAIN log}

EditLog ==
  /\ edits < MaxEdits
  /\ edits' = edits + 1
  /\ log' \in Changes
  /\ UNCHANGED <<tip, added>>

LogNext == (\E score \in Points : AddEntry(score)) \/ EditLog

\* verify_chain: the prev_hash of an entry is put aside for the hash of the entry
\* before.
ChainValid ==
  \A i \in DOMAIN log :
     log[i].hash = Hash(IF i = 1 THEN Zero ELSE log[i - 1].hash, log[i].score)

-----------------------------------------------------------------------------
NewCalculator == [streak |-> 0, total |-> 0]

RewardsInit ==
  /\ better = NewCalculator
  /\ worse = NewCalculator
  /\ rewards = 0

\* The grade comes from the score; the streak counts this mission too.
Streak(calc, score) == IF score >= 70 THEN calc.streak + 1 ELSE 0

\* base * score_mult * tier_mult + streak_bonus - penalty, and never below zero.
Reward(streak, score, tier, breaches) ==
  Max({0, (500 + 15 * score) * tier + Min({MaxBonus, 200 * streak})
          - Min({5000, 500 * breaches})})

Paid(calc, score, tier, breaches) ==
  LET streak == Streak(calc, score)
  IN  [streak |-> streak, total |-> calc.total + Reward(streak, score, tier, breaches)]

\* calculate, once for each miner.
Calculate(good, bad, tier, few, many) ==
  /\ rewards < MaxRewards
  /\ rewards' = rewards + 1
  /\ better' = Paid(better, good, tier, few)
  /\ worse' = Paid(worse, bad, tier, many)

RewardsNext ==
  \E good, bad \in Points, tier \in Multipliers, few, many \in Breaches :
     good >= bad /\ few <= many /\ Calculate(good, bad, tier, few, many)

-----------------------------------------------------------------------------
(* Properties *)

\* A history whose chain verifies holds missions that were added, from the first
\* on and in order: what it may lack, whatever happened to the list, is the end;
\* and it does verify when nothing happened (mission_history.py:40-51).
ChainTrusted ==
  /\ ChainValid => IsPrefix([i \in DOMAIN log |-> log[i].score], added)
  /\ edits = 0 => ChainValid /\ Len(log) = Len(added)

\* Whoever flies no mission worse than the other and breaks no more rules is never
\* paid less, at any time: neither the bonus of a streak nor a penalty turns the
\* order round (economics.py:71-126).
BetterEarnsMore == better.total >= worse.total
=============================================================================
