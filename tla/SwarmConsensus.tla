---------------------------- MODULE SwarmConsensus ----------------------------
(***************************************************************************)
(* dronesync/swarm_consensus.py: route and blacklist votes of a swarm,     *)
(* weighted by reputation tier, and the ByzantineDetector that counts how  *)
(* often a drone's vote differs from the outcome and blacklists it.        *)
(*                                                                         *)
(* A ballot lists the drones that voted and how.  A drone may be missing   *)
(* from it: SwarmSynapseHandler (synapse.py:322-326) leaves out those whose *)
(* own mission did not end well.  The handler also makes a new detector    *)
(* for every task (synapse.py:331); KeepDetector says whether the detector *)
(* lives on.                                                               *)
(***************************************************************************)
EXTENDS Integers, FiniteSets

CONSTANTS
  Drones,        \* drone_ids
  Tiers,         \* the tiers drones are registered with
  Threshold,     \* BYZANTINE_THRESHOLD
  KeepDetector,  \* whether one detector sees all rounds
  MaxRounds      \* bound on the votes held

ASSUME SwarmAssumption ==
  /\ IsFiniteSet(Drones) /\ Drones # {}
  /\ Tiers \subseteq {"ELITE", "TRUSTED", "ACTIVE", "ROOKIE"} /\ "ROOKIE" \in Tiers
  /\ Threshold \in Nat \ {0}
  /\ KeepDetector \in BOOLEAN
  /\ MaxRounds \in Nat

VARIABLES
  tier,       \* _reputation
  blacklist,  \* SwarmConsensus.blacklist
  against,    \* _against_majority of the detector
  rounds,     \* len(votes_log)
  overruled,  \* history: rounds in which a drone voted against the outcome
  contrary,   \* history: rounds in which it voted against most of the weight cast
  banned      \* history: drones the detector blacklisted

vars == <<tier, blacklist, against, rounds, overruled, contrary, banned>>

Ballots == UNION {[voters -> BOOLEAN] : voters \in SUBSET Drones}
NoCounts == [d \in Drones |-> 0]

Init ==
  /\ tier = [d \in Drones |-> "ROOKIE"]
  /\ blacklist = {}
  /\ against = NoCounts
  /\ rounds = 0
  /\ overruled = NoCounts
  /\ contrary = NoCounts
  /\ banned = {}

-----------------------------------------------------------------------------
(* Helpers *)

Active == Drones \ blacklist

\* _total_weight, with TIER_WEIGHTS
Count(S, t) == Cardinality({d \in S : tier[d] = t})
Weight(S) ==
  4 * Count(S, "ELITE") + 3 * Count(S, "TRUSTED") + 2 * Count(S, "ACTIVE")
    + Count(S, "ROOKIE")

\* Those whose vote counts, by the vote they cast.
Casting(ballot, vote) == {d \in DOMAIN ballot \cap Active : ballot[d] = vote}

\* rate >= QUORUM, as integers
Quorum(weight, total) == 100 * weight >= 67 * total

\* Faulty variant: the total includes the drones on the blacklist.
ApprovedOfAll(ballot) == Quorum(Weight(Casting(ballot, TRUE)), Weight(Drones))

\* vote_on_route: "APPROVED"
Approved(ballot) == Quorum(Weight(Casting(ballot, TRUE)), Weight(Active))

\* analyze: the drones whose vote is not the outcome's
Against(ballot) == Casting(ballot, ~Approved(ballot))

\* Those who voted against the larger part of the weight cast.
Minority(ballot) ==
  LET yes == Casting(ballot, TRUE)
      no  == Casting(ballot, FALSE)
  IN  {d \in yes : Weight(yes) < Weight(no)} \cup {d \in no : Weight(no) < Weight(yes)}

Bump(count, S) == [d \in Drones |-> IF d \in S THEN count[d] + 1 ELSE count[d]]

-----------------------------------------------------------------------------
(* Actions *)

\* register_drone_reputation
SetTier(d, t) ==
  /\ tier' = [tier EXCEPT ![d] = t]
  /\ UNCHANGED <<blacklist, against, rounds, overruled, contrary, banned>>

\* Faulty variant: the drone is reported as blacklisted, and stays off the list.
RouteVoteReportsOnly(ballot) ==
  LET counts == Bump(IF KeepDetector THEN against ELSE NoCounts, Against(ballot))
      caught == {d \in Against(ballot) : counts[d] >= Threshold}
  IN  /\ rounds < MaxRounds
      /\ Active # {}
      /\ rounds' = rounds + 1
      /\ against' = counts
      /\ banned' = banned \cup caught
      /\ overruled' = Bump(overruled, Against(ballot))
      /\ contrary' = Bump(contrary, Minority(ballot))
      /\ UNCHANGED <<tier, blacklist>>

\* vote_on_route, and analyze of its result.
RouteVote(ballot) ==
  LET counts == Bump(IF KeepDetector THEN against ELSE NoCounts, Against(ballot))
      caught == {d \in Against(ballot) : counts[d] >= Threshold}
  IN  /\ rounds < MaxRounds
      /\ Active # {}
      /\ rounds' = rounds + 1
      /\ against' = counts
      /\ blacklist' = blacklist \cup caught
      /\ banned' = banned \cup caught
      /\ overruled' = Bump(overruled, Against(ballot))
      /\ contrary' = Bump(contrary, Minority(ballot))
      /\ UNCHANGED tier

\* vote_blacklist: the weight for it is that of every vote not blacklisted, the
\* total that of the active drones other than the suspect.
BlacklistVote(suspect, ballot) ==
  /\ rounds < MaxRounds
  /\ Active \ {suspect} # {}
  /\ rounds' = rounds + 1
  /\ blacklist' = IF Quorum(Weight(Casting(ballot, TRUE)), Weight(Active \ {suspect}))
                  THEN blacklist \cup {suspect} ELSE blacklist
  /\ UNCHANGED <<tier, against, overruled, contrary, banned>>

Next ==
  \/ \E d \in Drones, t \in Tiers : SetTier(d, t)
  \/ \E ballot \in Ballots : RouteVote(ballot)
  \/ \E suspect \in Drones, ballot \in Ballots : BlacklistVote(suspect, ballot)

Spec == Init /\ [][Next]_vars

-----------------------------------------------------------------------------
(* Properties *)

TypeOK ==
  /\ tier \in [Drones -> Tiers]
  /\ blacklist \subseteq Drones
  /\ against \in [Drones -> Nat]
  /\ rounds \in Nat
  /\ overruled \in [Drones -> Nat]
  /\ contrary \in [Drones -> Nat]
  /\ banned \subseteq blacklist

\* The swarm never votes itself out of existence: whatever the ballots, tiers and
\* detector, some drone stays active, and "no_active_drones"
\* (swarm_consensus.py:41-42, 84-85) is not answered for ever after.
SomeoneLeft == Active # {}

\* A drone that voted against the outcome as often as the threshold says is
\* blacklisted, as long as one detector sees every round (analyze, lines 156-169).
DissentNoticed ==
  \A d \in Drones : overruled[d] >= Threshold => d \in blacklist

\* "Flags drones that consistently vote against the majority": a drone the detector
\* blacklisted did vote, that often, against most of the weight cast.
MajorityNotPunished ==
  \A d \in banned : contrary[d] >= Threshold
=============================================================================
