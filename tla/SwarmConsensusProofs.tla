------------------------- MODULE SwarmConsensusProofs -------------------------
(***************************************************************************)
(* Proofs about SwarmConsensus for any finite swarm, threshold and number  *)
(* of rounds: no history of votes leaves the swarm without a drone.        *)
(***************************************************************************)
EXTENDS SwarmConsensus, FiniteSetTheorems, TLAPS

LEMMA InitTyped == Init => TypeOK
  BY SwarmAssumption DEF Init, TypeOK, NoCounts

LEMMA CastingInside ==
  ASSUME NEW ballot, NEW vote
  PROVE  Casting(ballot, vote) \subseteq Active /\ Active \subseteq Drones
  BY DEF Casting, Active

LEMMA BumpTyped ==
  ASSUME NEW count \in [Drones -> Nat], NEW S
  PROVE  Bump(count, S) \in [Drones -> Nat]
  BY DEF Bump

LEMMA StepTyped == TypeOK /\ [Next]_vars => TypeOK'
<1> SUFFICES ASSUME TypeOK, [Next]_vars PROVE TypeOK'
  OBVIOUS
<1> USE DEF TypeOK
<1>1. ASSUME NEW d \in Drones, NEW t \in Tiers, SetTier(d, t) PROVE TypeOK'
  BY <1>1 DEF SetTier
<1>2. ASSUME NEW ballot \in Ballots, RouteVote(ballot) PROVE TypeOK'
  <2> DEFINE counts == Bump(IF KeepDetector THEN against ELSE NoCounts, Against(ballot))
  <2> DEFINE caught == {d \in Against(ballot) : counts[d] >= Threshold}
  <2>1. counts \in [Drones -> Nat]
    BY BumpTyped DEF NoCounts
  <2>2. caught \subseteq Drones
    BY CastingInside DEF Against
  <2>3. /\ overruled' \in [Drones -> Nat]
        /\ contrary' \in [Drones -> Nat]
    BY <1>2, BumpTyped DEF RouteVote
  <2>4. /\ against' = counts
        /\ blacklist' = blacklist \cup caught
        /\ banned' = banned \cup caught
        /\ rounds' = rounds + 1
        /\ tier' = tier
    BY <1>2 DEF RouteVote
  <2> HIDE DEF counts, caught
  <2> QED
    BY <2>1, <2>2, <2>3, <2>4
<1>3. ASSUME NEW suspect \in Drones, NEW ballot \in Ballots,
             BlacklistVote(suspect, ballot)
      PROVE  TypeOK'
  <2>1. blacklist' = blacklist \/ blacklist' = blacklist \cup {suspect}
    BY <1>3 DEF BlacklistVote
  <2>2. rounds' = rounds + 1 /\ UNCHANGED <<tier, against, overruled, contrary, banned>>
    BY <1>3 DEF BlacklistVote
  <2> QED
    BY <2>1, <2>2
<1>4. CASE UNCHANGED vars
  BY <1>4 DEF vars
<1> QED
  BY <1>1, <1>2, <1>3, <1>4 DEF Next

(***************************************************************************)
(* Tiers, lists and counts hold what they should.                          *)
(***************************************************************************)
THEOREM TypeCorrect == Spec => []TypeOK
  BY InitTyped, StepTyped, PTL DEF Spec

-----------------------------------------------------------------------------
(* Weights *)

LEMMA CountTyped ==
  ASSUME NEW S \in SUBSET Drones, NEW t
  PROVE  /\ Count(S, t) \in Nat
         /\ \A d \in S : tier[d] = t => Count(S, t) > 0
<1> DEFINE T == {d \in S : tier[d] = t}
<1>1. IsFiniteSet(T)
  <2>1. T \in SUBSET Drones
    OBVIOUS
  <2> QED
    BY <2>1, SwarmAssumption, FS_Subset
<1>2. Cardinality(T) \in Nat
  BY <1>1, FS_CardinalityType
<1>3. T # {} => Cardinality(T) # 0
  BY <1>1, FS_EmptySet
<1> QED
  BY <1>2, <1>3 DEF Count

LEMMA NobodyWeighsNothing == Weight({}) = 0
<1>1. ASSUME NEW t PROVE Count({}, t) = 0
  <2>1. {d \in {} : tier[d] = t} = {}
    OBVIOUS
  <2> QED
    BY <2>1, FS_EmptySet DEF Count
<1> QED
  BY <1>1 DEF Weight

LEMMA SomebodyWeighs ==
  ASSUME TypeOK, NEW S \in SUBSET Drones, S # {}
  PROVE  Weight(S) \in Nat /\ Weight(S) > 0
<1>1. PICK d \in S : TRUE
  OBVIOUS
<1>2. tier[d] \in {"ELITE", "TRUSTED", "ACTIVE", "ROOKIE"}
  BY SwarmAssumption DEF TypeOK
<1>3. /\ Count(S, "ELITE") \in Nat /\ Count(S, "TRUSTED") \in Nat
      /\ Count(S, "ACTIVE") \in Nat /\ Count(S, "ROOKIE") \in Nat
  BY CountTyped
<1>4. \A t : tier[d] = t => Count(S, t) > 0
  BY <1>1, CountTyped
<1>5. \/ Count(S, "ELITE") > 0
      \/ Count(S, "TRUSTED") > 0
      \/ Count(S, "ACTIVE") > 0
      \/ Count(S, "ROOKIE") > 0
  BY <1>2, <1>4
<1>6. ASSUME NEW a \in Nat, NEW b \in Nat, NEW c \in Nat, NEW e \in Nat
      PROVE  /\ 4 * a + 3 * b + 2 * c + e \in Nat
             /\ a > 0 \/ b > 0 \/ c > 0 \/ e > 0 => 4 * a + 3 * b + 2 * c + e > 0
  OBVIOUS
<1> QED
  BY <1>3, <1>5, <1>6 DEF Weight

-----------------------------------------------------------------------------
(* Someone is left *)

\* Not every active drone can have voted against the outcome.
LEMMA OutcomeHasSupport ==
  ASSUME TypeOK, Active # {}, NEW ballot \in Ballots
  PROVE  Active \ Against(ballot) # {}
<1>1. Weight(Active) \in Nat /\ Weight(Active) > 0
  BY SomebodyWeighs, CastingInside
<1>2. CASE Approved(ballot)
  <2> SUFFICES ASSUME Active \subseteq Casting(ballot, FALSE) PROVE FALSE
    BY <1>2 DEF Against
  <2>1. Casting(ballot, TRUE) = {}
    BY DEF Casting
  <2>2. Quorum(0, Weight(Active))
    BY <1>2, <2>1, NobodyWeighsNothing DEF Approved
  <2> QED
    BY <1>1, <2>2 DEF Quorum
<1>3. CASE ~Approved(ballot)
  <2> SUFFICES ASSUME Active \subseteq Casting(ballot, TRUE) PROVE FALSE
    BY <1>3 DEF Against
  <2>1. Casting(ballot, TRUE) = Active
    BY CastingInside
  <2>2. ~Quorum(Weight(Active), Weight(Active))
    BY <1>3, <2>1 DEF Approved
  <2> QED
    BY <1>1, <2>2 DEF Quorum
<1> QED
  BY <1>2, <1>3

(***************************************************************************)
(* Whatever the ballots, the tiers and the detector do, a drone stays      *)
(* active: a round blacklists only drones that voted against its outcome,  *)
(* and an outcome every active drone voted against is impossible.          *)
(***************************************************************************)
THEOREM SwarmSurvives == Spec => []SomeoneLeft
<1>1. Init => TypeOK /\ SomeoneLeft
  BY InitTyped, SwarmAssumption DEF Init, SomeoneLeft, Active
<1>2. TypeOK /\ SomeoneLeft /\ [Next]_vars => TypeOK' /\ SomeoneLeft'
  <2> SUFFICES ASSUME TypeOK, Active # {}, [Next]_vars PROVE Active' # {}
    BY StepTyped DEF SomeoneLeft
  <2>1. ASSUME NEW d \in Drones, NEW t \in Tiers, SetTier(d, t) PROVE Active' # {}
    BY <2>1 DEF SetTier, Active
  <2>2. ASSUME NEW ballot \in Ballots, RouteVote(ballot) PROVE Active' # {}
    <3>1. PICK caught \in SUBSET Against(ballot) : blacklist' = blacklist \cup caught
      BY <2>2 DEF RouteVote
    <3>2. Active \ Against(ballot) # {}
      BY OutcomeHasSupport
    <3> QED
      BY <3>1, <3>2 DEF Active
  <2>3. ASSUME NEW suspect \in Drones, NEW ballot \in Ballots,
               BlacklistVote(suspect, ballot)
        PROVE  Active' # {}
    BY <2>3 DEF BlacklistVote, Active
  <2>4. CASE UNCHANGED vars
    BY <2>4 DEF vars, Active
  <2> QED
    BY <2>1, <2>2, <2>3, <2>4 DEF Next
<1> QED
  BY <1>1, <1>2, PTL DEF Spec
-----------------------------------------------------------------------------
(* Dissent is noticed *)

\* A detector that lives on counts what really happened.
Counted == against = overruled /\ DissentNoticed

LEMMA StepCounted ==
  ASSUME KeepDetector, TypeOK, Counted, [Next]_vars
  PROVE  Counted'
<1>1. ASSUME NEW ballot \in Ballots, RouteVote(ballot) PROVE Counted'
  <2>1. PICK caught : /\ caught = {d \in Against(ballot) : Bump(against, Against(ballot))[d] >= Threshold}
                      /\ blacklist' = blacklist \cup caught
    BY <1>1 DEF RouteVote
  <2>2. against' = Bump(against, Against(ballot)) /\ overruled' = against'
    BY <1>1 DEF RouteVote, Counted
  <2>3. Against(ballot) \subseteq Drones
    BY CastingInside DEF Against
  <2>4. ASSUME NEW d \in Drones, overruled'[d] >= Threshold PROVE d \in blacklist'
    <3>1. CASE d \in Against(ballot)
      BY <2>1, <2>2, <2>4, <3>1
    <3>2. CASE d \notin Against(ballot)
      <4>1. overruled'[d] = overruled[d]
        BY <2>2, <3>2 DEF Bump, Counted
      <4>2. d \in blacklist
        BY <2>4, <4>1 DEF Counted, DissentNoticed
      <4> QED
        BY <2>1, <4>2
    <3> QED
      BY <3>1, <3>2
  <2> QED
    BY <2>2, <2>4 DEF Counted, DissentNoticed
<1>2. ASSUME NEW suspect \in Drones, NEW ballot \in Ballots,
             BlacklistVote(suspect, ballot)
      PROVE  Counted'
  <2>1. blacklist \subseteq blacklist' /\ UNCHANGED <<against, overruled>>
    BY <1>2 DEF BlacklistVote
  <2> QED
    BY <2>1 DEF Counted, DissentNoticed
<1>3. ASSUME NEW d \in Drones, NEW t \in Tiers, SetTier(d, t) PROVE Counted'
  BY <1>3 DEF SetTier, Counted, DissentNoticed
<1>4. CASE UNCHANGED vars
  BY <1>4 DEF vars, Counted, DissentNoticed
<1> QED
  BY <1>1, <1>2, <1>3, <1>4 DEF Next

(***************************************************************************)
(* With one detector for all rounds, whoever voted against the outcome as  *)
(* often as the threshold says is blacklisted, whatever the ballots, tiers *)
(* and other votes (analyze, swarm_consensus.py:156-169).                  *)
(***************************************************************************)
THEOREM DissentCaught ==
  ASSUME KeepDetector
  PROVE  Spec => []DissentNoticed
<1>1. Init => TypeOK /\ Counted
  BY InitTyped, SwarmAssumption DEF Init, Counted, DissentNoticed, NoCounts
<1>2. TypeOK /\ Counted /\ [Next]_vars => (TypeOK /\ Counted)'
  BY StepTyped, StepCounted
<1>3. Counted => DissentNoticed
  BY DEF Counted
<1> QED
  BY <1>1, <1>2, <1>3, PTL DEF Spec
=============================================================================
