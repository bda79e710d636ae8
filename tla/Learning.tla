------------------------------- MODULE Learning --------------------------------
(***************************************************************************)
(* What drones learn from their flights.                                   *)
(*                                                                         *)
(* miner/planner.py, AIPlanner: the weights a handler's planner keeps in a *)
(* dict, changes after each mission and reads to plan the next one; the    *)
(* dashboard's background thread and its requests fly with one handler, so *)
(* that a lesson's steps meet the steps of another, without a lock.        *)
(*                                                                         *)
(* dronesync/federated_learning.py: a swarm of models that train on their  *)
(* own flights and then share an average, and the planners that are given  *)
(* it (demo_federated.py).                                                 *)
(*                                                                         *)
(* Weights are in thousandths, to which the planner rounds them.           *)
(***************************************************************************)
EXTENDS Integers, Sequences, FiniteSets, SequencesExt, FiniteSetsExt

CONSTANTS
  Pilots,       \* threads that fly with one handler
  Heights,      \* altitudes of waypoints, in metres
  Results,      \* scores of flights
  OldWeights,   \* weights a planner may have come to by many lessons
  MaxLessons,   \* bound on the flights of the handler
  Trainers,     \* drones that learn together
  MinTrainers,  \* min_drones
  Flights,      \* what a drone may have flown in a round: records in sequence
  MaxRounds     \* bound on the rounds

VARIABLES
  learned,   \* learned_weights of the shared planner
  lesson,    \* each thread's steps: [at, score, weight, total, course]
  lessons,   \* flights begun
  met,       \* history: has a lesson begun inside another
  last,      \* history: the last lesson's score and the weights before it
  local,     \* _weights of each LocalDroneModel
  samples,   \* its _n_samples
  average,   \* _global_weights of the aggregator, or NoAverage
  sent,      \* the weights the drones sent to be averaged last
  helm,      \* learned_weights of each drone's planner
  rounds     \* rounds run

lessonVars == <<learned, lesson, lessons, met, last>>
roundVars == <<local, samples, average, sent, helm, rounds>>

Whole == 1000
FirstWeights == [safety |-> 400, efficiency |-> 350, energy |-> 250]
Rounded(part, whole) == (2 * part + whole) \div (2 * whole)
Sum(w) == MapThenSumSet(LAMBDA k : w[k], DOMAIN w)

\* apply_global_weights and apply_federated_weights: of what the average names,
\* a model or a planner takes what it knows.
Applied(w, global) ==
  [k \in DOMAIN w |-> IF k \in DOMAIN global THEN global[k] ELSE w[k]]

\* Weights that the lessons of one thread may lead to.
Schooled(w) ==
  /\ w \in [DOMAIN FirstWeights -> 1 .. Whole]
  /\ w.safety <= 599 /\ w.efficiency <= 500 /\ 2 * w.energy <= w.safety + 100
  /\ LET sum == w.safety + w.efficiency + w.energy
     IN  /\ sum \in Whole - 1 .. Whole + 1
         /\ sum < Whole => w.safety <= 598 /\ w.efficiency <= 499
         /\ sum > Whole => 2 * w.energy < w.safety + 100

\* Numbers, earlier weights that lessons lead to, and flights that are lists.
ASSUME LearningAssumption ==
  /\ Heights \subseteq Int /\ Results \subseteq Int
  /\ \A w \in OldWeights : Schooled(w)
  /\ IsFiniteSet(Trainers)
  /\ MinTrainers \in Int
  /\ \A flown \in Flights :
       /\ flown \in Seq({flown[i] : i \in DOMAIN flown})
       /\ \A i \in DOMAIN flown :
            flown[i].score \in Int /\ \A f \in DOMAIN flown[i].values : flown[i].values[f] \in Int

-----------------------------------------------------------------------------
(* The planner of a handler *)

Ready == [at |-> "ready", score |-> 0, weight |-> 0, total |-> 0, course |-> 0,
          scaled |-> FirstWeights]

LessonsInit ==
  /\ learned \in {FirstWeights} \cup OldWeights
  /\ lesson = [t \in Pilots |-> Ready]
  /\ lessons = 0
  /\ met = FALSE
  /\ last = [score |-> 80, before |-> learned]

Advance(t, changes) == lesson' = [lesson EXCEPT ![t] = Applied(lesson[t], changes)]

\* What a score teaches: the weight that is raised, and how far.
NoLesson == {}
GoodScore == {[key |-> "efficiency", step |-> 20, most |-> 500]}
BadScore == {[key |-> "safety", step |-> 50, most |-> 600]}
Teaches(score) ==
  IF score >= 90 THEN GoodScore ELSE IF score < 70 THEN BadScore ELSE NoLesson

\* plan_trajectory: a waypoint is at least 30 m times the weight of safety high,
\* here in millimetres; then the flight, and its score.
PlanAndFly(t, altitude, score) ==
  /\ lesson[t].at = "ready"
  /\ lessons < MaxLessons
  /\ lessons' = lessons + 1
  /\ Advance(t, [at |-> "raise", score |-> score,
            course |-> Max({1000 * altitude, 30 * learned.safety})])
  /\ UNCHANGED <<learned, met, last>>

\* min(0.50, self.learned_weights["efficiency"] + 0.02), and its like.
Raise(t) ==
  /\ lesson[t].at = "raise"
  /\ LET taught == Teaches(lesson[t].score)
     IN  IF taught = NoLesson THEN Advance(t, [at |-> "total", course |-> 0])
         ELSE \E l \in taught :
                Advance(t, [at |-> "store", course |-> 0,
                            weight |-> Min({l.most, learned[l.key] + l.step})])
  /\ met' = (met \/ \E u \in Pilots \ {t} : lesson[u].at \notin {"ready", "raise"})
  /\ last' = [score |-> lesson[t].score, before |-> learned]
  /\ UNCHANGED <<learned, lessons>>

\* The raised weight goes into the dict there is by now.
Store(t) ==
  /\ lesson[t].at = "store"
  /\ \E l \in Teaches(lesson[t].score) :
       learned' = [learned EXCEPT ![l.key] = lesson[t].weight]
  /\ Advance(t, [at |-> "total", weight |-> 0])
  /\ UNCHANGED <<lessons, met, last>>

\* Weights that add up to nothing are left alone.
Total(t) ==
  /\ lesson[t].at = "total"
  /\ IF Sum(learned) > 0
     THEN Advance(t, [at |-> "scale", score |-> 0, total |-> Sum(learned)])
     ELSE Advance(t, Ready)
  /\ UNCHANGED <<learned, lessons, met, last>>

\* Faulty variant: the weights are scaled by their total before the lesson.
ScaleByWhole(t) ==
  /\ lesson[t].at = "scale"
  /\ Advance(t, [at |-> "replace", total |-> 0, scaled |-> learned])
  /\ UNCHANGED <<learned, lessons, met, last>>

\* {k: round(v / total, 3)}, from the dict there is by now ...
Scale(t) ==
  /\ lesson[t].at = "scale"
  /\ Advance(t, [at |-> "replace", total |-> 0,
                 scaled |-> [k \in DOMAIN learned |-> Rounded(Whole * learned[k], lesson[t].total)]])
  /\ UNCHANGED <<learned, lessons, met, last>>

\* ... which the new one replaces.
Replace(t) ==
  /\ lesson[t].at = "replace"
  /\ learned' = lesson[t].scaled
  /\ Advance(t, Ready)
  /\ UNCHANGED <<lessons, met, last>>

LessonsNext ==
  \E t \in Pilots :
     \/ \E altitude \in Heights, score \in Results : PlanAndFly(t, altitude, score)
     \/ Raise(t) \/ Store(t) \/ Total(t) \/ Scale(t) \/ Replace(t)

-----------------------------------------------------------------------------
(* The federated swarm *)

Features == {"avg_speed", "avg_altitude", "battery_efficiency",
             "obstacle_avoidance_rate", "path_deviation", "weather_impact"}
NoAverage == [f \in {} |-> 0]

RoundsInit ==
  /\ local = [d \in Trainers |-> [f \in Features |-> 500]]
  /\ samples = [d \in Trainers |-> 0]
  /\ average = NoAverage
  /\ sent = local
  /\ helm = [d \in Trainers |-> FirstWeights]
  /\ rounds = 0

Clamped(w) == Max({0, Min({Whole, w})})

\* One flight record: weight += 0.1 * (score - 0.5) * feature.
Trained(w, record) ==
  [f \in Features |->
     IF f \in DOMAIN record.values
     THEN Clamped(w[f] + ((record.score - 50) * record.values[f]) \div Whole)
     ELSE w[f]]

\* aggregate: each drone counts as often as it ever had records.
Averaged(weights, counts) ==
  IF Cardinality(Trainers) < MinTrainers \/ Sum(counts) = 0 THEN NoAverage
  ELSE [f \in Features |->
          Rounded(Sum([d \in Trainers |-> counts[d] * weights[d][f]]), Sum(counts))]

\* run_round, and the planners are given what it returns.
RunRound(flown) ==
  LET trained == [d \in Trainers |-> FoldLeft(Trained, local[d], flown[d])]
      counts  == [d \in Trainers |-> samples[d] + Len(flown[d])]
      global  == Averaged(trained, counts)
  IN  /\ rounds < MaxRounds
      /\ rounds' = rounds + 1
      /\ samples' = counts
      /\ sent' = trained
      /\ average' = IF global = NoAverage THEN average ELSE global
      /\ local' = [d \in Trainers |-> Applied(trained[d], global)]
      /\ helm' = [d \in Trainers |-> Applied(helm[d], global)]

RoundsNext == \E flown \in [Trainers -> Flights] : RunRound(flown)

-----------------------------------------------------------------------------
(* Properties *)

\* The types of the weights, of the lessons under way and of the swarm.
LearningTypeOK ==
  /\ learned \in [DOMAIN FirstWeights -> Nat]
  /\ \A t \in Pilots : lesson[t].at \in {"ready", "raise", "store", "total", "scale", "replace"}
  /\ local \in [Trainers -> [Features -> 0 .. Whole]]
  /\ samples \in [Trainers -> Nat]

\* As long as no two lessons met, a lesson leaves weights that make up a whole
\* to one thousandth, and does not take back what it teaches: a bad score never
\* makes the planner fly lower, a good one never makes it slower, also when a
\* weight is at its cap; and no flight is planned below 9 m (planner.py:215-240).
LessonsTaken ==
  (\A t \in Pilots : lesson[t].at \in {"ready", "raise"}) /\ ~met =>
    /\ Sum(learned) \in Whole - 1 .. Whole + 1
    /\ \A l \in Teaches(last.score) : learned[l.key] >= last.before[l.key]
    /\ \A t \in Pilots : lesson[t].at = "raise" => lesson[t].course >= 9000

\* Once there is an average, all models of the swarm have it, and no weight in it
\* is outside what the drones that have flown had sent: a drone that never flew
\* does not count (federated_learning.py:138-153, 212-216).
SwarmAgrees ==
  average # NoAverage =>
    /\ \A d \in Trainers : local[d] = average
    /\ \A f \in Features :
         LET votes == {sent[d][f] : d \in {e \in Trainers : samples[e] > 0}}
         IN  average[f] \in Min(votes) .. Max(votes)

\* What drones learn, alone and together (planner.py:215-230,
\* federated_learning.py:129-218).
LearnedRight == LessonsTaken /\ SwarmAgrees
=============================================================================
