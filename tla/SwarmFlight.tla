---------------------------- MODULE SwarmFlight -----------------------------
(***************************************************************************)
(* A simulated flight of a swarm (src/environment/sim.py): conflicts are   *)
(* predicted along all trajectories, and then each drone in turn climbs    *)
(* away from the others, whose new altitudes the later ones see.           *)
(*                                                                         *)
(* The swarm may have been planned by plan_swarm (src/miner/planner.py),   *)
(* which gives each drone a layer of altitude.  It raises the missions it  *)
(* is given, so that planning them again raises them again.                *)
(*                                                                         *)
(* A place is a point of a line, in metres; in the avoider's units, which  *)
(* take degrees for metres, all places are the same.  Altitudes are metres.*)
(***************************************************************************)
EXTENDS Integers, Sequences, FiniteSets, SequencesExt, FiniteSetsExt

CONSTANTS
  Fleet,      \* number of drones
  Spots,      \* places on the line
  Levels,     \* altitudes, the same or a layer or more apart
  MaxSteps,   \* bound on the length of a trajectory
  MaxPlans    \* bound on the plannings of one set of missions

\* Levels are flight levels: two of them are a layer of 10 m or more apart.
ASSUME LevelsAssumption ==
  /\ Fleet \in Nat \ {0}
  /\ Spots \subseteq Int
  /\ Levels \subseteq Nat
  /\ MaxSteps \in Nat /\ MaxPlans \in Nat
  /\ \A a, b \in Levels : a # b => a - b >= 10 \/ b - a >= 10

VARIABLES
  bases,      \* altitude of each mission's origin and destination
  plans,      \* how often plan_swarm has run
  clashes,    \* conflicts plan_swarm reported, as pairs
  paths,      \* positions of each drone; <<>> before a flight
  turn,       \* the drone that is next in the loop of run_swarm
  warned,     \* all_conflicts: steps and other drones
  climbs,     \* avoidance_maneuvers: the number for each drone
  sensed      \* altitude in each drone's sensor data

planningVars == <<bases, plans, clashes>>
swarmVars == <<paths, turn, warned, climbs, sensed>>

Swarm == 1 .. Fleet

Apart(p, q) == IF p < q THEN q - p ELSE p - q

SafeDistance == 50

Layer == 10

PlanningInit ==
  /\ bases = <<>>
  /\ plans = 0
  /\ clashes = {}

GiveMissions(given) ==
  /\ bases = <<>>
  /\ bases' = given
  /\ UNCHANGED <<plans, clashes>>

\* The avoider sees the starting points: it reports each pair from both sides,
\* and plan_swarm calls each of them resolved.
PlanSwarm ==
  /\ bases # <<>>
  /\ plans < MaxPlans
  /\ plans' = plans + 1
  /\ bases' = [d \in Swarm |-> bases[d] + (d - 1) * Layer]
  /\ clashes' = {p \in Swarm \X Swarm :
                   p[1] # p[2] /\ Apart((bases')[p[1]], (bases')[p[2]]) < Layer}

PlanningNext ==
  \/ \E given \in [Swarm -> Levels] : GiveMissions(given)
  \/ PlanSwarm

-----------------------------------------------------------------------------
SwarmInit ==
  /\ paths = <<>>
  /\ turn = 0
  /\ warned = [d \in Swarm |-> {}]
  /\ climbs = [d \in Swarm |-> 0]
  /\ sensed = [d \in Swarm |-> 0]

\* A drone that has arrived hovers.
Pad(path, n) == path \o [i \in 1 .. n - Len(path) |-> path[Len(path)]]

Close(p, q) == Apart(p.x, q.x) < SafeDistance

\* A conflict is noted for the drone with the lower number only.
Predicted(aligned, d) ==
  {p \in (DOMAIN aligned[d]) \X Swarm : d < p[2] /\ Close(aligned[d][p[1]], aligned[p[2]][p[1]])}

StartSwarm(given) ==
  /\ LET aligned == [d \in Swarm |-> Pad(given[d], Max({Len(given[e]) : e \in Swarm}))]
     IN  /\ paths' = aligned
         /\ warned' = [d \in Swarm |-> Predicted(aligned, d)]
  /\ turn' = 1
  /\ UNCHANGED <<climbs, sensed>>

\* The altitude of drone d at step s once it has climbed away from one drone
\* after the other; its own altitude is read again for each.
Climbed(d, s) ==
  FoldLeftDomain(LAMBDA alt, e : IF /\ e # d
                                    /\ Close(paths[d][s], paths[e][s])
                                    /\ Apart(alt, paths[e][s].alt) < Layer
                                 THEN alt + Layer ELSE alt,
                 paths[d][s].alt, paths)

Raised(d) == [s \in DOMAIN paths[d] |-> [paths[d][s] EXCEPT !.alt = Climbed(d, s)]]

Climbs(d) == SumFunction([s \in DOMAIN paths[d] |-> (Climbed(d, s) - paths[d][s].alt) \div Layer])

Sensed(d) == paths[d][Len(paths[d])].alt

\* Faulty variant: every drone avoids the others where the plan has them.
AvoidTogether ==
  /\ turn = 1
  /\ paths' = [d \in Swarm |-> Raised(d)]
  /\ climbs' = [d \in Swarm |-> Climbs(d)]
  /\ sensed' = [d \in Swarm |-> Sensed(d)]
  /\ turn' = Fleet + 1
  /\ UNCHANGED warned

\* The sensor data is simulated at the final position read before the climb.
AvoidOthers ==
  /\ turn \in Swarm
  /\ paths' = [paths EXCEPT ![turn] = Raised(turn)]
  /\ climbs' = [climbs EXCEPT ![turn] = Climbs(turn)]
  /\ sensed' = [sensed EXCEPT ![turn] = Sensed(turn)]
  /\ turn' = turn + 1
  /\ UNCHANGED warned

Trajectories == UNION {[1 .. n -> [x : Spots, alt : Levels]] : n \in 1 .. MaxSteps}

SwarmNext ==
  \/ paths = <<>> /\ \E given \in [Swarm -> Trajectories] : StartSwarm(given)
  \/ AvoidOthers

-----------------------------------------------------------------------------
\* The types of the planning and of the flight; a drone that climbs was
\* in a predicted conflict, noted for it or for the other drone.
SwarmFlightTypeOK ==
  /\ bases \in {<<>>} \cup [Swarm -> Nat]
  /\ plans \in 0 .. MaxPlans
  /\ clashes \subseteq Swarm \X Swarm
  /\ paths = <<>> \/ \A d \in Swarm : paths[d] \in Seq([x : Spots, alt : Nat])
  /\ turn \in 0 .. Fleet + 1
  /\ warned \in [Swarm -> SUBSET ((1 .. MaxSteps) \X Swarm)]
  /\ climbs \in [Swarm -> Nat]
  /\ sensed \in [Swarm -> {0} \cup Levels]
  /\ \A d \in Swarm : climbs[d] > 0 =>
       \E s \in 1 .. MaxSteps, e \in Swarm : <<s, e>> \in warned[d] \/ <<s, d>> \in warned[e]

\* Once run_swarm has gone through two drones, at every step at which they are
\* closer than SAFE_DISTANCE_M they are a layer apart in altitude, although
\* each climbs on its own and the second sees the first one's new altitude
\* (_apply_avoidance).  It holds for drones on levels, as planned in
\* layers; with altitudes less than a layer apart, or with three drones on one
\* level, it does not.
TwoSeparate ==
  Fleet = 2 /\ turn = Fleet + 1 =>
    \A s \in DOMAIN paths[1] :
      Close(paths[1][s], paths[2][s]) => Apart(paths[1][s].alt, paths[2][s].alt) >= Layer
=============================================================================
