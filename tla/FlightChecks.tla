---------------------------- MODULE FlightChecks ----------------------------
(***************************************************************************)
(* The checks a flown mission goes through: the score                      *)
(* (src/validator/scorer.py), the security suite                           *)
(* (src/dronesync/security.py) and the threat assessment of the pipeline   *)
(* (src/dronesync/threat_defense.py); and the signed commands of the       *)
(* security suite.                                                         *)
(*                                                                         *)
(* The drone flies along a line: a position is a place and an altitude in  *)
(* metres and a time in seconds, which a drone's recorder may put out of   *)
(* order.  Scores are percent; speeds and deviations are compared without  *)
(* dividing.  The commands have a clock of their own, in units of 30 s.    *)
(***************************************************************************)
EXTENDS Integers, Sequences, FiniteSets, SequencesExt, FiniteSetsExt

CONSTANTS
  Strides,      \* metres along the line from one position to the next
  Altitudes,
  Delays,       \* seconds from one position to the next
  MaxPositions, \* bound on the positions of a flight
  MaxLanded,    \* bound on the flights
  Baseline,     \* scores the anomaly detector keeps, 10 in the code
  OldScores,    \* scores of flights before the first
  Nonces,       \* one for each command that is signed
  CacheTime,    \* 300 s
  MaxAge,       \* 30 s
  MaxTime       \* bound on the commands' clock

\* Numbers, and the cache of nonces outlives the age a command may have, as
\* 300 s do 30 s (security.py).
ASSUME FlightChecksAssumption ==
  /\ Strides \subseteq Int /\ Altitudes \subseteq Int /\ Delays \subseteq Int
  /\ OldScores \subseteq 0 .. 100 /\ Baseline \in Nat \ {0}
  /\ MaxAge \in Nat /\ CacheTime \in Nat /\ MaxAge < CacheTime

VARIABLES
  positions,   \* of the flight under way
  pastScores,  \* baseline_scores
  verdicts,    \* what was concluded of each flight
  now,         \* the clock of the commands
  signed,      \* commands that were signed: nonce and timestamp
  cache,       \* nonce_cache
  accepted     \* how often verify_command said yes to each nonce

flightVars == <<positions, pastScores, verdicts>>
commandVars == <<now, signed, cache, accepted>>

Distance(a, b) == IF a < b THEN b - a ELSE a - b

Legs(path) == 2 .. Len(path)

Dist(path, i) == Distance(path[i].x, path[i - 1].x)

\* Ten times the seconds between two positions; both detectors take at least
\* 0.1 s.  This one takes 0.1 s when the times are out of order.
SpoofTime(path, i) == Max({10 * (path[i].t - path[i - 1].t), 1})

ThreatTime(path, i) == Max({10 * Distance(path[i].t, path[i - 1].t), 1})

\* Above 200 m/s.
TooFast(path, i, tenths) == 10 * Dist(path, i) > 200 * tenths

ImpossibleSpeed(path) == {i \in Legs(path) : TooFast(path, i, SpoofTime(path, i))}

AltitudeAnomaly(path) == {i \in Legs(path) : Distance(path[i].alt, path[i - 1].alt) > 20}

Teleport(path) == {i \in Legs(path) : TooFast(path, i, ThreatTime(path, i))}

\* The standard deviation of the last four legs exceeds half a metre.
Drifts(path, i) ==
  LET legs == i - 3 .. i
      total == SumFunction([j \in legs |-> Dist(path, j)])
  IN  4 * SumFunction([j \in legs |-> Dist(path, j) * Dist(path, j)]) - total * total > 4

CoordinateDrift(path) == {i \in Legs(path) : i > 4 /\ Drifts(path, i)}

\* full_threat_assessment in the pipeline, without a peer and with a signal
\* of 0.85, which is no jamming.
ThreatLevel(path) == IF Teleport(path) \cup CoordinateDrift(path) # {} THEN "HIGH" ELSE "NONE"

\* On a line a drone keeps its direction or turns back.
SharpTurn(path) ==
  {i \in 3 .. Len(path) : (path[i].x - path[i - 1].x) * (path[i - 1].x - path[i - 2].x) < 0}

ScoreDrop(score) ==
  pastScores # <<>> /\ 10 * score * Len(pastScores) < 7 * FoldLeft(+, 0, pastScores)

\* DroneEvaluator.score with simulated sensors: a charge of 95 and full quality.
Score(path) ==
  LET low == Cardinality({i \in DOMAIN path : path[i].alt > 0 /\ path[i].alt < 25})
      high == Cardinality({i \in DOMAIN path : path[i].alt > 130})
  IN  ((100 - Min({50, 5 * low}) - Min({30, 5 * high})) * 80 + 2000) \div 100

Grade(score) ==
  IF score >= 85 THEN "EXCELLENT" ELSE IF score >= 70 THEN "GOOD"
  ELSE IF score >= 50 THEN "ACCEPTABLE" ELSE "POOR"

Cleared(path) ==
  /\ ImpossibleSpeed(path) \cup AltitudeAnomaly(path) = {}
  /\ SharpTurn(path) = {}
  /\ ~ScoreDrop(Score(path))

FlightInit ==
  /\ positions = <<>>
  /\ pastScores \in {<<>>} \cup {<<score>> : score \in OldScores}
  /\ verdicts = <<>>

TakeOff(alt) ==
  /\ positions = <<>>
  /\ Len(verdicts) < MaxLanded
  /\ positions' = <<[x |-> 0, alt |-> alt, t |-> 0]>>
  /\ UNCHANGED <<pastScores, verdicts>>

FlyLeg(dx, alt, dt) ==
  /\ positions # <<>>
  /\ Len(positions) < MaxPositions
  /\ LET from == Last(positions)
     IN  positions' = Append(positions, [x |-> from.x + dx, alt |-> alt, t |-> from.t + dt])
  /\ UNCHANGED <<pastScores, verdicts>>

\* The steps of handle and of the pipeline on the flight: score, security check,
\* which takes the score into the baseline, and threat assessment.  A threat is
\* HIGH and only CRITICAL fails a mission, so that the score decides.
Land ==
  /\ Len(positions) > 1
  /\ LET score == Score(positions)
     IN  /\ pastScores' = IF Len(pastScores) < Baseline THEN Append(pastScores, score)
                         ELSE Append(Tail(pastScores), score)
         /\ verdicts' = Append(verdicts,
              [grade |-> Grade(score), cleared |-> Cleared(positions),
               threat |-> ThreatLevel(positions),
               ready |-> ThreatLevel(positions) # "CRITICAL" /\ score >= 50])
  /\ positions' = <<>>

FlightNext ==
  \/ \E alt \in Altitudes : TakeOff(alt)
  \/ \E dx \in Strides, alt \in Altitudes, dt \in Delays : FlyLeg(dx, alt, dt)
  \/ Land

-----------------------------------------------------------------------------
(* CommandSigner, used by one thread: a signed command carries a nonce and *)
(* the time it was signed.                                                 *)

CommandInit ==
  /\ now = 0
  /\ signed = [n \in {} |-> 0]
  /\ cache = [n \in {} |-> 0]
  /\ accepted = [n \in Nonces |-> 0]

TimePasses ==
  /\ now < MaxTime
  /\ now' = now + 1
  /\ UNCHANGED <<signed, cache, accepted>>

SignCommand(n) ==
  /\ n \notin DOMAIN signed
  /\ signed' = [k \in DOMAIN signed \cup {n} |-> IF k = n THEN now ELSE signed[k]]
  /\ UNCHANGED <<now, cache, accepted>>

\* Faulty variant: a nonce is kept only as long as a command is fresh.
KeptBriefly == [n \in {k \in DOMAIN cache : now - cache[k] < MaxAge} |-> cache[n]]

Kept == [n \in {k \in DOMAIN cache : now - cache[k] < CacheTime} |-> cache[n]]

\* The nonce is kept whether or not the command turns out to be too old.
VerifyCommand(n) ==
  /\ n \in DOMAIN signed
  /\ IF n \in DOMAIN Kept
     THEN cache' = Kept /\ UNCHANGED accepted
     ELSE /\ cache' = [k \in DOMAIN Kept \cup {n} |-> IF k = n THEN now ELSE Kept[k]]
          /\ accepted' = IF Distance(now, signed[n]) > MaxAge THEN accepted
                         ELSE [accepted EXCEPT ![n] = @ + 1]
  /\ UNCHANGED <<now, signed>>

CommandNext ==
  \/ TimePasses
  \/ \E n \in Nonces : SignCommand(n) \/ VerifyCommand(n)

-----------------------------------------------------------------------------
\* The types of the flight, the baseline and the commands.
ChecksTypeOK ==
  /\ positions \in Seq([x : Int, alt : Altitudes, t : Int])
  /\ pastScores \in Seq(0 .. 100) /\ Len(pastScores) <= Baseline
  /\ verdicts \in Seq([grade : {"EXCELLENT", "GOOD", "ACCEPTABLE", "POOR"}, cleared : BOOLEAN,
                       threat : {"HIGH", "NONE"}, ready : BOOLEAN])
  /\ DOMAIN cache \subseteq DOMAIN signed
  /\ DOMAIN signed \subseteq Nonces
  /\ accepted \in [Nonces -> Nat]

\* A signed command is carried out at most once, however often and whenever it
\* arrives: the cache outlives the freshness of a command (security.py:186-203).
\* And a flight on which the pipeline's detector sees a jump is never cleared by the
\* security suite, although the two take times that are out of order differently
\* (security.py:122, threat_defense.py:65).
ChecksAgree ==
  /\ \A n \in Nonces : accepted[n] <= 1
  /\ Teleport(positions) \subseteq ImpossibleSpeed(positions)
=============================================================================
