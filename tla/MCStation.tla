------------------------------ MODULE MCStation -------------------------------
(***************************************************************************)
(* The parts of a station on small instances.  No two of them share a      *)
(* variable: the dashboard's wallet, camera, refreshes and drone           *)
(* connections, the REST API's requests, and what the command line and the *)
(* demonstrations run.  Any order of their steps is a shuffle of orders of *)
(* each, so that a behaviour runs one part, chosen at the start, in all    *)
(* its interleavings.                                                      *)
(***************************************************************************)
EXTENDS Wallet, Camera, Dashboard, DroneLink, Emergency, SharedScore,
        SwarmFlight, Evidence, FlightChecks, RestApi, Learning, MissionLog

VARIABLE part

stationVars ==
  <<part, walletVars, cameraVars, dashboardVars, linkVars, emergencyVars, willVars,
    shareVars, planningVars, swarmVars, evidenceVars, flightVars, commandVars, requestVars,
    lessonVars, roundVars, logVars, rewardVars>>

Init ==
  /\ part \in {"wallet", "camera", "dashboard", "links", "emergency", "will", "shares",
               "planning", "swarm", "evidence", "flight", "commands", "requests",
               "lessons", "rounds", "log", "rewards"}
  /\ WalletInit /\ CameraInit /\ DashboardInit /\ LinkInit
  /\ EmergencyInit /\ WillInit /\ ShareInit /\ PlanningInit
  /\ SwarmInit /\ EvidenceInit /\ FlightInit /\ CommandInit
  /\ RequestsInit /\ LessonsInit /\ RoundsInit /\ LogInit /\ RewardsInit
  \* The accounts, weights and scores of an earlier time matter to their parts alone.
  /\ part # "requests" => \A c \in ClientIds \ {Root} : table[c] = Absent
  /\ part # "lessons" => learned = FirstWeights
  /\ part # "flight" => pastScores = <<>>

\* The parts that are not running.
Keeps(name) ==
  /\ IF name = "wallet" THEN TRUE ELSE UNCHANGED walletVars
  /\ IF name = "camera" THEN TRUE ELSE UNCHANGED cameraVars
  /\ IF name = "dashboard" THEN TRUE ELSE UNCHANGED dashboardVars
  /\ IF name = "links" THEN TRUE ELSE UNCHANGED linkVars
  /\ IF name = "emergency" THEN TRUE ELSE UNCHANGED emergencyVars
  /\ IF name = "will" THEN TRUE ELSE UNCHANGED willVars
  /\ IF name = "shares" THEN TRUE ELSE UNCHANGED shareVars
  /\ IF name = "planning" THEN TRUE ELSE UNCHANGED planningVars
  /\ IF name = "swarm" THEN TRUE ELSE UNCHANGED swarmVars
  /\ IF name = "evidence" THEN TRUE ELSE UNCHANGED evidenceVars
  /\ IF name = "flight" THEN TRUE ELSE UNCHANGED flightVars
  /\ IF name = "commands" THEN TRUE ELSE UNCHANGED commandVars
  /\ IF name = "requests" THEN TRUE ELSE UNCHANGED requestVars
  /\ IF name = "lessons" THEN TRUE ELSE UNCHANGED lessonVars
  /\ IF name = "rounds" THEN TRUE ELSE UNCHANGED roundVars
  /\ IF name = "log" THEN TRUE ELSE UNCHANGED logVars
  /\ IF name = "rewards" THEN TRUE ELSE UNCHANGED rewardVars

Next ==
  /\ UNCHANGED part
  /\ \/ part = "wallet" /\ WalletNext /\ Keeps("wallet")
     \/ part = "camera" /\ CameraNext /\ Keeps("camera")
     \/ part = "dashboard" /\ DashboardNext /\ Keeps("dashboard")
     \/ part = "links" /\ LinkNext /\ Keeps("links")
     \/ part = "emergency" /\ EmergencyNext /\ Keeps("emergency")
     \/ part = "will" /\ WillNext /\ Keeps("will")
     \/ part = "shares" /\ ShareNext /\ Keeps("shares")
     \/ part = "planning" /\ PlanningNext /\ Keeps("planning")
     \/ part = "swarm" /\ SwarmNext /\ Keeps("swarm")
     \/ part = "evidence" /\ EvidenceNext /\ Keeps("evidence")
     \/ part = "flight" /\ FlightNext /\ Keeps("flight")
     \/ part = "commands" /\ CommandNext /\ Keeps("commands")
     \/ part = "requests" /\ RequestsNext /\ Keeps("requests")
     \/ part = "lessons" /\ LessonsNext /\ Keeps("lessons")
     \/ part = "rounds" /\ RoundsNext /\ Keeps("rounds")
     \/ part = "log" /\ LogNext /\ Keeps("log")
     \/ part = "rewards" /\ RewardsNext /\ Keeps("rewards")

\* Only the camera's capture threads are promised to go on.
Spec == Init /\ [][Next]_stationVars /\ CameraFairness

MCAmounts == {-1, 2}
MCStrides == {-5, 1100}
MCDelays == {-5, 5}
\* Weights that some hundred lessons lead to: each as far as it goes.
MCOldWeights == {[safety |-> 599, efficiency |-> 391, energy |-> 10],
                 [safety |-> 491, efficiency |-> 500, energy |-> 10],
                 [safety |-> 308, efficiency |-> 500, energy |-> 193]}
MCFlights == {<< >>,
              <<[score |-> 95, values |-> [avg_speed |-> 800, path_deviation |-> 100]]>>,
              <<[score |-> 20, values |-> [avg_speed |-> 1000]],
                [score |-> 60, values |-> [weather_impact |-> 500]]>>}
MCScenes == {{[danger |-> TRUE, sure |-> TRUE]}}

\* The types of what each part keeps, and that a lock, an id or a number a part
\* gives out belongs to one holder (the state of wallet.py, app.py, camera_adapter.py,
\* drone_connector.py, emergency.py, mpc.py, sim.py, verifier.py, security.py).
TypeOK ==
  /\ WalletTypeOK /\ CameraTypeOK /\ DashboardTypeOK /\ LinkTypeOK
  /\ EmergencyTypeOK /\ ShareTypeOK /\ SwarmFlightTypeOK /\ EvidenceTypeOK
  /\ ChecksTypeOK /\ LearningTypeOK

\* What vouches for a mission is accepted exactly as long as it should be: records,
\* attestations and proofs, and the chain of a history (verifier.py:99-158,
\* popw_export.py:38-57, mission_history.py:40-51).
RecordsAccepted == EvidenceAccepted /\ ChainTrusted

\* A mission is paid for as it was flown: the dashboard credits each at its own
\* score, and a better one never earns less (app.py:199-245, economics.py:71-126).
PaidAsFlown == CreditedAsFlown /\ BetterEarnsMore
=============================================================================
