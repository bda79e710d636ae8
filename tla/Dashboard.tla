------------------------------ MODULE Dashboard -------------------------------
(***************************************************************************)
(* dashboard/app.py: refresh_state, run by the main thread once, by a      *)
(* background thread every 30 s and by every GET /api/refresh, all at the  *)
(* same time and without a lock.  Each run flies a mission, puts its card  *)
(* in state["drones"], and then goes on from whatever card is there: the   *)
(* list of missions, the metrics (dronesync/monitoring.py), the payment    *)
(* (dronesync/wallet.py), the miner's count (konnex_integration.py) and    *)
(* the score root.  One drone, as in DRONE_IDS.  The wallet is what it     *)
(* promises, a Ledger.  The panels with fixed or unrelated contents        *)
(* (weather, energy, mpc, zk status, consensus and the like) are left out. *)
(*                                                                         *)
(* A card is the number of its mission and its score, which bundle_hash    *)
(* goes with.                                                              *)
(***************************************************************************)
EXTENDS Integers, Sequences, FiniteSets, SequencesExt

CONSTANTS
  Refreshers,  \* threads that run refresh_state; the first is Main
  Main,        \* the thread of run_dashboard
  Scores,      \* scores a mission may get
  Keep,        \* rows kept of state["missions"], 30 in the code
  Window,      \* window_size of MetricsCollector, 1000 in the code
  MaxFlights   \* bound on the missions flown

\* The main thread is one of those that refresh; scores and sizes are numbers.
ASSUME DashboardAssumption ==
  /\ Main \in Refreshers
  /\ Scores \subseteq Int
  /\ Keep \in Nat /\ Window \in Nat

VARIABLES
  phase,    \* "boot", "serve" or "dead"
  refresh,  \* each thread's refresh_state: [at, list, kept, score]
  card,     \* state["drones"][drone]: [mission, score]
  missions, \* the list state["missions"] refers to, and its identity: [list, rows]
  metrics,  \* MetricsCollector._missions
  alerts,   \* length of AlertManager._alerts
  funds,    \* the wallet
  receipts,
  paid,     \* the mission each receipt is for: [mission, amount]
  proofs,   \* MinerNode._missions_completed
  leaf,     \* the entry of state["score_root"]: [score, bundle]
  flown     \* history: the score of each mission

dashboardVars ==
  <<phase, refresh, card, missions, metrics, alerts, funds, receipts, paid, proofs, leaf, flown>>

Purse == INSTANCE Ledger WITH balance <- funds, entries <- receipts

Idle == [at |-> "idle", list |-> 0, kept |-> << >>, score |-> 0]
NoMission == [mission |-> 0, score |-> 0]

\* _init_services, and the first refresh_state of run_dashboard.
DashboardInit ==
  /\ phase = "boot"
  /\ refresh = [r \in Refreshers |-> IF r = Main THEN [Idle EXCEPT !.at = "fly"] ELSE Idle]
  /\ card = NoMission
  /\ missions = [list |-> 0, rows |-> << >>]
  /\ metrics = << >>
  /\ alerts = 0
  /\ Purse!Init
  /\ paid = << >>
  /\ proofs = 0
  /\ leaf = [score |-> 0, bundle |-> 0]
  /\ flown = << >>

Then(r, label) == refresh' = [refresh EXCEPT ![r].at = label]

\* get_metrics: the mean over the window; check() alerts when it is below a half.
TotalScore(s) == FoldSeq(LAMBDA m, sum : sum + m.score, 0, s)
LowScore(s) == s # << >> /\ 2 * TotalScore(s) < 100 * Len(s)

LastRows(n, s) == SubSeq(s, IF Len(s) > n THEN Len(s) - n + 1 ELSE 1, Len(s))

-----------------------------------------------------------------------------
(* refresh_state *)

\* The background loop after its sleep, or a GET /api/refresh.
BeginRefresh(r) ==
  /\ phase = "serve"
  /\ refresh[r].at = "idle"
  /\ r # Main
  /\ Then(r, "fly")
  /\ UNCHANGED <<phase, card, missions, metrics, alerts, funds, receipts, paid, proofs, leaf, flown>>

\* Faulty variant: the fields of the card in place are set one after another,
\* and the score is not there yet when others look.
FlyInPlace(r, score) ==
  /\ refresh[r].at = "fly"
  /\ Len(flown) < MaxFlights
  /\ flown' = Append(flown, score)
  /\ card' = [card EXCEPT !.mission = Len(flown) + 1]
  /\ Then(r, "load")
  /\ UNCHANGED <<phase, missions, metrics, alerts, funds, receipts, paid, proofs, leaf>>

\* handlers[drone].handle(task), a new card, and swarm_status from it.
Fly(r, score) ==
  /\ refresh[r].at = "fly"
  /\ Len(flown) < MaxFlights
  /\ flown' = Append(flown, score)
  /\ card' = [mission |-> Len(flown) + 1, score |-> score]
  /\ Then(r, "load")
  /\ UNCHANGED <<phase, missions, metrics, alerts, funds, receipts, paid, proofs, leaf>>

\* state["missions"].append(...): the list is looked up, ...
LoadList(r) ==
  /\ refresh[r].at = "load"
  /\ refresh' = [refresh EXCEPT ![r].at = "append", ![r].list = missions.list]
  /\ UNCHANGED <<phase, card, missions, metrics, alerts, funds, receipts, paid, proofs, leaf, flown>>

\* ... and the row goes to that list, which may no longer be the one shown.
AppendRow(r) ==
  /\ refresh[r].at = "append"
  /\ missions' = IF refresh[r].list = missions.list
                 THEN [missions EXCEPT !.rows = Append(@, card)] ELSE missions
  /\ Then(r, "trim")
  /\ UNCHANGED <<phase, card, metrics, alerts, funds, receipts, paid, proofs, leaf, flown>>

Trim(r) ==
  /\ refresh[r].at = "trim"
  /\ refresh' = [refresh EXCEPT
       ![r].at = IF Len(missions.rows) > Keep THEN "assign" ELSE "record",
       ![r].kept = IF Len(missions.rows) > Keep THEN LastRows(Keep, missions.rows) ELSE << >>]
  /\ UNCHANGED <<phase, card, missions, metrics, alerts, funds, receipts, paid, proofs, leaf, flown>>

\* ... and the copy becomes the list, without the rows added meanwhile.
AssignList(r) ==
  /\ refresh[r].at = "assign"
  /\ missions' = [list |-> missions.list + 1, rows |-> refresh[r].kept]
  /\ refresh' = [refresh EXCEPT ![r].at = "record", ![r].kept = << >>]
  /\ UNCHANGED <<phase, card, metrics, alerts, funds, receipts, paid, proofs, leaf, flown>>

\* metrics_collector.record_mission; alert_manager.get_status adds its alerts
\* to a list that nothing ever shortens.
RecordMetrics(r) ==
  /\ refresh[r].at = "record"
  /\ metrics' = LastRows(Window, Append(metrics, card))
  /\ alerts' = IF LowScore(metrics') THEN alerts + 1 ELSE alerts
  /\ Then(r, "pay")
  /\ UNCHANGED <<phase, card, missions, funds, receipts, paid, proofs, leaf, flown>>

\* miner_wallet.credit for the card that is there by now; miner_axon.submit_popw.
Pay(r) ==
  /\ refresh[r].at = "pay"
  /\ Purse!Post(card.score)
  /\ paid' = Append(paid, [mission |-> card.mission, amount |-> card.score])
  /\ proofs' = proofs + 1
  /\ Then(r, "leafScore")
  /\ UNCHANGED <<phase, card, missions, metrics, alerts, leaf, flown>>

\* sc.add_score(d, state["drones"][d]["score"], ...
LeafScore(r) ==
  /\ refresh[r].at = "leafScore"
  /\ refresh' = [refresh EXCEPT ![r].at = "leafBundle", ![r].score = card.score]
  /\ UNCHANGED <<phase, card, missions, metrics, alerts, funds, receipts, paid, proofs, leaf, flown>>

\* ... state["drones"][d]["bundle_hash"], ...): the card is looked up again.
\* run_dashboard serves after its own refresh.
LeafBundle(r) ==
  /\ refresh[r].at = "leafBundle"
  /\ leaf' = [score |-> refresh[r].score, bundle |-> card.mission]
  /\ refresh' = [refresh EXCEPT ![r] = Idle]
  /\ phase' = "serve"
  /\ UNCHANGED <<card, missions, metrics, alerts, funds, receipts, paid, proofs, flown>>

\* handle() or a panel raises: the loop and /api/refresh catch it, what has
\* been done stays done; run_dashboard does not catch it.
RefreshFails(r) ==
  /\ refresh[r].at \in {"fly", "leafScore"}
  /\ refresh' = [refresh EXCEPT ![r] = Idle]
  /\ phase' = IF r = Main THEN "dead" ELSE phase
  /\ UNCHANGED <<card, missions, metrics, alerts, funds, receipts, paid, proofs, leaf, flown>>

DashboardNext ==
  \E r \in Refreshers :
    \/ BeginRefresh(r)
    \/ \E score \in Scores : Fly(r, score)
    \/ LoadList(r) \/ AppendRow(r) \/ Trim(r) \/ AssignList(r)
    \/ RecordMetrics(r) \/ Pay(r)
    \/ LeafScore(r) \/ LeafBundle(r)
    \/ RefreshFails(r)

-----------------------------------------------------------------------------
(* Properties *)

DashboardTypeOK ==
  /\ phase \in {"boot", "serve", "dead"}
  /\ card.mission \in 0 .. Len(flown)
  /\ Len(metrics) <= Window
  /\ Len(receipts) = Len(paid) /\ proofs = Len(paid)
  /\ phase # "serve" => card # NoMission \/ refresh[Main].at # "idle" \/ phase = "dead"

\* A mission is paid, recorded and listed at its own score, though another
\* refresh may have put its card in the place of this one's by then: the card
\* is replaced as a whole and looked up once for each use (app.py:199-245).
CreditedAsFlown ==
  /\ \A i \in DOMAIN paid : paid[i].amount = flown[paid[i].mission]
  /\ \A i \in DOMAIN metrics : metrics[i].score = flown[metrics[i].mission]
  /\ \A i \in DOMAIN missions.rows :
       missions.rows[i].score = flown[missions.rows[i].mission]
=============================================================================
