# DroneSync Subnet — TLA+ models and proofs

TLA+ specifications of the parts of DroneSync that keep state and are shared:
the replay guard, the transaction queue, the drone gateway and its registry,
the validator mesh, the swarm's consensus with its Byzantine detector, and the
mission handler with the firewall, pipeline, score root, reputation and storage
it drives; and what surrounds them: the wallet, the dashboard with its camera
and drone connections, the REST API with its accounts and webhooks, emergencies
and wills, shared scores, swarm flights, the evidence of a mission and the
checks it goes through, learning, and the books of missions and rewards. TLC
model-checks all of them on small instances; TLAPS checks theorems about all of
them for every value of the constants. Every safety property of
a passing run is stated by a theorem, some under a hypothesis that section 4 names.

All paths are relative to the repository's root. In modules, comments such as
`replay_guard.py:49` name lines of `dronesync/` (or of the file that is named).

## 1. The system

A *validator* hands a task to a *miner* node. `DroneNavSynapseHandler.handle`
(`dronesync/synapse.py`) passes it through the firewall and the replay guard,
plans and simulates the flight, scores it, runs the mission pipeline (threats,
sensor bundle, swarm vote, score root, proof, signed PoPW record, reputation),
saves it and queues it for the chain. Validators judge PoPW records in a mesh.
Real drones reach the node through the gateway's transports. A dashboard and a
REST API drive all of this from several threads of one process, and
`docker-compose.yml` runs several processes on one data directory.

### Inventory

| Component | State it keeps | Operations | Interacts with | What is hard | What makes it correct |
|---|---|---|---|---|---|
| Replay guard `replay_guard.py` | SQLite table of mission ids, a lock per object | `check`, `register`, `is_seen`, `get_status` | one object per handler, all on one file | two objects exclude each other only through SQLite; exceptions inside a transaction; purge against age test; stale `now` | a mission is let through once per window; locks come back; no abandoned transaction |
| Transaction queue `tx_queue.py` | SQLite table of rows: status, retries; a lock per object | `enqueue`, `submit_pending`, `get_*` | handler, dashboard, `main.py`; the chain | crash between send and UPDATE, lost answers, two objects | the table tells the truth about the chain; settled rows stay; at least once, again only after a fault |
| Drone registry `drone_registry.py` | table of drones, a non-reentrant lock | `register`, `unregister`, `update_telemetry`, `heartbeat`, `get_active_drones` | all transports | nested lock; entries removed by somebody else | the lock comes back; listed = attached |
| Gateway transports `drone_gateway.py`, `drone_api.py`, `drone_websocket.py`, `drone_mqtt.py` | sessions, MAVLink links | messages of drones | registry | order of an old session's cleanup and a new session's registration | as for the registry |
| Validator mesh `validator_node.py`, `validator_network.py` | per node: judged missions, votes; per call: acks | `submit_popw`, `_handle`, broadcast | nodes with nodes, clients with nodes | lost and late messages, retries, restarts, rounding of the quorum | consensus is backed by 67% of all nodes, and only once |
| Swarm consensus `swarm_consensus.py` | tiers, blacklist, detector counts | `vote_on_route`, `vote_blacklist`, `analyze` | pipeline, swarm handler | long sequences of votes; silent drones; own weight | the swarm never loses its last drone; dissent is noticed, majorities are not punished |
| Mission handler `synapse.py` | the objects below | `handle`; swarm handler | everything | several threads in one handler, failures half way, retries, restarts | a mission is queued once; records agree with each other |
| Mission pipeline `pipeline.py` | score root, consensus tiers | `run` | handler, reputation | unlocked read–compute–write | commitments cover what they count; votes use the current tier |
| Firewall `firewall.py` | times of recent commands | `filter` | handler | unlocked sliding window | rate limit |
| Reputation `reputation.py` | score, tier | `record_mission`, `get_status` | pipeline | lost updates | bounded score, tier follows |
| Score root `validator/scoreroot.py` | entries, commitments | `add_score`, `commit`, `verify_score` | pipeline, API | entry added during a commit | a verified score is under the root |
| Drone storage `storage.py` | one JSON file per drone | `append_mission`, `load`, `save` | handler | overlapping writers, emptied file, reset of a corrupted file | the last missions, in order, nothing lost |
| Mission history `mission_history.py` | a hash chain | `add`, `verify_chain` | API | tampering, truncation | what verifies is what was recorded |
| PoPW record, bundle, export `verifier.py`, `sensor_bundle.py`, `popw_export.py`, `verify_popw.py` | signing key | create, verify, export | pipeline, validators | fields left out of the signature | a verifier accepts what was signed |
| Wallet `wallet.py` | SQLite balance and transactions | `credit`, `debit`, `summary` | dashboard | read and write of the balance apart; several objects on one file | a ledger: no update lost, never overdrawn |
| Economics `economics.py`, flight memory `memory.py` | counters | rewards, records | reports, API | streaks and penalties | who flies better is paid no less |
| Camera and vision `camera_adapter.py`, `vision_engine.py`, `drone_connector.py` | capture thread, device, globals of the dashboard | start, stop, frames | dashboard | start that outlasts its timeout; stop during a read | frames in order; a stopped stream ends |
| Dashboard `dashboard/app.py` | a global state dict | refresh, requests | nearly everything | background refresh against request threads | a mission is paid and listed at its own score |
| Emergency, last will `emergency.py`, `last_will.py` | active emergencies, wills | broadcast, redirect, resolve | drones | the caller's copy outlives the emergency; ids of one second | who is told RESOLVED has ended its own emergency |
| Federated learning `federated_learning.py` | weights, sample counts, rounds | `run_round`, `aggregate` | drones | counts that accumulate; rounding | an average lies between what was sent, by those who flew |
| MPC `mpc.py` | none | `split`, `reconstruct` | dashboard | order, repetition and origin of answers | any threshold of shares gives the secret, nothing else passes |
| Adapters `mavlink_adapter.py`, `dji_adapter.py`, `ros2_adapter.py`, `mavlink_emulator.py` | connection, frames | connect, record, disconnect | live missions, dashboard | calls of the transport that raise; reconnects | no connection that nobody holds |
| Konnex node `node.py`, `konnex_integration.py`, `protocol.py` | metagraph, queue of results | connect, submit | dashboard | simulated network | — |
| Accounts `auth.py`, `webhook.py`, `validator_auth.py`, `operator_license.py` | SQLite rows behind one connection; a key in a file | create, verify, revoke, register, notify | API | commits of other threads, restarts, first use of the key | what a client was told still holds |
| Monitoring `monitoring.py` | counters, alerts | record, report | dashboard | — | — |
| Planning and navigation `miner/*.py`, `navigation.py`, `geofencing.py` | weights, altitudes | plan, learn | handler, swarm | lessons of two threads; repeated plans | weights stay a distribution; layers stay apart |
| Simulation and scoring `environment/*.py`, `validator/scorer.py` | none | run, score | handler | avoidance by each drone in turn | drones that come close are a layer apart |
| ZK `zk_prover.py`, `zk/` | files | prove, verify | pipeline | external binary | — |
| Delivery proofs, privacy, identity, helpers | none | build and sign | — | — | — |
| REST API, CLI, entry points `api.py`, `cli.py`, `main.py` | module globals | endpoints | everything | thread pool on shared globals | a mission's root covers it |

`PROJECT.json` lists the same components with their status, the modules that
model each and what is left out of each, and under "hazards"
the places where this code can go wrong in ways a test would hardly reach, each
at its line with the properties that watch it.

## 2. Modules

| Module | Models | State ↔ code |
|---|---|---|
| `ReplayGuard` | `replay_guard.py`, with SQLite's write lock, implicit transactions and snapshots as external facts | `seen` is the committed table, `lock[g]` is `self._lock`, `tx`/`snap`/`stale` are the connection, `pc`/`call` the threads inside a call |
| `TxQueue` | `tx_queue.py` | `rows` is the table, `batch` the SELECT of one `submit_pending`, `recorded` what the chain has (external) |
| `Outbox` | abstract specification of `TxQueue` | entries absent, pending, submitted, failed |
| `DroneRegistry` | `drone_registry.py` | `drones` is `_drones`, `lock` is `_lock` (held for ever by a thread that asks for it twice), `clock` the time |
| `DroneGateway` | the transports on one registry; EXTENDS `DroneRegistry` | `session` is `drone_id` of every WebSocket session, `link` the MAVLink listener |
| `ValidatorMesh` | nodes, peers and concurrent calls | `seen`, `votes` of every node, `telling` and `inbox` the messages on their way, `reply` what a call has collected |
| `SwarmConsensus` | votes, tiers, blacklist, detector | as in the class; `overruled`, `contrary`, `banned` are histories |
| `Firewall`, `Reputation`, `ScoreRoot`, `DroneStorage` | the unlocked objects of the handler, one module each | their operations split where another thread can run; `times` is `_command_times` as the set of the commands it holds |
| `MissionHandler` | `handle()` and `MissionPipeline.run` in several threads; EXTENDS the four above | `pc`/`task` are the calls, `seen` the guard's table, `queue` the queue's rows; `stored` and `disturbed` are histories |
| `Wallet` | `wallet.py`, one SQL statement a step | `balance`, `entries` the two tables, `held` the object's lock, `read`/`written` what a call has read and not committed |
| `Ledger` | abstract specification of `Wallet`: entries posted one at a time, each with the balance it leaves | |
| `Camera` | `camera_adapter.py`, `vision_engine.py` and the requests of `app.py` that start and stop them | `opener`, `capturer`, `analyst` the threads of each start, `camera`, `engine`, `panel` the globals, `adapter` the objects |
| `Dashboard` | `refresh_state` and its three callers, with `monitoring.py`; the wallet is what `Ledger` promises | `card` is `state["drones"]`, `missions`, `metrics`, `paid` what is made of it, `refresh[r]` where each thread is |
| `DroneLink` | `drone_connector.py`, the adapters, live missions and the connect panel | `link[l]` a connector with its adapter, `current` the global |
| `Accounts`, `Webhooks` | `auth.py`; `webhook.py` | `table` is what the shared connection sees, `onDisk` what is committed; `keyFile`, `fernet` the key, `hooks` the table |
| `RestApi` | the endpoints of `api.py`; EXTENDS `Accounts`, `Webhooks`, `ScoreRoot`, `Reputation` | `job[t]` a request under way, `answer[t]` what its client got |
| `Emergency` | `emergency.py` and `last_will.py` | `emergencies` the list, `answered` who was told RESOLVED, `wills` |
| `SharedScore` | `mpc.py` over a small prime field | `coeffs` the polynomial, `answers` the validators in order |
| `SwarmFlight` | `MultiAgentPlanner`, `run_swarm` with its avoidance | `bases` the altitudes planned, `paths` the positions, changed one drone after the other (`turn`) |
| `Evidence` | `verifier.py`, `sensor_bundle.py`, `verify_popw.py`, `popw_export.py` | `attested` the objects of the process, `trusted` the class's keys, `records` and `bundles` that outlive it, `stored` the export store |
| `FlightChecks` | `scorer.py`, `security.py`, `threat_defense.py`, the pipeline's verdict | `positions` a flight built point by point, `pastScores` the baseline; `signed`, `cache`, `accepted` the commands |
| `Learning` | `AIPlanner.learn_from_score` in two threads; `federated_learning.py` | `learned` the planner's dict; `local`, `sent`, `samples`, `average` of the swarm |
| `MissionLog` | `mission_history.py`, `economics.py` | `log` the list, `added` what was added to it; two calculators, `better` and `worse` |
| `MCStation` | one instance of all of the rows from `Wallet` on | `part` says which one a behaviour runs |
| `ReplayGuardProofs` to `MissionHandlerProofs` | theorems about the module of that name | |
| `ServerProofs` | theorems about `Wallet` (with `Ledger`), `RestApi`, `Dashboard`, `DroneLink`, `Camera` and `Emergency` | |
| `StationProofs` | theorems about `MissionLog`, `Evidence`, `FlightChecks`, `SwarmFlight`, `Learning`, `SharedScore`, and about the station of them all | |
| `MC…` | instances for TLC: sets of model values, functions given in the `.cfg`, symmetry | |

A handler is one action where nothing else can run in between (code under a
lock that nobody else holds half way, or between two awaits of an event loop)
and several actions otherwise. Formatting, hashes, signatures and positions are
data: hashes are free of collisions, a proof is a record of what a node tests
of it, a mission is a model value, a score is any of a few representatives.
Operators that begin with "Faulty variant:" are not part of any specification:
each is what a plausible bug would turn the definition below it into, and
`PROJECT.json` says which property must then fail.

### How the parts fit

`MissionHandler` uses of the replay guard that a mission passes once; that this
is what a shared, crashing table of guards gives is the theorem
`HandlersAcceptOnce` of `ReplayGuardProofs`. Its `queue` is the enqueue side of
`TxQueue`, whose other side is checked there against `Outbox`. The tier it
registers is an input (`SetTier`) of `SwarmConsensus`.

`RestApi` composes the accounts, webhooks, score root and reputation its
requests share; `ScoreRoot` and `Reputation` are the same modules the mission
handler uses. `Dashboard` pays through a wallet that it takes for a `Ledger`;
that one `MinerWallet` object implements `Ledger` is checked as
`LedgerPromise`. Live missions begin in `DroneLink`, as connections, and go on in
`RestApi`, as scores.

The parts in `MCStation` share no variable in the code either: each has its own
objects, files and globals. Every behaviour of all of them together is then a
shuffle of behaviours of each, and an invariant of one part needs no step of
another, so a behaviour of the instance picks one part and runs it in all its
interleavings.

## 3. What the runs show

"Pass" runs find no violation in the whole state space of the instance;
"violation" runs are disagreements of the code with its own text, listed under
"findings".

| Run | Instance | Shows |
|---|---|---|
| `ReplayGuardShared` (pass) | 2 guards on one file, 2 threads, 1 mission, window 1, clock to 2, abandoned transactions and restarts | acceptances of a mission id are more than the window apart (`SpacedAcceptances`); the same request passes twice only if it was young (`ReplayOnlyIfYoung`); a guard's lock always comes back (`LockReleased`) |
| `ReplayGuardAbandoned` (violation) | the same, only `check`, no slow commit | a losing INSERT raises and leaves the transaction open, with SQLite's write lock |
| `TxQueueOne` (pass) | 1 queue, 2 callers, 2 rows, 2 retries, 2 crashes or exceptions, every chain fault | `Truthful`, `Settled`, `RecordedOncePerFault`, and the queue implements `Outbox` (`OutboxPromise`) |
| `GatewayCareful` (pass) | one drone on each of 4 channels, 2 sessions, timeout 2, clock to 3 | drones that announce themselves and hold one session never wedge the registry (`NotWedged`), and listed = attached (`ListedWhenAttached`) |
| `GatewayReconnect` (violation) | 2 drones, 2 sessions, reconnects | an old session's cleanup removes the entry of the new one; the next telemetry hangs the gateway |
| `MeshNetwork` (pass) | 2 nodes, each other's peer, 2 calls, a good and a doubtful proof of one mission, losses, 1 restart | `AgreedBySupermajority`, `AgreedOnce`, `PeersInformed` |
| `MeshRetry` (violation) | 3 nodes, 2 calls with the same good proof | duplicate acks count as votes against: both calls fail although every node accepted |
| `SwarmRounds` (pass) | 3 drones, 3 tiers, threshold 2, every ballot, 4 rounds | `SomeoneLeft`, `DissentNoticed` |
| `SwarmMajority` (violation) | 3 rookies, the code's threshold 5, 5 rounds | drones that vote with the majority are blacklisted |
| `MissionFlow` (pass) | 2 threads in one handler, 2 missions sent again and again, failures, 1 restart, clock to 1, window 1 with 1 command, 1 mission kept, at most 3 (+1 in flight) commands let in | `QueuedOnce` in every interleaving; `RateLimited`, `RootCountsEntries`, `TierRegistered`, `HistoryOrdered` as long as no two calls met inside the object in question |
| `HistoryLost` (violation) | 2 threads, 2 missions, no restart | two calls append at once: the second takes the emptied file for a corrupted one and the first mission is lost |
| `Station` (pass) | the 17 parts of `MCStation`, each with its own bounds (below) | 12 invariants, frames in order, the refinement of `Ledger` and the end of stopped streams, one by one below |

The properties of `Station`:

| Property | Says |
|---|---|
| `LedgerPromise` | one wallet object, any interleaving of credits, debits and summaries and a stop before a commit: a ledger, nothing lost, nothing overdrawn |
| `SummaryAdds` | a summary's three SELECTs agree with each other |
| `FramesInOrder` | a stream yields frames in the order they were captured, unless two threads capture for one adapter |
| `StopEnds` | an adapter that is not running has no capture thread for long (liveness) |
| `PaidAsFlown` | a mission is paid, counted and listed at its own score, whichever refresh meets which; of two miners, the one that never flies worse is never paid less |
| `LinksHeld` | a connected connector belongs to a live mission or is the one the dashboard shows, whichever call raises |
| `ResolvedAsAnswered` | an authority that was told RESOLVED has ended its own emergency |
| `SharesAgree` | threshold different answers give the score, whoever answers first; repeated or foreign ones never pass a low score |
| `TypeOK` | what every part keeps has its type; an id or a number a part gives out is within what it has counted |
| `TwoSeparate` | two drones in layers are a layer apart wherever they come close, after both have avoided |
| `RecordsAccepted` | evidence is accepted by exactly the objects and processes that should; a chain that verifies lacks at most its end |
| `ChecksAgree` | a signed command is carried out at most once; a flight with a jump is never cleared |
| `ClientsServed` | counted requests, revocations and webhooks that were answered hold through other threads' commits and a restart |
| `RootCoversMission` | the root a mission is answered with covers it and is a commitment |
| `LearnedRight` | lessons keep the weights a distribution; an average lies between the weights sent by drones that flew |

Why these bounds are enough. Races in this code are between two parties on one
row, file, lock or drone; a second mission, row or drone shows what the others
do to it, and model values make identities interchangeable (symmetry is used
only in runs without liveness). Clocks go past the window by one, where the
comparisons change. Crash and fault counts allow a fault, its repair and another
fault. Counters the code limits (retries, commands in a window, missions kept,
the detector's threshold) are given limits of 1 or 2 so that they are reached
and passed. `SwarmMajority` keeps the code's 5.
`Horizon`, `MaxRows`, `MaxAborts`, `MaxRestarts`, `MaxRounds` and `MaxAdmitted`
exist only for model checking; the theorems leave them arbitrary. The runs of
`ValidatorMesh` and `MissionHandler` do not check for deadlock: there the system
stops when every call has answered or the bound on new calls is used up.

In `Station`: two callers of one wallet, two camera starts, three kinds of
refresh with three flights, two live missions and a panel, two requests of the
API at a time on a table an earlier run left (an operator, an old key) with one
restart, two emergencies in the same second or in two, three answers of three
validators and an outsider over the field of 7 elements (every polynomial), two
drones and two steps, two evidence objects and two runs of a process, flights of
up to five points on both sides of each threshold, one signed command through
a clock longer than the cache, three trainers of which two suffice with two
rounds, three log entries with two changes to the list, scores on both sides of
the tiers' borders. `OldWeights` are weights that some 110 lessons lead to;
the two lessons the run adds start from them or from the first ones. What one
thread alone can reach is 51,658 distinct weights, all of which sum to 999, 1000
or 1001 thousandths. `Schooled`, which `LearningAssumption` asks of them, is what
`LessonsStay` shows that such weights have. `MaxEntries`, `MaxStarts`, `MaxFrames`, `MaxFlights`,
`MaxLinks`, `MaxPolls`, `MaxCalls`, `MaxMissions`, `MaxHooks`, `MaxEmergencies`,
`MaxChecks`, `MaxWills`, `MaxSteps`, `MaxPlans`, `MaxObjects`, `MaxRecords`, `MaxRuns`,
`MaxPositions`, `MaxLanded`, `MaxLessons`, `MaxLogged`, `MaxEdits`, `MaxBonus`,
`MaxRewards`, `MaxClock` and `MaxTime` exist only for model checking. `Station`
does not check for deadlock: each part stops at its bounds.

Four of its properties say where they end, and the code does break them there:
`LedgerPromise` is about one object for the file (two lose a credit:
`wallet.py:119-151` reads before it writes and the lock belongs to the object);
`SecretsReadable`, in `ClientsServed`, excepts two threads that make the webhook
key at once (`webhook.py:35-41`); `LinksHeld` has one panel request at a time
(`app.py:1050-1053`; two leave a connector connected); `TwoSeparate` is about two
drones on levels. The comments of the modules say the same at each property.

`RateLimited`, `RootCountsEntries`, `TierRegistered` and `HistoryOrdered` are
conditional: the objects have no locks, and the code breaks each promise when
two calls meet inside (`HistoryLost` shows one of them). `disturbed` records in
which object calls met, and a restart ends the rate window and may cut a write
short. So these properties say that the sequence of operations is right, at
any interleaving *outside* the object, through failures and retries.

### Fairness

`LockReleased` and `StopEnds` need fairness. `FairSpec` of `ReplayGuard` has weak fairness
of every thread's next step. The operating system schedules runnable threads,
and a thread in a call is runnable: it waits for a `threading.Lock` (then the
holder's steps are the fair ones) or for SQLite, which gives up after
`timeout=10` (`replay_guard.py:20`) with an exception. Clients are not obliged
to call again, and nothing is assumed of the clock. `CameraFairness`, in the
specification of `Station`, is weak fairness of the capture threads alone: the
loop's sleeps are a second at most, it catches what a read raises
(`camera_adapter.py:124-141`), and a device is taken to answer a read, with a
frame or without. Nothing is assumed of opening a device, which may hang for
ever, nor of operators, requests or analysing threads.

## 4. What is proved

TLAPS checks all proofs from nothing, for every value of the constants that
satisfies the named assumptions. Each module states its own, and TLC evaluates
them on the instances. Most only say what kind of value a constant is
(`ReplayAssumption`, `TxAssumption`, `RegistryAssumption`, `GatewayAssumption`,
`MeshAssumption`, `SwarmAssumption`, `FirewallAssumption`, `StorageAssumption`,
`HandlerAssumption`, `WalletAssumption`, `CameraAssumption`,
`DashboardAssumption`, `DroneLinkAssumption`, `RestApiAssumption`,
`EmergencyAssumption`, `EvidenceAssumption`, `MissionLogAssumption`). Five say more:

* `FlightChecksAssumption`: a nonce is remembered longer than a command is fresh
  (300 s and 30 s, `security.py:122`, `186-203`);
* `LevelsAssumption`: two levels differ by at least a layer, 10 m, as those that
  `MultiAgentPlanner` hands out do;
* `LearningAssumption`: the weights a planner starts from are such that lessons
  lead to them (`Schooled`);
* `ShareAssumption`: in the field, `pow(a, p - 2, p)` is the inverse of `a`. This is
  Fermat's little theorem for the prime that the code uses, not proved here;
* `HandlerAssumption`: scores are 36 to 100, so that no mission loses the whole
  reputation at once.

Hypotheses of single theorems, where the code breaks the property without them
or nothing in it rules the case out:

| Hypothesis | Theorems | Why |
|---|---|---|
| `Queues = {q}` | `OneQueueSettles`, `OneQueueKeepsPromise`, `OneQueueRecordsOnce` | the lock belongs to the object; two objects overwrite each other's rows |
| `OneWallet` | `SummariesAddUp`, `WalletKeepsLedger` | as above; two objects lose credits |
| `OnePanel` | `ConnectorsHeld` | two panel requests leave a connector connected |
| `MaxRestarts = 0` | `OneConsensus` | a node that restarts has forgotten what it judged |
| `n \notin Peers[n]` | `PeersHoldTheVotes` | a node that is its own peer records its vote twice; callers leave it out (`demo_validator_network.py:32`) |
| `KeepDetector` | `DissentCaught` | a new detector for every task counts nothing |
| careful habits | `CarefulNeverWedge`, `CarefulListed` | a drone that reconnects wedges the registry |
| `Fleet = 2`, in `TwoSeparate` | `TwoKeepApart` | with three drones one may climb into another pair |
| `Threshold = 2` | `TwoSharesAgree`, `StationSharesAgree` | the code's default; greater ones are beyond these proofs |
| `Batteries \subseteq 0 .. 100` | `StationTyped` | an average below 0 or above 100 is not a percentage; MAVLink's -1 for "unknown" would be one (`mavlink_adapter.py:88`) |

### Parts with a module of their own

* **ReplayGuard** — `TypeCorrect`, `WindowHolds`, `OnlyYoungReplayed`,
  `HandlersAcceptOnce`. `SpacedAcceptances` is not inductive: what keeps the
  second acceptance away is the row of the first. `IndInv` adds that the thread
  about to commit has SQLite's write lock and sees the row still absent
  (`Writing`), that a call's clock is at most `CallTime` old (`Timely`), that
  every acceptance passed the age test (`Recorded`), and that until its window is
  over an accepted mission has a row at least as young (`Covered`). Purges remove
  only rows whose window is over.
* **TxQueue** — `TypeCorrect` and `TableTruthful` hold for any number of queue
  objects, even when they overwrite each other's rows. The others assume one
  object and rest on the fact that a batch under the object's lock holds exactly
  the values the rows still have (`Exclusive`). `OneQueueKeepsPromise` is the
  refinement of `Outbox`: initial states map to initial states, every step to a
  step of it or a stutter. `OneQueueRecordsOnce` keeps an account: the chain has
  a row once for each fault that is to blame, and once more only if the row is
  `Owed`, that is, marked submitted or about to be.
* **DroneGateway** — `TypeCorrect`; `CarefulNeverWedge` and `CarefulListed` under
  the assumption that every drone keeps to one channel, announces itself and has
  one session. The invariant ties each entry to the session, announcement or
  link it came from, so a telemetry message always finds its entry.
* **ValidatorMesh** — `TypeCorrect`; `SupermajorityBacked`: every counted ack is
  an accepting judgement of a different node, for any number of nodes;
  `OneConsensus`: a node accepts a mission for one call only, and two sets of 67%
  of the nodes meet in a node. `MeshNetwork` allows one restart, too few to make
  both of its nodes forget; a restart of every node would let a second call
  agree, since `_seen_missions` is only in memory. `PeersHoldTheVotes`: a peer holds
  as many votes of a node as the node itself, less the one still under way
  (`Informed`).
* **SwarmConsensus** — `TypeCorrect`; `SwarmSurvives`: the drones the detector
  blacklists in a round voted against its outcome, and no outcome has every
  active drone against it; `vote_blacklist` needs weight besides the suspect's.
  `DissentCaught`: a detector that is kept has the counts of the history, and a
  drone at the threshold is on the blacklist for good.
* **MissionHandler** — `EachMissionQueuedOnce`. `QueuedOnce` alone is not
  inductive; `Inv` adds that a mission in flight past the guard is in the guard's
  table, is not queued, and is in flight once, and that everything queued is in
  the table. Only `Check` gets a call past the guard and only `Enqueue` queues;
  all other steps are covered by one lemma (`Quiet`). `HandlerTyped` are the types
  of all objects. `CommandsLimited`, `RootsCountEntries`, `TiersRegistered` and
  `HistoriesOrdered` have one shape: as long as an object is not `disturbed`, a
  thread inside it is `Alone` there, and what it has read is still true: the
  window's filtered list (`Limited`), the root computed (`Accounted`), the tier to
  register (`Registered`), the history loaded and appended to (`Ordered`).

### Parts of the station (`ServerProofs`, `StationProofs`)

* **Wallet** — a balance read under the lock is current until the commit
  (`Prepared`), and equals earnings less penalties (`Balanced`), so that
  `SummariesAddUp`, and every commit is a posting of `Ledger` (`WalletKeepsLedger`).
* **RestApi** — `RootsCoverMissions`: what a request has added stays among the
  scores, and a root it has read is a commitment at least as long.
  `ClientsKeepTheirWord`: what is on the disk is at least what a client was
  answered, for each row and each thread between its UPDATE and its commit; and
  unless two threads made the key at once every webhook is encrypted with the
  key in the file.
* **Dashboard** — `MissionsCreditedAsFlown`: whichever refresh put it there, the
  card's mission and score belong together, and so do those in every copy that a
  refresh has kept.
* **DroneLink** — `ConnectorsHeld`: a connector is in exactly one hand: a live
  mission's, the panel's, or not connected.
* **Camera** — `StreamsInOrder`, an action property: with one capturing thread for
  an adapter the frames it has stored and those a stream has yielded are below
  the adapter's counter. `CameraTyped` adds what ties every thread to the start
  that made it.
* **Emergency** — `ResolvedStaysResolved`: the counter is part of the id, so the
  first emergency with an id is the only one.
* **MissionLog** — `BetterFlyingPays` compares two calculators step by step;
  `ChainVouchesForHistory`: a hash stands for all that was recorded up to it.
* **Evidence** — `RecordsVerified`: a record of this process has the key of one of
  its objects and an attestation id below that object's count, so two records
  never share both.
* **FlightChecks** — `CommandsOnce`: an accepted nonce is in the cache or its
  command is stale; `JumpsNotCleared` by arithmetic on two points of a flight.
* **SwarmFlight** — `TwoKeepApart`: the first drone has climbed over the second, or
  the second over what the first then has; at each point of the two paths the
  levels differ by a layer or the places are far.
* **Learning** — `LessonsStay`: that weights sum to about 1000 is not inductive,
  rounding could drift. `Schooled` is: it bounds each weight and says on which
  side of 1000 the next lesson may still round. A lesson in the middle is
  described by the weights it started from (`Under`). `SwarmKeepsAverage`: a
  weighted average, rounded, lies between the least and the greatest of what was
  sent with a weight.
* **SharedScore** — `TwoSharesAgree`: two different points of a line over any prime
  field give its value at zero back, by the Lagrange terms as `reconstruct`
  computes them; the same point twice gives a denominator of 0, whose
  "inverse" is 0, and with it a score of 0, which passes no limit.
* **Station** — parts share no variable, so a behaviour of the station is one of
  each part (`StationParts`). With it `StationAcceptsRecords`, `StationPaysAsFlown`,
  `StationChecksAgree`, `StationLearnsRight`, `StationSharesAgree` and `StationTyped`
  say of the station what its properties put together of several parts.

Sums and folds over sequences and sets need an induction that the library's
theorems state for a predicate parameter, which the provers cannot instantiate.
The proofs take a least element instead: a set of naturals, or of finite subsets
ordered by strict inclusion, that is not empty has a minimal element
(`FS_StrictSubsetOrderingWellFounded`, `WFMin`), and at a least counterexample the
definition of the fold gives the contradiction (`LeastNatural`, `LeastSubset`).

### Only model-checked

* `LockReleased` and `StopEnds`: liveness under fairness is beyond the prover.
* `SharesAgree` for thresholds above 2, which `Station` does not reach either.
* What the hypotheses above leave out and a run still covers, such as the one
  restart of `MeshNetwork` for `AgreedOnce`.

## 5. Findings

1. `ReplayGuardAbandoned`: an INSERT that loses the race leaves its transaction
   open and blocks every other guard (`replay_guard.py:63`).
2. `GatewayReconnect`: `update_telemetry` calls `register` under the same lock
   (`drone_registry.py:47`).
3. `MeshRetry`: `duplicate_mission` counts as a rejection
   (`validator_node.py:113`).
4. `SwarmMajority`: the detector takes the outcome for the majority
   (`swarm_consensus.py:152`).
5. `HistoryLost`: `append_mission` loses missions when two calls meet
   (`storage.py:57`).

Known from reading, and no run about them: nothing outside the tests calls
`submit_pending`, and `RETRY_DELAYS` is not used (`tx_queue.py:88`); a drone's
`connected` flag changes only when all drones are listed (`drone_registry.py:66`);
`get_result` takes the quorum over the votes a node happens to hold
(`validator_node.py:173`); `threat_passed` tests for a level that
`full_threat_assessment` never answers (`pipeline.py:112`, `threat_defense.py:177`);
`GET /drone/status` asks for a key that the reputation's status does not have
(`api.py:118`); the API makes a reward calculator for each request, so that no
streak ever counts (`api.py:140`); the average of a federated round names no
weight that a planner applies (`planner.py:248-255`), so that no round changes
a planner.

## 6. Not modelled, and the plan

Not modelled, with the reasons:

* `main.py`, `cli.py`, the demonstrations: scripts that call modelled components
  one after the other and print.
* `dashboard/templates.py` and the HTML of `app.py`, `ws_server.py`: display; the
  log broadcaster keeps nothing.
* `node.py`, `konnex_integration.py`, `protocol.py`: a simulated network whose
  connect cannot fail, a dict and record types. The one count the dashboard reads
  of it is in `Dashboard`.
* `zk_prover.py`, `zk/`: an external binary and generated code; its verdict does not
  enter any decision.
* `memory.py`: the handler's flight memory is read by nobody, its file functions
  are called by nobody.
* `validator_auth.py`, `operator_license.py`, `aviation_compliance.py`,
  `geofencing.py`: stateless checks or classes without a caller outside tests.
* `miner/weather.py`, `energy.py`, `citymap.py`, `navigation.py`,
  `environment/obstacles.py`: formulas on floating-point positions, without state
  that one call leaves for another.
* `mavlink_emulator.py`: generates traffic for demonstrations.
* `proof_of_delivery.py`, `privacy.py`, `identity.py`, `crypto_utils.py`: each result
  depends on its own input alone; `POST /delivery/prove` is in `RestApi`.
* Of the modelled components, what `PROJECT.json` names in each note: mainly the
  validation of raw tasks, `coordinate_with_orca`, HTTP and MQTT framing, and
  reports.

Order of the work:

1. *(done)* `ReplayGuard`, `TxQueue`/`Outbox`, `DroneRegistry`/`DroneGateway`,
   `ValidatorMesh`, `SwarmConsensus`, `MissionHandler` with its parts, each with
   its proofs.
2. *(done)* the parts of `MCStation`, model-checked.
3. *(done)* Theorems about them, under the hypotheses of section 4: the
   refinement of `Ledger`, `FramesInOrder`, and every safety property of
   `Station`, part by part and in the station.
4. *(done)* The other properties of `MissionHandler`, `TxQueue`, `ValidatorMesh`
   and `SwarmConsensus`.
5. `SharesAgree` for thresholds above 2, which needs that a polynomial of degree
   `Threshold - 1` is the one its points determine, for any number of points; a
   weaker fact about `NotWedged` for drones that reconnect; `Outbox` for several
   queue objects, with an abstract queue that may go back.
6. A sequential `MissionHandler` as refinement of an append-only bounded log.
