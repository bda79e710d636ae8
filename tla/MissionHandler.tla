---------------------------- MODULE MissionHandler ----------------------------
(***************************************************************************)
(* dronesync/synapse.py, DroneNavSynapseHandler.handle, with everything it *)
(* calls that keeps state: the firewall, the replay guard, the mission     *)
(* pipeline with its score root and consensus tiers, the drone's           *)
(* reputation, its storage file and the transaction queue.                 *)
(*                                                                         *)
(* The dashboard calls handle() of one handler object from its background  *)
(* thread and from every GET /api/refresh of a ThreadingHTTPServer         *)
(* (dashboard/app.py:193-196, 307-313, 997-1000), so several threads are    *)
(* inside it at once and only the replay guard has a lock.  A call is      *)
(* split wherever it leaves a shared object half way.                      *)
(*                                                                         *)
(* Flight and score are data: a mission gets any of the scores the code    *)
(* can compute.  The pipeline's own swarm always approves: its drones are  *)
(* never blacklisted and all vote TRUE (pipeline.py:127-132); the record   *)
(* it signed verifies; and no threat level is CRITICAL, since              *)
(* full_threat_assessment answers HIGH or NONE (threat_defense.py:177).    *)
(* The AI planner's weights, the flight memory and the logs are left out:  *)
(* they are read only to compute scores and reports.                       *)
(***************************************************************************)
EXTENDS Reputation, Firewall, ScoreRoot, DroneStorage, FiniteSets

CONSTANTS
  Threads,     \* threads that call handle()
  Missions,    \* mission ids
  Scores,      \* scores the evaluator may give (36 to 100)
  Horizon,     \* bound on the clock, for model checking
  MaxAdmitted, \* bound on the commands let in, for model checking
  MaxRestarts  \* bound on restarts, for model checking

ASSUME HandlerAssumption ==
  /\ Callers = Threads /\ Writers = Threads /\ Savers = Threads
  /\ Entries = Missions /\ Saved = Missions
  /\ Scores \subseteq 36..100
  /\ Horizon \in Nat /\ MaxAdmitted \in Nat /\ MaxRestarts \in Nat

Sections == {"firewall", "root", "reputation", "storage"}
Tasks == [mission : Missions, score : Scores \cup {0}, read : ReputationScores,
          tier : Tiers]
Idle == [mission |-> "none"]
Labels == {"idle", "place", "count", "admit", "check", "fly", "add", "root",
           "commit", "sign", "rate", "status", "register", "load",
           "open", "write", "enqueue"}

VARIABLES
  seen,        \* the replay guard's table, on disk
  queue,       \* missions in the transaction queue, on disk
  reputation,  \* DroneReputation.score
  tier,        \* DroneReputation.tier
  consensusTier, \* the tier the pipeline's consensus has registered
  pc,          \* where each thread is in handle()
  task,        \* locals of each thread's call
  stored,      \* history: missions whose record was written, in order
  disturbed,   \* history: sections that were interrupted half way
  restarts

handlerVars == <<seen, queue, reputation, tier, consensusTier>>
vars == <<now, firewallVars, scoreRootVars, storageVars, handlerVars,
          pc, task, stored, disturbed, restarts>>

\* The steps in which a thread is half way through a shared object.
Section(name) ==
  CASE name = "firewall" -> {"place", "count", "admit"}
    [] name = "root" -> {"root", "commit"}
    [] name = "reputation" -> {"rate", "status", "register"}
    [] name = "storage" -> {"open", "write"}

Inside(t, name) == pc[t] \in Section(name)

Init ==
  /\ FirewallInit /\ ScoreRootInit /\ StorageInit
  /\ seen = {}
  /\ queue = << >>
  /\ reputation = BaseScore /\ tier = "ROOKIE" /\ consensusTier = "ROOKIE"
  /\ pc = [t \in Threads |-> "idle"]
  /\ task = [t \in Threads |-> Idle]
  /\ stored = << >>
  /\ disturbed = {}
  /\ restarts = 0

Goto(t, label) == pc' = [pc EXCEPT ![t] = label]

\* handle() answers: OK, BLOCKED, REJECTED or ERROR.
Answer(t) ==
  /\ pc' = [pc EXCEPT ![t] = "idle"]
  /\ task' = [task EXCEPT ![t] = Idle]

\* A thread starts on an object another thread is half way through.
Enter(t, name) ==
  disturbed' = IF \E u \in Threads \ {t} : Inside(u, name)
               THEN disturbed \cup {name} ELSE disturbed

-----------------------------------------------------------------------------
(* Firewall and replay guard *)

\* A well-formed task arrives, and filter() drops the times out of the window.
Begin(t, m) ==
  /\ pc[t] = "idle"
  /\ Len(admitted) < MaxAdmitted
  /\ task' = [task EXCEPT ![t] = [mission |-> m, score |-> 0,
                                  read |-> BaseScore, tier |-> "ROOKIE"]]
  /\ Expire(t)
  /\ Enter(t, "firewall")
  /\ Goto(t, "place")
  /\ UNCHANGED <<now, scoreRootVars, storageVars, handlerVars, stored, restarts>>

Place(t) ==
  /\ pc[t] = "place"
  /\ PutInPlace(t)
  /\ Goto(t, "count")
  /\ UNCHANGED <<now, scoreRootVars, storageVars, handlerVars, task, stored,
                 disturbed, restarts>>

Count(t) ==
  /\ pc[t] = "count"
  /\ IF Full THEN Block(t) /\ Answer(t)
     ELSE Goto(t, "admit") /\ UNCHANGED <<firewallVars, task>>
  /\ UNCHANGED <<now, scoreRootVars, storageVars, handlerVars,
                 stored, disturbed, restarts>>

Pass(t) ==
  /\ pc[t] = "admit"
  /\ Admit(t)
  /\ Goto(t, "check")
  /\ UNCHANGED <<now, scoreRootVars, storageVars, handlerVars, task, stored,
                 disturbed, restarts>>

\* Faulty variant: the guard answers without remembering the mission.
CheckOnly(t) ==
  /\ pc[t] = "check"
  /\ IF task[t].mission \in seen THEN Answer(t)
     ELSE Goto(t, "fly") /\ UNCHANGED task
  /\ UNCHANGED <<now, firewallVars, scoreRootVars, storageVars, handlerVars,
                 stored, disturbed, restarts>>

\* replay_guard.check, of one guard: a mission is let through once.
Check(t) ==
  /\ pc[t] = "check"
  /\ IF task[t].mission \in seen THEN Answer(t) /\ UNCHANGED seen
     ELSE /\ seen' = seen \cup {task[t].mission}
          /\ Goto(t, "fly")
          /\ UNCHANGED task
  /\ UNCHANGED <<now, firewallVars, scoreRootVars, storageVars, queue, reputation,
                 tier, consensusTier, stored, disturbed, restarts>>

-----------------------------------------------------------------------------
(* Flight and pipeline *)

\* plan_trajectory, env.run, evaluator.score and full_security_check.
Fly(t) ==
  /\ pc[t] = "fly"
  /\ \E s \in Scores : task' = [task EXCEPT ![t].score = s]
  /\ Goto(t, "add")
  /\ UNCHANGED <<now, firewallVars, scoreRootVars, storageVars, handlerVars,
                 stored, disturbed, restarts>>

Add(t) ==
  /\ pc[t] = "add"
  /\ AddScore(task[t].mission)
  /\ Enter(t, "root")
  /\ Goto(t, "root")
  /\ UNCHANGED <<now, firewallVars, storageVars, handlerVars, task, stored, restarts>>

\* commit() computes its own root; the one pipeline.py:156 shows is not kept.
HashScores(t) ==
  /\ pc[t] = "root"
  /\ ComputeRoot(t)
  /\ Goto(t, "commit")
  /\ UNCHANGED <<now, firewallVars, storageVars, handlerVars, task, stored,
                 disturbed, restarts>>

CommitScores(t) ==
  /\ pc[t] = "commit"
  /\ Commit(t)
  /\ Goto(t, "sign")
  /\ UNCHANGED <<now, firewallVars, storageVars, handlerVars, task, stored,
                 disturbed, restarts>>

\* The record is signed and verified; record_mission reads the reputation.
Sign(t) ==
  /\ pc[t] = "sign"
  /\ task' = [task EXCEPT ![t].read = reputation]
  /\ Enter(t, "reputation")
  /\ Goto(t, "rate")
  /\ UNCHANGED <<now, firewallVars, scoreRootVars, storageVars, handlerVars,
                 stored, restarts>>

\* _update_score: the new score and its tier.
Rate(t) ==
  /\ pc[t] = "rate"
  /\ reputation' = UpdatedScore(task[t].read, task[t].score, TRUE)
  /\ tier' = ComputeTier(reputation')
  /\ Goto(t, "status")
  /\ UNCHANGED <<now, firewallVars, scoreRootVars, storageVars, seen, queue,
                 consensusTier, task, stored, disturbed, restarts>>

ReadStatus(t) ==
  /\ pc[t] = "status"
  /\ task' = [task EXCEPT ![t].tier = tier]
  /\ Goto(t, "register")
  /\ UNCHANGED <<now, firewallVars, scoreRootVars, storageVars, handlerVars,
                 stored, disturbed, restarts>>

\* Faulty variant: the tier from before the mission is registered.
RegisterOldTier(t) ==
  /\ pc[t] = "register"
  /\ consensusTier' = ComputeTier(task[t].read)
  /\ Goto(t, "load")
  /\ UNCHANGED <<now, firewallVars, scoreRootVars, storageVars, seen, queue,
                 reputation, tier, task, stored, disturbed, restarts>>

RegisterTier(t) ==
  /\ pc[t] = "register"
  /\ consensusTier' = task[t].tier
  /\ Goto(t, "load")
  /\ UNCHANGED <<now, firewallVars, scoreRootVars, storageVars, seen, queue,
                 reputation, tier, task, stored, disturbed, restarts>>

-----------------------------------------------------------------------------
(* Storage and queue *)

Load(t) ==
  /\ pc[t] = "load"
  /\ LoadAndAppend(t, task[t].mission)
  /\ Enter(t, "storage")
  /\ Goto(t, "open")
  /\ UNCHANGED <<now, firewallVars, scoreRootVars, handlerVars, task, stored, restarts>>

Open(t) ==
  /\ pc[t] = "open"
  /\ OpenToWrite(t)
  /\ Goto(t, "write")
  /\ UNCHANGED <<now, firewallVars, scoreRootVars, handlerVars, task, stored,
                 disturbed, restarts>>

Save(t) ==
  /\ pc[t] = "write"
  /\ WriteAndClose(t)
  /\ stored' = Append(stored, task[t].mission)
  /\ Goto(t, "enqueue")
  /\ UNCHANGED <<now, firewallVars, scoreRootVars, handlerVars, task, disturbed,
                 restarts>>

\* The pipeline's verdict, and TxQueue().enqueue: a row if it is for the chain.
OnChainReady(score) == score >= 50

Enqueue(t) ==
  /\ pc[t] = "enqueue"
  /\ queue' = IF OnChainReady(task[t].score) THEN Append(queue, task[t].mission)
              ELSE queue
  /\ Answer(t)
  /\ UNCHANGED <<now, firewallVars, scoreRootVars, storageVars, seen, reputation,
                 tier, consensusTier, stored, disturbed, restarts>>

-----------------------------------------------------------------------------
(* Failures *)

\* An exception outside the half-way steps: a task without an origin, a locked
\* database, a bundle that cannot be packed, a proof that cannot be made, a file
\* that cannot be read.  What was done stays done.
Fail(t) ==
  /\ pc[t] \in {"check", "fly", "add", "sign", "load", "enqueue"}
  /\ Answer(t)
  /\ UNCHANGED <<now, firewallVars, scoreRootVars, storageVars, handlerVars,
                 stored, disturbed, restarts>>

\* The process stops and starts again: the guard's table, the queue and the file
\* are on disk, everything else begins anew.  The window forgets its commands,
\* and a file that was emptied to be written stays empty.
Restart ==
  /\ restarts < MaxRestarts
  /\ restarts' = restarts + 1
  /\ times' = {} /\ filtered' = [t \in Threads |-> NoCall]
  /\ scores' = << >> /\ root' = [t \in Threads |-> << >>] /\ commitments' = << >>
  /\ reputation' = BaseScore /\ tier' = "ROOKIE" /\ consensusTier' = "ROOKIE"
  /\ state' = [t \in Threads |-> << >>]
  /\ handle' = [t \in Threads |-> "none"]
  /\ pc' = [t \in Threads |-> "idle"]
  /\ task' = [t \in Threads |-> Idle]
  /\ disturbed' = disturbed \cup {"firewall"} \cup
       (IF \E t \in Threads : pc[t] = "write" THEN {"storage"} ELSE {})
  /\ UNCHANGED <<now, admitted, file, seen, queue, stored>>

Tick ==
  /\ now < Horizon
  /\ now' = now + 1
  /\ UNCHANGED <<firewallVars, scoreRootVars, storageVars, handlerVars, pc, task,
                 stored, disturbed, restarts>>

Step(t) ==
  \/ Place(t) \/ Count(t) \/ Pass(t) \/ Check(t)
  \/ Fly(t) \/ Add(t) \/ HashScores(t) \/ CommitScores(t)
  \/ Sign(t) \/ Rate(t) \/ ReadStatus(t) \/ RegisterTier(t)
  \/ Load(t) \/ Open(t) \/ Save(t) \/ Enqueue(t)

Next ==
  \/ \E t \in Threads, m \in Missions : Begin(t, m)
  \/ \E t \in Threads : Step(t)
  \/ \E t \in Threads : Fail(t)
  \/ Restart
  \/ Tick

Spec == Init /\ [][Next]_vars

-----------------------------------------------------------------------------
(* Properties *)

\* Every object keeps its type, a call in progress has its mission, and the file
\* never keeps more missions than it should (storage.py:62).
TypeOK ==
  /\ FirewallTypeOK /\ ScoreRootTypeOK /\ StorageTypeOK
  /\ seen \subseteq Missions
  /\ queue \in Seq(Missions)
  /\ reputation \in ReputationScores /\ tier \in Tiers /\ consensusTier \in Tiers
  /\ task \in [Threads -> Tasks \cup {Idle}]
  /\ \A t \in Threads : pc[t] # "idle" => task[t] \in Tasks
  /\ pc \in [Threads -> Labels]
  /\ stored \in Seq(Missions)
  /\ disturbed \subseteq Sections
  /\ restarts \in Nat

\* A mission gets into the transaction queue at most once, whatever is sent again
\* after an ERROR, by whatever threads, and through restarts.
QueuedOnce ==
  \A i, j \in DOMAIN queue : queue[i] = queue[j] => i = j

\* "DroneFirewall -- 20 commands/minute limit" (docs/SECURITY.md:17) holds as long
\* as no two calls meet inside filter() and the process keeps running.
RateLimited ==
  "firewall" \notin disturbed => Cardinality(InWindow(DOMAIN admitted)) <= MaxCommands

\* A commitment counts the entries its root covers, and verify_score answers for
\* covered entries, unless calls met between add_score and commit
\* (scoreroot.py:53-85, pipeline.py:150-159).
RootCountsEntries ==
  "root" \notin disturbed =>
    /\ \A i \in DOMAIN commitments : commitments[i].count = Len(commitments[i].root)
    /\ \A t \in Threads : pc[t] = "enqueue" =>
         Verified(task[t].mission) /\ Covered(task[t].mission)

\* Votes are weighted by the tier the drone has now, unless two calls updated the
\* reputation at the same time (pipeline.py:196-209).
TierRegistered ==
  "reputation" \notin disturbed /\ (\A t \in Threads : ~Inside(t, "reputation"))
    => consensusTier = tier

\* The file holds the last missions written to it, in order, unless two calls met
\* inside append_mission or the process stopped between emptying and writing it.
HistoryOrdered ==
  "storage" \notin disturbed /\ (\A t \in Threads : pc[t] # "write")
    => file = Holding(LastKept(stored))

\* append_mission adds "a mission to drone's history without overwriting other
\* data" (storage.py:56): of no more missions than are kept, every one that was
\* written is in the file when nobody is writing.
HistoryKept ==
  Len(stored) <= Keep /\ (\A t \in Threads : ~Inside(t, "storage"))
    => \A i \in DOMAIN stored :
         \E j \in DOMAIN file.missions : file.missions[j] = stored[i]
=============================================================================
