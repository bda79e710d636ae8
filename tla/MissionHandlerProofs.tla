------------------------- MODULE MissionHandlerProofs -------------------------
(***************************************************************************)
(* MissionHandler, for any threads and missions.  QueuedOnce: a mission a  *)
(* thread has got past the replay guard is in the guard's table, no other  *)
(* thread has got past with it, and it is not queued yet; what is queued   *)
(* is in the table.  So the guard lets no queued mission in again.         *)
(*                                                                         *)
(* The other invariants say what an object is worth as long as no two      *)
(* calls met in it.  Each rests on one of the same form: at most one       *)
(* thread is inside the object, and half way through it the shared state   *)
(* and the thread's own copy agree.  A thread that enters while another is *)
(* inside gives the promise up, so only its own section can disturb it.    *)
(***************************************************************************)
EXTENDS MissionHandler, SequenceTheorems, FiniteSetTheorems, TLAPS

\* Where a call has passed the replay guard.
Past == Labels \ {"idle", "place", "count", "admit", "check"}

\* What a call knows of its mission.
Shape ==
  /\ task \in [Threads -> Tasks \cup {Idle}]
  /\ pc \in [Threads -> Labels]
  /\ \A t \in Threads : pc[t] # "idle" => task[t] \in Tasks
  /\ reputation \in ReputationScores
  /\ tier \in Tiers

Passed ==
  \A t \in Threads : pc[t] \in Past =>
    /\ task[t].mission \in seen
    /\ \A i \in DOMAIN queue : queue[i] # task[t].mission

Apart ==
  \A t, u \in Threads : t # u /\ pc[t] \in Past /\ pc[u] \in Past =>
    task[t].mission # task[u].mission

Queued ==
  /\ queue \in Seq(Missions)
  /\ \A i \in DOMAIN queue : queue[i] \in seen

Inv == Shape /\ Passed /\ Apart /\ Queued /\ QueuedOnce

LEMMA ScoresAreNumbers == \A s \in Scores \cup {0} : s \in Int
  BY HandlerAssumption

\* The reputation stays within its bounds whatever a mission scores
\* (reputation.py:40-53).
LEMMA ReputationBounded ==
  ASSUME NEW score \in ReputationScores, NEW s \in Int, NEW safe \in BOOLEAN
  PROVE  UpdatedScore(score, s, safe) \in ReputationScores
<1>1. Earned(s, safe) \in Int
  BY DEF Earned
<1>2. score + Earned(s, safe) \in Int
  BY <1>1 DEF ReputationScores, MinScore, MaxScore
<1>3. ASSUME NEW n \in Int
      PROVE  Larger(0, Smaller(100, n)) \in 0..100
  BY DEF Larger, Smaller
<1> QED
  BY <1>2, <1>3 DEF UpdatedScore, ReputationScores, MinScore, MaxScore

LEMMA TiersAreTiers ==
  ASSUME NEW score \in ReputationScores
  PROVE  ComputeTier(score) \in Tiers
  BY DEF ComputeTier, Tiers, ReputationScores, MinScore, MaxScore

LEMMA InitInv == Init => Inv
  BY DEF Init, Inv, Shape, Passed, Apart, Queued, QueuedOnce, Idle, Labels, Past,
         ReputationScores, BaseScore, MinScore, MaxScore, Tiers

\* A step that gets no call past the guard, and neither lets anyone in nor queues
\* anything, keeps what the guard and the queue agree on.
LEMMA Quiet ==
  ASSUME Inv, Shape',
         UNCHANGED <<seen, queue>>,
         \A t \in Threads : pc'[t] \in Past =>
           pc[t] \in Past /\ task'[t].mission = task[t].mission
  PROVE  Inv'
<1>1. Passed'
  BY DEF Inv, Passed
<1>2. Apart'
  BY DEF Inv, Apart
<1> QED
  BY <1>1, <1>2 DEF Inv, Queued, QueuedOnce

\* A thread that answers is idle, and nobody else is touched.
LEMMA Answered ==
  ASSUME Inv, NEW t \in Threads, Answer(t), UNCHANGED <<seen, queue>>,
         UNCHANGED <<reputation, tier>>
  PROVE  Inv'
<1>1. \A u \in Threads : pc'[u] = IF u = t THEN "idle" ELSE pc[u]
  BY DEF Answer, Inv, Shape
<1>2. \A u \in Threads : u # t => task'[u] = task[u]
  BY DEF Answer, Inv, Shape
<1>3. Shape'
  BY <1>1, <1>2 DEF Answer, Inv, Shape, Labels
<1>4. \A u \in Threads : pc'[u] \in Past =>
        pc[u] \in Past /\ task'[u].mission = task[u].mission
  BY <1>1, <1>2 DEF Past
<1> QED
  BY <1>3, <1>4, Quiet

\* A thread that goes on within its call, with the same mission.
LEMMA Advances ==
  ASSUME Inv, NEW t \in Threads, NEW label \in Labels \ {"idle"},
         pc[t] # "idle", Goto(t, label), UNCHANGED <<seen, queue>>,
         label \in Past => pc[t] \in Past,
         task' \in [Threads -> Tasks \cup {Idle}],
         task'[t] \in Tasks, task'[t].mission = task[t].mission,
         \A u \in Threads : u # t => task'[u] = task[u],
         reputation' \in ReputationScores, tier' \in Tiers
  PROVE  Inv'
<1>1. \A u \in Threads : pc'[u] = IF u = t THEN label ELSE pc[u]
  BY DEF Goto, Inv, Shape
<1>2. pc' \in [Threads -> Labels]
  BY DEF Goto, Inv, Shape
<1>3. \A u \in Threads : pc'[u] # "idle" => task'[u] \in Tasks
  BY <1>1 DEF Inv, Shape
<1>4. Shape'
  BY <1>2, <1>3 DEF Shape
<1>5. \A u \in Threads : pc'[u] \in Past =>
        pc[u] \in Past /\ task'[u].mission = task[u].mission
  BY <1>1
<1> QED
  BY <1>4, <1>5, Quiet

\* The same, when it only goes on and leaves its locals alone.
LEMMA Moves ==
  ASSUME Inv, NEW t \in Threads, NEW label \in Labels \ {"idle"},
         pc[t] # "idle", Goto(t, label), UNCHANGED <<seen, queue, task>>,
         label \in Past => pc[t] \in Past,
         reputation' \in ReputationScores, tier' \in Tiers
  PROVE  Inv'
<1>1. task'[t] \in Tasks /\ task' \in [Threads -> Tasks \cup {Idle}]
  BY DEF Inv, Shape
<1> QED
  BY <1>1, Advances
-----------------------------------------------------------------------------

LEMMA BeginInv ==
  ASSUME Inv, NEW t \in Threads, NEW m \in Missions, Begin(t, m)
  PROVE  Inv'
<1> DEFINE new == [mission |-> m, score |-> 0, read |-> BaseScore, tier |-> "ROOKIE"]
<1>1. new \in Tasks
  BY DEF Tasks, ReputationScores, BaseScore, MinScore, MaxScore, Tiers
<1>2. \A u \in Threads : /\ pc'[u] = IF u = t THEN "place" ELSE pc[u]
                         /\ task'[u] = IF u = t THEN new ELSE task[u]
  BY DEF Begin, Goto, Inv, Shape
<1>3. task' \in [Threads -> Tasks \cup {Idle}] /\ pc' \in [Threads -> Labels]
  BY <1>1 DEF Begin, Goto, Inv, Shape, Labels
<1>4. reputation' = reputation /\ tier' = tier /\ UNCHANGED <<seen, queue>>
  BY DEF Begin, handlerVars
<1>5. Shape'
  BY <1>1, <1>2, <1>3, <1>4 DEF Inv, Shape
<1>6. \A u \in Threads : pc'[u] \in Past =>
        pc[u] \in Past /\ task'[u].mission = task[u].mission
  BY <1>2 DEF Past
<1> QED
  BY <1>4, <1>5, <1>6, Quiet

\* The guard lets a mission through that is not in its table: the only step by
\* which a call gets past it.
LEMMA CheckInv ==
  ASSUME Inv, NEW t \in Threads, Check(t)
  PROVE  Inv'
<1> DEFINE m == task[t].mission
<1>1. CASE m \in seen
  <2>1. Answer(t) /\ UNCHANGED <<seen, queue>> /\ UNCHANGED <<reputation, tier>>
    BY <1>1 DEF Check
  <2> QED
    BY <2>1, Answered
<1>2. CASE m \notin seen
  <2>1. /\ seen' = seen \cup {m} /\ UNCHANGED <<queue, task, reputation, tier>>
        /\ pc[t] = "check" /\ Goto(t, "fly")
    BY <1>2 DEF Check
  <2>2. \A u \in Threads : pc'[u] = IF u = t THEN "fly" ELSE pc[u]
    BY <2>1 DEF Goto, Inv, Shape
  <2>3. Shape'
    BY <2>1, <2>2 DEF Goto, Inv, Shape, Labels
  <2>4. \A i \in DOMAIN queue : queue[i] # m
    BY <1>2 DEF Inv, Queued
  <2>5. Passed'
    BY <2>1, <2>2, <2>4 DEF Inv, Passed
  <2>6. \A u \in Threads : u # t /\ pc[u] \in Past => task[u].mission # m
    BY <1>2 DEF Inv, Passed
  <2>7. Apart'
    BY <2>1, <2>2, <2>6 DEF Inv, Apart
  <2>8. Queued' /\ QueuedOnce'
    BY <2>1 DEF Inv, Queued, QueuedOnce
  <2> QED
    BY <2>3, <2>5, <2>7, <2>8 DEF Inv
<1> QED
  BY <1>1, <1>2

\* A row is queued by a call that leaves: its mission is no longer in flight.
LEMMA EnqueueInv ==
  ASSUME Inv, NEW t \in Threads, Enqueue(t)
  PROVE  Inv'
<1> DEFINE m == task[t].mission
<1>1. Answer(t) /\ UNCHANGED <<seen, reputation, tier>> /\ pc[t] = "enqueue"
  BY DEF Enqueue
<1>2. CASE queue' = queue
  BY <1>1, <1>2, Answered
<1>3. CASE queue' = Append(queue, m)
  <2>1. /\ queue \in Seq(Missions) /\ m \in Missions /\ m \in seen
        /\ \A i \in DOMAIN queue : queue[i] # m
    BY <1>1 DEF Inv, Queued, Shape, Tasks, Passed, Past, Labels
  <2>2. /\ queue' \in Seq(Missions) /\ DOMAIN queue' = 1..(Len(queue) + 1)
        /\ DOMAIN queue = 1..Len(queue) /\ Len(queue) \in Nat
        /\ \A i \in 1..Len(queue) : queue'[i] = queue[i]
        /\ queue'[Len(queue) + 1] = m
    BY <1>3, <2>1
  <2>3. \A i \in DOMAIN queue' :
          \/ i \in DOMAIN queue /\ queue'[i] = queue[i]
          \/ i = Len(queue) + 1 /\ queue'[i] = m
    BY <2>2
  <2>4. Queued'
    BY <1>1, <2>1, <2>2, <2>3 DEF Inv, Queued
  <2>5. QueuedOnce'
    BY <2>1, <2>3 DEF Inv, QueuedOnce
  <2>6. \A u \in Threads : pc'[u] = IF u = t THEN "idle" ELSE pc[u]
    BY <1>1 DEF Answer, Inv, Shape
  <2>7. \A u \in Threads : u # t => task'[u] = task[u]
    BY <1>1 DEF Answer, Inv, Shape
  <2>8. Shape'
    BY <1>1, <2>6, <2>7 DEF Answer, Inv, Shape, Labels
  <2>9. \A u \in Threads : pc'[u] \in Past =>
          u # t /\ pc[u] \in Past /\ task'[u] = task[u]
    BY <2>6, <2>7 DEF Past
  <2>10. \A u \in Threads : u # t /\ pc[u] \in Past => task[u].mission # m
    BY <1>1 DEF Inv, Apart, Past, Labels
  <2>11. Passed'
    BY <1>1, <2>3, <2>9, <2>10 DEF Inv, Passed
  <2>12. Apart'
    BY <2>9 DEF Inv, Apart
  <2> QED
    BY <2>4, <2>5, <2>8, <2>11, <2>12 DEF Inv
<1> QED
  BY <1>2, <1>3 DEF Enqueue

\* The steps that write what a call has computed into its locals.
LEMMA LocalsInv ==
  ASSUME Inv, NEW t \in Threads, Fly(t) \/ Sign(t) \/ ReadStatus(t)
  PROVE  Inv'
<1>1. task[t] \in Tasks /\ pc[t] \in Past
  BY DEF Fly, Sign, ReadStatus, Inv, Shape, Past, Labels
<1>2. CASE Fly(t)
  <2>1. PICK s \in Scores : task' = [task EXCEPT ![t].score = s]
    BY <1>2 DEF Fly
  <2>2. task'[t] = [task[t] EXCEPT !.score = s] /\ task'[t] \in Tasks
    BY <1>1, <2>1 DEF Inv, Shape, Tasks
  <2>3. task'[t].mission = task[t].mission
    BY <1>1, <2>2 DEF Tasks
  <2>4. task' \in [Threads -> Tasks \cup {Idle}]
    BY <2>1, <2>2 DEF Inv, Shape
  <2>5. \A u \in Threads : u # t => task'[u] = task[u]
    BY <2>1 DEF Inv, Shape
  <2> QED
    BY <1>1, <1>2, <2>2, <2>3, <2>4, <2>5, Advances
       DEF Fly, handlerVars, Labels, Past, Inv, Shape
<1>3. CASE Sign(t)
  <2>1. task' = [task EXCEPT ![t].read = reputation]
    BY <1>3 DEF Sign
  <2>2. task'[t] = [task[t] EXCEPT !.read = reputation] /\ task'[t] \in Tasks
    BY <1>1, <2>1 DEF Inv, Shape, Tasks
  <2>3. task'[t].mission = task[t].mission
    BY <1>1, <2>2 DEF Tasks
  <2>4. task' \in [Threads -> Tasks \cup {Idle}]
    BY <2>1, <2>2 DEF Inv, Shape
  <2>5. \A u \in Threads : u # t => task'[u] = task[u]
    BY <2>1 DEF Inv, Shape
  <2> QED
    BY <1>1, <1>3, <2>2, <2>3, <2>4, <2>5, Advances
       DEF Sign, handlerVars, Labels, Past, Inv, Shape
<1>4. CASE ReadStatus(t)
  <2>1. task' = [task EXCEPT ![t].tier = tier]
    BY <1>4 DEF ReadStatus
  <2>2. task'[t] = [task[t] EXCEPT !.tier = tier] /\ task'[t] \in Tasks
    BY <1>1, <2>1 DEF Inv, Shape, Tasks
  <2>3. task'[t].mission = task[t].mission
    BY <1>1, <2>2 DEF Tasks
  <2>4. task' \in [Threads -> Tasks \cup {Idle}]
    BY <2>1, <2>2 DEF Inv, Shape
  <2>5. \A u \in Threads : u # t => task'[u] = task[u]
    BY <2>1 DEF Inv, Shape
  <2> QED
    BY <1>1, <1>4, <2>2, <2>3, <2>4, <2>5, Advances
       DEF ReadStatus, handlerVars, Labels, Past, Inv, Shape
<1> QED
  BY <1>2, <1>3, <1>4

LEMMA RateInv ==
  ASSUME Inv, NEW t \in Threads, Rate(t)
  PROVE  Inv'
<1>1. /\ task[t].read \in ReputationScores /\ task[t].score \in Int
  BY ScoresAreNumbers DEF Rate, Inv, Shape, Tasks
<1>2. reputation' \in ReputationScores
  BY <1>1, ReputationBounded DEF Rate
<1>3. tier' \in Tiers
  BY <1>2, TiersAreTiers DEF Rate
<1>4. /\ pc[t] # "idle" /\ Goto(t, "status") /\ UNCHANGED <<seen, queue, task>>
      /\ pc[t] \in Past /\ "status" \in Labels \ {"idle"}
  BY DEF Rate, Past, Labels
<1> QED
  BY <1>2, <1>3, <1>4, Moves

\* The steps that change none of the locals.
LEMMA MovesInv ==
  ASSUME Inv, NEW t \in Threads,
         \/ Place(t) \/ Pass(t) \/ Add(t) \/ HashScores(t) \/ CommitScores(t)
         \/ RegisterTier(t) \/ Load(t) \/ Open(t) \/ Save(t)
  PROVE  Inv'
<1>1. /\ UNCHANGED <<seen, queue, task>>
      /\ UNCHANGED <<reputation, tier>> /\ pc[t] # "idle"
  BY DEF Place, Pass, Add, HashScores, CommitScores, RegisterTier, Load, Open, Save,
         handlerVars
<1>2. PICK label \in Labels \ {"idle"} :
        Goto(t, label) /\ (label \in Past => pc[t] \in Past)
  <2>1. CASE Place(t) \/ Pass(t)
    BY <2>1 DEF Place, Pass, Labels, Past
  <2>2. CASE Add(t) \/ HashScores(t) \/ CommitScores(t)
    BY <2>2 DEF Add, HashScores, CommitScores, Labels, Past
  <2>3. CASE RegisterTier(t) \/ Load(t) \/ Open(t) \/ Save(t)
    BY <2>3 DEF RegisterTier, Load, Open, Save, Labels, Past
  <2> QED
    BY <2>1, <2>2, <2>3
<1>3. reputation' \in ReputationScores /\ tier' \in Tiers
  BY <1>1 DEF Inv, Shape
<1> QED
  BY <1>1, <1>2, <1>3, Moves

LEMMA CountInv ==
  ASSUME Inv, NEW t \in Threads, Count(t)
  PROVE  Inv'
<1>1. /\ UNCHANGED <<seen, queue>> /\ UNCHANGED <<reputation, tier>>
      /\ pc[t] = "count"
      /\ Answer(t) \/ (Goto(t, "admit") /\ UNCHANGED task)
  BY DEF Count, handlerVars
<1>2. CASE Answer(t)
  BY <1>1, <1>2, Answered
<1>3. CASE Goto(t, "admit") /\ UNCHANGED task
  <2>1. reputation' \in ReputationScores /\ tier' \in Tiers
    BY <1>1 DEF Inv, Shape
  <2>2. "admit" \in Labels \ {"idle"} /\ "admit" \notin Past /\ pc[t] # "idle"
    BY <1>1 DEF Labels, Past
  <2> QED
    BY <1>1, <1>3, <2>1, <2>2, Moves
<1> QED
  BY <1>1, <1>2, <1>3

LEMMA RestartInv == Inv /\ Restart => Inv'
<1> SUFFICES ASSUME Inv, Restart PROVE Inv'
  OBVIOUS
<1>1. Shape'
  BY DEF Restart, Shape, Idle, Labels, ReputationScores, BaseScore, MinScore,
         MaxScore, Tiers
<1>2. UNCHANGED <<seen, queue>> /\ \A t \in Threads : pc'[t] \notin Past
  BY DEF Restart, Past
<1> QED
  BY <1>1, <1>2, Quiet

LEMMA StepInv == Inv /\ [Next]_vars => Inv'
<1> SUFFICES ASSUME Inv, [Next]_vars PROVE Inv'
  OBVIOUS
<1>1. ASSUME NEW t \in Threads, Step(t) PROVE Inv'
  BY <1>1, CheckInv, EnqueueInv, LocalsInv, RateInv, MovesInv, CountInv DEF Step
<1>2. ASSUME NEW t \in Threads, Fail(t) PROVE Inv'
  <2>1. Answer(t) /\ UNCHANGED <<seen, queue>> /\ UNCHANGED <<reputation, tier>>
    BY <1>2 DEF Fail, handlerVars
  <2> QED
    BY <2>1, Answered
<1>3. CASE Tick \/ UNCHANGED vars
  <2>1. UNCHANGED <<seen, queue, pc, task, reputation, tier>>
    BY <1>3 DEF Tick, vars, handlerVars
  <2> QED
    BY <2>1 DEF Inv, Shape, Passed, Apart, Queued, QueuedOnce
<1> QED
  BY <1>1, <1>2, <1>3, BeginInv, RestartInv DEF Next

\* A mission is queued at most once, whatever is sent again, by however many
\* threads, and however often the process restarts (synapse.py:205-212, 291).
THEOREM EachMissionQueuedOnce == Spec => []QueuedOnce
<1>1. Inv => QueuedOnce
  BY DEF Inv
<1> QED
  BY <1>1, InitInv, StepInv, PTL DEF Spec
-----------------------------------------------------------------------------
(* Types *)

\* The list a thread is about to write is no longer than what is kept.
Typed == TypeOK /\ \A t \in Threads : Len(state[t]) <= Keep

\* What a step does to the firewall keeps its types (firewall.py:54-78).
LEMMA FirewallTyped ==
  ASSUME FirewallTypeOK, NEW t \in Threads, now' = now,
         Expire(t) \/ PutInPlace(t) \/ Admit(t) \/ Block(t)
  PROVE  FirewallTypeOK'
<1>1. t \in Callers /\ filtered[t] \in [at : Nat, recent : SUBSET DOMAIN admitted]
  BY HandlerAssumption DEF FirewallTypeOK
<1>2. CASE Expire(t)
  BY <1>1, <1>2 DEF Expire, FirewallTypeOK, InWindow
<1>3. CASE PutInPlace(t)
  BY <1>1, <1>3 DEF PutInPlace, FirewallTypeOK
<1>4. CASE Admit(t)
  <2>1. /\ admitted' \in Seq(Nat) /\ Len(admitted') = Len(admitted) + 1
        /\ DOMAIN admitted \subseteq DOMAIN admitted' /\ Len(admitted') \in DOMAIN admitted'
    BY <1>1, <1>4 DEF Admit, FirewallTypeOK
  <2>2. times' \subseteq DOMAIN admitted'
    BY <2>1, <1>4 DEF Admit, FirewallTypeOK
  <2>3. filtered' \in [Callers -> [at : Nat, recent : SUBSET DOMAIN admitted']]
    <3>1. \A u \in Callers : filtered[u] \in [at : Nat, recent : SUBSET DOMAIN admitted']
      BY <2>1 DEF FirewallTypeOK
    <3>2. NoCall \in [at : Nat, recent : SUBSET DOMAIN admitted']
      BY DEF NoCall
    <3> QED
      BY <3>1, <3>2, <1>4 DEF Admit, FirewallTypeOK
  <2> QED
    BY <2>1, <2>2, <2>3 DEF FirewallTypeOK
<1>5. CASE Block(t)
  BY <1>1, <1>5 DEF Block, FirewallTypeOK, NoCall
<1> QED
  BY <1>2, <1>3, <1>4, <1>5

\* So do the steps of the score root (scoreroot.py:23-70).
LEMMA ScoreRootTyped ==
  ASSUME ScoreRootTypeOK, NEW t \in Threads, NEW e \in Missions,
         AddScore(e) \/ ComputeRoot(t) \/ Commit(t)
  PROVE  ScoreRootTypeOK'
<1>1. t \in Writers /\ e \in Entries
  BY HandlerAssumption
<1>2. CASE AddScore(e)
  BY <1>1, <1>2 DEF AddScore, ScoreRootTypeOK
<1>3. CASE ComputeRoot(t)
  BY <1>1, <1>3 DEF ComputeRoot, ScoreRootTypeOK
<1>4. CASE Commit(t)
  BY <1>1, <1>4 DEF Commit, ScoreRootTypeOK
<1> QED
  BY <1>2, <1>3, <1>4

\* What is kept of a sequence is no longer than Keep and ends like it
\* (storage.py:61-62).
LEMMA LastKeptShort ==
  ASSUME NEW s \in Seq(Missions)
  PROVE  /\ LastKept(s) \in Seq(Missions) /\ Len(LastKept(s)) <= Keep
         /\ Len(s) <= Keep => LastKept(s) = s
<1>1. Keep \in Nat \ {0} /\ Len(s) \in Nat
  BY StorageAssumption
<1>2. CASE Len(s) > Keep
  <2>1. LastKept(s) = SubSeq(s, Len(s) - Keep + 1, Len(s))
    BY <1>2 DEF LastKept
  <2> QED
    BY <1>1, <1>2, <2>1, SubSeqProperties
<1>3. CASE Len(s) <= Keep
  <2>1. LastKept(s) = SubSeq(s, 1, Len(s))
    <3>1. ~(Len(s) > Keep)
      BY <1>1, <1>3
    <3> QED
      BY <3>1 DEF LastKept
  <2>2. SubSeq(s, 1, Len(s)) = s
    BY SubSeqFull
  <2> QED
    BY <1>1, <1>3, <2>1, <2>2
<1> QED
  BY <1>1, <1>2, <1>3

LEMMA StorageTyped ==
  ASSUME StorageTypeOK, NEW t \in Threads, NEW m \in Missions,
         \A u \in Threads : Len(state[u]) <= Keep,
         LoadAndAppend(t, m) \/ OpenToWrite(t) \/ WriteAndClose(t)
  PROVE  StorageTypeOK' /\ \A u \in Threads : Len(state'[u]) <= Keep
<1>1. Savers = Threads /\ Saved = Missions /\ Keep \in Nat \ {0}
  BY HandlerAssumption, StorageAssumption
<1>2. ASSUME NEW s \in Seq(Missions), Len(s) <= Keep
      PROVE  /\ Holding(s).text = "whole" /\ Len(Holding(s).missions) <= Keep
             /\ Holding(s) \in [text : {"whole", "empty", "garbled"}, missions : Seq(Missions)]
  BY <1>2 DEF Holding
<1>3. ASSUME NEW x \in {"empty", "garbled"}
      PROVE  /\ Len(Unreadable(x).missions) <= Keep
             /\ Unreadable(x) \in [text : {"whole", "empty", "garbled"}, missions : Seq(Missions)]
  BY <1>1 DEF Unreadable
<1>4. CASE LoadAndAppend(t, m)
  <2> DEFINE s == LastKept(Append(file.missions, m))
  <2>1. s \in Seq(Missions) /\ Len(s) <= Keep
    <3>1. Append(file.missions, m) \in Seq(Missions)
      BY <1>1 DEF StorageTypeOK
    <3> QED
      BY <3>1, LastKeptShort
  <2>2. state' = [state EXCEPT ![t] = s]
    BY <1>4 DEF LoadAndAppend, LoadAnd
  <2>3. /\ file' \in [text : {"whole", "empty", "garbled"}, missions : Seq(Missions)]
        /\ Len(file'.missions) <= Keep
    <3>1. file' = file \/ file' = Holding(<< >>)
      BY <1>4 DEF LoadAndAppend, LoadAnd
    <3>2. << >> \in Seq(Missions) /\ Len(<< >>) <= Keep
      BY <1>1
    <3> QED
      BY <1>1, <1>2, <3>1, <3>2 DEF StorageTypeOK
  <2>4. handle' \in [Savers -> {"none", "path", "renamed"}]
    BY <1>4 DEF LoadAndAppend, LoadAnd, StorageTypeOK, Renamed
  <2> HIDE DEF s
  <2> QED
    BY <1>1, <2>1, <2>2, <2>3, <2>4 DEF StorageTypeOK
<1>5. CASE OpenToWrite(t)
  BY <1>1, <1>3, <1>5 DEF OpenToWrite, StorageTypeOK
<1>6. CASE WriteAndClose(t)
  <2>1. state[t] \in Seq(Missions) /\ Len(state[t]) <= Keep
    BY <1>1 DEF StorageTypeOK
  <2>2. /\ file' \in [text : {"whole", "empty", "garbled"}, missions : Seq(Missions)]
        /\ Len(file'.missions) <= Keep
    BY <1>1, <1>2, <1>3, <1>6, <2>1 DEF WriteAndClose, StorageTypeOK
  <2> QED
    BY <1>1, <1>6, <2>2 DEF WriteAndClose, StorageTypeOK
<1> QED
  BY <1>4, <1>5, <1>6

\* What the clock does to the types, and a step that leaves an object alone.
LEMMA ObjectsTyped ==
  ASSUME FirewallTypeOK, ScoreRootTypeOK, StorageTypeOK
  PROVE  /\ UNCHANGED firewallVars /\ now' \in Nat => FirewallTypeOK'
         /\ UNCHANGED scoreRootVars => ScoreRootTypeOK'
         /\ UNCHANGED storageVars => StorageTypeOK'
<1>1. UNCHANGED firewallVars /\ now' \in Nat => FirewallTypeOK'
  BY DEF FirewallTypeOK, firewallVars
<1>2. UNCHANGED scoreRootVars => ScoreRootTypeOK'
  BY DEF ScoreRootTypeOK, scoreRootVars
<1>3. UNCHANGED storageVars => StorageTypeOK'
  BY DEF StorageTypeOK, storageVars
<1> QED
  BY <1>1, <1>2, <1>3

LEMMA FirewallStepTyped ==
  ASSUME Typed, Next
  PROVE  FirewallTypeOK'
<1>1. now \in Nat /\ FirewallTypeOK
  BY DEF Typed, TypeOK, FirewallTypeOK
<1>2. ASSUME NEW t \in Threads, NEW m \in Missions, Begin(t, m) PROVE FirewallTypeOK'
  BY <1>1, <1>2, FirewallTyped DEF Begin
<1>3. ASSUME NEW t \in Threads, Place(t) PROVE FirewallTypeOK'
  BY <1>1, <1>3, FirewallTyped DEF Place
<1>4. ASSUME NEW t \in Threads, Count(t) PROVE FirewallTypeOK'
  <2>1. now' = now /\ (Block(t) \/ UNCHANGED firewallVars)
    BY <1>4 DEF Count
  <2> QED
    BY <1>1, <2>1, FirewallTyped, ObjectsTyped DEF Typed, TypeOK
<1>5. ASSUME NEW t \in Threads, Pass(t) PROVE FirewallTypeOK'
  BY <1>1, <1>5, FirewallTyped DEF Pass
<1>6. ASSUME NEW t \in Threads,
             \/ Check(t) \/ Fly(t) \/ Add(t) \/ HashScores(t) \/ CommitScores(t)
             \/ Sign(t) \/ Rate(t) \/ ReadStatus(t) \/ RegisterTier(t)
             \/ Load(t) \/ Open(t) \/ Save(t) \/ Enqueue(t) \/ Fail(t)
      PROVE  FirewallTypeOK'
  <2>1. UNCHANGED <<now, firewallVars>>
    BY <1>6 DEF Check, Fly, Add, HashScores, CommitScores, Sign, Rate, ReadStatus,
                RegisterTier, Load, Open, Save, Enqueue, Fail
  <2> QED
    BY <1>1, <2>1, ObjectsTyped DEF Typed, TypeOK
<1>7. CASE Restart
  BY <1>1, <1>7, HandlerAssumption DEF Restart, FirewallTypeOK, NoCall
<1>8. CASE Tick
  BY <1>1, <1>8, ObjectsTyped DEF Tick, Typed, TypeOK
<1> QED
  BY <1>2, <1>3, <1>4, <1>5, <1>6, <1>7, <1>8 DEF Next, Step

LEMMA ScoreRootStepTyped ==
  ASSUME Typed, Next
  PROVE  ScoreRootTypeOK'
<1>1. ScoreRootTypeOK
  BY DEF Typed, TypeOK
<1>2. ASSUME NEW t \in Threads, Add(t) \/ HashScores(t) \/ CommitScores(t)
      PROVE  ScoreRootTypeOK'
  <2>1. task[t].mission \in Missions
    BY <1>2 DEF Add, HashScores, CommitScores, Typed, TypeOK, Tasks
  <2> QED
    BY <1>1, <1>2, <2>1, ScoreRootTyped DEF Add, HashScores, CommitScores
<1>3. ASSUME NEW t \in Threads, NEW m \in Missions, Begin(t, m)
      PROVE  UNCHANGED scoreRootVars
  BY <1>3 DEF Begin
<1>4. ASSUME NEW t \in Threads,
             \/ Place(t) \/ Count(t) \/ Pass(t) \/ Check(t) \/ Fly(t)
             \/ Sign(t) \/ Rate(t) \/ ReadStatus(t) \/ RegisterTier(t)
             \/ Load(t) \/ Open(t) \/ Save(t) \/ Enqueue(t) \/ Fail(t)
      PROVE  UNCHANGED scoreRootVars
  BY <1>4 DEF Place, Count, Pass, Check, Fly, Sign, Rate, ReadStatus, RegisterTier,
              Load, Open, Save, Enqueue, Fail
<1>5. CASE Restart
  BY <1>1, <1>5, HandlerAssumption DEF Restart, ScoreRootTypeOK
<1>6. CASE Tick
  BY <1>1, <1>6, ObjectsTyped DEF Tick, Typed, TypeOK
<1>7. UNCHANGED scoreRootVars => ScoreRootTypeOK'
  BY ObjectsTyped DEF Typed, TypeOK
<1> QED
  BY <1>2, <1>3, <1>4, <1>5, <1>6, <1>7 DEF Next, Step

LEMMA StorageStepTyped ==
  ASSUME Typed, Next
  PROVE  StorageTypeOK' /\ \A u \in Threads : Len(state'[u]) <= Keep
<1>1. StorageTypeOK /\ \A u \in Threads : Len(state[u]) <= Keep
  BY DEF Typed, TypeOK
<1>2. ASSUME NEW t \in Threads, Load(t) \/ Open(t) \/ Save(t)
      PROVE  StorageTypeOK' /\ \A u \in Threads : Len(state'[u]) <= Keep
  <2>1. task[t].mission \in Missions
    BY <1>2 DEF Load, Open, Save, Typed, TypeOK, Tasks
  <2> QED
    BY <1>1, <1>2, <2>1, StorageTyped DEF Load, Open, Save
<1>3. ASSUME NEW t \in Threads, NEW m \in Missions, Begin(t, m)
      PROVE  UNCHANGED storageVars
  BY <1>3 DEF Begin
<1>4. ASSUME NEW t \in Threads,
             \/ Place(t) \/ Count(t) \/ Pass(t) \/ Check(t) \/ Fly(t)
             \/ Add(t) \/ HashScores(t) \/ CommitScores(t)
             \/ Sign(t) \/ Rate(t) \/ ReadStatus(t) \/ RegisterTier(t)
             \/ Enqueue(t) \/ Fail(t)
      PROVE  UNCHANGED storageVars
  BY <1>4 DEF Place, Count, Pass, Check, Fly, Add, HashScores, CommitScores, Sign,
              Rate, ReadStatus, RegisterTier, Enqueue, Fail
<1>5. CASE Restart
  <2>1. state' = [t \in Threads |-> << >>] /\ file' = file
        /\ handle' = [t \in Threads |-> "none"]
    BY <1>5 DEF Restart
  <2>2. Keep \in Nat \ {0} /\ Savers = Threads
    BY HandlerAssumption, StorageAssumption
  <2> QED
    BY <1>1, <2>1, <2>2 DEF StorageTypeOK
<1>6. CASE Tick
  BY <1>1, <1>6, ObjectsTyped DEF Tick, Typed, TypeOK, storageVars
<1>7. UNCHANGED storageVars =>
        StorageTypeOK' /\ \A u \in Threads : Len(state'[u]) <= Keep
  BY <1>1, ObjectsTyped DEF Typed, TypeOK, storageVars
<1> QED
  BY <1>2, <1>3, <1>4, <1>5, <1>6, <1>7 DEF Next, Step

LEMMA InitTyped == Init => Typed
<1> SUFFICES ASSUME Init PROVE Typed
  OBVIOUS
<1>1. FirewallTypeOK
  BY HandlerAssumption DEF Init, FirewallInit, FirewallTypeOK, NoCall
<1>2. ScoreRootTypeOK
  BY HandlerAssumption DEF Init, ScoreRootInit, ScoreRootTypeOK
<1>3. StorageTypeOK /\ \A t \in Threads : Len(state[t]) <= Keep
  BY HandlerAssumption, StorageAssumption
     DEF Init, StorageInit, StorageTypeOK, Holding
<1>4. Inv
  BY InitInv
<1> QED
  BY <1>1, <1>2, <1>3, <1>4
     DEF Init, Typed, TypeOK, Inv, Shape, Queued, Tiers

\* What the composing module adds: the mission a call is about comes from the
\* task, and a tier that is registered is one of the four (reputation.py:55-62).
LEMMA StepTyped == Inv /\ Typed /\ [Next]_vars => Typed'
<1> SUFFICES ASSUME Inv, Typed, [Next]_vars PROVE Typed'
  OBVIOUS
<1>1. CASE UNCHANGED vars
  BY <1>1, ObjectsTyped
     DEF Typed, TypeOK, FirewallTypeOK, vars, firewallVars, scoreRootVars, storageVars,
         handlerVars
<1>2. CASE Next
  <2>1. Inv'
    BY StepInv
  <2>2. FirewallTypeOK' /\ ScoreRootTypeOK' /\ StorageTypeOK'
        /\ \A t \in Threads : Len(state'[t]) <= Keep
    BY <1>2, FirewallStepTyped, ScoreRootStepTyped, StorageStepTyped
  <2>3. \A t \in Threads : pc[t] # "idle" => task[t].mission \in Missions
                                            /\ task[t].tier \in Tiers
    BY DEF Typed, TypeOK, Tasks
  <2>4. seen' \subseteq Missions
    <3>1. ASSUME NEW t \in Threads, Check(t) PROVE seen' \subseteq Missions
      BY <2>3, <3>1 DEF Check, Typed, TypeOK
    <3>2. UNCHANGED seen \/ \E t \in Threads : Check(t)
      BY <1>2 DEF Next, Step, Begin, Place, Count, Pass, Fly, Add, HashScores,
         CommitScores, Sign, Rate, ReadStatus, RegisterTier, Load, Open, Save,
         Enqueue, Fail, Restart, Tick, handlerVars
    <3> QED
      BY <3>1, <3>2 DEF Typed, TypeOK
  <2>5. consensusTier' \in Tiers
    <3>1. ASSUME NEW t \in Threads, RegisterTier(t) PROVE consensusTier' \in Tiers
      BY <2>3, <3>1 DEF RegisterTier
    <3>2. \/ UNCHANGED consensusTier \/ Restart
          \/ \E t \in Threads : RegisterTier(t)
      BY <1>2 DEF Next, Step, Begin, Place, Count, Pass, Check, Fly, Add, HashScores,
         CommitScores, Sign, Rate, ReadStatus, Load, Open, Save,
         Enqueue, Fail, Restart, Tick, handlerVars
    <3> QED
      BY <3>1, <3>2 DEF Typed, TypeOK, Restart, Tiers
  <2>6. stored' \in Seq(Missions)
    <3>1. ASSUME NEW t \in Threads, Save(t) PROVE stored' \in Seq(Missions)
      BY <2>3, <3>1 DEF Save, Typed, TypeOK
    <3>2. UNCHANGED stored \/ \E t \in Threads : Save(t)
      BY <1>2 DEF Next, Step, Begin, Place, Count, Pass, Check, Fly, Add, HashScores,
         CommitScores, Sign, Rate, ReadStatus, RegisterTier, Load, Open,
         Enqueue, Fail, Restart, Tick
    <3> QED
      BY <3>1, <3>2 DEF Typed, TypeOK
  <2>7. disturbed' \subseteq Sections /\ restarts' \in Nat
    <3>1. \/ UNCHANGED disturbed \/ Restart
          \/ \E t \in Threads, name \in Sections : Enter(t, name)
      BY <1>2 DEF Next, Step, Begin, Place, Count, Pass, Check, Fly, Add, HashScores,
         CommitScores, Sign, Rate, ReadStatus, RegisterTier, Load, Open, Save,
         Enqueue, Fail, Restart, Tick, Sections
    <3>2. disturbed' \subseteq Sections
      BY <3>1 DEF Enter, Restart, Sections, Typed, TypeOK
    <3>3. restarts' = restarts \/ restarts' = restarts + 1
      BY <1>2 DEF Next, Step, Begin, Place, Count, Pass, Check, Fly, Add, HashScores,
         CommitScores, Sign, Rate, ReadStatus, RegisterTier, Load, Open, Save,
         Enqueue, Fail, Restart, Tick
    <3> QED
      BY <3>2, <3>3 DEF Typed, TypeOK
  <2> QED
    BY <2>1, <2>2, <2>4, <2>5, <2>6, <2>7 DEF Typed, TypeOK, Inv, Shape, Queued
<1> QED
  BY <1>1, <1>2

\* Whatever calls meet, fail or are cut off, the handler's objects keep their
\* types, and the file never holds more missions than are kept
\* (storage.py:56-63, synapse.py:136-291).
THEOREM HandlerTyped == Spec => []TypeOK
<1>1. Inv /\ Typed /\ [Next]_vars => (Inv /\ Typed)'
  BY StepInv, StepTyped
<1>2. Typed => TypeOK
  BY DEF Typed
<1> QED
  BY <1>1, <1>2, InitInv, InitTyped, PTL DEF Spec

-----------------------------------------------------------------------------
(* What holds of an object as long as no two calls have met in it *)

Alone(name) ==
  \A t, u \in Threads : Inside(t, name) /\ Inside(u, name) => t = u

\* The list has every command of the window in it, and no more than may be
\* admitted; a thread that is to put a list in place has one that says the same,
\* and one that got past the count found room.
Limited ==
  /\ Alone("firewall")
  /\ InWindow(times) = InWindow(DOMAIN admitted)
  /\ Cardinality(times) <= MaxCommands
  /\ \A t \in Threads : pc[t] = "place" =>
       filtered[t].recent \subseteq times /\ InWindow(filtered[t].recent) = InWindow(times)
  /\ \A t \in Threads : pc[t] = "admit" => ~Full

FireInv == "firewall" \notin disturbed => Limited

\* One thread after another comes into a section, unless they meet there.
LEMMA EnterAlone ==
  ASSUME NEW t \in Threads, NEW name, NEW label, pc \in [Threads -> Labels],
         "idle" \notin Section(name),
         Alone(name), Enter(t, name), name \notin disturbed', Goto(t, label)
  PROVE  Alone(name)' /\ \A u \in Threads \ {t} : pc'[u] = pc[u] /\ ~Inside(u, name)
BY DEF Alone, Enter, Inside, Goto

\* Steps that neither touch the window nor bring a thread into it.
LEMMA FireQuiet ==
  ASSUME Typed, FireInv, UNCHANGED <<times, admitted>>, now' \in Nat, now <= now',
         disturbed \subseteq disturbed',
         \A t \in Threads : pc'[t] \in Section("firewall") =>
           pc'[t] = pc[t] /\ filtered'[t] = filtered[t]
  PROVE  FireInv'
<1> SUFFICES ASSUME "firewall" \notin disturbed' PROVE Limited'
  BY DEF FireInv
<1>1. Limited
  BY DEF FireInv
<1>2. Alone("firewall")'
  BY <1>1 DEF Limited, Alone, Inside
<1>3. /\ now \in Nat /\ Window \in Nat /\ times \subseteq DOMAIN admitted
      /\ \A i \in DOMAIN admitted : admitted[i] \in Nat
      /\ \A t \in Threads : filtered[t].recent \subseteq DOMAIN admitted
  BY FirewallAssumption, HandlerAssumption DEF Typed, TypeOK, FirewallTypeOK
<1>4. \A i \in DOMAIN admitted : now' - admitted[i] < Window => now - admitted[i] < Window
  BY <1>3
<1>5. ASSUME NEW A \in SUBSET DOMAIN admitted, NEW B \in SUBSET DOMAIN admitted,
             InWindow(A) = InWindow(B)
      PROVE  {i \in A : now' - admitted[i] < Window} = {i \in B : now' - admitted[i] < Window}
  BY <1>4, <1>5 DEF InWindow
<1>6. InWindow(times)' = InWindow(DOMAIN admitted)'
  BY <1>1, <1>3, <1>5 DEF Limited, InWindow
<1>7. \A t \in Threads : pc'[t] = "place" =>
        filtered'[t].recent \subseteq times' /\ InWindow(filtered[t].recent)' = InWindow(times)'
  BY <1>1, <1>3, <1>5 DEF Limited, InWindow, Section
<1>8. \A t \in Threads : pc'[t] = "admit" => ~Full'
  BY <1>1 DEF Limited, Full, Section
<1> QED
  BY <1>1, <1>2, <1>6, <1>7, <1>8 DEF Limited

LEMMA FireStep == Inv /\ Typed /\ FireInv /\ [Next]_vars => FireInv'
<1> SUFFICES ASSUME Inv, Typed, FireInv, [Next]_vars PROVE FireInv'
  OBVIOUS
<1>1. /\ pc \in [Threads -> Labels] /\ now \in Nat /\ times \subseteq DOMAIN admitted
      /\ admitted \in Seq(Nat) /\ Window \in Nat \ {0} /\ MaxCommands \in Nat
      /\ filtered \in [Threads -> [at : Nat, recent : SUBSET DOMAIN admitted]]
  BY FirewallAssumption, HandlerAssumption DEF Typed, TypeOK, FirewallTypeOK
<1>2. IsFiniteSet(times) /\ Cardinality(times) \in Nat
  <2>1. DOMAIN admitted = 1..Len(admitted) /\ Len(admitted) \in Nat
    BY <1>1
  <2>2. IsFiniteSet(DOMAIN admitted)
    BY <2>1, FS_Interval
  <2> QED
    BY <1>1, <2>2, FS_Subset, FS_CardinalityType
<1>3. ASSUME NEW t \in Threads, NEW m \in Missions, Begin(t, m)
      PROVE  FireInv'
  <2> SUFFICES ASSUME "firewall" \notin disturbed' PROVE Limited'
    BY DEF FireInv
  <2>1. /\ Goto(t, "place") /\ Enter(t, "firewall") /\ UNCHANGED <<now, times, admitted>>
        /\ filtered' = [filtered EXCEPT ![t] = [at |-> now, recent |-> InWindow(times)]]
    BY <1>3 DEF Begin, Expire
  <2>2. Limited
    BY <2>1 DEF Enter, FireInv
  <2>3. Alone("firewall")' /\ \A u \in Threads \ {t} : ~Inside(u, "firewall") /\ pc'[u] = pc[u]
    BY <1>1, <2>1, <2>2, EnterAlone DEF Limited, Section
  <2>4. filtered'[t].recent = InWindow(times) /\ pc'[t] = "place"
    BY <1>1, <2>1 DEF Goto
  <2>5. InWindow(times)' = InWindow(DOMAIN admitted)' /\ InWindow(InWindow(times)) = InWindow(times)
    BY <2>1, <2>2 DEF Limited, InWindow
  <2>6. InWindow(filtered[t].recent)' = InWindow(times)' /\ filtered'[t].recent \subseteq times'
    BY <2>1, <2>4, <2>5 DEF InWindow
  <2> QED
    BY <2>1, <2>2, <2>3, <2>4, <2>5, <2>6 DEF Limited, Inside, Section, Full
<1>4. ASSUME NEW t \in Threads, Place(t)
      PROVE  FireInv'
  <2> SUFFICES ASSUME "firewall" \notin disturbed' PROVE Limited'
    BY DEF FireInv
  <2>1. /\ pc[t] = "place" /\ Goto(t, "count") /\ UNCHANGED <<now, admitted, filtered, disturbed>>
        /\ times' = filtered[t].recent
    BY <1>4 DEF Place, PutInPlace
  <2>2. Limited
    BY <2>1 DEF FireInv
  <2>3. Alone("firewall")'
    BY <1>1, <2>1, <2>2 DEF Limited, Alone, Inside, Section, Goto
  <2>4. \A u \in Threads : pc'[u] # "place" /\ pc'[u] # "admit"
    BY <1>1, <2>1, <2>2 DEF Limited, Alone, Inside, Section, Goto
  <2>5. times' \subseteq times /\ InWindow(times)' = InWindow(DOMAIN admitted)'
    BY <2>1, <2>2 DEF Limited, InWindow
  <2>6. Cardinality(times') <= MaxCommands
    BY <1>1, <1>2, <2>2, <2>5, FS_Subset, FS_CardinalityType DEF Limited
  <2> QED
    BY <2>3, <2>4, <2>5, <2>6 DEF Limited
<1>5. ASSUME NEW t \in Threads, Count(t)
      PROVE  FireInv'
  <2>1. pc[t] = "count" /\ UNCHANGED <<now, times, admitted, disturbed>>
    BY <1>5 DEF Count, Block, firewallVars
  <2>2. CASE Full
    <3>1. Block(t) /\ Answer(t)
      BY <1>5, <2>2 DEF Count
    <3>2. \A u \in Threads : pc'[u] \in Section("firewall") =>
            pc'[u] = pc[u] /\ filtered'[u] = filtered[u]
      BY <1>1, <3>1 DEF Block, Answer, Section
    <3> QED
      BY <1>1, <2>1, <3>2, FireQuiet
  <2>3. CASE ~Full
    <3> SUFFICES ASSUME "firewall" \notin disturbed' PROVE Limited'
      BY DEF FireInv
    <3>1. Goto(t, "admit") /\ UNCHANGED filtered /\ Limited
      BY <1>5, <2>1, <2>3 DEF Count, firewallVars, FireInv
    <3>2. Alone("firewall")'
      BY <1>1, <2>1, <3>1 DEF Limited, Alone, Inside, Section, Goto
    <3>3. \A u \in Threads : pc'[u] # "place" /\ (pc'[u] = "admit" => ~Full')
      BY <1>1, <2>1, <2>3, <3>1 DEF Limited, Alone, Inside, Section, Goto, Full
    <3> QED
      BY <2>1, <3>1, <3>2, <3>3 DEF Limited, InWindow
  <2> QED
    BY <2>2, <2>3
<1>6. ASSUME NEW t \in Threads, Pass(t)
      PROVE  FireInv'
  <2> SUFFICES ASSUME "firewall" \notin disturbed' PROVE Limited'
    BY DEF FireInv
  <2> DEFINE n == Len(admitted) + 1
  <2>1. /\ pc[t] = "admit" /\ Goto(t, "check") /\ UNCHANGED <<now, disturbed>> /\ Limited
        /\ admitted' = Append(admitted, filtered[t].at)
        /\ times' = times \cup {Len(admitted')}
    BY <1>6 DEF Pass, Admit, FireInv
  <2>2. /\ Len(admitted') = n /\ DOMAIN admitted' = DOMAIN admitted \cup {n}
        /\ n \notin DOMAIN admitted /\ \A i \in DOMAIN admitted : admitted'[i] = admitted[i]
    BY <1>1, <2>1
  <2>3. times' = times \cup {n} /\ n \notin times
    BY <1>1, <2>1, <2>2
  <2> HIDE DEF n
  <2>4. Alone("firewall")' /\ \A u \in Threads : pc'[u] # "place" /\ pc'[u] # "admit"
    BY <1>1, <2>1 DEF Limited, Alone, Inside, Section, Goto
  <2>5. InWindow(times)' = InWindow(DOMAIN admitted)'
    BY <1>1, <2>1, <2>2, <2>3 DEF Limited, InWindow
  <2>6. Cardinality(times') <= MaxCommands
    <3>1. Cardinality(times') = Cardinality(times) + 1
      BY <1>2, <2>3, FS_AddElement
    <3>2. ~(Cardinality(times) >= MaxCommands)
      BY <2>1 DEF Limited, Full
    <3> QED
      BY <1>1, <1>2, <3>1, <3>2
  <2> QED
    BY <2>4, <2>5, <2>6 DEF Limited
<1>7. ASSUME NEW t \in Threads,
             \/ Check(t) \/ Fly(t) \/ Add(t) \/ HashScores(t) \/ CommitScores(t)
             \/ Sign(t) \/ Rate(t) \/ ReadStatus(t) \/ RegisterTier(t)
             \/ Load(t) \/ Open(t) \/ Save(t) \/ Enqueue(t) \/ Fail(t)
      PROVE  FireInv'
  <2>1. UNCHANGED <<now, times, admitted, filtered>> /\ disturbed \subseteq disturbed'
    BY <1>7 DEF Check, Fly, Add, HashScores, CommitScores, Sign, Rate, ReadStatus,
                RegisterTier, Load, Open, Save, Enqueue, Fail, firewallVars, Enter
  <2>2. PICK label : label \notin Section("firewall") /\ pc' = [pc EXCEPT ![t] = label]
    BY <1>7 DEF Check, Fly, Add, HashScores, CommitScores, Sign, Rate, ReadStatus,
                RegisterTier, Load, Open, Save, Enqueue, Fail, Goto, Answer, Section
  <2>3. \A u \in Threads : pc'[u] \in Section("firewall") => pc'[u] = pc[u]
    BY <1>1, <2>2
  <2> QED
    BY <1>1, <2>1, <2>3, FireQuiet
<1>8. CASE Restart
  BY <1>8 DEF Restart, FireInv
<1>9. CASE Tick \/ UNCHANGED vars
  <2>1. /\ UNCHANGED <<times, admitted, filtered, pc, disturbed>>
        /\ now' \in Nat /\ now <= now'
    BY <1>1, <1>9 DEF Tick, vars, firewallVars
  <2> QED
    BY <2>1, FireQuiet
<1> QED
  BY <1>3, <1>4, <1>5, <1>6, <1>7, <1>8, <1>9 DEF Next, Step

\* "20 commands/minute limit" (docs/SECURITY.md:17) holds for any limit, window and
\* threads as long as no two calls meet inside filter() and the process keeps
\* running (firewall.py:54-65).
THEOREM CommandsLimited == Spec => []RateLimited
<1>1. Init => FireInv
  <2> SUFFICES ASSUME Init PROVE Limited
    BY DEF FireInv
  <2>1. times = {} /\ admitted = << >> /\ MaxCommands \in Nat
        /\ \A t \in Threads : pc[t] = "idle"
    BY FirewallAssumption DEF Init, FirewallInit
  <2>2. DOMAIN admitted = {} /\ Cardinality(times) = 0
    BY <2>1, FS_EmptySet
  <2> QED
    BY <2>1, <2>2 DEF Limited, Alone, Inside, Section, InWindow
<1>2. Inv /\ Typed /\ FireInv /\ [Next]_vars => (Inv /\ Typed /\ FireInv)'
  BY StepInv, StepTyped, FireStep
<1>3. ASSUME Typed, FireInv PROVE RateLimited
  <2> SUFFICES ASSUME Limited
      PROVE  Cardinality(InWindow(DOMAIN admitted)) <= MaxCommands
    BY <1>3 DEF FireInv, RateLimited
  <2>1. admitted \in Seq(Nat) /\ times \subseteq DOMAIN admitted /\ MaxCommands \in Nat
    BY <1>3, FirewallAssumption DEF Typed, TypeOK, FirewallTypeOK
  <2>2. IsFiniteSet(times)
    <3>1. DOMAIN admitted = 1..Len(admitted) /\ Len(admitted) \in Nat
      BY <2>1
    <3>2. IsFiniteSet(DOMAIN admitted)
      BY <3>1, FS_Interval
    <3> QED
      BY <2>1, <3>2, FS_Subset
  <2>3. InWindow(times) \subseteq times
    BY DEF InWindow
  <2> QED
    BY <2>1, <2>2, <2>3, FS_Subset, FS_CardinalityType DEF Limited
<1> QED
  BY <1>1, <1>2, <1>3, InitInv, InitTyped, PTL DEF Spec

-----------------------------------------------------------------------------
(* Score root *)

\* Where a call has committed its score.
Committed == {"sign", "rate", "status", "register", "load", "open", "write", "enqueue"}

Accounted ==
  /\ Alone("root")
  /\ \A i \in DOMAIN commitments : commitments[i].count = Len(commitments[i].root)
  /\ \A t \in Threads : pc[t] = "commit" => root[t] = scores
  /\ \A t \in Threads : pc[t] \in Section("root") \cup Committed =>
       task[t].mission \in Range(scores)
  /\ \A t \in Threads : pc[t] \in Committed =>
       commitments # << >> /\ Covered(task[t].mission)

RootInv == "root" \notin disturbed => Accounted

\* What is appended is the last element, and everything else stays.
LEMMA Appended ==
  ASSUME NEW S, NEW s \in Seq(S), NEW e \in S
  PROVE  LET longer == Append(s, e) IN
         /\ longer \in Seq(S) /\ Len(longer) = Len(s) + 1 /\ longer # << >>
         /\ DOMAIN longer = DOMAIN s \cup {Len(longer)} /\ longer[Len(longer)] = e
         /\ \A i \in DOMAIN s : longer[i] = s[i]
         /\ e \in Range(longer) /\ \A x \in Range(s) : x \in Range(longer)
<1>1. PICK longer : longer = Append(s, e)
  OBVIOUS
<1>2. /\ longer \in Seq(S) /\ Len(longer) = Len(s) + 1
      /\ \A i \in 1..Len(s) : longer[i] = s[i]
      /\ longer[Len(s) + 1] = e
  BY <1>1, AppendProperties
<1>3. /\ DOMAIN s = 1..Len(s) /\ DOMAIN longer = 1..(Len(s) + 1) /\ Len(s) \in Nat
  BY <1>2
<1>4. DOMAIN longer = DOMAIN s \cup {Len(longer)}
  BY <1>2, <1>3
<1>5. longer # << >>
  BY <1>2, <1>3
<1>6. e \in Range(longer) /\ \A x \in Range(s) : x \in Range(longer)
  BY <1>2, <1>3 DEF Range
<1> QED
  BY <1>1, <1>2, <1>3, <1>4, <1>5, <1>6

LEMMA RootQuiet ==
  ASSUME RootInv, UNCHANGED scoreRootVars, disturbed \subseteq disturbed',
         \A t \in Threads : pc'[t] \in Section("root") \cup Committed =>
           /\ task'[t].mission = task[t].mission
           /\ \/ pc'[t] = pc[t]
              \/ pc'[t] \in Committed /\ pc[t] \in Committed
  PROVE  RootInv'
<1> SUFFICES ASSUME "root" \notin disturbed' PROVE Accounted'
  BY DEF RootInv
<1>1. Accounted
  BY DEF RootInv
<1>2. Alone("root")'
  BY <1>1 DEF Accounted, Alone, Inside, Section, Committed
<1>3. \A i \in DOMAIN commitments' : commitments'[i].count = Len(commitments'[i].root)
  BY <1>1 DEF Accounted, scoreRootVars
<1>4. \A t \in Threads : pc'[t] = "commit" => root'[t] = scores'
  BY <1>1 DEF Accounted, scoreRootVars, Section, Committed
<1>5. \A t \in Threads : pc'[t] \in Section("root") \cup Committed =>
        task'[t].mission \in Range(scores')
  BY <1>1 DEF Accounted, scoreRootVars, Section, Committed
<1>6. \A t \in Threads : pc'[t] \in Committed =>
        commitments' # << >> /\ Covered(task[t].mission)'
  BY <1>1 DEF Accounted, scoreRootVars, Section, Committed, Covered
<1> QED
  BY <1>1, <1>2, <1>3, <1>4, <1>5, <1>6 DEF Accounted, Covered, Section, Committed

LEMMA RootStep == Inv /\ Typed /\ RootInv /\ [Next]_vars => RootInv'
<1> SUFFICES ASSUME Inv, Typed, RootInv, [Next]_vars PROVE RootInv'
  OBVIOUS
<1>1. /\ pc \in [Threads -> Labels] /\ task \in [Threads -> Tasks \cup {Idle}]
      /\ scores \in Seq(Missions) /\ root \in [Threads -> Seq(Missions)]
      /\ commitments \in Seq([root : Seq(Missions), count : Nat])
      /\ \A t \in Threads : pc[t] # "idle" => task[t] \in Tasks
  BY HandlerAssumption DEF Typed, TypeOK, ScoreRootTypeOK
<1>2. ASSUME NEW t \in Threads, Add(t)
      PROVE  RootInv'
  <2> SUFFICES ASSUME "root" \notin disturbed' PROVE Accounted'
    BY DEF RootInv
  <2> DEFINE m == task[t].mission
  <2>1. /\ pc[t] = "add" /\ scores' = Append(scores, m) /\ UNCHANGED <<root, commitments, task>>
        /\ Enter(t, "root") /\ Goto(t, "root")
    BY <1>2 DEF Add, AddScore
  <2>2. Accounted
    BY <2>1 DEF Enter, RootInv
  <2>3. Alone("root")' /\ \A u \in Threads \ {t} : ~Inside(u, "root") /\ pc'[u] = pc[u]
    BY <1>1, <2>1, <2>2, EnterAlone DEF Accounted, Section
  <2>4. pc'[t] = "root" /\ m \in Missions
    BY <1>1, <2>1 DEF Goto, Tasks
  <2>5. m \in Range(scores') /\ \A x \in Range(scores) : x \in Range(scores')
    BY <1>1, <2>1, <2>4, Appended
  <2> HIDE DEF m
  <2>6. \A u \in Threads : pc'[u] # "commit"
    BY <2>3, <2>4 DEF Inside, Section
  <2>7. \A u \in Threads : pc'[u] \in Section("root") \cup Committed =>
          task'[u].mission \in Range(scores')
    BY <2>1, <2>2, <2>3, <2>4, <2>5 DEF Accounted, m
  <2>8. \A u \in Threads : pc'[u] \in Committed =>
          commitments' # << >> /\ Covered(task[u].mission)'
    BY <2>1, <2>2, <2>3, <2>4 DEF Accounted, Covered, Committed
  <2> QED
    BY <2>1, <2>2, <2>3, <2>6, <2>7, <2>8 DEF Accounted, Covered
<1>3. ASSUME NEW t \in Threads, HashScores(t)
      PROVE  RootInv'
  <2> SUFFICES ASSUME "root" \notin disturbed' PROVE Accounted'
    BY DEF RootInv
  <2>1. /\ pc[t] = "root" /\ root' = [root EXCEPT ![t] = scores]
        /\ UNCHANGED <<scores, commitments, task, disturbed>> /\ Goto(t, "commit")
    BY <1>3 DEF HashScores, ComputeRoot
  <2>2. Accounted /\ root'[t] = scores
    BY <1>1, <2>1 DEF RootInv
  <2>3. \A u \in Threads : pc'[u] = IF u = t THEN "commit" ELSE pc[u]
    BY <1>1, <2>1 DEF Goto
  <2>4. Alone("root")' /\ \A u \in Threads \ {t} : ~Inside(u, "root")
    BY <2>1, <2>2, <2>3 DEF Accounted, Alone, Inside, Section
  <2>5. \A u \in Threads : pc'[u] = "commit" => root'[u] = scores'
    BY <2>1, <2>2, <2>3, <2>4 DEF Inside, Section
  <2>6. \A u \in Threads : pc'[u] \in Section("root") \cup Committed =>
          task'[u].mission \in Range(scores')
    BY <2>1, <2>2, <2>3 DEF Accounted, Section
  <2>7. \A u \in Threads : pc'[u] \in Committed =>
          commitments' # << >> /\ Covered(task[u].mission)'
    BY <2>1, <2>2, <2>3 DEF Accounted, Covered, Committed
  <2> QED
    BY <2>1, <2>2, <2>4, <2>5, <2>6, <2>7 DEF Accounted, Covered
<1>4. ASSUME NEW t \in Threads, CommitScores(t)
      PROVE  RootInv'
  <2> SUFFICES ASSUME "root" \notin disturbed' PROVE Accounted'
    BY DEF RootInv
  <2> DEFINE c == [root |-> root[t], count |-> Len(scores)]
  <2>1. /\ pc[t] = "commit" /\ commitments' = Append(commitments, c)
        /\ UNCHANGED <<scores, task, disturbed>> /\ Goto(t, "sign")
    BY <1>4 DEF CommitScores, Commit
  <2>2. Accounted /\ root[t] = scores
    BY <2>1 DEF RootInv, Accounted
  <2>3. \A u \in Threads : pc'[u] = IF u = t THEN "sign" ELSE pc[u]
    BY <1>1, <2>1 DEF Goto
  <2>4. c.root = scores /\ c.count = Len(c.root) /\ c \in [root : Seq(Missions), count : Nat]
    BY <1>1, <2>2
  <2> HIDE DEF c
  <2>5. /\ Len(commitments') = Len(commitments) + 1 /\ commitments' # << >>
        /\ DOMAIN commitments' = DOMAIN commitments \cup {Len(commitments')}
        /\ commitments'[Len(commitments')] = c
        /\ \A i \in DOMAIN commitments : commitments'[i] = commitments[i]
    BY <1>1, <2>1, <2>4, Appended, SMTT(30)
  <2>6. \A i \in DOMAIN commitments' : commitments'[i].count = Len(commitments'[i].root)
    BY <2>2, <2>4, <2>5 DEF Accounted
  <2>7. Alone("root")' /\ \A u \in Threads : pc'[u] # "commit"
    BY <2>1, <2>2, <2>3 DEF Accounted, Alone, Inside, Section
  <2>8. \A u \in Threads : pc'[u] \in Section("root") \cup Committed =>
          task'[u].mission \in Range(scores')
    BY <2>1, <2>2, <2>3 DEF Accounted, Section, Committed
  <2>9. \A u \in Threads : pc'[u] \in Committed =>
          commitments' # << >> /\ Covered(task[u].mission)'
    BY <2>1, <2>4, <2>5, <2>8 DEF Covered
  <2> QED
    BY <2>1, <2>6, <2>7, <2>8, <2>9 DEF Accounted, Covered
<1>5. ASSUME NEW t \in Threads, Fail(t) \/ Enqueue(t) \/ Count(t) \/ Check(t)
             \/ Place(t) \/ Pass(t) \/ Fly(t)
      PROVE  RootInv'
  <2>1. UNCHANGED scoreRootVars /\ disturbed \subseteq disturbed'
    BY <1>5 DEF Fail, Enqueue, Count, Check, Place, Pass, Fly
  <2>2. PICK label : /\ label \notin Section("root") \cup Committed
                     /\ pc' = [pc EXCEPT ![t] = label]
    BY <1>5 DEF Fail, Enqueue, Count, Check, Place, Pass, Fly, Goto, Answer, Section,
                Committed
  <2>3. \A u \in Threads \ {t} : task'[u] = task[u]
    BY <1>1, <1>5 DEF Fail, Enqueue, Count, Check, Place, Pass, Fly, Answer
  <2>4. \A u \in Threads : pc'[u] \in Section("root") \cup Committed =>
          task'[u].mission = task[u].mission /\ pc'[u] = pc[u]
    BY <1>1, <2>2, <2>3
  <2> QED
    BY <2>1, <2>4, RootQuiet
<1>6. ASSUME NEW t \in Threads, NEW m \in Missions, Begin(t, m)
      PROVE  RootInv'
  <2>1. UNCHANGED scoreRootVars /\ disturbed \subseteq disturbed'
    BY <1>6 DEF Begin, Enter
  <2>2. /\ pc' = [pc EXCEPT ![t] = "place"] /\ "place" \notin Section("root") \cup Committed
        /\ \A u \in Threads \ {t} : task'[u] = task[u]
    BY <1>1, <1>6 DEF Begin, Goto, Section, Committed
  <2>3. \A u \in Threads : pc'[u] \in Section("root") \cup Committed =>
          task'[u].mission = task[u].mission /\ pc'[u] = pc[u]
    BY <1>1, <2>2
  <2> QED
    BY <2>1, <2>3, RootQuiet
<1>7. ASSUME NEW t \in Threads, \/ Sign(t) \/ Rate(t) \/ ReadStatus(t) \/ RegisterTier(t)
                                \/ Load(t) \/ Open(t) \/ Save(t)
      PROVE  RootInv'
  <2>1. UNCHANGED scoreRootVars /\ disturbed \subseteq disturbed'
    BY <1>7 DEF Sign, Rate, ReadStatus, RegisterTier, Load, Open, Save, Enter
  <2>2. pc[t] \in Committed /\ \E label \in Committed : pc' = [pc EXCEPT ![t] = label]
    BY <1>7 DEF Sign, Rate, ReadStatus, RegisterTier, Load, Open, Save, Goto, Committed
  <2>3. task[t] \in Tasks
    BY <1>1, <2>2 DEF Committed
  <2>4. \A u \in Threads : task'[u].mission = task[u].mission
    <3>1. \/ UNCHANGED task
          \/ task' = [task EXCEPT ![t].read = reputation]
          \/ task' = [task EXCEPT ![t].tier = tier]
      BY <1>7 DEF Sign, Rate, ReadStatus, RegisterTier, Load, Open, Save
    <3>2. \A u \in Threads \ {t} : task'[u] = task[u]
      BY <1>1, <3>1
    <3>3. \/ task'[t] = task[t]
          \/ task'[t] = [task[t] EXCEPT !.read = reputation]
          \/ task'[t] = [task[t] EXCEPT !.tier = tier]
      BY <1>1, <3>1
    <3>4. task'[t].mission = task[t].mission
      BY <2>3, <3>3 DEF Tasks
    <3> QED
      BY <3>2, <3>4
  <2> QED
    BY <1>1, <2>1, <2>2, <2>4, RootQuiet
<1>8. CASE Restart
  <2> SUFFICES ASSUME "root" \notin disturbed' PROVE Accounted'
    BY DEF RootInv
  <2>1. commitments' = << >> /\ \A t \in Threads : pc'[t] = "idle"
    BY <1>8 DEF Restart
  <2> QED
    BY <2>1 DEF Accounted, Alone, Inside, Section, Committed
<1>9. CASE Tick \/ UNCHANGED vars
  <2>1. UNCHANGED <<scoreRootVars, pc, task, disturbed>>
    BY <1>9 DEF Tick, vars
  <2> QED
    BY <2>1, RootQuiet
<1> QED
  BY <1>2, <1>3, <1>4, <1>5, <1>6, <1>7, <1>8, <1>9 DEF Next, Step

\* A commitment counts the entries its root covers, and a mission whose call has
\* committed it verifies and is covered, for any threads and missions, as long as
\* no two calls met between add_score and commit (scoreroot.py:53-85,
\* pipeline.py:150-159).
THEOREM RootsCountEntries == Spec => []RootCountsEntries
<1>1. Init => RootInv
  BY DEF Init, ScoreRootInit, RootInv, Accounted, Alone, Inside, Section, Committed
<1>2. Inv /\ Typed /\ RootInv /\ [Next]_vars => (Inv /\ Typed /\ RootInv)'
  BY StepInv, StepTyped, RootStep
<1>3. RootInv => RootCountsEntries
  BY DEF RootInv, Accounted, RootCountsEntries, Verified, Committed
<1> QED
  BY <1>1, <1>2, <1>3, InitInv, InitTyped, PTL DEF Spec

-----------------------------------------------------------------------------
(* Reputation *)

Registered ==
  /\ Alone("reputation")
  /\ \A t \in Threads : pc[t] = "register" => task[t].tier = tier
  /\ (\A t \in Threads : ~Inside(t, "reputation")) => consensusTier = tier

TierInv == "reputation" \notin disturbed => Registered

\* A step that brings nobody into the reputation, takes nobody out, and changes
\* neither tier nor what a call is to register.
LEMMA TierQuiet ==
  ASSUME TierInv, UNCHANGED <<tier, consensusTier>>, disturbed \subseteq disturbed',
         \A t \in Threads : pc'[t] = pc[t] \/ (~Inside(t, "reputation") /\ ~Inside(t, "reputation")'),
         \A t \in Threads : pc[t] = "register" => task'[t] = task[t]
  PROVE  TierInv'
<1> SUFFICES ASSUME "reputation" \notin disturbed' PROVE Registered'
  BY DEF TierInv
<1>1. Registered
  BY DEF TierInv
<1>2. \A t \in Threads : Inside(t, "reputation")' <=> Inside(t, "reputation")
  BY DEF Inside
<1>3. \A t \in Threads : pc'[t] = "register" => pc[t] = "register"
  BY DEF Inside, Section
<1> QED
  BY <1>1, <1>2, <1>3 DEF Registered, Alone

LEMMA TierStep == Inv /\ Typed /\ TierInv /\ [Next]_vars => TierInv'
<1> SUFFICES ASSUME Inv, Typed, TierInv, [Next]_vars PROVE TierInv'
  OBVIOUS
<1>1. pc \in [Threads -> Labels] /\ task \in [Threads -> Tasks \cup {Idle}]
  BY DEF Typed, TypeOK
<1>2. ASSUME NEW t \in Threads, Sign(t)
      PROVE  TierInv'
  <2> SUFFICES ASSUME "reputation" \notin disturbed' PROVE Registered'
    BY DEF TierInv
  <2>1. /\ Goto(t, "rate") /\ Enter(t, "reputation") /\ UNCHANGED <<tier, consensusTier>>
        /\ \A u \in Threads \ {t} : task'[u] = task[u]
    BY <1>1, <1>2 DEF Sign, handlerVars
  <2>2. Registered
    BY <2>1 DEF Enter, TierInv
  <2>3. Alone("reputation")' /\ \A u \in Threads \ {t} : ~Inside(u, "reputation") /\ pc'[u] = pc[u]
    BY <1>1, <2>1, <2>2, EnterAlone DEF Registered, Section
  <2>4. pc'[t] = "rate"
    BY <1>1, <2>1 DEF Goto
  <2> QED
    BY <2>1, <2>2, <2>3, <2>4 DEF Registered, Inside, Section
<1>3. ASSUME NEW t \in Threads, Rate(t) \/ ReadStatus(t)
      PROVE  TierInv'
  <2> SUFFICES ASSUME "reputation" \notin disturbed' PROVE Registered'
    BY DEF TierInv
  <2>1. PICK from, to \in Section("reputation") :
          pc[t] = from /\ pc' = [pc EXCEPT ![t] = to]
    BY <1>3 DEF Rate, ReadStatus, Goto, Section
  <2>2. Registered
    BY <1>3 DEF Rate, ReadStatus, TierInv
  <2>3. Alone("reputation")' /\ Inside(t, "reputation")'
        /\ \A u \in Threads \ {t} : ~Inside(u, "reputation") /\ pc'[u] = pc[u]
    BY <1>1, <2>1, <2>2 DEF Registered, Alone, Inside
  <2>4. pc'[t] = "register" => task'[t].tier = tier'
    <3>1. pc'[t] = "register" => ReadStatus(t)
      BY <1>1, <1>3 DEF Rate, Goto
    <3>2. ASSUME ReadStatus(t) PROVE task'[t].tier = tier'
      <4>1. task[t] \in Tasks
        BY <3>2 DEF ReadStatus, Typed, TypeOK
      <4> QED
        BY <1>1, <3>2, <4>1 DEF ReadStatus, handlerVars, Tasks
    <3> QED
      BY <3>1, <3>2
  <2> QED
    BY <2>3, <2>4 DEF Registered, Inside, Section
<1>4. ASSUME NEW t \in Threads, RegisterTier(t)
      PROVE  TierInv'
  <2> SUFFICES ASSUME "reputation" \notin disturbed' PROVE Registered'
    BY DEF TierInv
  <2>1. /\ pc[t] = "register" /\ pc' = [pc EXCEPT ![t] = "load"]
        /\ consensusTier' = task[t].tier /\ UNCHANGED <<tier, disturbed>>
    BY <1>4 DEF RegisterTier, Goto
  <2>2. Registered /\ consensusTier' = tier'
    BY <2>1 DEF Registered, TierInv
  <2>3. \A u \in Threads : ~Inside(u, "reputation")'
    BY <1>1, <2>1, <2>2 DEF Registered, Alone, Inside, Section
  <2> QED
    BY <2>2, <2>3 DEF Registered, Alone, Inside, Section
<1>5. ASSUME NEW t \in Threads,
             \/ Place(t) \/ Count(t) \/ Pass(t) \/ Check(t) \/ Fly(t)
             \/ Add(t) \/ HashScores(t) \/ CommitScores(t)
             \/ Load(t) \/ Open(t) \/ Save(t) \/ Enqueue(t) \/ Fail(t)
      PROVE  TierInv'
  <2>1. UNCHANGED <<tier, consensusTier>> /\ disturbed \subseteq disturbed'
    BY <1>5 DEF Place, Count, Pass, Check, Fly, Add, HashScores, CommitScores, Load,
                Open, Save, Enqueue, Fail, handlerVars, Enter
  <2>2. PICK label : /\ pc[t] \notin Section("reputation") /\ label \notin Section("reputation")
                     /\ pc' = [pc EXCEPT ![t] = label]
    BY <1>5 DEF Place, Count, Pass, Check, Fly, Add, HashScores, CommitScores, Load,
                Open, Save, Enqueue, Fail, Goto, Answer, Section
  <2>3. \A u \in Threads \ {t} : pc'[u] = pc[u] /\ task'[u] = task[u]
    BY <1>1, <1>5, <2>2
       DEF Place, Count, Pass, Check, Fly, Add, HashScores, CommitScores, Load,
           Open, Save, Enqueue, Fail, Answer
  <2>4. ~Inside(t, "reputation") /\ ~Inside(t, "reputation")' /\ pc[t] # "register"
    BY <1>1, <2>2 DEF Inside, Section
  <2> QED
    BY <2>1, <2>3, <2>4, TierQuiet
<1>6. ASSUME NEW t \in Threads, NEW m \in Missions, Begin(t, m)
      PROVE  TierInv'
  <2>1. /\ UNCHANGED <<tier, consensusTier>> /\ disturbed \subseteq disturbed'
        /\ pc[t] = "idle" /\ pc' = [pc EXCEPT ![t] = "place"]
        /\ \A u \in Threads \ {t} : task'[u] = task[u]
    BY <1>1, <1>6 DEF Begin, handlerVars, Enter, Goto
  <2> QED
    BY <1>1, <2>1, TierQuiet DEF Inside, Section
<1>7. CASE Restart
  <2> SUFFICES ASSUME "reputation" \notin disturbed' PROVE Registered'
    BY DEF TierInv
  <2>1. tier' = consensusTier' /\ \A t \in Threads : pc'[t] = "idle"
    BY <1>7 DEF Restart
  <2> QED
    BY <2>1 DEF Registered, Alone, Inside, Section
<1>8. CASE Tick \/ UNCHANGED vars
  <2>1. UNCHANGED <<tier, consensusTier, pc, task, disturbed>>
    BY <1>8 DEF Tick, vars, handlerVars
  <2> QED
    BY <2>1, TierQuiet
<1> QED
  BY <1>2, <1>3, <1>4, <1>5, <1>6, <1>7, <1>8 DEF Next, Step

\* Votes are weighted by the tier the drone has now, unless two calls updated the
\* reputation at the same time (pipeline.py:196-209).
THEOREM TiersRegistered == Spec => []TierRegistered
<1>1. Init => TierInv
  BY DEF Init, TierInv, Registered, Alone, Inside, Section
<1>2. Inv /\ Typed /\ TierInv /\ [Next]_vars => (Inv /\ Typed /\ TierInv)'
  BY StepInv, StepTyped, TierStep
<1>3. TierInv => TierRegistered
  BY DEF TierInv, Registered, TierRegistered
<1> QED
  BY <1>1, <1>2, <1>3, InitInv, InitTyped, PTL DEF Spec

-----------------------------------------------------------------------------
(* Storage *)

Longer(t) == LastKept(Append(stored, task[t].mission))

Ordered ==
  /\ Alone("storage")
  /\ (\A t \in Threads : pc[t] # "write") => file = Holding(LastKept(stored))
  /\ \A t \in Threads : Inside(t, "storage") => state[t] = Longer(t)
  /\ \A t \in Threads : pc[t] = "write" => handle[t] = "path" /\ file.text = "empty"

FileInv == "storage" \notin disturbed => Ordered

\* Dropping the oldest before the newest comes in changes nothing (storage.py:61-62).
LEMMA LastKeptAgain ==
  ASSUME NEW s \in Seq(Missions), NEW m \in Missions
  PROVE  LastKept(Append(LastKept(s), m)) = LastKept(Append(s, m))
<1>1. PICK n : n = Len(s) /\ n \in Nat
  OBVIOUS
<1>2. PICK k : k = Keep /\ k \in Nat \ {0}
  BY StorageAssumption
<1>3. CASE n <= k
  BY <1>1, <1>2, <1>3, LastKeptShort
<1>4. CASE n > k
  <2>1. PICK kept : kept = LastKept(s)
    OBVIOUS
  <2>2. /\ kept \in Seq(Missions) /\ Len(kept) = k
        /\ \A i \in 1..k : kept[i] = s[n - k + i]
    <3>1. kept = SubSeq(s, n - k + 1, n)
      BY <1>1, <1>2, <1>4, <2>1 DEF LastKept
    <3>2. \A i \in (n - k + 1)..n : s[i] \in Missions
      BY <1>1, <1>2, <1>4
    <3>3. /\ kept \in Seq(Missions) /\ Len(kept) = k
          /\ \A i \in 1..(n - (n - k + 1) + 1) : kept[i] = s[n - k + 1 + i - 1]
      BY <1>1, <1>2, <1>4, <3>1, <3>2, SubSeqProperties
    <3> QED
      BY <1>1, <1>2, <3>3
  <2>3. PICK a : a = Append(kept, m)
    OBVIOUS
  <2>4. PICK b : b = Append(s, m)
    OBVIOUS
  <2>5. /\ a \in Seq(Missions) /\ Len(a) = k + 1 /\ a[k + 1] = m
        /\ \A i \in 1..k : a[i] = kept[i]
    BY <2>2, <2>3, AppendProperties
  <2>6. /\ b \in Seq(Missions) /\ Len(b) = n + 1 /\ b[n + 1] = m
        /\ \A i \in 1..n : b[i] = s[i]
    BY <1>1, <2>4, AppendProperties
  <2>7. LastKept(a) = SubSeq(a, 2, k + 1) /\ LastKept(b) = SubSeq(b, n - k + 2, n + 1)
    <3>1. Len(a) > Keep /\ Len(b) > Keep
      BY <1>1, <1>2, <1>4, <2>5, <2>6
    <3>2. LastKept(a) = SubSeq(a, Len(a) - Keep + 1, Len(a))
          /\ LastKept(b) = SubSeq(b, Len(b) - Keep + 1, Len(b))
      BY <3>1 DEF LastKept
    <3>3. Len(a) - Keep + 1 = 2 /\ Len(b) - Keep + 1 = n - k + 2
      BY <1>1, <1>2, <2>5, <2>6
    <3> QED
      BY <2>5, <2>6, <3>2, <3>3
  <2>8. PICK c : c = SubSeq(a, 2, k + 1)
    OBVIOUS
  <2>9. PICK d : d = SubSeq(b, n - k + 2, n + 1)
    OBVIOUS
  <2>10. /\ c \in Seq(Missions) /\ Len(c) = k
         /\ \A i \in 1..k : c[i] = a[i + 1]
    <3>1. \A i \in 2..(k + 1) : a[i] \in Missions
      BY <1>2, <2>5
    <3>2. /\ c \in Seq(Missions) /\ Len(c) = k
          /\ \A i \in 1..(k + 1 - 2 + 1) : c[i] = a[2 + i - 1]
      BY <1>2, <2>8, <3>1, SubSeqProperties
    <3> QED
      BY <1>2, <3>2
  <2>11. /\ d \in Seq(Missions) /\ Len(d) = k
         /\ \A i \in 1..k : d[i] = b[n - k + 1 + i]
    <3>1. \A i \in (n - k + 2)..(n + 1) : b[i] \in Missions
      BY <1>1, <1>2, <1>4, <2>6
    <3>2. /\ d \in Seq(Missions) /\ Len(d) = k
          /\ \A i \in 1..(n + 1 - (n - k + 2) + 1) : d[i] = b[n - k + 2 + i - 1]
      BY <1>1, <1>2, <1>4, <2>9, <3>1, SubSeqProperties
    <3> QED
      BY <1>1, <1>2, <3>2
  <2>12. \A i \in 1..k : c[i] = d[i]
    <3> SUFFICES ASSUME NEW i \in 1..k PROVE c[i] = d[i]
      OBVIOUS
    <3>1. CASE i = k
      BY <1>1, <1>2, <2>5, <2>6, <2>10, <2>11, <3>1
    <3>2. CASE i < k
      <4>1. i + 1 \in 1..k /\ n - k + 1 + i \in 1..n
        BY <1>1, <1>2, <1>4, <3>2
      <4>2. c[i] = kept[i + 1] /\ d[i] = s[n - k + 1 + i]
        BY <2>5, <2>6, <2>10, <2>11, <4>1
      <4>3. n - k + (i + 1) = n - k + 1 + i
        BY <1>1, <1>2
      <4>4. kept[i + 1] = s[n - k + (i + 1)]
        BY <2>2, <4>1
      <4> QED
        BY <4>2, <4>3, <4>4
    <3> QED
      BY <1>2, <3>1, <3>2
  <2>13. c = d
    BY <2>10, <2>11, <2>12, SeqEqual
  <2> QED
    BY <2>1, <2>3, <2>4, <2>7, <2>8, <2>9, <2>13
<1> QED
  BY <1>1, <1>2, <1>3, <1>4

LEMMA FileQuiet ==
  ASSUME FileInv, UNCHANGED <<storageVars, stored>>, disturbed \subseteq disturbed',
         \A t \in Threads : pc'[t] = pc[t] \/ (~Inside(t, "storage") /\ ~Inside(t, "storage")'),
         \A t \in Threads : Inside(t, "storage") => task'[t] = task[t]
  PROVE  FileInv'
<1> SUFFICES ASSUME "storage" \notin disturbed' PROVE Ordered'
  BY DEF FileInv
<1>1. Ordered
  BY DEF FileInv
<1>2. \A t \in Threads : Inside(t, "storage")' <=> Inside(t, "storage")
  BY DEF Inside
<1>3. \A t \in Threads : pc'[t] = "write" <=> pc[t] = "write"
  BY DEF Inside, Section
<1> QED
  BY <1>1, <1>2, <1>3 DEF Ordered, Alone, Longer, storageVars

LEMMA FileStep == Inv /\ Typed /\ FileInv /\ [Next]_vars => FileInv'
<1> SUFFICES ASSUME Inv, Typed, FileInv, [Next]_vars PROVE FileInv'
  OBVIOUS
<1>1. /\ pc \in [Threads -> Labels] /\ task \in [Threads -> Tasks \cup {Idle}]
      /\ state \in [Threads -> Seq(Missions)]
      /\ handle \in [Threads -> {"none", "path", "renamed"}]
      /\ stored \in Seq(Missions)
      /\ \A t \in Threads : pc[t] # "idle" => task[t].mission \in Missions
  BY HandlerAssumption DEF Typed, TypeOK, StorageTypeOK, Tasks
<1>2. ASSUME NEW t \in Threads, Load(t)
      PROVE  FileInv'
  <2> SUFFICES ASSUME "storage" \notin disturbed' PROVE Ordered'
    BY DEF FileInv
  <2>1. /\ pc[t] = "load" /\ Goto(t, "open") /\ Enter(t, "storage")
        /\ UNCHANGED <<task, stored>> /\ LoadAndAppend(t, task[t].mission)
    BY <1>2 DEF Load
  <2>2. Ordered
    BY <2>1 DEF Enter, FileInv
  <2>3. Alone("storage")' /\ \A u \in Threads \ {t} : ~Inside(u, "storage") /\ pc'[u] = pc[u]
    BY <1>1, <2>1, <2>2, EnterAlone DEF Ordered, Section
  <2>4. pc'[t] = "open" /\ \A u \in Threads : pc[u] # "write"
    BY <1>1, <2>1, <2>3 DEF Goto, Inside, Section
  <2>5. file = Holding(LastKept(stored)) /\ file.missions = LastKept(stored) /\ Readable
    BY <2>2, <2>4 DEF Ordered, Holding, Readable
  <2>6. UNCHANGED file /\ state' = [state EXCEPT ![t] = LastKept(Append(LastKept(stored), task[t].mission))]
    BY <2>1, <2>5 DEF LoadAndAppend, LoadAnd
  <2>7. state'[t] = Longer(t)'
    BY <1>1, <2>1, <2>6, LastKeptAgain DEF Longer
  <2>8. \A u \in Threads : pc'[u] # "write" /\ (Inside(u, "storage")' => u = t)
    BY <2>3, <2>4 DEF Inside
  <2> QED
    BY <2>1, <2>3, <2>5, <2>6, <2>7, <2>8 DEF Ordered
<1>3. ASSUME NEW t \in Threads, Open(t)
      PROVE  FileInv'
  <2> SUFFICES ASSUME "storage" \notin disturbed' PROVE Ordered'
    BY DEF FileInv
  <2>1. /\ pc[t] = "open" /\ pc' = [pc EXCEPT ![t] = "write"]
        /\ UNCHANGED <<task, stored, state, disturbed>>
        /\ file' = Unreadable("empty") /\ handle' = [handle EXCEPT ![t] = "path"]
    BY <1>3 DEF Open, OpenToWrite, Goto
  <2>2. Ordered /\ Inside(t, "storage") /\ pc'[t] = "write"
    BY <1>1, <2>1 DEF FileInv, Inside, Section
  <2>3. Alone("storage")' /\ \A u \in Threads \ {t} : ~Inside(u, "storage") /\ pc'[u] = pc[u]
    BY <1>1, <2>1, <2>2 DEF Ordered, Alone, Inside, Section
  <2>4. \A u \in Threads : Inside(u, "storage")' => state'[u] = Longer(u)'
    BY <2>1, <2>2, <2>3 DEF Ordered, Inside, Longer
  <2>5. \A u \in Threads : pc'[u] = "write" => handle'[u] = "path" /\ file'.text = "empty"
    BY <1>1, <2>1, <2>3 DEF Inside, Section, Unreadable
  <2> QED
    BY <2>2, <2>3, <2>4, <2>5 DEF Ordered
<1>4. ASSUME NEW t \in Threads, Save(t)
      PROVE  FileInv'
  <2> SUFFICES ASSUME "storage" \notin disturbed' PROVE Ordered'
    BY DEF FileInv
  <2>1. /\ pc[t] = "write" /\ pc' = [pc EXCEPT ![t] = "enqueue"]
        /\ UNCHANGED disturbed /\ WriteAndClose(t)
        /\ stored' = Append(stored, task[t].mission)
    BY <1>4 DEF Save, Goto
  <2>2. Ordered /\ Inside(t, "storage")
    BY <1>1, <2>1 DEF FileInv, Inside, Section
  <2>3. \A u \in Threads : ~Inside(u, "storage")'
    BY <1>1, <2>1, <2>2 DEF Ordered, Alone, Inside, Section
  <2>4. file' = Holding(state[t]) /\ state[t] = Longer(t)
    BY <2>1, <2>2 DEF Ordered, WriteAndClose
  <2> QED
    BY <2>1, <2>3, <2>4 DEF Ordered, Alone, Longer, Inside, Section
<1>5. ASSUME NEW t \in Threads,
             \/ Place(t) \/ Count(t) \/ Pass(t) \/ Check(t) \/ Fly(t)
             \/ Add(t) \/ HashScores(t) \/ CommitScores(t) \/ Sign(t) \/ Rate(t)
             \/ ReadStatus(t) \/ RegisterTier(t) \/ Enqueue(t) \/ Fail(t)
      PROVE  FileInv'
  <2>1. UNCHANGED <<storageVars, stored>> /\ disturbed \subseteq disturbed'
    BY <1>5 DEF Place, Count, Pass, Check, Fly, Add, HashScores, CommitScores, Sign, Rate,
                ReadStatus, RegisterTier, Enqueue, Fail, Enter
  <2>2. PICK label : /\ pc[t] \notin Section("storage") /\ label \notin Section("storage")
                     /\ pc' = [pc EXCEPT ![t] = label]
    BY <1>5 DEF Place, Count, Pass, Check, Fly, Add, HashScores, CommitScores, Sign, Rate,
                ReadStatus, RegisterTier, Enqueue, Fail, Goto, Answer, Section
  <2>3. \A u \in Threads \ {t} : pc'[u] = pc[u] /\ task'[u] = task[u]
    BY <1>1, <1>5, <2>2
       DEF Place, Count, Pass, Check, Fly, Add, HashScores, CommitScores, Sign, Rate,
           ReadStatus, RegisterTier, Enqueue, Fail, Answer
  <2>4. ~Inside(t, "storage") /\ ~Inside(t, "storage")'
    BY <1>1, <2>2 DEF Inside
  <2> QED
    BY <2>1, <2>3, <2>4, FileQuiet
<1>6. ASSUME NEW t \in Threads, NEW m \in Missions, Begin(t, m)
      PROVE  FileInv'
  <2>1. /\ UNCHANGED <<storageVars, stored>> /\ disturbed \subseteq disturbed'
        /\ pc[t] = "idle" /\ pc' = [pc EXCEPT ![t] = "place"]
        /\ \A u \in Threads \ {t} : task'[u] = task[u]
    BY <1>1, <1>6 DEF Begin, Enter, Goto
  <2> QED
    BY <1>1, <2>1, FileQuiet DEF Inside, Section
<1>7. CASE Restart
  <2> SUFFICES ASSUME "storage" \notin disturbed' PROVE Ordered'
    BY DEF FileInv
  <2>1. /\ \A t \in Threads : pc[t] # "write" /\ pc'[t] = "idle"
        /\ UNCHANGED <<file, stored>> /\ "storage" \notin disturbed
    BY <1>7 DEF Restart
  <2>2. file = Holding(LastKept(stored))
    BY <2>1 DEF FileInv, Ordered
  <2> QED
    BY <2>1, <2>2 DEF Ordered, Alone, Inside, Section
<1>8. CASE Tick \/ UNCHANGED vars
  <2>1. UNCHANGED <<storageVars, stored, pc, task, disturbed>>
    BY <1>8 DEF Tick, vars
  <2> QED
    BY <2>1, FileQuiet
<1> QED
  BY <1>2, <1>3, <1>4, <1>5, <1>6, <1>7, <1>8 DEF Next, Step

\* The drone's file holds the last missions written to it, in order, unless two
\* calls met inside append_mission or the process stopped between emptying the
\* file and writing it (storage.py:27-63).
THEOREM HistoriesOrdered == Spec => []HistoryOrdered
<1>1. Init => FileInv
  <2> SUFFICES ASSUME Init PROVE Ordered
    BY DEF FileInv
  <2>1. LastKept(<< >>) = << >>
    <3>1. << >> \in Seq(Missions) /\ Len(<< >>) <= Keep
      BY StorageAssumption
    <3> QED
      BY <3>1, LastKeptShort
  <2> QED
    BY <2>1 DEF Init, StorageInit, Ordered, Alone, Inside, Section
<1>2. Inv /\ Typed /\ FileInv /\ [Next]_vars => (Inv /\ Typed /\ FileInv)'
  BY StepInv, StepTyped, FileStep
<1>3. FileInv => HistoryOrdered
  BY DEF FileInv, Ordered, HistoryOrdered
<1> QED
  BY <1>1, <1>2, <1>3, InitInv, InitTyped, PTL DEF Spec
=============================================================================
