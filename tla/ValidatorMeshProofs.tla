-------------------------- MODULE ValidatorMeshProofs --------------------------
(***************************************************************************)
(* Proofs about ValidatorMesh for any finite set of validators, any peers, *)
(* calls and PoPW, and whatever gets lost: consensus is backed by 67% of   *)
(* the validators, and without restarts a mission gets it once.            *)
(***************************************************************************)
EXTENDS ValidatorMesh, FiniteSetTheorems, TLAPS

\* Only started calls have sent requests.
Asked == \A n \in Nodes : \A c \in inbox[n] : proof[c] \in Proofs

\* An accepting ack is the word of a node that has accepted this very PoPW.
AckTrue == \A c \in Calls, n \in Nodes : reply[c][n] = "accept" => c \in accepted[n]

IndInv == TypeOK /\ Asked /\ AckTrue /\ AgreedBySupermajority

Backers(c) == {n \in Nodes : c \in accepted[n]}

-----------------------------------------------------------------------------
(* Types *)

LEMMA InitTyped == Init => TypeOK /\ Asked /\ AckTrue
<1> SUFFICES ASSUME Init PROVE TypeOK /\ Asked /\ AckTrue
  OBVIOUS
<1>1. NoVotes \in [Missions -> [Vote -> Nat]]
  BY DEF NoVotes
<1> QED
  BY <1>1, MeshAssumption DEF Init, TypeOK, Asked, AckTrue, Reply

LEMMA RecordedTyped ==
  ASSUME TypeOK, NEW n \in Nodes, NEW m \in Missions, NEW v \in Vote
  PROVE  Recorded(n, m, v) \in [Nodes -> [Missions -> [Vote -> Nat]]]
<1>1. votes[n][m] \in [Vote -> Nat]
  BY DEF TypeOK
<1>2. [votes[n][m] EXCEPT ![v] = @ + 1] \in [Vote -> Nat]
  BY <1>1
<1> QED
  BY <1>2 DEF Recorded, TypeOK

LEMMA AcknowledgeTyped ==
  ASSUME TypeOK, NEW n \in Nodes, NEW c \in Calls, NEW answer \in Reply,
         Acknowledge(n, c, answer)
  PROVE  /\ reply' \in [Calls -> [Nodes -> Reply]]
         /\ \A d \in Calls, p \in Nodes :
              reply'[d][p] = reply[d][p] \/ (d = c /\ p = n /\ reply'[d][p] = answer)
<1>1. reply \in [Calls -> [Nodes -> Reply]] /\ reply[c] \in [Nodes -> Reply]
  BY DEF TypeOK
<1>2. CASE UNCHANGED reply
  BY <1>1, <1>2
<1>3. CASE reply' = [reply EXCEPT ![c][n] = answer]
  <2>1. [reply[c] EXCEPT ![n] = answer] \in [Nodes -> Reply]
    BY <1>1
  <2> QED
    BY <1>1, <1>3, <2>1
<1> QED
  BY <1>2, <1>3 DEF Acknowledge

LEMMA StepTyped ==
  ASSUME TypeOK, Asked, [Next]_vars
  PROVE  TypeOK' /\ Asked'
<1> USE DEF TypeOK, Asked
<1>1. ASSUME UNCHANGED vars PROVE TypeOK' /\ Asked'
  BY <1>1 DEF vars
<1>2. ASSUME NEW c \in Calls, NEW p \in Proofs, Submit(c, p) PROVE TypeOK' /\ Asked'
  BY <1>2, MeshAssumption DEF Submit
<1>3. ASSUME NEW n \in Nodes, NEW c \in Calls, Judge(n, c) PROVE TypeOK' /\ Asked'
  <2> DEFINE vote == [by |-> n, accepted |-> Validates(n, proof[c])]
  <2>1. proof[c] \in Proofs /\ Mission(c) \in Missions
    BY <1>3 DEF Judge, Mission, Missions
  <2>2. Validates(n, proof[c]) \in BOOLEAN
    BY <2>1, MeshAssumption DEF Validates
  <2>3. vote \in Vote
    BY <2>2 DEF Vote
  <2> HIDE DEF vote
  <2>4. votes' \in [Nodes -> [Missions -> [Vote -> Nat]]]
    <3>1. votes' = Recorded(n, Mission(c), vote)
      BY <1>3 DEF Judge, vote
    <3> QED
      BY <2>1, <2>3, <3>1, RecordedTyped
  <2>5. telling' \subseteq [from: Nodes, to: Nodes, mission: Missions, vote: Vote]
    <3>1. telling' = telling \cup [from: {n}, to: Peers[n], mission: {Mission(c)},
                                   vote: {vote}]
      BY <1>3 DEF Judge, vote
    <3> QED
      BY <2>1, <2>3, <3>1, MeshAssumption
  <2>6. reply' \in [Calls -> [Nodes -> Reply]]
    <3>1. Acknowledge(n, c, IF vote.accepted THEN "accept" ELSE "reject")
      BY <1>3 DEF Judge, vote
    <3>2. (IF vote.accepted THEN "accept" ELSE "reject") \in Reply
      BY DEF Reply
    <3> QED
      BY <3>1, <3>2, AcknowledgeTyped
  <2> QED
    BY <1>3, <2>1, <2>4, <2>5, <2>6 DEF Judge
<1>4. ASSUME NEW n \in Nodes, NEW c \in Calls, Duplicate(n, c)
      PROVE  TypeOK' /\ Asked'
  <2>1. reply' \in [Calls -> [Nodes -> Reply]]
    BY <1>4, AcknowledgeTyped DEF Duplicate, Reply
  <2> QED
    BY <1>4, <2>1 DEF Duplicate
<1>5. ASSUME NEW n \in Nodes, NEW c \in Calls, LoseRequest(n, c)
      PROVE  TypeOK' /\ Asked'
  BY <1>5 DEF LoseRequest
<1>6. ASSUME NEW n \in Nodes, NEW c \in Calls, Timeout(c, n)
      PROVE  TypeOK' /\ Asked'
  BY <1>6 DEF Timeout, Reply
<1>7. ASSUME NEW t \in telling, Tell(t) PROVE TypeOK' /\ Asked'
  <2>1. t.to \in Nodes /\ t.mission \in Missions /\ t.vote \in Vote
    BY DEF TypeOK
  <2>2. votes' \in [Nodes -> [Missions -> [Vote -> Nat]]]
    BY <1>7, <2>1, RecordedTyped DEF Tell
  <2> QED
    BY <1>7, <2>2 DEF Tell
<1>8. ASSUME NEW t \in telling, LoseVote(t) PROVE TypeOK' /\ Asked'
  BY <1>8 DEF LoseVote
<1>9. ASSUME NEW c \in Calls, Decide(c) PROVE TypeOK' /\ Asked'
  BY <1>9 DEF Decide
<1>10. ASSUME NEW n \in Nodes, Restart(n) PROVE TypeOK' /\ Asked'
  <2>1. NoVotes \in [Missions -> [Vote -> Nat]]
    BY DEF NoVotes
  <2>2. reply' \in [Calls -> [Nodes -> Reply]]
    BY <1>10 DEF Restart, Reply
  <2>3. restarts' \in Nat
    BY <1>10 DEF Restart
  <2> QED
    BY <1>10, <2>1, <2>2, <2>3 DEF Restart
<1> QED
  BY <1>1, <1>2, <1>3, <1>4, <1>5, <1>6, <1>7, <1>8, <1>9, <1>10 DEF Next, Handle

(***************************************************************************)
(* The nodes, the calls and the messages hold what they should.            *)
(***************************************************************************)
THEOREM TypeCorrect == Spec => []TypeOK
<1>1. Init => TypeOK /\ Asked
  BY InitTyped
<1>2. TypeOK /\ Asked /\ [Next]_vars => TypeOK' /\ Asked'
  BY StepTyped
<1> QED
  BY <1>1, <1>2, PTL DEF Spec

-----------------------------------------------------------------------------
(* Acks and acceptances *)

\* A node never takes an acceptance back, and who has acknowledged one has it.
LEMMA StepAcks ==
  ASSUME TypeOK, Asked, AckTrue, [Next]_vars
  PROVE  AckTrue' /\ \A n \in Nodes : accepted[n] \subseteq accepted'[n]
<1> USE DEF TypeOK, AckTrue
<1>1. ASSUME NEW n \in Nodes, NEW c \in Calls, Judge(n, c)
      PROVE  AckTrue' /\ \A p \in Nodes : accepted[p] \subseteq accepted'[p]
  <2> DEFINE ok == Validates(n, proof[c])
  <2>1. accepted' = [accepted EXCEPT ![n] = IF ok THEN @ \cup {c} ELSE @]
    BY <1>1 DEF Judge
  <2>2. Acknowledge(n, c, IF ok THEN "accept" ELSE "reject")
    BY <1>1 DEF Judge
  <2> HIDE DEF ok
  <2>3. \A d \in Calls, p \in Nodes :
          \/ reply'[d][p] = reply[d][p]
          \/ d = c /\ p = n /\ reply'[d][p] = (IF ok THEN "accept" ELSE "reject")
    BY <2>2, AcknowledgeTyped DEF Reply
  <2> QED
    BY <2>1, <2>3
<1>2. ASSUME NEW n \in Nodes, NEW c \in Calls, Duplicate(n, c)
      PROVE  AckTrue' /\ \A p \in Nodes : accepted[p] \subseteq accepted'[p]
  <2>1. \A d \in Calls, p \in Nodes :
          reply'[d][p] = reply[d][p] \/ reply'[d][p] = "duplicate"
    BY <1>2, AcknowledgeTyped DEF Duplicate, Reply
  <2> QED
    BY <1>2, <2>1 DEF Duplicate
<1>3. ASSUME NEW n \in Nodes, Restart(n)
      PROVE  AckTrue' /\ \A p \in Nodes : accepted[p] \subseteq accepted'[p]
  BY <1>3 DEF Restart
<1>4. ASSUME NEW n \in Nodes, NEW c \in Calls, Timeout(c, n)
      PROVE  AckTrue' /\ \A p \in Nodes : accepted[p] \subseteq accepted'[p]
  BY <1>4 DEF Timeout
<1>5. ASSUME UNCHANGED <<reply, accepted>>
      PROVE  AckTrue' /\ \A p \in Nodes : accepted[p] \subseteq accepted'[p]
  BY <1>5
<1> QED
  BY <1>1, <1>2, <1>3, <1>4, <1>5
  DEF Next, Handle, Submit, LoseRequest, Tell, LoseVote, Decide, vars

LEMMA MoreIsSupermajority ==
  ASSUME NEW S \in SUBSET Nodes, NEW T \in SUBSET Nodes, S \subseteq T,
         Supermajority(Cardinality(S), Cardinality(Nodes))
  PROVE  Supermajority(Cardinality(T), Cardinality(Nodes))
<1>1. IsFiniteSet(T)
  BY MeshAssumption, FS_Subset
<1>2. Cardinality(S) <= Cardinality(T) /\ Cardinality(S) \in Nat /\ Cardinality(T) \in Nat
  BY <1>1, FS_Subset, FS_CardinalityType
<1>3. Cardinality(Nodes) \in Nat
  BY MeshAssumption, FS_CardinalityType
<1> QED
  BY <1>2, <1>3 DEF Supermajority

LEMMA StepAgreed ==
  ASSUME IndInv, [Next]_vars
  PROVE  AgreedBySupermajority'
<1> SUFFICES ASSUME NEW c \in Calls, result'[c] = "agreed"
             PROVE  Supermajority(Cardinality(Backers(c)'), Cardinality(Nodes))
  BY DEF AgreedBySupermajority, Backers
<1>1. Backers(c) \subseteq Backers(c)'
  BY StepAcks DEF IndInv, Backers
<1>2. CASE result[c] = "agreed"
  <2>1. Supermajority(Cardinality(Backers(c)), Cardinality(Nodes))
    BY <1>2 DEF IndInv, AgreedBySupermajority, Backers
  <2> QED
    BY <1>1, <2>1, MoreIsSupermajority DEF Backers
<1>3. CASE result[c] # "agreed"
  <2>1. Decide(c)
    <3>1. result' # result
      BY <1>3
    <3>2. PICK d \in Calls : Decide(d)
      BY <3>1 DEF Next, Handle, Submit, Judge, Duplicate, LoseRequest, Timeout, Tell,
                  LoseVote, Restart, vars
    <3>3. d = c
      BY <1>3, <3>2 DEF Decide, IndInv, TypeOK
    <3> QED
      BY <3>2, <3>3
  <2>2. Consensus(c)
    BY <2>1 DEF Decide, IndInv, TypeOK
  <2> DEFINE S == {n \in Nodes : reply[c][n] \in {"accept"}}
  <2>3. Supermajority(Cardinality(S), Cardinality(Nodes))
    BY <2>2 DEF Consensus, Answering
  <2>4. S \subseteq Backers(c)
    BY DEF IndInv, AckTrue, Backers
  <2> QED
    BY <1>1, <2>3, <2>4, MoreIsSupermajority DEF Backers
<1> QED
  BY <1>2, <1>3

\* Acks count accepting judgements of different nodes (validator_node.py:100-135).
THEOREM Inductive == Spec => []IndInv
<1>1. Init => IndInv
  BY InitTyped DEF IndInv, AgreedBySupermajority, Init
<1>2. IndInv /\ [Next]_vars => IndInv'
  BY StepTyped, StepAcks, StepAgreed DEF IndInv
<1> QED
  BY <1>1, <1>2, PTL DEF Spec

(***************************************************************************)
(* Whatever is lost and whoever restarts, a call that reports consensus    *)
(* has had its own PoPW accepted by 67% of all the validators.             *)
(***************************************************************************)
THEOREM SupermajorityBacked == Spec => []AgreedBySupermajority
<1>1. IndInv => AgreedBySupermajority
  BY DEF IndInv
<1> QED
  BY <1>1, Inductive, PTL

-----------------------------------------------------------------------------
(* One consensus per mission *)

\* What a node that has never restarted has accepted, it has seen, and once.
AcceptsOnce ==
  /\ restarts = 0
  /\ \A n \in Nodes : \A c \in accepted[n] :
       proof[c] \in Proofs /\ Mission(c) \in seen[n]
  /\ \A n \in Nodes : \A c, d \in accepted[n] : Mission(c) = Mission(d) => c = d
  /\ \A c \in Calls : result[c] = "agreed" => proof[c] \in Proofs

LEMMA StepAcceptsOnce ==
  ASSUME MaxRestarts = 0, TypeOK, Asked, AcceptsOnce, [Next]_vars
  PROVE  AcceptsOnce'
<1> USE DEF TypeOK, Asked, AcceptsOnce, Mission
<1>1. ASSUME NEW n \in Nodes, NEW c \in Calls, Judge(n, c) PROVE AcceptsOnce'
  <2> DEFINE ok == Validates(n, proof[c])
  <2>1. accepted' = [accepted EXCEPT ![n] = IF ok THEN @ \cup {c} ELSE @]
    BY <1>1 DEF Judge
  <2> HIDE DEF ok
  <2>2. /\ UNCHANGED <<proof, restarts, result>>
        /\ seen' = [seen EXCEPT ![n] = @ \cup {Mission(c)}]
        /\ proof[c] \in Proofs /\ Mission(c) \notin seen[n]
    BY <1>1 DEF Judge
  <2> QED
    BY <2>1, <2>2
<1>2. ASSUME NEW c \in Calls, NEW p \in Proofs, Submit(c, p) PROVE AcceptsOnce'
  BY <1>2, MeshAssumption DEF Submit
<1>3. ASSUME NEW c \in Calls, Decide(c) PROVE AcceptsOnce'
  BY <1>3 DEF Decide
<1>4. ASSUME UNCHANGED <<seen, proof, result, accepted, restarts>> PROVE AcceptsOnce'
  BY <1>4
<1> QED
  BY <1>1, <1>2, <1>3, <1>4
  DEF Next, Handle, Duplicate, LoseRequest, Timeout, Tell, LoseVote, Restart, vars

\* Two supermajorities of the validators have one in common.
LEMMA SupermajoritiesMeet ==
  ASSUME NEW S \in SUBSET Nodes, NEW T \in SUBSET Nodes,
         Supermajority(Cardinality(S), Cardinality(Nodes)),
         Supermajority(Cardinality(T), Cardinality(Nodes))
  PROVE  S \cap T # {}
<1> SUFFICES ASSUME S \cap T = {} PROVE FALSE
  OBVIOUS
<1>1. IsFiniteSet(S) /\ IsFiniteSet(T) /\ IsFiniteSet(S \cup T)
  BY MeshAssumption, FS_Subset, FS_Union
<1>2. Cardinality(S \cup T) = Cardinality(S) + Cardinality(T)
  <2>1. Cardinality(S \cap T) = 0
    BY FS_EmptySet
  <2>2. Cardinality(S) \in Nat /\ Cardinality(T) \in Nat
    BY <1>1, FS_CardinalityType
  <2>3. Cardinality(S \cup T) = Cardinality(S) + Cardinality(T) - Cardinality(S \cap T)
    BY <1>1, FS_Union
  <2> QED
    BY <2>1, <2>2, <2>3
<1>3. Cardinality(S \cup T) <= Cardinality(Nodes)
  BY MeshAssumption, FS_Subset
<1>4. Cardinality(Nodes) \in Nat /\ Cardinality(Nodes) # 0
  BY MeshAssumption, FS_CardinalityType, FS_EmptySet
<1>5. Cardinality(S) \in Nat /\ Cardinality(T) \in Nat
  BY <1>1, FS_CardinalityType
<1> QED
  BY <1>2, <1>3, <1>4, <1>5 DEF Supermajority

(***************************************************************************)
(* As long as no node restarts, at most one call reports consensus on a    *)
(* mission: the backers of two calls would share a node, and it accepts    *)
(* one PoPW per mission.                                                   *)
(***************************************************************************)
THEOREM OneConsensus ==
  ASSUME MaxRestarts = 0
  PROVE  Spec => []AgreedOnce
<1>1. Init => AcceptsOnce /\ TypeOK /\ Asked
  BY InitTyped DEF Init, AcceptsOnce
<1>2. AcceptsOnce /\ TypeOK /\ Asked /\ [Next]_vars => AcceptsOnce' /\ TypeOK' /\ Asked'
  BY StepAcceptsOnce, StepTyped
<1>3. AcceptsOnce /\ IndInv => AgreedOnce
  <2> SUFFICES ASSUME AcceptsOnce, IndInv, NEW c \in Calls, NEW d \in Calls,
                      result[c] = "agreed", result[d] = "agreed",
                      Mission(c) = Mission(d)
               PROVE  c = d
    BY DEF AgreedOnce
  <2>1. /\ Supermajority(Cardinality(Backers(c)), Cardinality(Nodes))
        /\ Supermajority(Cardinality(Backers(d)), Cardinality(Nodes))
    BY DEF IndInv, AgreedBySupermajority, Backers
  <2>2. PICK n \in Nodes : n \in Backers(c) \cap Backers(d)
    BY <2>1, SupermajoritiesMeet DEF Backers
  <2> QED
    BY <2>2 DEF Backers, AcceptsOnce
<1> QED
  BY <1>1, <1>2, <1>3, Inductive, PTL DEF Spec
-----------------------------------------------------------------------------
(* Peers hold the votes of a node as often as it does *)

Telling(n, p, m, v) == [from |-> n, to |-> p, mission |-> m, vote |-> v]

\* As long as no node restarts: a node tells of missions it has seen, and a vote
\* its peer does not hold yet is on its way, unless one was lost.
Informed ==
  restarts = 0 =>
    /\ \A t \in telling : t.mission \in seen[t.from]
    /\ ~lost => \A n \in Nodes : \A p \in Peers[n], m \in Missions, a \in BOOLEAN :
         LET v == [by |-> n, accepted |-> a]
         IN  votes[n][m][v] =
               votes[p][m][v] + (IF Telling(n, p, m, v) \in telling THEN 1 ELSE 0)

LEMMA InitInformed == Init => Informed
<1> SUFFICES ASSUME Init PROVE Informed
  OBVIOUS
<1>1. telling = {} /\ votes = [n \in Nodes |-> NoVotes]
  BY DEF Init
<1>2. \A m \in Missions, v \in Vote : NoVotes[m][v] = 0
  BY DEF NoVotes
<1>3. ASSUME NEW n \in Nodes, NEW p \in Peers[n], NEW m \in Missions, NEW a \in BOOLEAN
      PROVE  LET v == [by |-> n, accepted |-> a]
             IN  votes[n][m][v] =
                   votes[p][m][v] + (IF Telling(n, p, m, v) \in telling THEN 1 ELSE 0)
  <2>1. p \in Nodes /\ [by |-> n, accepted |-> a] \in Vote
    BY MeshAssumption DEF Vote
  <2> QED
    BY <1>1, <1>2, <2>1
<1> QED
  BY <1>1, <1>3 DEF Informed

LEMMA RecordedCounts ==
  ASSUME TypeOK, NEW n \in Nodes, NEW m \in Missions, NEW v \in Vote,
         votes' = Recorded(n, m, v),
         NEW p \in Nodes, NEW k \in Missions, NEW w \in Vote
  PROVE  votes'[p][k][w] = IF p = n /\ k = m /\ w = v THEN votes[p][k][w] + 1
                           ELSE votes[p][k][w]
<1>1. /\ votes \in [Nodes -> [Missions -> [Vote -> Nat]]]
      /\ votes[n] \in [Missions -> [Vote -> Nat]] /\ votes[n][m] \in [Vote -> Nat]
  BY DEF TypeOK
<1>2. votes' = [votes EXCEPT ![n] = [votes[n] EXCEPT ![m] = [votes[n][m] EXCEPT ![v] = votes[n][m][v] + 1]]]
  BY DEF Recorded
<1>3. p # n => votes'[p] = votes[p]
  BY <1>1, <1>2
<1>4. votes'[n] = [votes[n] EXCEPT ![m] = [votes[n][m] EXCEPT ![v] = votes[n][m][v] + 1]]
  BY <1>1, <1>2
<1>5. k # m => votes'[n][k] = votes[n][k]
  BY <1>1, <1>4
<1>6. votes'[n][m] = [votes[n][m] EXCEPT ![v] = votes[n][m][v] + 1]
  BY <1>1, <1>4
<1> QED
  BY <1>1, <1>3, <1>5, <1>6

LEMMA StepInformed ==
  ASSUME \A n \in Nodes : n \notin Peers[n],
         TypeOK, Asked, Informed, [Next]_vars
  PROVE  Informed'
<1>1. ASSUME NEW n \in Nodes, NEW c \in Calls, Judge(n, c) PROVE Informed'
  <2> SUFFICES ASSUME restarts' = 0
      PROVE  /\ \A t \in telling' : t.mission \in seen'[t.from]
             /\ ~lost' => \A q \in Nodes : \A p \in Peers[q], m \in Missions, a \in BOOLEAN :
                  LET v == [by |-> q, accepted |-> a]
                  IN  votes'[q][m][v] = votes'[p][m][v]
                        + (IF Telling(q, p, m, v) \in telling' THEN 1 ELSE 0)
    BY DEF Informed, Telling
  <2>1. proof[c] \in Proofs /\ Mission(c) \in Missions
    BY <1>1 DEF Judge, Mission, Missions, Asked
  <2>2. PICK vote \in Vote : vote = [by |-> n, accepted |-> Validates(n, proof[c])]
    <3>1. Validates(n, proof[c]) \in BOOLEAN
      BY <2>1, MeshAssumption DEF Validates
    <3> QED
      BY <3>1 DEF Vote
  <2>3. PICK mine \in Missions : mine = Mission(c)
    BY <2>1
  <2>4. /\ votes' = Recorded(n, mine, vote) /\ mine \notin seen[n]
        /\ telling' = telling \cup [from: {n}, to: Peers[n], mission: {mine}, vote: {vote}]
        /\ seen' = [seen EXCEPT ![n] = @ \cup {mine}]
        /\ UNCHANGED <<lost, restarts>>
    BY <1>1, <2>2, <2>3 DEF Judge
  <2>5. /\ \A t \in telling : t.mission \in seen[t.from]
        /\ telling \subseteq [from: Nodes, to: Nodes, mission: Missions, vote: Vote]
        /\ seen \in [Nodes -> SUBSET Missions]
    BY <2>4 DEF Informed, TypeOK
  <2>6. \A t \in telling' : t.mission \in seen'[t.from]
    BY <2>4, <2>5
  <2>7. ASSUME ~lost', NEW q \in Nodes, NEW p \in Peers[q], NEW m \in Missions,
               NEW a \in BOOLEAN, NEW v \in Vote, v = [by |-> q, accepted |-> a]
        PROVE  votes'[q][m][v] = votes'[p][m][v]
                 + (IF Telling(q, p, m, v) \in telling' THEN 1 ELSE 0)
    <3>1. p \in Nodes /\ p # q /\ votes[q][m][v] \in Nat /\ votes[p][m][v] \in Nat
      BY MeshAssumption DEF TypeOK
    <3>2. votes[q][m][v] = votes[p][m][v] + (IF Telling(q, p, m, v) \in telling THEN 1 ELSE 0)
      BY <2>4, <2>7 DEF Informed
    <3>3. /\ votes'[q][m][v] = IF q = n /\ m = mine /\ v = vote THEN votes[q][m][v] + 1
                               ELSE votes[q][m][v]
          /\ votes'[p][m][v] = IF p = n /\ m = mine /\ v = vote THEN votes[p][m][v] + 1
                               ELSE votes[p][m][v]
      BY <2>4, <3>1, RecordedCounts
    <3>4. vote.by = n /\ v.by = q
      BY <2>2, <2>7
    <3>5. Telling(q, p, m, v) \in telling' <=>
            \/ Telling(q, p, m, v) \in telling
            \/ q = n /\ m = mine /\ v = vote
      BY <2>4 DEF Telling
    <3>6. q = n /\ m = mine => Telling(q, p, m, v) \notin telling
      BY <2>4, <2>5 DEF Telling
    <3> QED
      BY <3>1, <3>2, <3>3, <3>4, <3>5, <3>6
  <2> QED
    BY <2>6, <2>7 DEF Vote
<1>2. ASSUME NEW t \in telling, Tell(t) PROVE Informed'
  <2> SUFFICES ASSUME restarts' = 0
      PROVE  /\ \A u \in telling' : u.mission \in seen'[u.from]
             /\ ~lost' => \A q \in Nodes : \A p \in Peers[q], m \in Missions, a \in BOOLEAN :
                  LET v == [by |-> q, accepted |-> a]
                  IN  votes'[q][m][v] = votes'[p][m][v]
                        + (IF Telling(q, p, m, v) \in telling' THEN 1 ELSE 0)
    BY DEF Informed, Telling
  <2>1. /\ votes' = Recorded(t.to, t.mission, t.vote) /\ telling' = telling \ {t}
        /\ UNCHANGED <<seen, lost, restarts>>
    BY <1>2 DEF Tell
  <2>2. /\ t.from \in Nodes /\ t.to \in Nodes /\ t.mission \in Missions /\ t.vote \in Vote
        /\ t.to \in Peers[t.from] /\ t.vote.by = t.from /\ t.to # t.from
        /\ t = Telling(t.from, t.to, t.mission, t.vote)
    BY DEF TypeOK, Telling
  <2>3. \A u \in telling' : u.mission \in seen'[u.from]
    BY <2>1 DEF Informed
  <2>4. ASSUME ~lost', NEW q \in Nodes, NEW p \in Peers[q], NEW m \in Missions,
               NEW a \in BOOLEAN, NEW v \in Vote, v = [by |-> q, accepted |-> a]
        PROVE  votes'[q][m][v] = votes'[p][m][v]
                 + (IF Telling(q, p, m, v) \in telling' THEN 1 ELSE 0)
    <3>1. p \in Nodes /\ p # q /\ votes[q][m][v] \in Nat /\ votes[p][m][v] \in Nat
      BY MeshAssumption DEF TypeOK
    <3>2. votes[q][m][v] = votes[p][m][v] + (IF Telling(q, p, m, v) \in telling THEN 1 ELSE 0)
      BY <2>1, <2>4 DEF Informed
    <3>3. /\ votes'[q][m][v] = IF q = t.to /\ m = t.mission /\ v = t.vote
                               THEN votes[q][m][v] + 1 ELSE votes[q][m][v]
          /\ votes'[p][m][v] = IF p = t.to /\ m = t.mission /\ v = t.vote
                               THEN votes[p][m][v] + 1 ELSE votes[p][m][v]
      BY <2>1, <2>2, <3>1, RecordedCounts
    <3>4. v = t.vote => q = t.from /\ q # t.to
      BY <2>2, <2>4
    <3>5. t = Telling(q, p, m, v) <=> q = t.from /\ p = t.to /\ m = t.mission /\ v = t.vote
      BY <2>2 DEF Telling
    <3>6. Telling(q, p, m, v) \in telling' <=>
            Telling(q, p, m, v) \in telling /\ t # Telling(q, p, m, v)
      BY <2>1
    <3>7. CASE t = Telling(q, p, m, v)
      BY <3>1, <3>2, <3>3, <3>4, <3>5, <3>6, <3>7
    <3>8. CASE t # Telling(q, p, m, v)
      BY <3>1, <3>2, <3>3, <3>4, <3>5, <3>6, <3>8
    <3> QED
      BY <3>7, <3>8
  <2> QED
    BY <2>3, <2>4 DEF Vote
<1>3. ASSUME NEW t \in telling, LoseVote(t) PROVE Informed'
  BY <1>3 DEF LoseVote, Informed
<1>4. ASSUME NEW n \in Nodes, Restart(n) PROVE Informed'
  BY <1>4 DEF Restart, Informed, TypeOK
<1>5. ASSUME UNCHANGED <<seen, votes, telling, lost, restarts>> PROVE Informed'
  BY <1>5 DEF Informed
<1> QED
  BY <1>1, <1>2, <1>3, <1>4, <1>5
  DEF Next, Handle, Submit, Duplicate, LoseRequest, Timeout, Decide, vars

(***************************************************************************)
(* With every vote delivered and no restart, a node's peers hold its votes *)
(* just as often as it does, for any nodes, calls and PoPW, if no node is  *)
(* its own peer (validator_node.py:91-101, 119-148).                       *)
(***************************************************************************)
THEOREM PeersHoldTheVotes ==
  ASSUME \A n \in Nodes : n \notin Peers[n]
  PROVE  Spec => []PeersInformed
<1>1. Init => TypeOK /\ Asked /\ Informed
  BY InitTyped, InitInformed
<1>2. TypeOK /\ Asked /\ Informed /\ [Next]_vars => (TypeOK /\ Asked /\ Informed)'
  BY StepTyped, StepInformed
<1>3. TypeOK /\ Informed => PeersInformed
  <2> SUFFICES ASSUME TypeOK, Informed, telling = {}, ~lost, restarts = 0,
                      NEW n \in Nodes, NEW m \in Missions, NEW a \in BOOLEAN,
                      NEW p \in Peers[n], NEW v \in Vote, v = [by |-> n, accepted |-> a]
               PROVE  votes[p][m][v] = votes[n][m][v]
    BY DEF PeersInformed, Vote
  <2>1. p \in Nodes /\ votes[p][m][v] \in Nat
    BY MeshAssumption DEF TypeOK
  <2>2. votes[n][m][v] = votes[p][m][v] + (IF Telling(n, p, m, v) \in telling THEN 1 ELSE 0)
    BY DEF Informed
  <2> QED
    BY <2>1, <2>2
<1> QED
  BY <1>1, <1>2, <1>3, PTL DEF Spec
=============================================================================
