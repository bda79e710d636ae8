----------------------------- MODULE ValidatorMesh -----------------------------
(***************************************************************************)
(* dronesync/validator_node.py and validator_network.py: validator nodes   *)
(* that each judge a mission's proof of physical work (PoPW) once, tell    *)
(* their peers, and answer the calls of ValidatorNetwork.submit_popw,      *)
(* which ask every node and count the acknowledgements.                    *)
(*                                                                         *)
(* A node's handler runs on one event loop: between two awaits it is one   *)
(* step.  It acknowledges before it tells its peers; requests, acks and    *)
(* votes may be late or lost, a node that restarts has forgotten           *)
(* everything, and a call that waits too long for a node goes on without.  *)
(***************************************************************************)
EXTENDS Integers, FiniteSets

CONSTANTS
  Nodes,        \* validators: node_uris of every call
  Peers,        \* peers of every node
  Calls,        \* calls of submit_popw
  Proofs,       \* PoPW records: mission, complete, score
  MinScore,     \* min_score of every node
  Faults,       \* what may fail: "call" (a request or its ack is lost or late),
                \* "vote" (a vote does not reach a peer)
  MaxRestarts,  \* bound on node restarts
  NotStarted    \* the PoPW of a call that has not started

Missions == {p.mission : p \in Proofs}

ASSUME MeshAssumption ==
  /\ IsFiniteSet(Nodes) /\ Nodes # {}
  /\ Peers \in [Nodes -> SUBSET Nodes]
  /\ \A p \in Proofs : p.complete \in BOOLEAN /\ p.score \in Nat
  /\ MinScore \in [Nodes -> Nat]
  /\ Faults \subseteq {"call", "vote"}
  /\ MaxRestarts \in Nat
  /\ NotStarted \notin Proofs

Vote == [by: Nodes, accepted: BOOLEAN]
Reply == {"wait", "none", "accept", "reject", "duplicate"}

VARIABLES
  seen,      \* _seen_missions of every node
  votes,     \* _votes of every node and mission: how often each vote is in it
  telling,   \* votes still on their way from a node to its peers
  inbox,     \* calls whose request a node has not handled
  proof,     \* the PoPW of every call that has started
  reply,     \* what the call has from every node
  result,    \* NetworkResult.consensus once the call has it: "agreed" or "failed"
  accepted,  \* history: calls whose PoPW a node has accepted
  lost,      \* history: a vote has not reached a peer
  restarts   \* history: restarts so far

vars == <<seen, votes, telling, inbox, proof, reply, result, accepted, lost, restarts>>

NoVotes == [m \in Missions |-> [v \in Vote |-> 0]]

Init ==
  /\ seen = [n \in Nodes |-> {}]
  /\ votes = [n \in Nodes |-> NoVotes]
  /\ telling = {}
  /\ inbox = [n \in Nodes |-> {}]
  /\ proof = [c \in Calls |-> NotStarted]
  /\ reply = [c \in Calls |-> [n \in Nodes |-> "wait"]]
  /\ result = [c \in Calls |-> "open"]
  /\ accepted = [n \in Nodes |-> {}]
  /\ lost = FALSE
  /\ restarts = 0

-----------------------------------------------------------------------------
(* Helpers *)

Mission(c) == proof[c].mission

\* _validate_popw: a hash, constraints satisfied, the node's score and two positions.
Validates(n, p) == p.complete /\ p.score >= MinScore[n]

\* Append to _votes[m] of node n.
Recorded(n, m, v) == [votes EXCEPT ![n][m][v] = @ + 1]

\* The ack of call c reaches it, unless the call has stopped waiting or it is late.
Acknowledge(n, c, answer) ==
  \/ reply[c][n] = "wait" /\ reply' = [reply EXCEPT ![c][n] = answer]
  \/ ("call" \in Faults \/ reply[c][n] # "wait") /\ UNCHANGED reply

Answering(c, answers) == Cardinality({n \in Nodes : reply[c][n] \in answers})
Responses(c) == Answering(c, {"accept", "reject", "duplicate"})

\* At least 0.67 of `total`.
Supermajority(count, total) == 100 * count >= 67 * total

\* max(1, int(total_validators * 0.67))
MinResponses ==
  LET share == (67 * Cardinality(Nodes)) \div 100 IN IF share > 1 THEN share ELSE 1

\* Faulty variant: the quorum is taken over the nodes that answered.
ConsensusOfResponses(c) ==
  Responses(c) >= MinResponses /\ Supermajority(Answering(c, {"accept"}), Responses(c))

\* What submit_popw makes of the responses.
Consensus(c) ==
  /\ Responses(c) >= MinResponses
  /\ Supermajority(Answering(c, {"accept"}), Cardinality(Nodes))

-----------------------------------------------------------------------------
(* Actions *)

\* submit_popw: a request to every node of the network, all at once.
Submit(c, p) ==
  /\ proof[c] = NotStarted
  /\ proof' = [proof EXCEPT ![c] = p]
  /\ inbox' = [n \in Nodes |-> inbox[n] \cup {c}]
  /\ UNCHANGED <<seen, votes, telling, reply, result, accepted, lost, restarts>>

\* A node does not get the request of a call: it is down or not reachable.
LoseRequest(n, c) ==
  /\ "call" \in Faults
  /\ c \in inbox[n]
  /\ inbox' = [inbox EXCEPT ![n] = @ \ {c}]
  /\ UNCHANGED <<seen, votes, telling, proof, reply, result, accepted, lost, restarts>>

\* Faulty variant: the vote goes to the peers and not into the node's own list.
JudgeForOthers(n, c) ==
  LET vote == [by |-> n, accepted |-> Validates(n, proof[c])]
  IN  /\ c \in inbox[n]
      /\ Mission(c) \notin seen[n]
      /\ inbox' = [inbox EXCEPT ![n] = @ \ {c}]
      /\ seen' = [seen EXCEPT ![n] = @ \cup {Mission(c)}]
      /\ telling' = telling \cup [from: {n}, to: Peers[n], mission: {Mission(c)},
                                  vote: {vote}]
      /\ accepted' = [accepted EXCEPT ![n] = IF vote.accepted THEN @ \cup {c} ELSE @]
      /\ Acknowledge(n, c, IF vote.accepted THEN "accept" ELSE "reject")
      /\ UNCHANGED <<votes, proof, result, lost, restarts>>

\* Faulty variant: the mission is never put into _seen_missions.
JudgeAgain(n, c) ==
  LET vote == [by |-> n, accepted |-> Validates(n, proof[c])]
  IN  /\ c \in inbox[n]
      /\ inbox' = [inbox EXCEPT ![n] = @ \ {c}]
      /\ votes' = Recorded(n, Mission(c), vote)
      /\ telling' = telling \cup [from: {n}, to: Peers[n], mission: {Mission(c)},
                                  vote: {vote}]
      /\ accepted' = [accepted EXCEPT ![n] = IF vote.accepted THEN @ \cup {c} ELSE @]
      /\ Acknowledge(n, c, IF vote.accepted THEN "accept" ELSE "reject")
      /\ UNCHANGED <<seen, proof, result, lost, restarts>>

\* "submit_popw" of a mission the node has not seen: judge, record, acknowledge,
\* and start to tell the peers.
Judge(n, c) ==
  LET vote == [by |-> n, accepted |-> Validates(n, proof[c])]
  IN  /\ c \in inbox[n]
      /\ Mission(c) \notin seen[n]
      /\ inbox' = [inbox EXCEPT ![n] = @ \ {c}]
      /\ seen' = [seen EXCEPT ![n] = @ \cup {Mission(c)}]
      /\ votes' = Recorded(n, Mission(c), vote)
      /\ telling' = telling \cup [from: {n}, to: Peers[n], mission: {Mission(c)},
                                  vote: {vote}]
      /\ accepted' = [accepted EXCEPT ![n] = IF vote.accepted THEN @ \cup {c} ELSE @]
      /\ Acknowledge(n, c, IF vote.accepted THEN "accept" ELSE "reject")
      /\ UNCHANGED <<proof, result, lost, restarts>>

\* "submit_popw" of a mission it has seen: a vote_ack that accepts nothing.
Duplicate(n, c) ==
  /\ c \in inbox[n]
  /\ Mission(c) \in seen[n]
  /\ inbox' = [inbox EXCEPT ![n] = @ \ {c}]
  /\ Acknowledge(n, c, "duplicate")
  /\ UNCHANGED <<seen, votes, telling, proof, result, accepted, lost, restarts>>

\* Faulty variant: a peer passes the vote on to its own peers.
TellOn(t) ==
  /\ t \in telling
  /\ telling' = (telling \ {t}) \cup [from: {t.to}, to: Peers[t.to],
                                      mission: {t.mission}, vote: {t.vote}]
  /\ votes' = Recorded(t.to, t.mission, t.vote)
  /\ UNCHANGED <<seen, inbox, proof, reply, result, accepted, lost, restarts>>

\* A vote reaches a peer, which appends it whatever it holds already.
Tell(t) ==
  /\ t \in telling
  /\ telling' = telling \ {t}
  /\ votes' = Recorded(t.to, t.mission, t.vote)
  /\ UNCHANGED <<seen, inbox, proof, reply, result, accepted, lost, restarts>>

\* The peer could not be reached: a warning, and no second attempt.
LoseVote(t) ==
  /\ "vote" \in Faults
  /\ t \in telling
  /\ telling' = telling \ {t}
  /\ lost' = TRUE
  /\ UNCHANGED <<seen, votes, inbox, proof, reply, result, accepted, restarts>>

\* asyncio.wait_for or the connection fails; the node may still get the request.
Timeout(c, n) ==
  /\ "call" \in Faults
  /\ proof[c] # NotStarted
  /\ reply[c][n] = "wait"
  /\ reply' = [reply EXCEPT ![c][n] = "none"]
  /\ UNCHANGED <<seen, votes, telling, inbox, proof, result, accepted, lost, restarts>>

\* asyncio.gather has everything.
Decide(c) ==
  /\ proof[c] # NotStarted
  /\ result[c] = "open"
  /\ \A n \in Nodes : reply[c][n] # "wait"
  /\ result' = [result EXCEPT ![c] = IF Consensus(c) THEN "agreed" ELSE "failed"]
  /\ UNCHANGED <<seen, votes, telling, inbox, proof, reply, accepted, lost, restarts>>

\* A node stops and starts again: its memory and its connections are gone.
Restart(n) ==
  /\ restarts < MaxRestarts
  /\ seen' = [seen EXCEPT ![n] = {}]
  /\ votes' = [votes EXCEPT ![n] = NoVotes]
  /\ telling' = {t \in telling : t.from # n}
  /\ inbox' = [inbox EXCEPT ![n] = {}]
  /\ reply' = [c \in Calls |-> IF c \in inbox[n] /\ reply[c][n] = "wait"
                               THEN [reply[c] EXCEPT ![n] = "none"] ELSE reply[c]]
  /\ restarts' = restarts + 1
  /\ UNCHANGED <<proof, result, accepted, lost>>

Handle(n, c) == Judge(n, c) \/ Duplicate(n, c)

Next ==
  \/ \E c \in Calls, p \in Proofs : Submit(c, p)
  \/ \E n \in Nodes, c \in Calls :
       Handle(n, c) \/ LoseRequest(n, c) \/ Timeout(c, n)
  \/ \E t \in telling : Tell(t) \/ LoseVote(t)
  \/ \E c \in Calls : Decide(c)
  \/ \E n \in Nodes : Restart(n)

Spec == Init /\ [][Next]_vars

-----------------------------------------------------------------------------
(* Properties *)

TypeOK ==
  /\ seen \in [Nodes -> SUBSET Missions]
  /\ votes \in [Nodes -> [Missions -> [Vote -> Nat]]]
  /\ telling \subseteq [from: Nodes, to: Nodes, mission: Missions, vote: Vote]
  /\ \A t \in telling : t.to \in Peers[t.from] /\ t.vote.by = t.from
  /\ inbox \in [Nodes -> SUBSET Calls]
  /\ proof \in [Calls -> Proofs \cup {NotStarted}]
  /\ reply \in [Calls -> [Nodes -> Reply]]
  /\ result \in [Calls -> {"open", "agreed", "failed"}]
  /\ accepted \in [Nodes -> SUBSET Calls]
  /\ lost \in BOOLEAN
  /\ restarts \in Nat

\* A call that reports consensus has had its own PoPW accepted by 67% of all the
\* validators, those that did not answer included (validator_network.py:97-115).
AgreedBySupermajority ==
  \A c \in Calls : result[c] = "agreed" =>
    Supermajority(Cardinality({n \in Nodes : c \in accepted[n]}), Cardinality(Nodes))

\* However often a mission is submitted, and with whatever PoPW, at most one call
\* reports consensus on it: _seen_missions (validator_node.py:114-120) lets a node
\* accept one of them.
AgreedOnce ==
  \A c, d \in Calls :
    result[c] = "agreed" /\ result[d] = "agreed" /\ Mission(c) = Mission(d) => c = d

\* With every vote delivered and no restart, a node's peers hold its votes just as
\* often as it holds them itself, and get_result counts the same wherever it is
\* asked (validator_node.py:91-101, 119-148).
PeersInformed ==
  telling = {} /\ ~lost /\ restarts = 0 =>
    \A n \in Nodes, m \in Missions, a \in BOOLEAN : \A p \in Peers[n] :
      LET vote == [by |-> n, accepted |-> a] IN votes[p][m][vote] = votes[n][m][vote]

\* "Submits PoPW to all validator nodes in the network, collects their votes, and
\* computes final consensus": with a response from every node, a mission is only
\* reported as failed when fewer than 67% of the nodes hold an accepting vote on it.
FailedMeansRejected ==
  \A c \in Calls : result[c] = "failed" /\ Responses(c) = Cardinality(Nodes) =>
    ~ Supermajority(
        Cardinality({n \in Nodes :
                       \E d \in accepted[n] : Mission(d) = Mission(c)}),
        Cardinality(Nodes))
=============================================================================
