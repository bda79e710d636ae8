------------------------------ MODULE ScoreRoot -------------------------------
(***************************************************************************)
(* validator/scoreroot.py: the list of scored missions, its root hash and  *)
(* the commitments made of it.  A root stands for the entries it was       *)
(* computed from: hashes are taken to be free of collisions, and mission   *)
(* ids to differ.  commit() computes the root and reads the number of      *)
(* entries afterwards, so an entry added in between is counted and not     *)
(* covered.                                                                *)
(***************************************************************************)
EXTENDS Integers, Sequences, Functions

CONSTANTS
  Writers,  \* threads that add and commit scores
  Entries   \* what is scored

VARIABLES
  scores,      \* the entries, in order
  root,        \* the root each thread has computed for its commitment
  commitments  \* [root, count], in order

scoreRootVars == <<scores, root, commitments>>

ScoreRootTypeOK ==
  /\ scores \in Seq(Entries)
  /\ root \in [Writers -> Seq(Entries)]
  /\ commitments \in Seq([root : Seq(Entries), count : Nat])

ScoreRootInit ==
  /\ scores = << >>
  /\ root = [t \in Writers |-> << >>]
  /\ commitments = << >>

AddScore(e) ==
  /\ scores' = Append(scores, e)
  /\ UNCHANGED <<root, commitments>>

\* Faulty variant: the odd leaf at the end is left out instead of doubled.
ComputeRootEven(t) ==
  /\ root' = [root EXCEPT ![t] = SubSeq(scores, 1, Len(scores) - (Len(scores) % 2))]
  /\ UNCHANGED <<scores, commitments>>

ComputeRoot(t) ==
  /\ root' = [root EXCEPT ![t] = scores]
  /\ UNCHANGED <<scores, commitments>>

Commit(t) ==
  /\ commitments' = Append(commitments, [root |-> root[t], count |-> Len(scores)])
  /\ root' = [root EXCEPT ![t] = << >>]
  /\ UNCHANGED scores

\* verify_score: found in the list, and something was committed.
Verified(e) ==
  /\ e \in Range(scores)
  /\ commitments # << >>

\* The entry really is under the root that verify_score shows.
Covered(e) == e \in Range(commitments[Len(commitments)].root)
=============================================================================
