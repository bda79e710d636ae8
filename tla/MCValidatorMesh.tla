--------------------------- MODULE MCValidatorMesh ---------------------------
(***************************************************************************)
(* ValidatorMesh on small instances.                                       *)
(***************************************************************************)
EXTENDS ValidatorMesh, TLC

CONSTANTS n1, n2, n3, m1

\* One mission with a proof every node accepts.
OneProof == {[mission |-> m1, complete |-> TRUE, score |-> 2]}

\* And the same mission with a proof only the less demanding nodes accept.
TwoProofs == OneProof \cup {[mission |-> m1, complete |-> TRUE, score |-> 1]}

SameScore == [n \in Nodes |-> 2]
OneStrict == [n \in Nodes |-> IF n = n1 THEN 2 ELSE 1]

NoPeers == [n \in Nodes |-> {}]
AllPeers == [n \in Nodes |-> Nodes \ {n}]

Symmetry == Permutations(Calls)
=============================================================================
