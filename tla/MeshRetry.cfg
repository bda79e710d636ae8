SPECIFICATION Spec
CONSTANTS
  n1 = n1  n2 = n2  n3 = n3  m1 = m1
  Nodes = {n1, n2, n3}
  Peers <- NoPeers
  Calls = {c1, c2}
  Proofs <- OneProof
  MinScore <- SameScore
  Faults = {"call"}
  MaxRestarts = 0
  NotStarted = NotStarted
SYMMETRY Symmetry
INVARIANT FailedMeansRejected
CHECK_DEADLOCK FALSE
