SPECIFICATION Spec
CONSTANTS
  n1 = n1  n2 = n2  n3 = n3  m1 = m1
  Nodes = {n1, n2}
  Peers <- AllPeers
  Calls = {c1, c2}
  Proofs <- TwoProofs
  MinScore <- OneStrict
  Faults = {"call", "vote"}
  MaxRestarts = 1
  NotStarted = NotStarted
SYMMETRY Symmetry
INVARIANTS TypeOK AgreedBySupermajority AgreedOnce PeersInformed
CHECK_DEADLOCK FALSE
