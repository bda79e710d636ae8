SPECIFICATION FairSpec
CONSTANTS
  Guards = {g1, g2}
  Threads = {t1, t2}
  Missions = {m1}
  Created = {0, 1}
  MaxAge = 1
  Skew = 1
  CallTime = 1
  SlowCommit = TRUE
  Horizon = 2
  Nobody = Nobody
INVARIANTS TypeOK SpacedAcceptances ReplayOnlyIfYoung
PROPERTY LockReleased
