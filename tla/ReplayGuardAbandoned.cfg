SPECIFICATION HandlerSpec
CONSTANTS
  Guards = {g1, g2}
  Threads = {t1, t2}
  Missions = {m1}
  Created = {0}
  MaxAge = 1
  Skew = 0
  CallTime = 1
  SlowCommit = FALSE
  Horizon = 1
  Nobody = Nobody
INVARIANT NoAbandonedTransaction
