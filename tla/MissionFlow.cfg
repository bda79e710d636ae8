\* Two threads in one handler, two missions, every mission sent again and again.
SPECIFICATION Spec
CONSTANTS
  Threads = {t1, t2}
  Missions = {m1, m2}
  Callers = {t1, t2}
  Writers = {t1, t2}
  Savers = {t1, t2}
  Entries = {m1, m2}
  Saved = {m1, m2}
  Scores <- MCScores
  MaxCommands = 1
  Window = 1
  Keep = 1
  Horizon = 1
  MaxRestarts = 1
  MaxAdmitted = 3
SYMMETRY Symmetry
INVARIANTS
  TypeOK
  QueuedOnce
  RateLimited
  RootCountsEntries
  TierRegistered
  HistoryOrdered
CHECK_DEADLOCK FALSE
