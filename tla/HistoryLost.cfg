\* Two threads append at once; no restart, and room for every mission.
SPECIFICATION Spec
CONSTANTS
  Threads = {t1, t2}
  Missions = {m1, m2}
  Callers = {t1, t2}
  Writers = {t1, t2}
  Savers = {t1, t2}
  Entries = {m1, m2}
  Saved = {m1, m2}
  Scores <- MCScores
  MaxCommands = 2
  Window = 1
  Keep = 2
  Horizon = 0
  MaxRestarts = 0
  MaxAdmitted = 2
SYMMETRY Symmetry
INVARIANT HistoryKept
CHECK_DEADLOCK FALSE
