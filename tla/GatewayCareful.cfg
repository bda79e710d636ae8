SPECIFICATION Spec
CONSTANTS
  d1 = d1  d2 = d2  d3 = d3  d4 = d4
  Ids = {d1, d2, d3, d4}
  Threads <- AllThreads
  Timeout = 2
  Nobody = Nobody
  Absent = Absent
  Sessions = {s1, s2}
  Home <- OneChannel
  Habits = {}
  NoId = NoId
  Closed = Closed
  Horizon = 3
SYMMETRY Symmetry
INVARIANTS TypeOK NotWedged ListedWhenAttached
