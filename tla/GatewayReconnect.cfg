SPECIFICATION Spec
CONSTANTS
  d1 = d1  d2 = d2  d3 = d3  d4 = d4
  Ids = {d1, d2}
  Threads <- AllThreads
  Timeout = 1
  Nobody = Nobody
  Absent = Absent
  Sessions = {s1, s2}
  Home <- OnlyWebSocket
  Habits = {"reconnect"}
  NoId = NoId
  Closed = Closed
  Horizon = 0
SYMMETRY Symmetry
INVARIANT NotWedged
