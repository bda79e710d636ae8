SPECIFICATION Spec
CONSTANTS
  Wallets = {w1}
  Clients = {c1, c2}
  Amounts <- MCAmounts
  MaxEntries = 3
  NoOne = NoOne
  Operators = {o1}
  MaxStarts = 2
  MaxFrames = 2
  Scenes <- MCScenes
  Refreshers = {main, loop, q1}
  Main = main
  Scores = {40, 90}
  Keep = 1
  Window = 2
  MaxFlights = 3
  Flyers = {f1, f2}
  Panels = {p1}
  MaxLinks = 2
  MaxPolls = 1
  Places = {0, 1}
  Batteries = {20, 100}
  Alarms = {"FIRE", "MEDICAL_EMERGENCY"}
  Works = {"organ_delivery", "urban_delivery"}
  Sites = {0, 5}
  MaxEmergencies = 2
  MaxClock = 1
  MaxChecks = 1
  Charges = {3, 20}
  Signals = {5, 80}
  MaxWills = 1
  Prime = 7
  Threshold = 2
  Shares = 3
  Outsider = 4
  CoordinatorMin = 4
  VerifierMin = 1
  MaxAnswers = 3
  Fleet = 2
  Spots = {0, 30, 90}
  Levels = {50, 60}
  MaxSteps = 2
  MaxPlans = 2
  Missions = {m1, m2}
  Tracks = {t1}
  Marks = {50, 60}
  MaxObjects = 2
  MaxRecords = 2
  MaxRuns = 2
  Strides <- MCStrides
  Altitudes = {10, 50}
  Delays <- MCDelays
  MaxPositions = 5
  MaxLanded = 1
  Baseline = 1
  OldScores = {100}
  Nonces = {n1}
  CacheTime = 3
  MaxAge = 1
  MaxTime = 5
  ClientIds = {root, k1}
  Root = root
  OldRoles = {"operator"}
  Threads = {h1, h2}
  Writers = {h1, h2}
  Entries = {1, 2}
  MaxHooks = 1
  Senders = {h1, h2}
  Tenants = {root, k1}
  NewRoles = {"operator", "pilot"}
  FlightScores = {96}
  MaxCalls = 2
  MaxMissions = 2
  MaxRestarts = 1
  Pilots = {p1, p2}
  Heights = {5}
  Results = {60, 80, 95}
  OldWeights <- MCOldWeights
  MaxLessons = 2
  Trainers = {b1, b2, b3}
  MinTrainers = 2
  Flights <- MCFlights
  MaxRounds = 2
  Points = {69, 84, 85}
  MaxLogged = 3
  MaxEdits = 2
  Multipliers = {5, 20}
  Breaches = {0, 12}
  MaxBonus = 400
  MaxRewards = 3
INVARIANTS
  TypeOK SummaryAdds  
  ResolvedAsAnswered SharesAgree TwoSeparate  ChecksAgree
  ClientsServed RootCoversMission LearnedRight
PROPERTIES LedgerPromise FramesInOrder StopEnds
CHECK_DEADLOCK FALSE
