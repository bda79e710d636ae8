SPECIFICATION Spec
CONSTANTS
  Drones = {d1, d2, d3}
  Tiers = {"ROOKIE", "ACTIVE", "ELITE"}
  Threshold = 2
  KeepDetector = TRUE
  MaxRounds = 4
SYMMETRY Symmetry
INVARIANTS TypeOK SomeoneLeft 
