SPECIFICATION Spec
CONSTANTS
  Drones = {d1, d2, d3}
  Tiers = {"ROOKIE"}
  Threshold = 5
  KeepDetector = TRUE
  MaxRounds = 5
SYMMETRY Symmetry
INVARIANT MajorityNotPunished
