SPECIFICATION Spec
CONSTANTS
  MaxPairs = 3
  Absent = Absent
  Events = {"crash", "delete"}
INVARIANTS EnsuredPairMatches
