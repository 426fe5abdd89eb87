SPECIFICATION FairSpec
CONSTANTS
  MaxPairs = 4
  Absent = Absent
  Events = {"crash", "writeError", "expire", "delete"}
INVARIANTS TypeOK MatchesUnlessLost
PROPERTIES GoodPairKept EnsuredUnexpired Serves
