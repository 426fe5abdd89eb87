SPECIFICATION FairSpec
CONSTANTS
  N = 2
  IdOf <- MCIds
  Dirs <- MCTwoDirs
  PrefixOf <- MCPrefixOf
  NamesOf <- MCNamesOf
  ETagging <- MCBothTag
  Events = {"reject"}
  MaxUnanswered = 1
  NoDir = NoDir
  Refused = Refused
  NoDocument = NoDocument
  Nobody = Nobody
  NoCommunity = NoCommunity
  dirA = dirA
  dirB = dirB
  dirC = dirC
  dirD = dirD
PROPERTIES FailedApplyRetried
