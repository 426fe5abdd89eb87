SPECIFICATION SpecEmpty
CONSTANTS
  N = 2
  IdOf <- MCIds
  Dirs <- MCFourDirs
  PrefixOf <- MCPrefixOfFour
  NamesOf <- MCNamesOfFour
  ETagging <- MCFirstTags
  Events = {"publish", "reject", "lostReply", "joinTimeout", "sighup", "shutdown"}
  MaxUnanswered = 1
  NoDir = NoDir
  Refused = Refused
  NoDocument = NoDocument
  Nobody = Nobody
  NoCommunity = NoCommunity
  dirA = dirA
  dirB = dirB
  dirC = dirC
  dirD = dirD
ACTION_CONSTRAINT PublishesInTurn
INVARIANTS InSync HostsUnique AttributionCurrent NoLostHup
PROPERTIES ImplementsConfigSync
CHECK_DEADLOCK FALSE
