SPECIFICATION Spec
CONSTANTS
  Files <- MCFiles
  Dirs <- MCDirs
  SANs <- MCSANs
  Families = {4, 6}
  MaxApps = 2
INVARIANTS TypeOK AnswersLeadHome ServicesReachable ProbesFindTheirCommunity
  NeverWithoutDNS LeftoversExplained
CHECK_DEADLOCK FALSE
