SPECIFICATION FairSpec
CONSTANTS
  Communities = {c1, c2}
  Signals = {"HUP", "TERM"}
  MaxSignals = 5
INVARIANTS TypeOK NothingLeft ExitNeverLost
PROPERTIES Ends Starts
CHECK_DEADLOCK FALSE
