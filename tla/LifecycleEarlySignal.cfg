SPECIFICATION Spec
CONSTANTS
  Communities = {c1}
  Signals = {"TERM"}
  MaxSignals = 1
INVARIANTS SigtermStopsCaddy
CHECK_DEADLOCK FALSE
