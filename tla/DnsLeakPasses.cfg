SPECIFICATION FairSpec
CONSTANTS
  Communities = {smith}
  smith = smith
  NoLeak = NoLeak
  Events = {"change", "temporary", "failure"}
INVARIANTS TypeOK LeakIsCurrent LoggedIsCurrent LeakShown
PROPERTIES LeakSurfaces
