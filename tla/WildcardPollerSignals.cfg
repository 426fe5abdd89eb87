SPECIFICATION FairSpec
CONSTANTS
  N = 1
  Dirs <- MCOneDir
  ServicesOf <- MCServicesOf
  Certs <- MCOneCert
  NotBefore <- MCNotBeforeOne
  NotAfter <- MCNotAfterOne
  ETagging <- MCNone
  Publishing <- MCNone
  Rotating <- MCAll
  Events = {"sighup", "shutdown"}
  MaxClock = 0
  MaxUnanswered = 1
  HasFallback = TRUE
  NoDir = NoDir
  NoCert = NoCert
  Unusable = Unusable
  NoDocument = NoDocument
  Nobody = Nobody
  dirA = dirA
  dirB = dirB
  wiki = wiki
  photos = photos
  certOld = certOld
  certNew = certNew
INVARIANTS TypeOK InSync NoLostHup
PROPERTIES Converges HupAnswered Quiesces
CHECK_DEADLOCK FALSE
