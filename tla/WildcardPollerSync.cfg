SPECIFICATION SpecFirst
CONSTANTS
  N = 2
  Dirs <- MCDirs
  ServicesOf <- MCServicesOf
  Certs <- MCTwoCerts
  NotBefore <- MCNotBeforeSoon
  NotAfter <- MCNotAfterSoon
  ETagging <- MCFirst
  Publishing <- MCFirst
  Rotating <- MCSecond
  Events = {}
  MaxClock = 1
  MaxUnanswered = 1
  HasFallback = TRUE
  NoDir = NoDir
  NoCert = NoCert
  Unusable = Unusable
  NoDocument = NoDocument
  Nobody = Nobody
  dirA = dirA
  dirB = dirB
  wiki = wiki
  photos = photos
  certOld = certOld
  certNew = certNew
ACTION_CONSTRAINT RotateForward
INVARIANTS StatusAgreesWithCaddy DiagnosisAgrees RunningIsClosed ETagNamesDirectory
PROPERTIES ImplementsConfigSync
