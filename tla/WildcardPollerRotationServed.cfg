SPECIFICATION FairSpec
CONSTANTS
  N = 1
  Dirs <- MCOneDir
  ServicesOf <- MCServicesOf
  Certs <- MCTwoCerts
  NotBefore <- MCNotBefore
  NotAfter <- MCNotAfter
  ETagging <- MCNone
  Publishing <- MCNone
  Rotating <- MCAll
  Events = {}
  MaxClock = 1
  MaxUnanswered = 1
  HasFallback = TRUE
  NoDir = NoDir
  NoCert = NoCert
  Unusable = Unusable
  NoDocument = NoDocument
  Nobody = Nobody
  dirA = dirA
  dirB = dirB
  wiki = wiki
  photos = photos
  certOld = certOld
  certNew = certNew
PROPERTIES RotationServed
