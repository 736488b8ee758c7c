\* main returns, and nothing obliges anyone to run it again.
SPECIFICATION Spec
CONSTANTS
  Keys <- GoodKeys
  Thumbprint <- GoodThumbprint
  ServiceKid <- GoodServiceKid
  Objects = {}
  Contents <- MCContents
  Requests = {}
  Signers = {}
  TicksPerSecond = 1
  Grace = 3
  FetchTimeout = 1
  SignerTTL = 1
  MaxPause = 1
  MaxTime = 5
INVARIANTS TypeOK VerifiableUntilExpiry RotationTakesHold
CHECK_DEADLOCK FALSE
