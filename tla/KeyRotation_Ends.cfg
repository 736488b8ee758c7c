\* main returns, and nothing obliges anyone to run it again.
SPECIFICATION Spec
CONSTANTS
  Keys <- WeakKeys
  Thumbprint <- WeakThumbprint
  ServiceKid <- WeakServiceKid
  Objects = {}
  Contents <- MCContents
  Requests = {}
  Signers = {}
  TicksPerSecond = 1
  Grace = 3
  FetchTimeout = 1
  SignerTTL = 1
  MaxPause = 1
  MaxTime = 2
PROPERTY EveryRunEnds
CHECK_DEADLOCK FALSE
