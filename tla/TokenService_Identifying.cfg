SPECIFICATION Spec
CONSTANTS
  Keys <- MCKeys
  Thumbprint <- MCThumbprint
  Calls = {c1}
  Objects <- MCObjects
  Contents <- MCContents
  Requests <- MCRequests
  Signers <- MCSigners
  TicksPerSecond = 2
  MaxTime = 3
INVARIANTS IdentifyingClaimsOnEveryToken
