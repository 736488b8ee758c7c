SPECIFICATION Spec
CONSTANTS
  Keys <- MCKeys
  Thumbprint <- MCThumbprint
  Objects = {}
  Contents <- MCContents
  Requests <- MCRequests
  Signers <- MCSigners
  TicksPerSecond = 2
  JWKSets <- MCJWKSets
  Expectations <- MCExpectations
  Skews <- MCSkews
  MaxTime = 4
INVARIANTS VerifierOK AcceptedIsAuthenticAndTimely GoodForItsTTL
