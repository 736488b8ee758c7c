SPECIFICATION Spec
CONSTANTS
  Keys <- MCKeys
  Thumbprint <- MCThumbprint
  Calls = {c1, c2}
  Objects <- SharedObjects
  Contents <- SharedContents
  Requests <- SharedRequests
  Signers <- SharedSigners
  TicksPerSecond = 2
  MaxTime = 2
PROPERTY CallsAreAtomic
