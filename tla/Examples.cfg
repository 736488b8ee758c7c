\* Both programs return or stop, and then nothing but the clock goes on.
SPECIFICATION Spec
CONSTANTS
  Keys <- MCKeys
  Thumbprint <- MCThumbprint
  DemoKey <- MCKey
  Objects = {}
  Contents <- MCContents
  Requests = {}
  Signers = {}
  TicksPerSecond = 2
  Times <- MCTimes
INVARIANTS TypeOK FailsOnlyByChanceOrTime PrintedTokensVerify
CHECK_DEADLOCK FALSE
