\* NewSigner returns once: the end of the call is not a deadlock.
SPECIFICATION Spec
CONSTANTS
  Keys <- MCKeys
  Thumbprint <- MCThumbprint
  Issuers <- MCIssuers
  Algs <- MCAlgs
  PEMs <- MCPEMs
  KeyIDs <- MCKeyIDs
  TTLs <- MCTTLs
  ClaimNames <- MCClaimNames
  Typs <- MCTyps
  FileContents <- MCFileContents
  Unreadable <- MCUnreadable
  MaxOptions = 4
INVARIANTS TypeOK SignerAsAsked JWKSVerifiesOwnTokens
CHECK_DEADLOCK FALSE
