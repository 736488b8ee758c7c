SPECIFICATION Spec
CONSTANTS
  Base = 4
  IntBytes = 2
  CoordinateSize <- MCCoordinateSize
  Points <- MCPoints
  RSAKeys <- MCRSAKeys
  OtherParams <- MCOtherParams
  GivenKids = {"k1"}
  NotBase64 = NotBase64
INVARIANTS OwnKeyComesBack ShortFormsAreRead NeverAnotherKey ThumbprintNamesTheKey
