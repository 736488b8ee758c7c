----------------------------- MODULE JWKEncoding -----------------------------
(***************************************************************************)
(* The parameters of a JWK, byte by byte: how publicJWK (keys.go) writes a *)
(* public key, and how JWK.publicKey (verify.go) reads one, whoever wrote  *)
(* it.  SigningKeys takes the parameters for the key they stand for; this  *)
(* module checks that they do.                                             *)
(*                                                                         *)
(* A non-negative integer, as a Go key holds it, stands for itself as the  *)
(* bytes big.Int.Bytes gives of it: most significant first, no leading     *)
(* zeros, none at all for zero.  base64url is a bijection on byte          *)
(* sequences and left out, but for text it refuses.  An RSA key is         *)
(* [kty, n, e], an EC key [kty, crv, x, y], all of them integers; a JWK is *)
(* [params, kid], where params has the shape of a key but holds whatever   *)
(* bytes were written.                                                     *)
(***************************************************************************)
EXTENDS Errors, Integers

CONSTANTS
  Base,            \* how many values a byte has: 256
  IntBytes,        \* bytes of a Go int: 8
  CoordinateSize,  \* bytes of a coordinate, by the name of its curve
  Points,          \* the points <<x, y>> of each curve
  RSAKeys,         \* RSA public keys of any library
  OtherParams,     \* parameters of a kty or a curve the library does not know
  GivenKids,       \* what WithKeyID may set
  NotBase64        \* a member that is no base64url text

ASSUME BytesAssumption ==
  Base \in Nat /\ Base > 1 /\ IntBytes \in Nat \ {0}

Bytes == Seq(0..(Base - 1))

Zeros(n) == [i \in 1..n |-> 0]

\* No leading zero.
Minimal(b) == Len(b) > 0 => b[1] # 0

\* Is it a value of Go's int, which is signed?
FitsInt(b) == /\ Len(b) <= IntBytes
              /\ Len(b) = IntBytes => b[1] < Base \div 2

Curves == DOMAIN CoordinateSize

ASSUME CurvesAssumption ==
  /\ \A crv \in Curves : CoordinateSize[crv] \in Nat \ {0}
  /\ \A crv \in Curves : \A p \in Points[crv] :
       /\ p \in Bytes \X Bytes /\ Minimal(p[1]) /\ Minimal(p[2])
       /\ Len(p[1]) <= CoordinateSize[crv] /\ Len(p[2]) <= CoordinateSize[crv]

ASSUME RSAKeysAssumption ==
  \A k \in RSAKeys : /\ k = [kty |-> "RSA", n |-> k.n, e |-> k.e]
                     /\ k.n \in Bytes /\ Minimal(k.n)
                     /\ k.e \in Bytes /\ Minimal(k.e)

ASSUME OtherParamsAssumption ==
  \A o \in OtherParams :
    /\ o.kty # "RSA"
    /\ o.kty = "EC" => o = [kty |-> "EC", crv |-> o.crv, x |-> o.x, y |-> o.y]
    /\ o.kty = "EC" => o.crv \notin Curves

ASSUME NotBase64Assumption == NotBase64 \notin Bytes

ECKey(crv, x, y) == [kty |-> "EC", crv |-> crv, x |-> x, y |-> y]
RSAKey(n, e)     == [kty |-> "RSA", n |-> n, e |-> e]

ECKeys == UNION {{ECKey(crv, p[1], p[2]) : p \in Points[crv]} : crv \in Curves}

\* The keys a Signer may hold: rsa.PublicKey.E is an int.
SignerKeys == ECKeys \union {k \in RSAKeys : FitsInt(k.e)}

-----------------------------------------------------------------------------
(* publicJWK.                                                              *)

\* big.Int.FillBytes: the integer's bytes behind as many zeros as it takes.
FillBytes(b, size) == Zeros(size - Len(b)) \o b

\* crypto/ecdsa's PublicKey.Bytes: the uncompressed point.
PointBytes(key) ==
  LET size == CoordinateSize[key.crv]
  IN  <<4>> \o (FillBytes(key.x, size) \o FillBytes(key.y, size))

\* Deviation: y begins one byte early.
Coordinates_OffByOne(raw, size) ==
  [x |-> SubSeq(raw, 2, 1 + size), y |-> SubSeq(raw, 1 + size, 2 * size)]

\* raw[1 : 1+size] and raw[1+size : 1+2*size].
Coordinates(raw, size) ==
  [x |-> SubSeq(raw, 2, 1 + size), y |-> SubSeq(raw, 2 + size, 1 + 2 * size)]

\* A kid is a configured name or a thumbprint, which hashes what it names.
NoKid == [print |-> <<>>]

\* Deviation: the thumbprint of an EC key leaves out y.
Thumbprint_OneCoordinate(p) ==
  [print |-> IF p.kty = "RSA" THEN <<"RSA", p.e, p.n>> ELSE <<"EC", p.crv, p.x>>]

\* rsaThumbprint, ecThumbprint: the required members only, as they are written.
Thumbprint(p) ==
  [print |-> IF p.kty = "RSA" THEN <<"RSA", p.e, p.n>> ELSE <<"EC", p.crv, p.x, p.y>>]

\* curveParams, PublicKey.Bytes, and the check of its length and first byte.
WriteError(key) ==
  CASE key.kty = "RSA" -> NoError
    [] key.kty = "EC"  -> When(\/ key.crv \notin Curves
                               \/ <<key.x, key.y>> \notin Points[key.crv]
                               \/ Len(PointBytes(key)) # 1 + 2 * CoordinateSize[key.crv]
                               \/ PointBytes(key)[1] # 4, "ErrInvalidKey")
    [] OTHER           -> "ErrInvalidKey"

Params(key) ==
  IF key.kty = "RSA" THEN RSAKey(key.n, key.e)
  ELSE LET at == Coordinates(PointBytes(key), CoordinateSize[key.crv])
       IN  ECKey(key.crv, at.x, at.y)

\* The JWK of a key that has no WriteError.
publicJWK(key, kid) ==
  [params |-> Params(key), kid |-> IF kid = NoKid THEN Thumbprint(Params(key)) ELSE kid]

-----------------------------------------------------------------------------
(* JWK.publicKey.                                                          *)

\* big.Int.SetBytes: the integer that any bytes denote.
SetBytes(b) ==
  LET first == CHOOSE i \in 1..(Len(b) + 1) :
                 /\ \A j \in 1..(i - 1) : b[j] = 0
                 /\ i <= Len(b) => b[i] # 0
  IN  SubSeq(b, first, Len(b))

\* Deviation: the zeros that are missing are added behind the number.
leftPad_Behind(b, size) ==
  IF Len(b) >= size THEN b ELSE b \o Zeros(size - Len(b))

leftPad(b, size) == IF Len(b) >= size THEN b ELSE Zeros(size - Len(b)) \o b

\* Go's copy(dst[at:], src): as many bytes as there are and as fit.
Copied(dst, at, src) ==
  [i \in DOMAIN dst |-> IF i > at /\ i - at <= Len(src) THEN src[i - at] ELSE dst[i]]

\* An x that is too long runs into y's place, and y is copied over it.
ecUncompressedPoint(crv, x, y) ==
  LET size == CoordinateSize[crv]
      enc  == <<4>> \o Zeros(2 * size)
  IN  Copied(Copied(enc, 1, leftPad(x, size)), 1 + size, leftPad(y, size))

Failed(err)   == [err |-> err, key |-> [kty |-> "none"]]
Decoded(key)  == [err |-> NoError, key |-> key]

\* ecdsa.ParseUncompressedPublicKey: the point must be on the curve.
ParsePoint(crv, enc) ==
  LET size == CoordinateSize[crv]
      x    == SetBytes(SubSeq(enc, 2, 1 + size))
      y    == SetBytes(SubSeq(enc, 2 + size, 1 + 2 * size))
  IN  IF enc[1] = 4 /\ Len(enc) = 1 + 2 * size /\ <<x, y>> \in Points[crv]
      THEN Decoded(ECKey(crv, x, y)) ELSE Failed("ErrInvalidKey")

\* int(z.Int64()): the low IntBytes bytes, as a signed number.
Negative == <<-1>>
Int64(b) ==
  LET low == IF Len(b) <= IntBytes THEN b ELSE SubSeq(b, Len(b) - IntBytes + 1, Len(b))
  IN  IF FitsInt(low) THEN SetBytes(low) ELSE Negative

\* Deviation: the public key is made of the coordinates, on the curve or not.
publicKey_Unchecked(p) ==
  CASE p.kty = "RSA" ->
         IF NotBase64 \in {p.n, p.e} THEN Failed("ErrInvalidKey")
         ELSE Decoded(RSAKey(SetBytes(p.n), Int64(SetBytes(p.e))))
    [] p.kty = "EC" ->
         IF p.crv \notin Curves \/ NotBase64 \in {p.x, p.y} THEN Failed("ErrInvalidKey")
         ELSE Decoded(ECKey(p.crv, SetBytes(p.x), SetBytes(p.y)))
    [] OTHER -> Failed("ErrInvalidKey")

\* Unknown kty and curve, undecodable members, points off the curve: ErrInvalidKey.
publicKey(p) ==
  CASE p.kty = "RSA" ->
         IF NotBase64 \in {p.n, p.e} THEN Failed("ErrInvalidKey")
         ELSE Decoded(RSAKey(SetBytes(p.n), Int64(SetBytes(p.e))))
    [] p.kty = "EC" ->
         IF p.crv \notin Curves \/ NotBase64 \in {p.x, p.y} THEN Failed("ErrInvalidKey")
         ELSE ParsePoint(p.crv, ecUncompressedPoint(p.crv, p.x, p.y))
    [] OTHER -> Failed("ErrInvalidKey")

-----------------------------------------------------------------------------
(* How other libraries write a parameter: as the RFC has it, without the   *)
(* leading zeros, with a sign byte in front (the two's complement form of  *)
(* many big-integer libraries), in another base64, or not at all.          *)

Styles == {"fixed", "stripped", "signed", "text", "missing"}

\* Would the number's first bit be taken for a sign?  Zero has one byte too.
NeedsSignByte(b) == Len(b) > 0 => b[1] >= Base \div 2

Write(style, b, size) ==
  CASE style = "fixed"    -> FillBytes(b, size)
    [] style = "stripped" -> b
    [] style = "signed"   -> IF NeedsSignByte(b) THEN <<0>> \o b ELSE b
    [] style = "text"     -> NotBase64
    [] style = "missing"  -> <<>>

\* The two parameters of a key may be written in two styles.
WriteKey(key, styles) ==
  IF key.kty = "RSA"
  THEN RSAKey(Write(styles[1], key.n, Len(key.n)), Write(styles[2], key.e, Len(key.e)))
  ELSE ECKey(key.crv, Write(styles[1], key.x, CoordinateSize[key.crv]),
                      Write(styles[2], key.y, CoordinateSize[key.crv]))

(* crypto/rsa takes no modulus of zero and no exponent below two.          *)
Usable(key) ==
  key.kty = "RSA" => key.n # <<>> /\ key.e \notin {<<>>, <<1>>, Negative}

-----------------------------------------------------------------------------
VARIABLES
  jwk,       \* the JWK that is published now, and whose key it is
  earlier,   \* the one the same service published before its key was replaced
  decoded    \* what publicKey made of jwk last

vars == <<jwk, earlier, decoded>>

Nothing == [by |-> "nobody"]

Init ==
  /\ jwk = Nothing
  /\ earlier = Nothing
  /\ decoded = Nothing

\* A Signer is built and its JWK published, in the place of the last one.
Publish ==
  /\ \E key \in SignerKeys, kid \in {NoKid} \union {[given |-> g] : g \in GivenKids} :
       /\ WriteError(key) = NoError
       /\ jwk' = [by |-> "signer", key |-> key,
                  jwk |-> publicJWK(key, kid), given |-> kid # NoKid]
  /\ earlier' = IF jwk.by = "signer" THEN jwk ELSE earlier
  /\ decoded' = Nothing

\* Another service publishes a key of its own, in its library's style.
PublishElsewhere ==
  /\ \E key \in ECKeys \union RSAKeys, styles \in Styles \X Styles :
       jwk' = [by |-> "other", key |-> key, styles |-> styles,
               jwk |-> [params |-> WriteKey(key, styles), kid |-> NoKid]]
  /\ decoded' = Nothing
  /\ UNCHANGED earlier

\* A kty or a curve this library does not know.
PublishUnknown ==
  /\ \E params \in OtherParams :
       jwk' = [by |-> "unknown", jwk |-> [params |-> params, kid |-> NoKid]]
  /\ decoded' = Nothing
  /\ UNCHANGED earlier

\* A Verifier meets a token under the kid of jwk.
Decode ==
  /\ jwk # Nothing
  /\ decoded' = publicKey(jwk.jwk.params)
  /\ UNCHANGED <<jwk, earlier>>

Next == Publish \/ PublishElsewhere \/ PublishUnknown \/ Decode

Spec == Init /\ [][Next]_vars

-----------------------------------------------------------------------------
(* Properties.                                                             *)

Read    == decoded # Nothing
Good    == Read /\ decoded.err = NoError

(* A Signer writes both coordinates at the length RFC 7518 asks for, zeros *)
(* in front included, and reads back the very key it signs with: writing   *)
(* puts the point together and slices it, reading pads, puts together and  *)
(* parses (publicJWK, publicKey).                                          *)
OwnKeyComesBack ==
  jwk.by = "signer" =>
    /\ jwk.key.kty = "EC" =>
         \A b \in {jwk.jwk.params.x, jwk.jwk.params.y} :
           Len(b) = CoordinateSize[jwk.key.crv]
    /\ Read => decoded = Decoded(jwk.key)

(* A key that another library wrote in base64url with all its bytes, or    *)
(* without the leading zeros, is read as that key (leftPad, SetBytes).     *)
ShortFormsAreRead ==
  Read /\ jwk.by = "other" /\ (\A i \in {1, 2} : jwk.styles[i] \in {"fixed", "stripped"})
       /\ (jwk.key.kty = "RSA" => FitsInt(jwk.key.e))
  => decoded = Decoded(jwk.key)

\* What is left of a coordinate: nothing when it was not written, and not its
\* last byte when a sign byte makes it one byte too long.
Left(b, style, size) ==
  IF style = "missing" THEN <<>>
  ELSE IF style = "signed" /\ Len(b) = size /\ NeedsSignByte(b)
  THEN SubSeq(b, 1, size - 1) ELSE b

(* However another library wrote a key, publicKey makes no other key of    *)
(* it.  An RSA key is that key, unless crypto/rsa will not use it or its   *)
(* exponent is wider than Go's int.  An EC key is on the key's own curve,  *)
(* and is that key, unless a coordinate is missing or its sign byte makes  *)
(* it too long: then the code leaves it to the curve whether what is left  *)
(* is a point (ecUncompressedPoint, ParsePoint).  A kty or a curve that is *)
(* not known makes no key.                                                 *)
NeverAnotherKey ==
  Good =>
    /\ jwk.by # "unknown"
    /\ jwk.by = "other" /\ jwk.key.kty = "RSA" =>
         (Usable(decoded.key) /\ FitsInt(jwk.key.e) => decoded.key = jwk.key)
    /\ jwk.by = "other" /\ jwk.key.kty = "EC" =>
         LET size == CoordinateSize[jwk.key.crv]
         IN  /\ decoded.key = ECKey(jwk.key.crv, Left(jwk.key.x, jwk.styles[1], size),
                                                 Left(jwk.key.y, jwk.styles[2], size))
             /\ decoded.key \in ECKeys

(* A thumbprint kid names one key and a key has one: replacing a Signer's  *)
(* key changes the kid, rebuilding it on the same key does not (RFC 7638;  *)
(* publicJWK, rsaThumbprint, ecThumbprint).                                *)
ThumbprintNamesTheKey ==
  jwk.by = "signer" /\ earlier # Nothing /\ ~ jwk.given /\ ~ earlier.given =>
    (jwk.jwk.kid = earlier.jwk.kid <=> jwk.key = earlier.key)
=============================================================================
