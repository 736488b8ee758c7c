----------------------------- MODULE SigningKeys -----------------------------
(***************************************************************************)
(* Keys, algorithms and JWKs (keys.go), and how NewSigner turns a          *)
(* configuration into a Signer (signer.go).  Pure operators, no state.     *)
(*                                                                         *)
(* A private key is a record [id, kty, bits]: id stands for the key        *)
(* material, kty for its Go type and bits for the modulus length or the    *)
(* curve.  A PEM text is a record [form, key]: form is the block type,     *)
(* "" for no bytes at all, "text" for bytes without a PEM block.           *)
(***************************************************************************)
EXTENDS Errors, Integers

CONSTANTS
  Keys,         \* the private keys that exist
  Thumbprint    \* the RFC 7638 thumbprint of every key's public half

RSAAlgorithms == {"RS256", "RS384", "RS512", "PS256", "PS384", "PS512"}
ECAlgorithms  == {"ES256", "ES384", "ES512"}
Algorithms    == RSAAlgorithms \union ECAlgorithms       \* a.supported()

\* The key of bytes no x509 parser understands, and of text that is no base64.
NoKey   == [id |-> "none", kty |-> "none", bits |-> 0]
Garbled == [id |-> "garbled", kty |-> "none", bits |-> 0]

ASSUME KeysAssumption ==
  /\ Keys \subseteq [id : STRING, kty : {"RSA", "EC", "OKP"}, bits : Nat]
  /\ NoKey \notin Keys
  /\ \A k, l \in Keys : k.id = l.id => k = l

\* SHA-256 over the canonical public members: no two keys share a thumbprint.
ASSUME ThumbprintAssumption ==
  /\ Thumbprint \in [Keys -> STRING \ {""}]
  /\ \A k, l \in Keys : Thumbprint[k] = Thumbprint[l] => k = l

-----------------------------------------------------------------------------
(* Parsing and checking a private key.                                     *)

\* The PEM block types parsePrivateKeyPEM knows, and the keys each may hold.
PEMBlocks == [block \in {"PRIVATE KEY", "RSA PRIVATE KEY", "EC PRIVATE KEY"} |->
                CASE block = "PRIVATE KEY"     -> {"RSA", "EC"}
                  [] block = "RSA PRIVATE KEY" -> {"RSA"}
                  [] block = "EC PRIVATE KEY"  -> {"EC"}]

ParseError(pem) ==
  When(~ (/\ pem.form \in DOMAIN PEMBlocks
          /\ pem.key.kty \in PEMBlocks[pem.form]), "ErrInvalidKey")

CheckKeyMatchesAlgorithm(key, alg) ==
  CASE key.kty = "RSA" -> When(alg \notin RSAAlgorithms, "ErrKeyAlgorithmMismatch")
    [] key.kty = "EC"  -> When(alg \notin ECAlgorithms, "ErrKeyAlgorithmMismatch")
    [] OTHER           -> "ErrInvalidKey"

minRSABits == 2048
ApprovedCurves == {256, 384, 521}

ValidateKeyStrength(key) ==
  CASE key.kty = "RSA" -> When(key.bits < minRSABits, "ErrWeakSigningKey")
    [] key.kty = "EC"  -> When(key.bits \notin ApprovedCurves, "ErrWeakSigningKey")
    [] OTHER           -> "ErrInvalidKey"

-----------------------------------------------------------------------------
(* JWKs.  pub stands for the encoded parameters (n and e, or crv, x and    *)
(* y): the key they belong to, NoKey when they decode to no usable key,    *)
(* Garbled when they do not decode.                                        *)

\* publicJWK: the kid is the given one, or the thumbprint of the key alone.
PublicJWK(key, alg, kid) ==
  [kty |-> key.kty, alg |-> alg, pub |-> key,
   kid |-> IF kid = "" THEN Thumbprint[key] ELSE kid]

(* JWK.publicKey: an unknown kty or curve, text that does not decode and   *)
(* coordinates off the curve are ErrInvalidKey.  An RSA key is returned    *)
(* whatever its modulus and exponent.                                      *)
PublicKeyError(jwk) ==
  When(~ (/\ jwk.kty \in {"RSA", "EC"}
          /\ jwk.pub # Garbled
          /\ jwk.kty = "EC" => jwk.pub.kty = "EC" /\ jwk.pub.bits \in ApprovedCurves),
       "ErrInvalidKey")

-----------------------------------------------------------------------------
(* NewSigner, after its options have run: cfg is the resulting config.     *)

SignerError(cfg) == FirstError(<<
  When(cfg.issuer = "",      "issuer is required"),
  When(cfg.keyPEM.form = "", "ErrNoSigningKey"),
  ParseError(cfg.keyPEM),
  When(cfg.algorithm \notin Algorithms, "ErrUnsupportedAlgorithm"),
  CheckKeyMatchesAlgorithm(cfg.keyPEM.key, cfg.algorithm),
  ValidateKeyStrength(cfg.keyPEM.key)>>)

\* The nil *Signer that comes with an error.
NoSigner == [issuer |-> "", keyID |-> ""]

\* Deviation: the kid of the header taken from the config, not from the JWK.
SignerWithConfiguredKid(cfg) ==
  LET jwk == PublicJWK(cfg.keyPEM.key, cfg.algorithm, cfg.keyID)
  IN  [key |-> cfg.keyPEM.key, algorithm |-> cfg.algorithm, keyID |-> cfg.keyID,
       issuer |-> cfg.issuer, defaultTTL |-> cfg.defaultTTL, clock |-> cfg.clock,
       jwk |-> jwk, tokenTypeClaim |-> cfg.tokenTypeClaim, headerTyp |-> cfg.headerTyp]

Signer(cfg) ==
  LET jwk == PublicJWK(cfg.keyPEM.key, cfg.algorithm, cfg.keyID)
  IN  [key            |-> cfg.keyPEM.key,
       algorithm      |-> cfg.algorithm,
       keyID          |-> jwk.kid,
       issuer         |-> cfg.issuer,
       defaultTTL     |-> cfg.defaultTTL,
       clock          |-> cfg.clock,
       jwk            |-> jwk,
       tokenTypeClaim |-> cfg.tokenTypeClaim,
       headerTyp      |-> cfg.headerTyp]

-----------------------------------------------------------------------------
(* The signing primitive of golang-jwt.  An ECDSA method signs only with   *)
(* a key on its own curve; the RSA methods take any RSA key.               *)

CurveBits == [alg \in ECAlgorithms |->
                CASE alg = "ES256" -> 256 [] alg = "ES384" -> 384 [] alg = "ES512" -> 521]

SigningError(key, alg) ==
  When(alg \in ECAlgorithms /\ key.bits # CurveBits[alg], "jwt.ErrInvalidKey")

\* A signature is made under one key with one algorithm and fits only that pair.
SignatureValid(sig, pub, alg) == sig = [key |-> pub, alg |-> alg]
=============================================================================
