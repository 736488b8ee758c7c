---------------------------- MODULE SignerOptions ----------------------------
(***************************************************************************)
(* NewSigner(opts...): the functional options of options.go run one after  *)
(* the other on a default config, the first that fails ends the call, and  *)
(* the config that is left is checked and built into a Signer.             *)
(*                                                                         *)
(* trail records the options that ran, so that a Signer can be compared    *)
(* with what its caller asked for.                                         *)
(***************************************************************************)
EXTENDS SigningKeys

CONSTANTS
  Issuers, Algs, PEMs, KeyIDs, TTLs, ClaimNames, Typs,  \* values callers pass
  FileContents,     \* what a key file may hold when it is read
  Unreadable,       \* the outcome of os.ReadFile failing
  MaxOptions        \* bound: options in one NewSigner call

ASSUME OptionsAssumption ==
  /\ TTLs \subseteq Int /\ MaxOptions \in Nat
  /\ \A pem \in PEMs \union FileContents : pem.key \in Keys \union {NoKey}

VARIABLES
  status,    \* "options" while they run, then how NewSigner ended: "built",
             \* "failed" (an option did) or "rejected" (the config was)
  config,    \* the config the options write
  err,       \* the error NewSigner returned
  signer,    \* the Signer NewSigner returned
  trail      \* history: the options that ran, in order

vars == <<status, config, err, signer, trail>>

DefaultTTL == 300     \* seconds

\* The PEM text of a config no key option wrote to.
NoPEM == [form |-> "", key |-> NoKey]

defaultConfig ==
  [issuer |-> "", algorithm |-> "RS256", keyPEM |-> NoPEM, keyID |-> "",
   defaultTTL |-> DefaultTTL, clock |-> "time.Now",
   tokenTypeClaim |-> "token_type", headerTyp |-> "JWT"]

Init ==
  /\ status = "options"
  /\ config = defaultConfig
  /\ err = NoError
  /\ signer = NoSigner
  /\ trail = <<>>

-----------------------------------------------------------------------------
(* One option: it either fails, which ends NewSigner, or sets one field.   *)

\* Deviation: an option that fails forgets to stop NewSigner.
Fail_GoesOn(e) ==
  /\ err' = e
  /\ UNCHANGED <<status, config, signer, trail>>

Fail(e) ==
  /\ status' = "failed"
  /\ err' = e
  /\ UNCHANGED <<config, signer, trail>>

Set(field, value) ==
  /\ config' = [config EXCEPT ![field] = value]
  /\ trail' = Append(trail, [field |-> field, value |-> value])
  /\ UNCHANGED <<status, err, signer>>

Apply(field, value, e) == IF e = NoError THEN Set(field, value) ELSE Fail(e)

Running == status = "options" /\ Len(trail) < MaxOptions

WithIssuer == Running /\ \E iss \in Issuers :
  Apply("issuer", iss, When(iss = "", "issuer must not be empty"))

WithAlgorithm == Running /\ \E alg \in Algs :
  Apply("algorithm", alg, When(alg \notin Algorithms, "ErrUnsupportedAlgorithm"))

WithSigningKeyPEM == Running /\ \E pem \in PEMs :
  Apply("keyPEM", pem, When(pem.form = "", "ErrNoSigningKey"))

\* Deviation: an empty key file is ignored instead of replacing the key.
WithSigningKeyFile_IgnoresEmpty == Running /\ \E pem \in FileContents :
  IF pem.form = ""
  THEN /\ trail' = Append(trail, [field |-> "keyPEM", value |-> pem])
       /\ UNCHANGED <<status, config, err, signer>>
  ELSE Apply("keyPEM", pem, When(pem = Unreadable, "cannot read key file"))

\* Whatever the file holds, nothing included, replaces the key set before.
WithSigningKeyFile == Running /\ \E pem \in FileContents :
  Apply("keyPEM", pem, When(pem = Unreadable, "cannot read key file"))

WithKeyID == Running /\ \E kid \in KeyIDs : Apply("keyID", kid, NoError)

WithDefaultTTL == Running /\ \E ttl \in TTLs :
  Apply("defaultTTL", ttl, When(ttl <= 0, "TTL must be positive"))

WithTokenTypeClaim == Running /\ \E name \in ClaimNames :
  Apply("tokenTypeClaim", name, When(name = "", "token-type claim must not be empty"))

WithHeaderTyp == Running /\ \E typ \in Typs :
  Apply("headerTyp", typ, When(typ = "", "header typ must not be empty"))

WithClock == Running /\ \E clock \in {"injected", "nil"} :
  Apply("clock", clock, When(clock = "nil", "clock must not be nil"))

-----------------------------------------------------------------------------
(* The rest of NewSigner, once the options have run.                       *)

NewSigner ==
  /\ status = "options"
  /\ LET e == SignerError(config) IN
       \/ /\ e = NoError
          /\ status' = "built"
          /\ signer' = Signer(config)
          /\ UNCHANGED <<config, err, trail>>
       \/ /\ e # NoError
          /\ status' = "rejected"
          /\ err' = e
          /\ UNCHANGED <<config, signer, trail>>

Next ==
  \/ WithIssuer
  \/ WithAlgorithm
  \/ WithSigningKeyPEM
  \/ WithSigningKeyFile
  \/ WithKeyID
  \/ WithDefaultTTL
  \/ WithTokenTypeClaim
  \/ WithHeaderTyp
  \/ WithClock
  \/ NewSigner

Spec == Init /\ [][Next]_vars

-----------------------------------------------------------------------------
(* Properties.                                                             *)

(* NewSigner ends with a Signer or with an error, never both, and its      *)
(* options leave the config legal at every step.                           *)
TypeOK ==
  /\ status \in {"options", "built", "failed", "rejected"}
  /\ err # NoError <=> status \in {"failed", "rejected"}
  /\ signer # NoSigner <=> status = "built"
  /\ DOMAIN config = DOMAIN defaultConfig
  /\ config.algorithm \in Algorithms
  /\ config.defaultTTL > 0
  /\ config.tokenTypeClaim # "" /\ config.headerTyp # ""
  /\ Len(trail) <= MaxOptions

\* What the caller asked for last, or the documented default.
Asked(field) ==
  LET given == {i \in DOMAIN trail : trail[i].field = field}
  IN  IF given = {}
      THEN defaultConfig[field]
      ELSE trail[CHOOSE i \in given : \A j \in given : j <= i].value

(* A Signer does what its caller asked for last, option by option: its key *)
(* is that of the last key option, whether text or file, an empty WithKeyID*)
(* brings the thumbprint back, and what was never asked has its default    *)
(* (NewSigner, options.go).                                                *)
SignerAsAsked ==
  status = "built" =>
    /\ \A field \in {"issuer", "algorithm", "defaultTTL", "clock",
                     "tokenTypeClaim", "headerTyp"} : signer[field] = Asked(field)
    /\ signer.key = Asked("keyPEM").key
    /\ Asked("keyPEM").form # ""
    /\ signer.keyID = IF Asked("keyID") = "" THEN Thumbprint[signer.key]
                                            ELSE Asked("keyID")

(* The JWKS a Signer publishes verifies what the Signer signs: the header's*)
(* kid selects its JWK, the JWK decodes to the public half of the key, and *)
(* its alg is the one in the header (JWKS, Sign, publicJWK, publicKey).    *)
JWKSVerifiesOwnTokens ==
  status = "built" =>
    LET jwk == signer.jwk
        sig == [key |-> signer.key, alg |-> signer.algorithm]
    IN  /\ jwk.kid # "" /\ jwk.kid = signer.keyID
        /\ PublicKeyError(jwk) = NoError
        /\ SignatureValid(sig, jwk.pub, jwk.alg)

(* keys.go:32 pairs "ES256/ES384: ECDSA on P-256/P-384", and NewSigner     *)
(* checks that the key suits the algorithm: a Signer it returns can sign.  *)
BuiltSignerCanSign ==
  status = "built" => SigningError(signer.key, signer.algorithm) = NoError

(* errors.go:15-16: an EC key with an RSA algorithm is ErrInvalidKey.      *)
MismatchIsInvalidKey ==
  /\ status = "rejected"
  /\ config.issuer # ""
  /\ ParseError(config.keyPEM) = NoError
  /\ config.keyPEM.key.kty = "EC" /\ config.algorithm \in RSAAlgorithms
  => err = "ErrInvalidKey"
=============================================================================
