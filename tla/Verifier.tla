------------------------------ MODULE Verifier ------------------------------
(***************************************************************************)
(* verify.go: a Verifier is a snapshot of a JWK set with expectations, and *)
(* Verify checks one token against it at the time of the call.  A token is *)
(* what TokenClaims!Sign returns; times are in ticks.                      *)
(***************************************************************************)
EXTENDS TokenClaims

\* Deviation: a kid that occurs twice is not noticed, the last one stays.
NewVerifierError_LastKidWins(jwks) ==
  FirstError([i \in DOMAIN jwks |->
    FirstError(<<When(jwks[i].kid = "", "JWK without kid"),
                 When(jwks[i].alg = "", "ErrJWKWithoutAlg")>>)])

\* A JWK set is a sequence; NewVerifier stops at its first unusable member.
NewVerifierError(jwks) ==
  FirstError([i \in DOMAIN jwks |->
    FirstError(<<When(jwks[i].kid = "", "JWK without kid"),
                 When(jwks[i].alg = "", "ErrJWKWithoutAlg"),
                 When(\E j \in 1..(i - 1) : jwks[j].kid = jwks[i].kid,
                      "ErrDuplicateKeyID")>>)])

\* "" expects nothing of the issuer or the audience.
NewVerifier(jwks, iss, aud) ==
  LET last(kid) == CHOOSE i \in DOMAIN jwks :
                     /\ jwks[i].kid = kid
                     /\ \A j \in DOMAIN jwks : jwks[j].kid = kid => j <= i
  IN  [keys |-> [kid \in {jwks[i].kid : i \in DOMAIN jwks} |-> jwks[last(kid)]],
       allowedAlgs |-> {jwks[i].alg : i \in DOMAIN jwks},
       expectedIssuer |-> iss, expectedAudience |-> aud]

-----------------------------------------------------------------------------
(* golang-jwt's parser and validator, in their order: a known algorithm,   *)
(* an allowed one (an empty list is nil and allows all), the key, the      *)
(* signature, then the claims.                                             *)

\* A claim the token type was written over: a date is a string now.
Overwritten(t, name) == t.writers[name] = "token type"

ClaimsError(v, t, time) ==
  IF Overwritten(t, "exp") \/ Overwritten(t, "nbf")
  THEN "jwt.ErrInvalidType"
  ELSE FirstError(<<
    When(time >= t.exp, "jwt.ErrTokenExpired"),
    When(time < t.nbf, "jwt.ErrTokenNotValidYet"),
    When(v.expectedAudience # "" /\ v.expectedAudience \notin t.aud,
         "jwt.ErrTokenInvalidAudience"),
    When(v.expectedIssuer # "" /\ v.expectedIssuer # t.iss,
         "jwt.ErrTokenInvalidIssuer")>>)

(* A method verifies only with a key of its family, ECDSA only on its      *)
(* curve; with a key that is none, nothing verifies.                       *)
SignatureError(t, jwk) ==
  When(~ (/\ jwk.kty = "RSA" => t.alg \in RSAAlgorithms
          /\ jwk.kty = "EC"  => t.alg \in ECAlgorithms
          /\ jwk.pub # NoKey
          /\ SignatureValid(t.sig, jwk.pub, t.alg)), "jwt.ErrTokenSignatureInvalid")

\* Deviation: the allowlist is not handed to the parser.
VerifyError_NoAllowlist(v, t, time) ==
  IF t.kid \notin DOMAIN v.keys
  THEN "no key for kid"
  ELSE FirstError(<<PublicKeyError(v.keys[t.kid]),
                    SignatureError(t, v.keys[t.kid]),
                    ClaimsError(v, t, time)>>)

\* Verify: the keyfunc looks the kid up in the snapshot and decodes the JWK.
VerifyError(v, t, time) ==
  IF t.kid \notin DOMAIN v.keys
  THEN FirstError(<<When(v.allowedAlgs # {} /\ t.alg \notin v.allowedAlgs,
                         "jwt.ErrTokenSignatureInvalid"),
                    "no key for kid">>)
  ELSE FirstError(<<When(t.alg \notin v.allowedAlgs, "jwt.ErrTokenSignatureInvalid"),
                    PublicKeyError(v.keys[t.kid]),
                    SignatureError(t, v.keys[t.kid]),
                    ClaimsError(v, t, time)>>)
=============================================================================
