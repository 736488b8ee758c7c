----------------------------- MODULE IssuedTokens -----------------------------
(***************************************************************************)
(* What a resource server makes of the tokens of a Service: whatever the   *)
(* goroutines and the callers of TokenService do, each token is presented  *)
(* to a Verifier that is built of the Signer's published JWKS and expects  *)
(* the Signer's issuer and one of the token's audiences.  SignVerify does  *)
(* the same for calls that are atomic; here they need not be, because      *)
(* payloads may be passed by pointer and rewritten while the call runs.    *)
(***************************************************************************)
EXTENDS TokenService, Verifier

\* The claims Verify looks at: over these the token type must not be written.
CheckedClaims == {"iss", "aud", "exp", "nbf"}

\* What Verify says of the token of call c now.
Verdict(c, aud) ==
  LET jwks == <<signer.jwk>> IN
  FirstError(<<NewVerifierError(jwks),
               VerifyError(NewVerifier(jwks, signer.issuer, aud), token[c], now)>>)

\* What is left of the TTL that call c asked for.
Left(c) ==
  claims[c].now + (IF req[c].ttl > 0 THEN req[c].ttl ELSE signer.defaultTTL) - now

(* A token is accepted for every audience it was asked for from the moment *)
(* its call returns until a second before the end of its TTL, never after  *)
(* that end, and is refused for nothing but being expired, unless its type *)
(* was written over a claim that is checked (Sign, JWKS, NewVerifier,      *)
(* Verify).                                                                *)
IssuedTokensVerify ==
  \A c \in Calls : Issued(c) /\ (\A name \in CheckedClaims : Keeps(c, name)) =>
    \A aud \in req[c].aud :
      /\ Verdict(c, aud) \in {NoError, "jwt.ErrTokenExpired"}
      /\ Left(c) >= TicksPerSecond => Verdict(c, aud) = NoError
      /\ Left(c) <= 0 => Verdict(c, aud) # NoError
=============================================================================
