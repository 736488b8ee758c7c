----------------------------- MODULE SignVerify -----------------------------
(***************************************************************************)
(* Issuers and a consumer together.  Several Services, each with its own   *)
(* Signer, issue tokens; the consumer builds a Verifier, now and then, of  *)
(* whatever JWK set is published at that moment, before or after the token *)
(* was issued; a client holds a token and presents it some time later.     *)
(*                                                                         *)
(* An Issue call is one step here: TokenService checks that by-value calls *)
(* are atomic.  The consumer's clock differs from the Signers' by skew.    *)
(***************************************************************************)
EXTENDS Verifier

CONSTANTS
  JWKSets,        \* the JWK sets the consumer may fetch, as sequences
  Expectations,   \* [iss, aud]: the Verifier's options, "" where one is not used
  Skews,          \* by how much the consumer's clock may be ahead, in ticks
  MaxTime         \* bound of the clock, in ticks

ASSUME BoundsAssumption == MaxTime \in Nat /\ Skews \subseteq Int

ASSUME JWKSetsAssumption ==
  \A jwks \in JWKSets : Len(jwks) \in Nat /\ DOMAIN jwks = 1..Len(jwks)

VARIABLES
  now,         \* the Signers' clock
  skew,        \* the consumer's clock shows now + skew
  verifier,    \* the consumer's Verifier, with the set it was built from
  held,        \* the token a client holds and how it was issued
  verdict      \* the last answer of Verify

vars == <<now, skew, verifier, held, verdict>>

NoVerifier == [jwks |-> <<>>, keys |-> <<>>]
NothingHeld == [at |-> -1]
NoVerdict == [time |-> -1]

-----------------------------------------------------------------------------
Init ==
  /\ now = 0
  /\ skew \in Skews
  /\ verifier = NoVerifier
  /\ held = NothingHeld
  /\ verdict = NoVerdict

\* The Verifier that NewVerifier builds, with the set it was built from.
Built(jwks, e) ==
  LET v == NewVerifier(jwks, e.iss, e.aud)
  IN  [jwks |-> jwks, keys |-> v.keys, allowedAlgs |-> v.allowedAlgs,
       expectedIssuer |-> v.expectedIssuer, expectedAudience |-> v.expectedAudience]

\* Deviation: the consumer uses what NewVerifier built until it met the error.
BuildVerifier_DespiteError ==
  /\ \E jwks \in JWKSets, e \in Expectations : verifier' = Built(jwks, e)
  /\ verdict' = NoVerdict
  /\ UNCHANGED <<now, skew, held>>

\* NewVerifier on the set of the moment; on an error the consumer keeps the old one.
BuildVerifier ==
  /\ \E jwks \in JWKSets, e \in Expectations :
       /\ NewVerifierError(jwks) = NoError
       /\ verifier' = Built(jwks, e)
  /\ verdict' = NoVerdict
  /\ UNCHANGED <<now, skew, held>>

\* An Issue call that succeeds, over the Signer s.
Issue ==
  /\ \E s \in Signers, r \in Requests :
       \E p \in (IF r.object = NoObject THEN {NoClaims} ELSE Contents[r.object]) :
         LET tc == Dated(Assemble(r, p), now, TTL(s, r)) IN
         /\ FirstError(<<CheckError(s, r, p), BaseError(r), SignError(s, r, tc, p)>>) = NoError
         /\ held' = [token |-> Sign(s, r, tc, p), at |-> now, ttl |-> TTL(s, r), by |-> s]
  /\ verdict' = NoVerdict
  /\ UNCHANGED <<now, skew, verifier>>

\* The client presents its token.
Verify ==
  /\ verifier # NoVerifier /\ held # NothingHeld
  /\ verdict' = [time |-> now + skew,
                 err |-> VerifyError(verifier, held.token, now + skew)]
  /\ UNCHANGED <<now, skew, verifier, held>>

Tick ==
  /\ now < MaxTime
  /\ now' = now + 1
  /\ UNCHANGED <<skew, verifier, held, verdict>>

Next == BuildVerifier \/ Issue \/ Verify \/ Tick

Spec == Init /\ [][Next]_vars

-----------------------------------------------------------------------------
(* Properties.                                                             *)

OwnTypeClaim(s) == s.tokenTypeClaim \notin reservedClaimNames

Accepted == verdict # NoVerdict /\ verdict.err = NoError

(* A Verifier exists only for a set whose every member has a kid of its    *)
(* own and an alg (NewVerifier).                                           *)
VerifierOK ==
  LET jwks == verifier.jwks IN
  /\ verdict # NoVerdict => verifier # NoVerifier /\ held # NothingHeld
  /\ \A i \in DOMAIN jwks : jwks[i].kid # "" /\ jwks[i].alg # ""
  /\ \A i, j \in DOMAIN jwks : jwks[i].kid = jwks[j].kid => i = j
  /\ DOMAIN verifier.keys = {jwks[i].kid : i \in DOMAIN jwks}

(* What Verify accepts was signed by the key the snapshot publishes under  *)
(* the token's kid, with an algorithm the snapshot allows; it is for the   *)
(* expected issuer and audience, unless the token type was written over    *)
(* them; and it is presented before its TTL has passed and not a second or *)
(* more before it was issued (Verify, keyfunc, base).                      *)
AcceptedIsAuthenticAndTimely ==
  Accepted =>
    /\ \E i \in DOMAIN verifier.jwks :
         /\ verifier.jwks[i].kid = held.token.kid
         /\ verifier.jwks[i].pub = held.by.key
    /\ held.by.algorithm \in {verifier.jwks[i].alg : i \in DOMAIN verifier.jwks}
    /\ OwnTypeClaim(held.by) =>
         /\ verifier.expectedIssuer \in {"", held.by.issuer}
         /\ verifier.expectedAudience \in {""} \union held.token.aud
    /\ verdict.time < held.at + held.ttl
    /\ verdict.time > held.at - TicksPerSecond

(* A token is good for its TTL, but for the second the NumericDates cut    *)
(* off: a Verifier whose snapshot holds the Signer's JWK accepts it when   *)
(* it expects nothing the token does not say.  Only the token-type claim   *)
(* must have a name of its own (Service, Signer, Verifier).                *)
GoodForItsTTL ==
  /\ verdict # NoVerdict
  /\ \E i \in DOMAIN verifier.jwks : verifier.jwks[i] = held.by.jwk
  /\ verifier.expectedIssuer \in {"", held.by.issuer}
  /\ verifier.expectedAudience \in {""} \union held.token.aud
  /\ OwnTypeClaim(held.by)
  /\ held.at <= verdict.time /\ verdict.time + TicksPerSecond <= held.at + held.ttl
  => Accepted
=============================================================================
