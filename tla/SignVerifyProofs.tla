-------------------------- MODULE SignVerifyProofs --------------------------
(***************************************************************************)
(* What a Verifier accepts is authentic and in its time, and what is       *)
(* authentic and in its time is accepted: for any Signers that NewSigner   *)
(* builds, any requests, JWK sets, expectations and skews.                 *)
(***************************************************************************)
EXTENDS SignVerify, VerifierProofs

-----------------------------------------------------------------------------
(* The inductive invariant: where the Verifier, the token and the verdict  *)
(* come from.                                                              *)

VerifierInv ==
  verifier # NoVerifier =>
    \E jwks \in JWKSets, e \in Expectations :
      NewVerifierError(jwks) = NoError /\ verifier = Built(jwks, e)

\* h is held: a successful Issue call made its token.
HeldBy(h, s, r, p, tc) ==
  /\ SignError(s, r, tc, p) = NoError
  /\ tc.now \in Int /\ tc.ttl = TTL(s, r)
  /\ h = [token |-> Sign(s, r, tc, p), at |-> tc.now, ttl |-> TTL(s, r), by |-> s]

IssuedHeld(h) ==
  \E s \in Signers, r \in Requests : \E p, tc : HeldBy(h, s, r, p, tc)

VerdictInv ==
  verdict # NoVerdict =>
    /\ verifier # NoVerifier /\ held # NothingHeld
    /\ verdict.time \in Int
    /\ verdict.err = VerifyError(verifier, held.token, verdict.time)

IInv ==
  /\ now \in Int /\ skew \in Int
  /\ VerifierInv
  /\ held # NothingHeld => IssuedHeld(held)
  /\ VerdictInv

LEMMA InitIInv == Init => IInv
BY BoundsAssumption DEF Init, IInv, VerifierInv, VerdictInv

LEMMA NextIInv == IInv /\ [Next]_vars => IInv'
<1> SUFFICES ASSUME IInv, [Next]_vars PROVE IInv'
  OBVIOUS
<1>1. CASE BuildVerifier
  <2>1. VerifierInv'
    BY <1>1 DEF BuildVerifier, VerifierInv
  <2>2. verdict' = NoVerdict /\ UNCHANGED <<now, skew, held>>
    BY <1>1 DEF BuildVerifier
  <2> QED
    BY <2>1, <2>2 DEF IInv, VerdictInv
<1>2. CASE Issue
  <2>1. PICK s \in Signers, r \in Requests :
          \E p : LET tc == Dated(Assemble(r, p), now, TTL(s, r)) IN
            /\ FirstError(<<CheckError(s, r, p), BaseError(r), SignError(s, r, tc, p)>>) = NoError
            /\ held' = [token |-> Sign(s, r, tc, p), at |-> now, ttl |-> TTL(s, r), by |-> s]
    BY <1>2 DEF Issue
  <2>2. PICK p : LET tc == Dated(Assemble(r, p), now, TTL(s, r)) IN
            /\ FirstError(<<CheckError(s, r, p), BaseError(r), SignError(s, r, tc, p)>>) = NoError
            /\ held' = [token |-> Sign(s, r, tc, p), at |-> now, ttl |-> TTL(s, r), by |-> s]
    BY <2>1
  <2> DEFINE tc == Dated(Assemble(r, p), now, TTL(s, r))
  <2>3. tc.now = now /\ tc.ttl = TTL(s, r)
    BY DEF Dated, Assemble
  <2>4. HeldBy(held', s, r, p, tc)
    <3> HIDE DEF tc
    <3>1. held' = [token |-> Sign(s, r, tc, p), at |-> now, ttl |-> TTL(s, r), by |-> s]
      BY <2>2 DEF tc
    <3>2. FirstError(<<CheckError(s, r, p), BaseError(r), SignError(s, r, tc, p)>>) = NoError
      BY <2>2 DEF tc
    <3>3. SignError(s, r, tc, p) = NoError
      BY <3>2, AllThreePass
    <3> QED
      BY <2>3, <3>1, <3>3 DEF HeldBy, IInv
  <2>5. IssuedHeld(held')
    BY <2>4, Zenon DEF IssuedHeld
  <2>6. verdict' = NoVerdict /\ UNCHANGED <<now, skew, verifier>>
    BY <1>2 DEF Issue
  <2> QED
    BY <2>5, <2>6 DEF IInv, VerifierInv, VerdictInv, IssuedHeld
<1>3. CASE Verify
  <2>1. /\ verifier # NoVerifier /\ held # NothingHeld
        /\ verdict' = [time |-> now + skew,
                       err |-> VerifyError(verifier, held.token, now + skew)]
        /\ UNCHANGED <<now, skew, verifier, held>>
    BY <1>3 DEF Verify
  <2>2. now + skew \in Int
    BY DEF IInv
  <2>3. VerdictInv'
    BY <2>1, <2>2 DEF VerdictInv
  <2> QED
    BY <2>1, <2>3 DEF IInv, VerifierInv, IssuedHeld
<1>4. CASE Tick
  BY <1>4 DEF Tick, IInv, VerifierInv, VerdictInv, IssuedHeld
<1>5. CASE UNCHANGED vars
  BY <1>5 DEF vars, IInv, VerifierInv, VerdictInv, IssuedHeld
<1> QED
  BY <1>1, <1>2, <1>3, <1>4, <1>5 DEF Next

THEOREM Inductive == Spec => []IInv
BY InitIInv, NextIInv, PTL DEF Spec

-----------------------------------------------------------------------------
(* What the Verifier and the token are made of.                            *)

LEMMA BuiltVerifier ==
  ASSUME IInv, verifier # NoVerifier
  PROVE  \E jwks, iss, aud :
           /\ jwks \in JWKSets
           /\ verifier.jwks = jwks /\ DOMAIN jwks \subseteq Nat /\ Clean(jwks)
           /\ verifier.keys = NewVerifier(jwks, iss, aud).keys
           /\ verifier.allowedAlgs = NewVerifier(jwks, iss, aud).allowedAlgs
           /\ verifier.expectedIssuer = iss /\ verifier.expectedAudience = aud
<1>1. PICK jwks \in JWKSets, e \in Expectations :
        NewVerifierError(jwks) = NoError /\ verifier = Built(jwks, e)
  BY DEF IInv, VerifierInv
<1>2. Clean(jwks) /\ DOMAIN jwks \subseteq Nat
  <2>1. Len(jwks) \in Nat /\ DOMAIN jwks = 1..Len(jwks)
    BY JWKSetsAssumption
  <2> QED
    BY <1>1, <2>1, CleanSetsOnly
<1>3. /\ verifier.jwks = jwks
      /\ verifier.keys = NewVerifier(jwks, e.iss, e.aud).keys
      /\ verifier.allowedAlgs = NewVerifier(jwks, e.iss, e.aud).allowedAlgs
      /\ verifier.expectedIssuer = e.iss /\ verifier.expectedAudience = e.aud
  BY <1>1 DEF Built, NewVerifier
<1> QED
  BY <1>2, <1>3

\* The token type is written over a checked claim only if it has its name.
LEMMA HeldSays ==
  ASSUME NEW h, NEW s \in Signers, NEW r, NEW p, NEW tc, HeldBy(h, s, r, p, tc),
         NEW name \in {"iss", "aud", "exp", "nbf"}
  PROVE  /\ ~ Overwritten(h.token, name) <=> name \notin TypeNames(s, tc)
         /\ OwnTypeClaim(s) => name \notin TypeNames(s, tc)
<1>1. name \in StandardNames(r, tc) /\ name \in reservedClaimNames
  BY DEF StandardNames, reservedClaimNames
<1>2. h.token = Sign(s, r, tc, p) /\ SignError(s, r, tc, p) = NoError
  BY DEF HeldBy
<1>3. name \notin TypeNames(s, tc) => ~ Overwritten(h.token, name)
  BY <1>1, <1>2, KeptClaim
<1>4. name \in TypeNames(s, tc) => Overwritten(h.token, name)
  <2>1. Nests(tc, p) => tc.variantKey \notin TypeNames(s, tc)
    BY <1>2, SignPasses
  <2>2. h.token.writers = Writers(s, r, tc, p)
    BY <1>2 DEF Sign
  <2>3. name \in TypeNames(s, tc) => Writers(s, r, tc, p)[name] = "token type"
    BY <1>1, <2>1 DEF Writers
  <2> QED
    BY <2>2, <2>3 DEF Overwritten
<1>5. OwnTypeClaim(s) => name \notin TypeNames(s, tc)
  BY <1>1, Zenon DEF TypeNames, OwnTypeClaim
<1> QED
  BY <1>3, <1>4, <1>5

LEMMA HeldFields ==
  ASSUME NEW h, NEW s, NEW r, NEW p, NEW tc, HeldBy(h, s, r, p, tc)
  PROVE  /\ h.by = s /\ h.token.kid = s.keyID /\ h.token.alg = s.algorithm
         /\ h.token.sig = [key |-> s.key, alg |-> s.algorithm]
         /\ "iss" \notin TypeNames(s, tc) => h.token.iss = s.issuer
<1>1. h.token = Sign(s, r, tc, p) /\ h.by = s
  BY DEF HeldBy
<1>2. /\ h.token.kid = s.keyID /\ h.token.alg = s.algorithm
      /\ h.token.sig = [key |-> s.key, alg |-> s.algorithm]
  BY <1>1 DEF Sign
<1> QED
  BY <1>1, <1>2, ClaimsStand

\* The NumericDates of a held token are within a second of what they mean.
LEMMA HeldTimes ==
  ASSUME NEW h, NEW s \in Signers, NEW r \in Requests, NEW p, NEW tc, HeldBy(h, s, r, p, tc),
         ~ Overwritten(h.token, "exp"), ~ Overwritten(h.token, "nbf")
  PROVE  /\ h.at \in Int /\ h.ttl \in Int /\ h.token.exp \in Int /\ h.token.nbf \in Int
         /\ h.token.exp <= h.at + h.ttl /\ h.at + h.ttl < h.token.exp + TicksPerSecond
         /\ h.token.nbf <= h.at /\ h.at < h.token.nbf + TicksPerSecond
<1>1. TTL(s, r) \in Int
  <2>1. s.defaultTTL \in Nat \ {0}
    BY SignersAssumption, Zenon
  <2>2. r \in RequestType
    BY RequestsAssumption, Zenon DEF WellTyped
  <2>3. r.ttl \in Int
    BY <2>2 DEF RequestType
  <2> QED
    BY <2>1, <2>3 DEF TTL
<1>2. h.at = tc.now /\ h.ttl = tc.ttl /\ tc.now \in Int /\ tc.ttl \in Int
  BY <1>1 DEF HeldBy
<1>3. h.token = Sign(s, r, tc, p)
  BY DEF HeldBy
<1>4. h.token.exp = NumericDate(tc.now + tc.ttl) /\ h.token.nbf = NumericDate(tc.now)
  <2>1. "exp" \notin TypeNames(s, tc) /\ "nbf" \notin TypeNames(s, tc)
    BY HeldSays
  <2> QED
    BY <1>3, <2>1, ClaimsStand
<1>5. /\ NumericDate(tc.now + tc.ttl) \in Int
      /\ NumericDate(tc.now + tc.ttl) <= tc.now + tc.ttl
      /\ tc.now + tc.ttl < NumericDate(tc.now + tc.ttl) + TicksPerSecond
  BY <1>2, WholeSeconds
<1>6. /\ NumericDate(tc.now) \in Int /\ NumericDate(tc.now) <= tc.now
      /\ tc.now < NumericDate(tc.now) + TicksPerSecond
  BY <1>2, WholeSeconds
<1> QED
  BY <1>2, <1>4, <1>5, <1>6

-----------------------------------------------------------------------------
(* A Verifier exists only for a set whose every member has a kid of its    *)
(* own and an alg (NewVerifier), for any sets.                             *)
THEOREM VerifiersAreSound == Spec => []VerifierOK
<1>1. ASSUME IInv PROVE VerifierOK
  <2>1. verdict # NoVerdict => verifier # NoVerifier /\ held # NothingHeld
    BY <1>1 DEF IInv, VerdictInv
  <2>2. CASE verifier = NoVerifier
    <3>1. DOMAIN verifier.jwks = {} /\ DOMAIN verifier.keys = {}
      BY <2>2 DEF NoVerifier
    <3> QED
      BY <2>1, <3>1 DEF VerifierOK
  <2>3. CASE verifier # NoVerifier
    <3>1. PICK jwks, iss, aud :
            /\ jwks \in JWKSets
            /\ verifier.jwks = jwks /\ Clean(jwks)
            /\ verifier.keys = NewVerifier(jwks, iss, aud).keys
      BY <1>1, <2>3, BuiltVerifier
    <3>2. DOMAIN verifier.keys = {jwks[i].kid : i \in DOMAIN jwks}
      BY <3>1, SnapshotKids
    <3> QED
      BY <2>1, <3>1, <3>2, Zenon DEF VerifierOK, Clean
  <2> QED
    BY <2>2, <2>3
<1> QED
  BY <1>1, Inductive, PTL

(* What Verify accepts was signed by the key that the snapshot has under   *)
(* the token's kid, for the expected issuer and audience, and within its   *)
(* TTL (Verify, keyfunc, base), for any Signers, sets, options and skews.  *)
THEOREM AcceptedTokensAreGenuine == Spec => []AcceptedIsAuthenticAndTimely
<1>1. ASSUME IInv, Accepted PROVE AcceptedIsAuthenticAndTimely
  <2> DEFINE t == held.token
             time == verdict.time
  <2>1. /\ verifier # NoVerifier /\ held # NothingHeld /\ time \in Int
        /\ VerifyError(verifier, t, time) = NoError
    BY <1>1 DEF IInv, VerdictInv, Accepted
  <2>2. PICK jwks, iss, aud :
          /\ jwks \in JWKSets
          /\ verifier.jwks = jwks /\ DOMAIN jwks \subseteq Nat /\ Clean(jwks)
          /\ verifier.keys = NewVerifier(jwks, iss, aud).keys
          /\ verifier.allowedAlgs = NewVerifier(jwks, iss, aud).allowedAlgs
          /\ verifier.expectedIssuer = iss /\ verifier.expectedAudience = aud
    BY <1>1, <2>1, BuiltVerifier
  <2>3. PICK s \in Signers, r \in Requests : \E p, tc : HeldBy(held, s, r, p, tc)
    BY <1>1, <2>1 DEF IInv, IssuedHeld
  <2>4. PICK p, tc : HeldBy(held, s, r, p, tc)
    BY <2>3
  <2>5. /\ held.by = s /\ t.kid = s.keyID /\ t.alg = s.algorithm
        /\ t.sig = [key |-> s.key, alg |-> s.algorithm]
        /\ "iss" \notin TypeNames(s, tc) => t.iss = s.issuer
    BY <2>4, HeldFields
  <2>6. /\ t.kid \in DOMAIN verifier.keys /\ t.alg \in verifier.allowedAlgs
        /\ SignatureError(t, verifier.keys[t.kid]) = NoError
        /\ ClaimsError(verifier, t, time) = NoError
    BY <2>1, OnlyThenPasses
  <2>7. verifier.keys[t.kid].pub = s.key
    BY <2>5, <2>6 DEF SignatureError, SignatureValid, When, NoError
  <2>8. \E i \in DOMAIN verifier.jwks :
          verifier.jwks[i].kid = t.kid /\ verifier.jwks[i].pub = s.key
    <3>1. PICK i \in DOMAIN jwks : jwks[i].kid = t.kid
      BY <2>2, <2>6, SnapshotKids
    <3>2. NewVerifier(jwks, iss, aud).keys[jwks[i].kid] = jwks[i]
      BY <2>2, SnapshotFinds
    <3> QED
      BY <2>2, <2>7, <3>1, <3>2
  <2>9. s.algorithm \in {verifier.jwks[i].alg : i \in DOMAIN verifier.jwks}
    <3>1. NewVerifier(jwks, iss, aud).allowedAlgs = {jwks[i].alg : i \in DOMAIN jwks}
      BY DEF NewVerifier
    <3> QED
      BY <2>2, <2>5, <2>6, <3>1
  <2>10. /\ ~ Overwritten(t, "exp") /\ ~ Overwritten(t, "nbf")
         /\ ~ (time >= t.exp) /\ ~ (time < t.nbf)
         /\ verifier.expectedAudience # "" => verifier.expectedAudience \in t.aud
         /\ verifier.expectedIssuer # "" => verifier.expectedIssuer = t.iss
    BY <2>6, ClaimsPassExactly, Zenon
  <2>11. OwnTypeClaim(s) => /\ verifier.expectedIssuer \in {"", s.issuer}
                            /\ verifier.expectedAudience \in {""} \union t.aud
    <3>1. SUFFICES ASSUME OwnTypeClaim(s)
                   PROVE  /\ verifier.expectedIssuer \in {"", s.issuer}
                          /\ verifier.expectedAudience \in {""} \union t.aud
      BY Zenon
    <3>2. "iss" \notin TypeNames(s, tc)
      BY <2>4, <3>1, HeldSays
    <3>3. t.iss = s.issuer
      BY <2>5, <3>2
    <3> QED
      BY <2>10, <3>3, Zenon
  <2>12. time < held.at + held.ttl /\ time > held.at - TicksPerSecond
    <3>1. /\ held.at \in Int /\ held.ttl \in Int /\ t.exp \in Int /\ t.nbf \in Int
          /\ t.exp <= held.at + held.ttl /\ held.at < t.nbf + TicksPerSecond
      BY <2>4, <2>10, HeldTimes
    <3>2. ~ (time >= t.exp) /\ ~ (time < t.nbf)
      BY <2>10, Zenon
    <3> QED
      BY <2>1, <3>1, <3>2, TimeAssumption
  <2> HIDE DEF t, time
  <2> QED
    BY <2>5, <2>8, <2>9, <2>11, <2>12, Zenon DEF AcceptedIsAuthenticAndTimely, t, time
<1>2. IInv => AcceptedIsAuthenticAndTimely
  BY <1>1, Zenon DEF AcceptedIsAuthenticAndTimely
<1> QED
  BY <1>2, Inductive, PTL

-----------------------------------------------------------------------------
(* A Verifier whose snapshot has the Signer's JWK accepts its token at any *)
(* time between the issue and a second before the end of its TTL, when it  *)
(* expects nothing the token does not say (Service, Signer, Verifier).     *)
THEOREM TokensAreGoodForTheirTTL == Spec => []GoodForItsTTL
<1>1. ASSUME IInv,
             verdict # NoVerdict,
             NEW i \in DOMAIN verifier.jwks, verifier.jwks[i] = held.by.jwk,
             verifier.expectedIssuer \in {"", held.by.issuer},
             verifier.expectedAudience \in {""} \union held.token.aud,
             OwnTypeClaim(held.by),
             held.at <= verdict.time,
             verdict.time + TicksPerSecond <= held.at + held.ttl
      PROVE  Accepted
  <2> DEFINE t == held.token
             time == verdict.time
  <2>1. /\ verifier # NoVerifier /\ held # NothingHeld /\ time \in Int
        /\ verdict.err = VerifyError(verifier, t, time)
    BY <1>1 DEF IInv, VerdictInv
  <2>2. PICK jwks, iss, aud :
          /\ jwks \in JWKSets
          /\ verifier.jwks = jwks /\ DOMAIN jwks \subseteq Nat /\ Clean(jwks)
          /\ verifier.keys = NewVerifier(jwks, iss, aud).keys
          /\ verifier.allowedAlgs = NewVerifier(jwks, iss, aud).allowedAlgs
          /\ verifier.expectedIssuer = iss /\ verifier.expectedAudience = aud
    BY <1>1, <2>1, BuiltVerifier
  <2>3. PICK s \in Signers, r \in Requests : \E p, tc : HeldBy(held, s, r, p, tc)
    BY <1>1, <2>1 DEF IInv, IssuedHeld
  <2>4. PICK p, tc : HeldBy(held, s, r, p, tc)
    BY <2>3
  <2>5. /\ held.by = s /\ t.kid = s.keyID /\ t.alg = s.algorithm
        /\ t.sig = [key |-> s.key, alg |-> s.algorithm]
        /\ "iss" \notin TypeNames(s, tc) => t.iss = s.issuer
    BY <2>4, HeldFields
  <2>6. /\ PublicKeyError(s.jwk) = NoError /\ SignatureError(t, s.jwk) = NoError
        /\ s.jwk.kid = s.keyID /\ s.jwk.alg = s.algorithm
    <3> DEFINE cfg == ConfigOf(s)
    <3>1. Buildable(cfg) /\ s = Signer(cfg)
      BY BuiltSignersAssumption, Zenon DEF Buildable
    <3>2. cfg.keyPEM.key = s.key /\ cfg.algorithm = s.algorithm
      BY Zenon DEF ConfigOf
    <3> HIDE DEF cfg
    <3>3. t.sig = [key |-> cfg.keyPEM.key, alg |-> cfg.algorithm] /\ t.alg = cfg.algorithm
      BY <2>5, <3>2
    <3> QED
      BY <3>1, <3>2, <3>3, OwnJWKVerifies, Zenon
  <2>7. /\ t.kid \in DOMAIN verifier.keys
        /\ verifier.keys[t.kid] = s.jwk
        /\ t.alg \in verifier.allowedAlgs
    <3>1. i \in DOMAIN jwks /\ jwks[i] = s.jwk
      BY <1>1, <2>2, <2>5
    <3>2. /\ jwks[i].kid \in DOMAIN NewVerifier(jwks, iss, aud).keys
          /\ NewVerifier(jwks, iss, aud).keys[jwks[i].kid] = jwks[i]
          /\ jwks[i].alg \in NewVerifier(jwks, iss, aud).allowedAlgs
      BY <2>2, <3>1, SnapshotFinds
    <3> QED
      BY <2>2, <2>5, <2>6, <3>1, <3>2
  <2>d. /\ "exp" \notin TypeNames(s, tc) /\ "nbf" \notin TypeNames(s, tc)
        /\ "iss" \notin TypeNames(s, tc)
        /\ ~ Overwritten(t, "exp") /\ ~ Overwritten(t, "nbf")
    <3>1. OwnTypeClaim(s)
      BY <1>1, <2>5
    <3> QED
      BY <2>4, <3>1, HeldSays
  <2>8. ~ (time >= t.exp) /\ ~ (time < t.nbf)
    <3>1. /\ held.at \in Int /\ held.ttl \in Int /\ t.exp \in Int /\ t.nbf \in Int
          /\ held.at + held.ttl < t.exp + TicksPerSecond /\ t.nbf <= held.at
      BY <2>4, <2>d, HeldTimes
    <3>2. held.at <= time /\ time + TicksPerSecond <= held.at + held.ttl
      BY <1>1, Zenon
    <3> QED
      BY <2>1, <3>1, <3>2, TimeAssumption
  <2>9. ClaimsError(verifier, t, time) = NoError
    <3>1. verifier.expectedIssuer \in {"", t.iss}
      <4>1. t.iss = s.issuer /\ held.by = s
        BY <2>5, <2>d
      <4> QED
        BY <1>1, <4>1, Zenon
    <3>2. verifier.expectedAudience \in {""} \union t.aud
      BY <1>1, Zenon
    <3> HIDE DEF t, time
    <3> QED
      BY <2>8, <2>d, <3>1, <3>2, ClaimsPass, Zenon
  <2>10. VerifyError(verifier, t, time) = NoError
    BY <2>6, <2>7, <2>9, TokenPasses
  <2> QED
    BY <1>1, <2>1, <2>10 DEF Accepted
<1>2. IInv => GoodForItsTTL
  BY <1>1, Zenon DEF GoodForItsTTL
<1> QED
  BY <1>2, Inductive, PTL
=============================================================================
