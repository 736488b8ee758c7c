--------------------------- MODULE VerifierProofs ---------------------------
(***************************************************************************)
(* What a chain of checks, NewVerifier, Verify, NewSigner and the checks   *)
(* of the Issue methods do, for any checks, JWK set, token, time,          *)
(* configuration and request: the lemmas that the proofs of the state      *)
(* machines rest on.                                                       *)
(***************************************************************************)
EXTENDS Verifier, TLAPS, WellFoundedInduction

-----------------------------------------------------------------------------
(* Chains of checks, of any length.                                        *)

\* When every check passes, so does the chain.
LEMMA NoErrorAtAll ==
  ASSUME NEW errs, \A i \in DOMAIN errs : errs[i] = NoError
  PROVE  FirstError(errs) = NoError
BY DEF FirstError

\* When no other check fails, the outcome is this one's.
LEMMA OnlyOneDecides ==
  ASSUME NEW errs, NEW k \in DOMAIN errs, k \in Nat,
         \A i \in DOMAIN errs : i # k => errs[i] = NoError
  PROVE  FirstError(errs) = errs[k]
<1> DEFINE failing == {i \in DOMAIN errs : errs[i] # NoError}
<1>1. CASE errs[k] = NoError
  BY <1>1, NoErrorAtAll
<1>2. CASE errs[k] # NoError
  <2>1. failing = {k}
    BY <1>2
  <2>2. (CHOOSE i \in failing : \A j \in failing : i <= j) = k
    BY <2>1
  <2> QED
    BY <2>1, <2>2 DEF FirstError
<1> QED
  BY <1>1, <1>2

Less == {ab \in Nat \X Nat : ab[1] < ab[2]}

LEMMA LessIsWellFounded == IsWellFoundedOn(Less, Nat)
BY NatLessThanWellFounded, Zenon DEF OpToRel, Less

\* Some failing check comes first.
LEMMA LeastElement ==
  ASSUME NEW T, T \subseteq Nat, T # {}
  PROVE  \E i \in T : \A j \in T : i <= j
<1>1. PICK i \in T : \A j \in T : ~ (<<j, i>> \in Less)
  BY LessIsWellFounded, WFMin
<1>2. ASSUME NEW j \in T PROVE i <= j
  <2>1. i \in Nat /\ j \in Nat
    OBVIOUS
  <2>2. ~ (j < i)
    BY <1>1, <2>1 DEF Less
  <2> QED
    BY <2>1, <2>2
<1> QED
  BY <1>2

\* When the chain passes, so did every check.
LEMMA NoErrorAnywhere ==
  ASSUME NEW errs, DOMAIN errs \subseteq Nat, FirstError(errs) = NoError
  PROVE  \A i \in DOMAIN errs : errs[i] = NoError
<1> DEFINE failing == {i \in DOMAIN errs : errs[i] # NoError}
           first == CHOOSE i \in failing : \A j \in failing : i <= j
<1>1. SUFFICES ASSUME failing # {} PROVE FALSE
  OBVIOUS
<1>2. \E i \in failing : \A j \in failing : i <= j
  BY <1>1, LeastElement
<1>3. first \in failing
  BY <1>2, Zenon
<1>4. FirstError(errs) = errs[first]
  BY <1>1 DEF FirstError
<1> QED
  BY <1>3, <1>4

\* A check that passed found its condition false.
LEMMA NotWhen ==
  ASSUME NEW cond, NEW e, e # NoError
  PROVE  When(cond, e) = NoError <=> ~ cond
BY DEF When

-----------------------------------------------------------------------------
(* NewVerifier.                                                            *)

\* A JWK set that has one JWK per kid, each with an alg.
Clean(jwks) ==
  /\ \A i \in DOMAIN jwks : jwks[i].kid # "" /\ jwks[i].alg # ""
  /\ \A i, j \in DOMAIN jwks : jwks[i].kid = jwks[j].kid => i = j

\* NewVerifier takes exactly the clean sets.
LEMMA CleanSetsOnly ==
  ASSUME NEW n \in Nat, NEW jwks, DOMAIN jwks = 1..n
  PROVE  NewVerifierError(jwks) = NoError <=> Clean(jwks)
<1> DEFINE Checks(i) == <<When(jwks[i].kid = "", "JWK without kid"),
                 When(jwks[i].alg = "", "ErrJWKWithoutAlg"),
                 When(\E j \in 1..(i - 1) : jwks[j].kid = jwks[i].kid,
                      "ErrDuplicateKeyID")>>
           errs == [i \in DOMAIN jwks |-> FirstError(Checks(i))]
<1>1. NewVerifierError(jwks) = FirstError(errs)
  BY DEF NewVerifierError
<1>2. ASSUME Clean(jwks) PROVE FirstError(errs) = NoError
  <2>1. SUFFICES ASSUME NEW i \in DOMAIN jwks PROVE FirstError(Checks(i)) = NoError
    <3>1. \A i \in DOMAIN errs : errs[i] = NoError
      BY <2>1
    <3> QED
      BY <3>1, NoErrorAtAll
  <2>2. Checks(i)[1] = NoError /\ Checks(i)[2] = NoError
    BY <1>2 DEF Clean, When
  <2>3. ~ \E j \in 1..(i - 1) : jwks[j].kid = jwks[i].kid
    <3>1. SUFFICES ASSUME NEW j \in 1..(i - 1), jwks[j].kid = jwks[i].kid PROVE FALSE
      OBVIOUS
    <3>2. i \in 1..n /\ j \in 1..n /\ i # j
      OBVIOUS
    <3> QED
      BY <1>2, <3>1, <3>2 DEF Clean
  <2>4. Checks(i)[3] = NoError
    BY <2>3 DEF When
  <2>5. DOMAIN Checks(i) = {1, 2, 3}
    OBVIOUS
  <2> HIDE DEF Checks
  <2> QED
    BY <2>2, <2>4, <2>5, NoErrorAtAll
<1>3. ASSUME FirstError(errs) = NoError PROVE Clean(jwks)
  <2>1. \A i \in DOMAIN jwks : FirstError(Checks(i)) = NoError
    <3>1. DOMAIN errs \subseteq Nat
      OBVIOUS
    <3>2. \A i \in DOMAIN errs : errs[i] = NoError
      BY <1>3, <3>1, NoErrorAnywhere
    <3> QED
      BY <3>2
  <2>2. ASSUME NEW i \in DOMAIN jwks
        PROVE  /\ jwks[i].kid # "" /\ jwks[i].alg # ""
               /\ ~ \E j \in 1..(i - 1) : jwks[j].kid = jwks[i].kid
    <3>1. DOMAIN Checks(i) = {1, 2, 3}
      OBVIOUS
    <3>2. \A l \in {1, 2, 3} : Checks(i)[l] = NoError
      <4> HIDE DEF Checks
      <4> QED
        BY <2>1, <3>1, NoErrorAnywhere
    <3>3. /\ When(jwks[i].kid = "", "JWK without kid") = NoError
          /\ When(jwks[i].alg = "", "ErrJWKWithoutAlg") = NoError
          /\ When(\E j \in 1..(i - 1) : jwks[j].kid = jwks[i].kid,
                  "ErrDuplicateKeyID") = NoError
      BY <3>2
    <3> QED
      BY <3>3 DEF When, NoError
  <2>3. ASSUME NEW i \in DOMAIN jwks, NEW j \in DOMAIN jwks, jwks[i].kid = jwks[j].kid
        PROVE  i = j
    <3>1. i \in 1..n /\ j \in 1..n
      OBVIOUS
    <3>2. i \notin 1..(j - 1) /\ j \notin 1..(i - 1)
      BY <2>2, <2>3
    <3> QED
      BY <3>1, <3>2
  <2> QED
    BY <2>2, <2>3 DEF Clean
<1> QED
  BY <1>1, <1>2, <1>3

\* The Verifier of a clean set finds every JWK of it by its kid.
LEMMA SnapshotFinds ==
  ASSUME NEW jwks, DOMAIN jwks \subseteq Nat, Clean(jwks), NEW iss, NEW aud,
         NEW i \in DOMAIN jwks
  PROVE  LET v == NewVerifier(jwks, iss, aud) IN
         /\ jwks[i].kid \in DOMAIN v.keys
         /\ v.keys[jwks[i].kid] = jwks[i]
         /\ jwks[i].alg \in v.allowedAlgs
<1> DEFINE last(kid) == CHOOSE l \in DOMAIN jwks :
                     /\ jwks[l].kid = kid
                     /\ \A j \in DOMAIN jwks : jwks[j].kid = kid => j <= l
<1>1. last(jwks[i].kid) = i
  <2>1. \A l \in DOMAIN jwks : jwks[l].kid = jwks[i].kid => l = i
    BY DEF Clean
  <2>2. i <= i
    OBVIOUS
  <2> QED
    BY <2>1, <2>2
<1> QED
  BY <1>1 DEF NewVerifier

\* The domain of its snapshot.
LEMMA SnapshotKids ==
  ASSUME NEW jwks, NEW iss, NEW aud
  PROVE  DOMAIN NewVerifier(jwks, iss, aud).keys = {jwks[i].kid : i \in DOMAIN jwks}
BY DEF NewVerifier

-----------------------------------------------------------------------------
\* A NumericDate is the last whole second up to its time.
LEMMA WholeSeconds ==
  ASSUME NEW t \in Int
  PROVE  /\ NumericDate(t) \in Int /\ NumericDate(t) <= t
         /\ t < NumericDate(t) + TicksPerSecond
<1>1. t % TicksPerSecond \in 0..(TicksPerSecond - 1)
  BY TimeAssumption
<1> QED
  BY <1>1, TimeAssumption DEF NumericDate

(* Once its kid is in the snapshot, under a JWK of the key and algorithm   *)
(* that signed it, a token's claims decide.                                *)
LEMMA ClaimsDecide ==
  ASSUME NEW v, NEW t, NEW time,
         t.kid \in DOMAIN v.keys, t.alg \in v.allowedAlgs,
         PublicKeyError(v.keys[t.kid]) = NoError,
         SignatureError(t, v.keys[t.kid]) = NoError
  PROVE  VerifyError(v, t, time) = ClaimsError(v, t, time)
<1> DEFINE errs == <<When(t.alg \notin v.allowedAlgs, "jwt.ErrTokenSignatureInvalid"),
                    PublicKeyError(v.keys[t.kid]),
                    SignatureError(t, v.keys[t.kid]),
                    ClaimsError(v, t, time)>>
<1>1. VerifyError(v, t, time) = FirstError(errs)
  BY DEF VerifyError
<1>2. /\ DOMAIN errs = {1, 2, 3, 4} /\ 4 \in Nat
      /\ errs[1] = NoError /\ errs[2] = NoError /\ errs[3] = NoError
      /\ errs[4] = ClaimsError(v, t, time)
  BY DEF When
<1> HIDE DEF errs
<1>3. FirstError(errs) = errs[4]
  <2>1. 4 \in DOMAIN errs /\ \A i \in DOMAIN errs : i # 4 => errs[i] = NoError
    BY <1>2
  <2> QED
    BY <1>2, <2>1, OnlyOneDecides
<1> QED
  BY <1>1, <1>2, <1>3

LEMMA TokenPasses ==
  ASSUME NEW v, NEW t, NEW time,
         t.kid \in DOMAIN v.keys, t.alg \in v.allowedAlgs,
         PublicKeyError(v.keys[t.kid]) = NoError,
         SignatureError(t, v.keys[t.kid]) = NoError,
         ClaimsError(v, t, time) = NoError
  PROVE  VerifyError(v, t, time) = NoError
BY ClaimsDecide

\* And only then.
LEMMA OnlyThenPasses ==
  ASSUME NEW v, NEW t, NEW time, VerifyError(v, t, time) = NoError
  PROVE  /\ t.kid \in DOMAIN v.keys /\ t.alg \in v.allowedAlgs
         /\ PublicKeyError(v.keys[t.kid]) = NoError
         /\ SignatureError(t, v.keys[t.kid]) = NoError
         /\ ClaimsError(v, t, time) = NoError
<1>1. t.kid \in DOMAIN v.keys
  <2> DEFINE errs == <<When(v.allowedAlgs # {} /\ t.alg \notin v.allowedAlgs,
                            "jwt.ErrTokenSignatureInvalid"), "no key for kid">>
  <2>1. SUFFICES ASSUME t.kid \notin DOMAIN v.keys PROVE FALSE
    OBVIOUS
  <2>2. FirstError(errs) = NoError
    BY <2>1 DEF VerifyError
  <2>3. DOMAIN errs \subseteq Nat /\ 2 \in DOMAIN errs
    OBVIOUS
  <2>4. errs[2] = NoError
    <3> HIDE DEF errs
    <3> QED
      BY <2>2, <2>3, NoErrorAnywhere
  <2> QED
    BY <2>4 DEF NoError
<1> DEFINE errs == <<When(t.alg \notin v.allowedAlgs, "jwt.ErrTokenSignatureInvalid"),
                    PublicKeyError(v.keys[t.kid]),
                    SignatureError(t, v.keys[t.kid]),
                    ClaimsError(v, t, time)>>
<1>2. FirstError(errs) = NoError
  BY <1>1 DEF VerifyError
<1>3. DOMAIN errs \subseteq Nat /\ {1, 2, 3, 4} \subseteq DOMAIN errs
  OBVIOUS
<1>4. errs[1] = NoError /\ errs[2] = NoError /\ errs[3] = NoError /\ errs[4] = NoError
  <2> HIDE DEF errs
  <2> QED
    BY <1>2, <1>3, NoErrorAnywhere
<1> QED
  BY <1>1, <1>4, NotWhen DEF NoError

\* The checks that come once the dates are known to be dates.
DatedChecks(v, t, time) == <<
  When(time >= t.exp, "jwt.ErrTokenExpired"),
  When(time < t.nbf, "jwt.ErrTokenNotValidYet"),
  When(v.expectedAudience # "" /\ v.expectedAudience \notin t.aud,
       "jwt.ErrTokenInvalidAudience"),
  When(v.expectedIssuer # "" /\ v.expectedIssuer # t.iss,
       "jwt.ErrTokenInvalidIssuer")>>

LEMMA DatesAreDates ==
  ASSUME NEW v, NEW t, NEW time, ~ Overwritten(t, "exp"), ~ Overwritten(t, "nbf")
  PROVE  ClaimsError(v, t, time) = FirstError(DatedChecks(v, t, time))
BY Zenon DEF ClaimsError, DatedChecks

\* What each of them is about.
AreAbout(errs, v, t, time) ==
  /\ DOMAIN errs = {1, 2, 3, 4} /\ DOMAIN errs \subseteq Nat
  /\ errs[1] = When(time >= t.exp, "jwt.ErrTokenExpired")
  /\ errs[2] = NoError <=> ~ (time < t.nbf)
  /\ errs[3] = NoError <=> (v.expectedAudience # "" => v.expectedAudience \in t.aud)
  /\ errs[4] = NoError <=> (v.expectedIssuer # "" => v.expectedIssuer = t.iss)

LEMMA DatedChecksAre ==
  ASSUME NEW v, NEW t, NEW time
  PROVE  AreAbout(DatedChecks(v, t, time), v, t, time)
<1> DEFINE errs == DatedChecks(v, t, time)
           late == time < t.nbf
           aud == v.expectedAudience # "" /\ v.expectedAudience \notin t.aud
           iss == v.expectedIssuer # "" /\ v.expectedIssuer # t.iss
<1>1. /\ DOMAIN errs = {1, 2, 3, 4} /\ DOMAIN errs \subseteq Nat
      /\ errs[1] = When(time >= t.exp, "jwt.ErrTokenExpired")
      /\ errs[2] = When(late, "jwt.ErrTokenNotValidYet")
      /\ errs[3] = When(aud, "jwt.ErrTokenInvalidAudience")
      /\ errs[4] = When(iss, "jwt.ErrTokenInvalidIssuer")
  BY DEF DatedChecks
<1>2. /\ "jwt.ErrTokenNotValidYet" # NoError /\ "jwt.ErrTokenInvalidAudience" # NoError
      /\ "jwt.ErrTokenInvalidIssuer" # NoError
  BY DEF NoError
<1> HIDE DEF errs
<1>3. /\ errs[2] = NoError <=> ~ late
      /\ errs[3] = NoError <=> ~ aud
      /\ errs[4] = NoError <=> ~ iss
  BY <1>1, <1>2, NotWhen, Zenon
<1> QED
  BY <1>1, <1>3, Zenon DEF errs, AreAbout

\* When nothing else is wrong with them, the claims are those of a valid or of an
\* expired token.
LEMMA OnlyExpiryFails ==
  ASSUME NEW v, NEW t, NEW time,
         ~ Overwritten(t, "exp"), ~ Overwritten(t, "nbf"),
         ~ (time < t.nbf),
         v.expectedAudience \in {""} \union t.aud,
         v.expectedIssuer \in {"", t.iss}
  PROVE  ClaimsError(v, t, time) = When(time >= t.exp, "jwt.ErrTokenExpired")
<1> DEFINE errs == DatedChecks(v, t, time)
<1>1. ClaimsError(v, t, time) = FirstError(errs)
  BY DatesAreDates
<1>2. /\ DOMAIN errs = {1, 2, 3, 4}
      /\ errs[1] = When(time >= t.exp, "jwt.ErrTokenExpired")
      /\ errs[2] = NoError /\ errs[3] = NoError /\ errs[4] = NoError
  <2>1. AreAbout(errs, v, t, time)
    BY DatedChecksAre
  <2> HIDE DEF errs
  <2> QED
    BY <2>1, Zenon DEF AreAbout
<1> HIDE DEF errs
<1>3. 1 \in DOMAIN errs /\ 1 \in Nat /\ \A i \in DOMAIN errs : i # 1 => errs[i] = NoError
  BY <1>2
<1>4. FirstError(errs) = errs[1]
  BY <1>3, OnlyOneDecides
<1> QED
  BY <1>1, <1>2, <1>4

\* The claims pass at a time within the token's, for what they say.
LEMMA ClaimsPass ==
  ASSUME NEW v, NEW t, NEW time,
         ~ Overwritten(t, "exp"), ~ Overwritten(t, "nbf"),
         ~ (time >= t.exp), ~ (time < t.nbf),
         v.expectedAudience \in {""} \union t.aud,
         v.expectedIssuer \in {"", t.iss}
  PROVE  ClaimsError(v, t, time) = NoError
<1>1. ClaimsError(v, t, time) = When(time >= t.exp, "jwt.ErrTokenExpired")
  BY OnlyExpiryFails
<1> QED
  BY <1>1, Zenon DEF When

LEMMA SecondOfTwo ==
  ASSUME NEW e
  PROVE  FirstError(<<NoError, e>>) = e
<1> DEFINE errs == <<NoError, e>>
<1>1. DOMAIN errs = {1, 2} /\ errs[1] = NoError /\ errs[2] = e /\ 2 \in Nat
  OBVIOUS
<1> HIDE DEF errs
<1>2. 2 \in DOMAIN errs /\ \A i \in DOMAIN errs : i # 2 => errs[i] = NoError
  BY <1>1
<1>3. FirstError(errs) = e
  BY <1>1, <1>2, OnlyOneDecides
<1> QED
  BY <1>3 DEF errs

\* The claims pass exactly within the token's time, for what they say.
LEMMA ClaimsPassExactly ==
  ASSUME NEW v, NEW t, NEW time
  PROVE  ClaimsError(v, t, time) = NoError <=>
           /\ ~ Overwritten(t, "exp") /\ ~ Overwritten(t, "nbf")
           /\ ~ (time >= t.exp) /\ ~ (time < t.nbf)
           /\ v.expectedAudience # "" => v.expectedAudience \in t.aud
           /\ v.expectedIssuer # "" => v.expectedIssuer = t.iss
<1> DEFINE errs == DatedChecks(v, t, time)
           written == Overwritten(t, "exp") \/ Overwritten(t, "nbf")
<1>1. written => ClaimsError(v, t, time) # NoError
  BY DEF ClaimsError, NoError
<1>2. ~ written => ClaimsError(v, t, time) = FirstError(errs)
  BY DatesAreDates
<1> HIDE DEF errs
<1>3. AreAbout(errs, v, t, time)
  BY DatedChecksAre DEF errs
<1>4. errs[1] = NoError <=> ~ (time >= t.exp)
  <2>1. "jwt.ErrTokenExpired" # NoError
    BY DEF NoError
  <2> QED
    BY <1>3, <2>1, NotWhen, Zenon DEF AreAbout
<1>5. /\ errs[2] = NoError <=> ~ (time < t.nbf)
      /\ errs[3] = NoError <=> (v.expectedAudience # "" => v.expectedAudience \in t.aud)
      /\ errs[4] = NoError <=> (v.expectedIssuer # "" => v.expectedIssuer = t.iss)
  BY <1>3, Zenon DEF AreAbout
<1>6. FirstError(errs) = NoError <=>
        errs[1] = NoError /\ errs[2] = NoError /\ errs[3] = NoError /\ errs[4] = NoError
  BY <1>3, NoErrorAtAll, NoErrorAnywhere DEF AreAbout
<1> QED
  BY <1>1, <1>2, <1>4, <1>5, <1>6, Zenon

\* What a Verifier of a set is for, without its snapshot or the order of the
\* checks: the set has a key under the token's kid, of the family of the
\* token's alg, that made the token's signature; the alg is that of some
\* member; and the claims are in time and as expected.
Accepts(jwks, iss, aud, t, time) ==
  /\ \E i \in DOMAIN jwks :
       /\ jwks[i].kid = t.kid
       /\ PublicKeyError(jwks[i]) = NoError
       /\ jwks[i].kty = "RSA" => t.alg \in RSAAlgorithms
       /\ jwks[i].kty = "EC"  => t.alg \in ECAlgorithms
       /\ jwks[i].pub # NoKey
       /\ t.sig = [key |-> jwks[i].pub, alg |-> t.alg]
  /\ \E i \in DOMAIN jwks : jwks[i].alg = t.alg
  /\ ~ Overwritten(t, "exp") /\ ~ Overwritten(t, "nbf")
  /\ t.nbf <= time /\ time < t.exp
  /\ aud # "" => aud \in t.aud
  /\ iss # "" => iss = t.iss

\* A key verifies exactly the signatures it made with an algorithm of its family.
LEMMA SignaturesPassExactly ==
  ASSUME NEW t, NEW jwk
  PROVE  SignatureError(t, jwk) = NoError <=>
           /\ jwk.kty = "RSA" => t.alg \in RSAAlgorithms
           /\ jwk.kty = "EC"  => t.alg \in ECAlgorithms
           /\ jwk.pub # NoKey
           /\ t.sig = [key |-> jwk.pub, alg |-> t.alg]
BY DEF SignatureError, SignatureValid, When, NoError

(* For every JWK set that NewVerifier takes, every token, time and         *)
(* expectation, Verify accepts exactly what Accepts describes: that the    *)
(* set is a map by kid, that the allowlist is one for all keys and that    *)
(* the checks have an order shows in no acceptance (NewVerifier, Verify,   *)
(* keyfunc).                                                               *)
THEOREM VerifyAcceptsExactly ==
  ASSUME NEW n \in Nat, NEW jwks, DOMAIN jwks = 1..n, NewVerifierError(jwks) = NoError,
         NEW iss, NEW aud, NEW time \in Int, NEW t,
         ~ Overwritten(t, "exp") => t.exp \in Int,
         ~ Overwritten(t, "nbf") => t.nbf \in Int
  PROVE  VerifyError(NewVerifier(jwks, iss, aud), t, time) = NoError
           <=> Accepts(jwks, iss, aud, t, time)
<1> DEFINE v == NewVerifier(jwks, iss, aud)
<1>1. Clean(jwks) /\ DOMAIN jwks \subseteq Nat
  BY CleanSetsOnly
<1>2. /\ DOMAIN v.keys = {jwks[i].kid : i \in DOMAIN jwks}
      /\ v.allowedAlgs = {jwks[i].alg : i \in DOMAIN jwks}
      /\ v.expectedIssuer = iss /\ v.expectedAudience = aud
  BY DEF NewVerifier
<1>3. \A i \in DOMAIN jwks : v.keys[jwks[i].kid] = jwks[i]
  BY <1>1, SnapshotFinds
<1> HIDE DEF v
<1>4. ~ Overwritten(t, "exp") /\ ~ Overwritten(t, "nbf") =>
        (~ (time >= t.exp) /\ ~ (time < t.nbf) <=> t.nbf <= time /\ time < t.exp)
  OBVIOUS
<1>5. ClaimsError(v, t, time) = NoError <=>
        /\ ~ Overwritten(t, "exp") /\ ~ Overwritten(t, "nbf")
        /\ t.nbf <= time /\ time < t.exp
        /\ aud # "" => aud \in t.aud
        /\ iss # "" => iss = t.iss
  BY <1>2, <1>4, ClaimsPassExactly, Zenon
<1>6. ASSUME VerifyError(v, t, time) = NoError PROVE Accepts(jwks, iss, aud, t, time)
  <2>1. /\ t.kid \in DOMAIN v.keys /\ t.alg \in v.allowedAlgs
        /\ PublicKeyError(v.keys[t.kid]) = NoError
        /\ SignatureError(t, v.keys[t.kid]) = NoError
        /\ ClaimsError(v, t, time) = NoError
    BY <1>6, OnlyThenPasses
  <2>2. PICK i \in DOMAIN jwks : jwks[i].kid = t.kid /\ v.keys[t.kid] = jwks[i]
    BY <1>2, <1>3, <2>1
  <2>3. \E j \in DOMAIN jwks : jwks[j].alg = t.alg
    BY <1>2, <2>1
  <2>4. /\ PublicKeyError(jwks[i]) = NoError
        /\ jwks[i].kty = "RSA" => t.alg \in RSAAlgorithms
        /\ jwks[i].kty = "EC"  => t.alg \in ECAlgorithms
        /\ jwks[i].pub # NoKey
        /\ t.sig = [key |-> jwks[i].pub, alg |-> t.alg]
    BY <2>1, <2>2, SignaturesPassExactly
  <2> QED
    BY <1>5, <2>1, <2>2, <2>3, <2>4, Zenon DEF Accepts
<1>7. ASSUME Accepts(jwks, iss, aud, t, time) PROVE VerifyError(v, t, time) = NoError
  <2>1. PICK i \in DOMAIN jwks :
          /\ jwks[i].kid = t.kid
          /\ PublicKeyError(jwks[i]) = NoError
          /\ jwks[i].kty = "RSA" => t.alg \in RSAAlgorithms
          /\ jwks[i].kty = "EC"  => t.alg \in ECAlgorithms
          /\ jwks[i].pub # NoKey
          /\ t.sig = [key |-> jwks[i].pub, alg |-> t.alg]
    BY <1>7, Zenon DEF Accepts
  <2>2. \E j \in DOMAIN jwks : jwks[j].alg = t.alg
    BY <1>7, Zenon DEF Accepts
  <2>3. t.kid \in DOMAIN v.keys /\ t.alg \in v.allowedAlgs /\ v.keys[t.kid] = jwks[i]
    BY <1>2, <1>3, <2>1, <2>2
  <2>4. SignatureError(t, jwks[i]) = NoError
    BY <2>1, SignaturesPassExactly
  <2>5. ClaimsError(v, t, time) = NoError
    BY <1>5, <1>7, Zenon DEF Accepts
  <2> QED
    BY <2>1, <2>3, <2>4, <2>5, TokenPasses
<1> QED
  BY <1>6, <1>7 DEF v

\* What a token says of itself unless its type was written over it.
LEMMA KeptClaim ==
  ASSUME NEW s, NEW r, NEW tc, NEW p, NEW name \in StandardNames(r, tc),
         name \notin TypeNames(s, tc)
  PROVE  ~ Overwritten(Sign(s, r, tc, p), name)
<1>1. Sign(s, r, tc, p).writers = Writers(s, r, tc, p)
  BY DEF Sign
<1>2. Writers(s, r, tc, p)[name] # "token type"
  BY DEF Writers
<1> QED
  BY <1>1, <1>2 DEF Overwritten

\* Every other claim of a token has the value the Service gave it.
LEMMA ClaimsStand ==
  ASSUME NEW s, NEW r, NEW tc, NEW p
  PROVE  LET t == Sign(s, r, tc, p) IN
         /\ "iss" \notin TypeNames(s, tc) => t.iss = s.issuer
         /\ "aud" \notin TypeNames(s, tc) => t.aud = r.aud
         /\ "iat" \notin TypeNames(s, tc) => t.iat = NumericDate(tc.now)
         /\ "nbf" \notin TypeNames(s, tc) => t.nbf = NumericDate(tc.now)
         /\ "exp" \notin TypeNames(s, tc) => t.exp = NumericDate(tc.now + tc.ttl)
         /\ "acr" \notin TypeNames(s, tc) => t.acr = tc.acr
BY DEF Sign, Stands

-----------------------------------------------------------------------------
\* A Signer that NewSigner returns, and the options it may have been given.
Buildable(cfg) == SignerError(cfg) = NoError

\* Its key has a type that goes with its algorithm, and the JWK decodes.
LEMMA BuiltSigner ==
  ASSUME NEW cfg, Buildable(cfg)
  PROVE  /\ cfg.issuer # "" /\ cfg.keyPEM.form # ""
         /\ cfg.algorithm \in Algorithms
         /\ \/ cfg.keyPEM.key.kty = "RSA" /\ cfg.algorithm \in RSAAlgorithms
            \/ /\ cfg.keyPEM.key.kty = "EC" /\ cfg.algorithm \in ECAlgorithms
               /\ cfg.keyPEM.key.bits \in ApprovedCurves
<1> DEFINE errs == <<
  When(cfg.issuer = "",      "issuer is required"),
  When(cfg.keyPEM.form = "", "ErrNoSigningKey"),
  ParseError(cfg.keyPEM),
  When(cfg.algorithm \notin Algorithms, "ErrUnsupportedAlgorithm"),
  CheckKeyMatchesAlgorithm(cfg.keyPEM.key, cfg.algorithm),
  ValidateKeyStrength(cfg.keyPEM.key)>>
<1>1. FirstError(errs) = NoError
  BY DEF Buildable, SignerError
<1>2. DOMAIN errs \subseteq Nat /\ {1, 2, 4, 5, 6} \subseteq DOMAIN errs
  OBVIOUS
<1>3. /\ errs[1] = NoError /\ errs[2] = NoError /\ errs[4] = NoError
      /\ errs[5] = NoError /\ errs[6] = NoError
  <2> HIDE DEF errs
  <2> QED
    BY <1>1, <1>2, NoErrorAnywhere
<1>4. /\ CheckKeyMatchesAlgorithm(cfg.keyPEM.key, cfg.algorithm) = NoError
      /\ ValidateKeyStrength(cfg.keyPEM.key) = NoError
  BY <1>3
<1>5. /\ cfg.issuer # "" /\ cfg.keyPEM.form # ""
      /\ cfg.algorithm \in Algorithms
  BY <1>3, NotWhen DEF NoError
<1>6. \/ cfg.keyPEM.key.kty = "RSA" /\ cfg.algorithm \in RSAAlgorithms
      \/ cfg.keyPEM.key.kty = "EC" /\ cfg.algorithm \in ECAlgorithms
  BY <1>4 DEF CheckKeyMatchesAlgorithm, When, NoError
<1>7. cfg.keyPEM.key.kty = "EC" => cfg.keyPEM.key.bits \in ApprovedCurves
  BY <1>4 DEF ValidateKeyStrength, When, NoError
<1> QED
  BY <1>5, <1>6, <1>7

\* The configurations that make a Signer, without the order of the checks.
Takes(cfg) ==
  LET key == cfg.keyPEM.key IN
  /\ cfg.issuer # ""
  /\ \/ /\ key.kty = "RSA" /\ key.bits >= 2048
        /\ cfg.keyPEM.form \in {"PRIVATE KEY", "RSA PRIVATE KEY"}
        /\ cfg.algorithm \in RSAAlgorithms
     \/ /\ key.kty = "EC" /\ key.bits \in {256, 384, 521}
        /\ cfg.keyPEM.form \in {"PRIVATE KEY", "EC PRIVATE KEY"}
        /\ cfg.algorithm \in ECAlgorithms

\* Six checks in a row.
LEMMA AllSixPass ==
  ASSUME NEW a, NEW b, NEW c, NEW d, NEW e, NEW f
  PROVE  FirstError(<<a, b, c, d, e, f>>) = NoError <=>
           /\ a = NoError /\ b = NoError /\ c = NoError
           /\ d = NoError /\ e = NoError /\ f = NoError
<1> DEFINE errs == <<a, b, c, d, e, f>>
<1>1. /\ DOMAIN errs = {1, 2, 3, 4, 5, 6} /\ DOMAIN errs \subseteq Nat
      /\ errs[1] = a /\ errs[2] = b /\ errs[3] = c
      /\ errs[4] = d /\ errs[5] = e /\ errs[6] = f
  OBVIOUS
<1> HIDE DEF errs
<1>2. ASSUME FirstError(errs) = NoError
      PROVE  /\ a = NoError /\ b = NoError /\ c = NoError
             /\ d = NoError /\ e = NoError /\ f = NoError
  BY <1>1, <1>2, NoErrorAnywhere
<1>3. ASSUME a = NoError, b = NoError, c = NoError, d = NoError, e = NoError, f = NoError
      PROVE  FirstError(errs) = NoError
  BY <1>1, <1>3, NoErrorAtAll
<1> QED
  BY <1>2, <1>3 DEF errs

(* NewSigner returns a Signer for exactly the configurations that have an  *)
(* issuer and a strong enough RSA or EC key, in a PEM block that may hold  *)
(* it, with an algorithm of its family: its six checks, in their order,    *)
(* overlap and leave nothing out (NewSigner, parsePrivateKeyPEM,           *)
(* checkKeyMatchesAlgorithm, validateKeyStrength).                         *)
THEOREM NewSignerTakesExactly ==
  ASSUME NEW cfg, cfg.keyPEM.key.bits \in Nat
  PROVE  SignerError(cfg) = NoError <=> Takes(cfg)
<1> DEFINE form == cfg.keyPEM.form
           key == cfg.keyPEM.key
           alg == cfg.algorithm
           iss == cfg.issuer
<1>1. SignerError(cfg) = NoError <=>
        /\ When(iss = "",  "issuer is required") = NoError
        /\ When(form = "", "ErrNoSigningKey") = NoError
        /\ ParseError(cfg.keyPEM) = NoError
        /\ When(alg \notin Algorithms, "ErrUnsupportedAlgorithm") = NoError
        /\ CheckKeyMatchesAlgorithm(key, alg) = NoError
        /\ ValidateKeyStrength(key) = NoError
  <2> DEFINE a == When(iss = "",  "issuer is required")
             b == When(form = "", "ErrNoSigningKey")
             c == ParseError(cfg.keyPEM)
             d == When(alg \notin Algorithms, "ErrUnsupportedAlgorithm")
             e == CheckKeyMatchesAlgorithm(key, alg)
             f == ValidateKeyStrength(key)
  <2>1. SignerError(cfg) = FirstError(<<a, b, c, d, e, f>>)
    BY DEF SignerError
  <2> HIDE DEF a, b, c, d, e, f
  <2>2. SignerError(cfg) = NoError <=>
          /\ a = NoError /\ b = NoError /\ c = NoError
          /\ d = NoError /\ e = NoError /\ f = NoError
    BY <2>1, AllSixPass
  <2> QED
    BY <2>2, Zenon DEF a, b, c, d, e, f
<1>2. /\ When(iss = "", "issuer is required") = NoError <=> iss # ""
      /\ When(form = "", "ErrNoSigningKey") = NoError <=> form # ""
      /\ When(alg \notin Algorithms, "ErrUnsupportedAlgorithm") = NoError <=> alg \in Algorithms
  <2>1. /\ "issuer is required" # NoError /\ "ErrNoSigningKey" # NoError
        /\ "ErrUnsupportedAlgorithm" # NoError
    BY DEF NoError
  <2> QED
    BY <2>1, NotWhen, Zenon
<1> DEFINE rsa == key.kty = "RSA"
           ec == key.kty = "EC"
           strong == key.bits >= 2048
           approved == key.bits \in {256, 384, 521}
           pkcs8 == form = "PRIVATE KEY"
           pkcs1 == form = "RSA PRIVATE KEY"
           sec1 == form = "EC PRIVATE KEY"
           rsaAlg == alg \in RSAAlgorithms
           ecAlg == alg \in ECAlgorithms
<1>3. ParseError(cfg.keyPEM) = NoError <=>
        (pkcs8 /\ (rsa \/ ec)) \/ (pkcs1 /\ rsa) \/ (sec1 /\ ec)
  <2>1. ParseError(cfg.keyPEM) = NoError <=>
          form \in DOMAIN PEMBlocks /\ key.kty \in PEMBlocks[form]
    BY DEF ParseError, When, NoError
  <2>2. form \in DOMAIN PEMBlocks /\ key.kty \in PEMBlocks[form] <=>
          (pkcs8 /\ (rsa \/ ec)) \/ (pkcs1 /\ rsa) \/ (sec1 /\ ec)
    BY DEF PEMBlocks
  <2> QED
    BY <2>1, <2>2, Zenon
<1>4. CheckKeyMatchesAlgorithm(key, alg) = NoError <=> (rsa /\ rsaAlg) \/ (ec /\ ecAlg)
  BY DEF CheckKeyMatchesAlgorithm, When, NoError
<1>5. ValidateKeyStrength(key) = NoError <=> (rsa /\ strong) \/ (ec /\ approved)
  BY DEF ValidateKeyStrength, When, NoError, minRSABits, ApprovedCurves
<1>6. Takes(cfg) <=>
        /\ iss # ""
        /\ \/ rsa /\ strong /\ (pkcs8 \/ pkcs1) /\ rsaAlg
           \/ ec /\ approved /\ (pkcs8 \/ sec1) /\ ecAlg
  <2>1. /\ form \in {"PRIVATE KEY", "RSA PRIVATE KEY"} <=> pkcs8 \/ pkcs1
        /\ form \in {"PRIVATE KEY", "EC PRIVATE KEY"} <=> pkcs8 \/ sec1
    OBVIOUS
  <2>2. Takes(cfg) <=>
          /\ iss # ""
          /\ \/ /\ rsa /\ strong
                /\ form \in {"PRIVATE KEY", "RSA PRIVATE KEY"}
                /\ rsaAlg
             \/ /\ ec /\ approved
                /\ form \in {"PRIVATE KEY", "EC PRIVATE KEY"}
                /\ ecAlg
    BY Zenon DEF Takes
  <2> HIDE DEF form, key, alg, iss, rsa, ec, strong, approved, pkcs8, pkcs1, sec1, rsaAlg, ecAlg
  <2> QED
    BY <2>1, <2>2, Zenon
<1>7. /\ ~ (rsa /\ ec)
      /\ ~ (pkcs8 /\ pkcs1) /\ ~ (pkcs8 /\ sec1) /\ ~ (pkcs1 /\ sec1)
  OBVIOUS
<1>8. pkcs8 \/ pkcs1 \/ sec1 => form # ""
  OBVIOUS
<1>9. rsaAlg \/ ecAlg => alg \in Algorithms
  BY DEF Algorithms
<1> HIDE DEF form, key, alg, iss, rsa, ec, strong, approved, pkcs8, pkcs1, sec1, rsaAlg, ecAlg
<1> QED
  BY <1>1, <1>2, <1>3, <1>4, <1>5, <1>6, <1>7, <1>8, <1>9, Zenon

\* The JWK of a built Signer is one that decodes.
LEMMA BuiltJWKDecodes ==
  ASSUME NEW cfg, Buildable(cfg), NEW alg, NEW kid
  PROVE  LET jwk == PublicJWK(cfg.keyPEM.key, alg, kid) IN
         PublicKeyError(jwk) = NoError /\ jwk.pub # NoKey
<1> DEFINE key == cfg.keyPEM.key
           jwk == PublicJWK(key, alg, kid)
<1>1. jwk.pub = key /\ jwk.kty = key.kty
  BY DEF PublicJWK
<1>2. /\ key.kty \in {"RSA", "EC"}
      /\ key.kty = "EC" => key.bits \in ApprovedCurves
  BY BuiltSigner
<1>3. Garbled.kty = "none" /\ NoKey.kty = "none"
  BY DEF Garbled, NoKey
<1> HIDE DEF key, jwk
<1>4. jwk.pub # Garbled /\ jwk.pub # NoKey
  BY <1>1, <1>2, <1>3
<1>5. PublicKeyError(jwk) = NoError
  BY <1>1, <1>2, <1>4 DEF PublicKeyError, When
<1> QED
  BY <1>4, <1>5 DEF jwk, key

\* The JWK of a built Signer verifies its signatures.
LEMMA OwnJWKVerifies ==
  ASSUME NEW cfg, Buildable(cfg), NEW t,
         t.sig = [key |-> cfg.keyPEM.key, alg |-> cfg.algorithm],
         t.alg = cfg.algorithm
  PROVE  LET jwk == Signer(cfg).jwk IN
         /\ PublicKeyError(jwk) = NoError
         /\ SignatureError(t, jwk) = NoError
         /\ jwk.kid = Signer(cfg).keyID /\ jwk.alg = cfg.algorithm
<1> DEFINE jwk == PublicJWK(cfg.keyPEM.key, cfg.algorithm, cfg.keyID)
           key == cfg.keyPEM.key
<1>1. Signer(cfg).jwk = jwk /\ Signer(cfg).keyID = jwk.kid
  BY DEF Signer
<1>2. jwk.pub = key /\ jwk.kty = key.kty /\ jwk.alg = cfg.algorithm
  BY DEF PublicJWK
<1>3. jwk.pub # NoKey /\ PublicKeyError(jwk) = NoError
  BY BuiltJWKDecodes
<1> HIDE DEF jwk
<1>5. SignatureError(t, jwk) = NoError
  <2>1. /\ jwk.kty = "RSA" => t.alg \in RSAAlgorithms
        /\ jwk.kty = "EC"  => t.alg \in ECAlgorithms
    BY <1>2, BuiltSigner
  <2> QED
    BY <1>2, <1>3, <2>1, SignaturesPassExactly
<1> QED
  BY <1>1, <1>2, <1>3, <1>5 DEF jwk

-----------------------------------------------------------------------------
(* Which requests pass the checks of the Issue methods.                    *)

LEMMA BothPass ==
  ASSUME NEW a, NEW b
  PROVE  FirstError(<<a, b>>) = NoError <=> a = NoError /\ b = NoError
<1> DEFINE errs == <<a, b>>
<1>1. DOMAIN errs = {1, 2} /\ errs[1] = a /\ errs[2] = b /\ DOMAIN errs \subseteq Nat
  OBVIOUS
<1> HIDE DEF errs
<1>2. ASSUME FirstError(errs) = NoError PROVE a = NoError /\ b = NoError
  BY <1>1, <1>2, NoErrorAnywhere
<1>3. ASSUME a = NoError, b = NoError PROVE FirstError(errs) = NoError
  BY <1>1, <1>3, NoErrorAtAll
<1> QED
  BY <1>2, <1>3 DEF errs

LEMMA AllThreePass ==
  ASSUME NEW a, NEW b, NEW d
  PROVE  FirstError(<<a, b, d>>) = NoError <=> a = NoError /\ b = NoError /\ d = NoError
<1> DEFINE errs == <<a, b, d>>
<1>1. /\ DOMAIN errs = {1, 2, 3} /\ DOMAIN errs \subseteq Nat
      /\ errs[1] = a /\ errs[2] = b /\ errs[3] = d
  OBVIOUS
<1> HIDE DEF errs
<1>2. ASSUME FirstError(errs) = NoError PROVE a = NoError /\ b = NoError /\ d = NoError
  BY <1>1, <1>2, NoErrorAnywhere
<1>3. ASSUME a = NoError, b = NoError, d = NoError PROVE FirstError(errs) = NoError
  BY <1>1, <1>3, NoErrorAtAll
<1> QED
  BY <1>2, <1>3 DEF errs

\* The names of errors are not that of no error.
LEMMA ErrorNames ==
  /\ "ErrMissingClaimsKey" # NoError /\ "ErrReservedClaimsKey" # NoError
  /\ "ErrInvalidAssuranceLevel" # NoError /\ "ErrMissingTokenType" # NoError
  /\ "ErrMissingClientID" # NoError /\ "ErrMissingSubject" # NoError
  /\ "ErrMissingAudience" # NoError /\ "json: marshal error" # NoError
  /\ "could not generate jti" # NoError
BY DEF NoError

LEMMA NestedPasses ==
  ASSUME NEW s, NEW key, NEW p
  PROVE  checkNested(s, key, p) = NoError <=>
           /\ ~ (p.kind # "nil" /\ key = "")
           /\ ~ (key # "" /\ (key \in reservedClaimNames \/ key = s.tokenTypeClaim))
           /\ Validate(p) = NoError
<1> DEFINE a == p.kind # "nil" /\ key = ""
           b == key # "" /\ (key \in reservedClaimNames \/ key = s.tokenTypeClaim)
<1>1. /\ When(a, "ErrMissingClaimsKey") = NoError <=> ~ a
      /\ When(b, "ErrReservedClaimsKey") = NoError <=> ~ b
  BY ErrorNames, NotWhen
<1>2. checkNested(s, key, p) =
        FirstError(<<When(a, "ErrMissingClaimsKey"), When(b, "ErrReservedClaimsKey"), Validate(p)>>)
  BY DEF checkNested
<1> HIDE DEF a, b
<1>3. checkNested(s, key, p) = NoError <=> ~ a /\ ~ b /\ Validate(p) = NoError
  BY <1>1, <1>2, AllThreePass
<1> QED
  BY <1>3 DEF a, b

LEMMA BasePasses ==
  ASSUME NEW r
  PROVE  BaseError(r) = NoError <=> ~ ~ r.sub /\ r.aud # {}
<1>1. /\ When(~ r.sub, "ErrMissingSubject") = NoError <=> ~ ~ r.sub
      /\ When(r.aud = {}, "ErrMissingAudience") = NoError <=> ~ (r.aud = {})
  BY ErrorNames, NotWhen
<1> QED
  BY <1>1, BothPass DEF BaseError

LEMMA SignPasses ==
  ASSUME NEW s, NEW r, NEW tc, NEW p
  PROVE  SignError(s, r, tc, p) = NoError <=>
           /\ Nests(tc, p) => /\ tc.variantKey \notin StandardNames(r, tc) \union TypeNames(s, tc)
                              /\ Marshals(p)
           /\ SigningError(s.key, s.algorithm) = NoError
<1> DEFINE a == Nests(tc, p) /\ tc.variantKey \in StandardNames(r, tc) \union TypeNames(s, tc)
           b == Nests(tc, p) /\ ~ Marshals(p)
<1>1. /\ When(a, "ErrReservedClaimsKey") = NoError <=> ~ a
      /\ When(b, "json: marshal error") = NoError <=> ~ b
  BY ErrorNames, NotWhen
<1>2. MarshalError(s, r, tc, p) =
        FirstError(<<When(a, "ErrReservedClaimsKey"), When(b, "json: marshal error")>>)
  BY DEF MarshalError
<1> HIDE DEF a, b
<1>3. MarshalError(s, r, tc, p) = NoError <=> ~ a /\ ~ b
  BY <1>1, <1>2, BothPass
<1>4. SignError(s, r, tc, p) = NoError <=>
        MarshalError(s, r, tc, p) = NoError /\ SigningError(s.key, s.algorithm) = NoError
  BY BothPass DEF SignError
<1> QED
  BY <1>3, <1>4 DEF a, b

-----------------------------------------------------------------------------
(* What a request is made into.                                            *)

\* The dated claims of r when its payload is p and the clock shows t.
Made(s, r, p, t) == Dated(Assemble(r, p), t, TTL(s, r))

KeyOf(r) == IF r.op \in BuiltIns THEN r.op ELSE r.key

LEMMA MadeFields ==
  \A s, r, p, t : /\ Made(s, r, p, t).acr = Acr(r, p)
                  /\ Made(s, r, p, t).tokenType = TokenType(r)
                  /\ Made(s, r, p, t).variantKey = KeyOf(r)
BY DEF Made, Dated, Assemble, KeyOf

LEMMA MadeFilled ==
  \A s, r, p, t : Made(s, r, p, t).filled =
                    IF r.op = "access" THEN {"client_id"} \union r.optional ELSE {}
BY DEF Made, Dated, Assemble

LEMMA MadeTimes ==
  \A s, r, p, t : Made(s, r, p, t).now = t /\ Made(s, r, p, t).ttl = TTL(s, r)
BY DEF Made, Dated, Assemble
=============================================================================
