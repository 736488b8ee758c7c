---------------------------- MODULE ExamplesProofs ----------------------------
(***************************************************************************)
(* The example programs ask for nothing that is refused, and what they     *)
(* print is accepted, for every key they may generate and every clock.     *)
(***************************************************************************)
EXTENDS Examples, VerifierProofs

-----------------------------------------------------------------------------
(* What the programs ask for.                                              *)

\* What an Ask must have for its request to be granted, whoever signs with a
\* Signer that has the default token-type claim.
Grantable(a) ==
  /\ a.aud # {} /\ a.optional \subseteq OptionalClaims
  /\ a.payload.kind # "nil" /\ Marshals(a.payload)
  /\ Validate(a.payload) = NoError
  /\ a.op \in Ops
  /\ a.op = "eidas"  => a.loa \in LoAs
  /\ a.op = "custom" => a.type # ""
  /\ a.op = "access" => a.clientID
  /\ a.op \notin BuiltIns => /\ a.key # "" /\ a.key \notin reservedClaimNames
                             /\ a.key # "token_type"

LEMMA PayloadsAreValid ==
  /\ Validate(acmeClaims) = NoError /\ Validate(person) = NoError
  /\ Validate(citizen) = NoError /\ Validate(company) = NoError
<1>1. Validate(acmeClaims) = NoError
  BY DEF Validate, acmeClaims, When
<1>2. Validate(person) = NoError
  <2>1. Validate(person) = EIDASValidate(person)
    BY DEF Validate, person
  <2>2. /\ When(~ person.PersonIdentifier, "ErrMissingPersonIdentifier") = NoError
        /\ When(~ person.FamilyName, "ErrMissingFamilyName") = NoError
        /\ When(~ person.GivenName, "ErrMissingGivenName") = NoError
        /\ When(person.DateOfBirth = "", "ErrMissingDateOfBirth") = NoError
        /\ When(person.DateOfBirth # "date", "ErrInvalidDateOfBirth") = NoError
    BY DEF person, When
  <2>3. EIDASValidate(person) = FirstError(<<NoError, NoError, NoError, NoError, NoError>>)
    BY <2>2, Zenon DEF EIDASValidate
  <2>4. FirstError(<<NoError, NoError, NoError, NoError, NoError>>) = NoError
    BY DEF FirstError
  <2> QED
    BY <2>1, <2>3, <2>4
<1>3. Validate(citizen) = NoError
  <2>1. Validate(citizen) = DigiDValidate(citizen)
    BY DEF Validate, citizen
  <2>2. /\ When(~ citizen.BSN /\ ~ citizen.Pseudonym, "ErrMissingDigiDIdentifier") = NoError
        /\ When(citizen.AssuranceLevel = "", "ErrMissingDigiDLevel") = NoError
        /\ When(citizen.AssuranceLevel \notin DigiDLevels, "ErrInvalidAssuranceLevel") = NoError
    BY DEF citizen, When, DigiDLevels
  <2>3. DigiDValidate(citizen) = FirstError(<<NoError, NoError, NoError>>)
    BY <2>2, Zenon DEF DigiDValidate
  <2> QED
    BY <2>1, <2>3, AllThreePass
<1>4. Validate(company) = NoError
  <2>1. Validate(company) = EHerkenningValidate(company)
    BY DEF Validate, company
  <2>2. /\ When(~ company.OIN /\ ~ company.KvK /\ ~ company.RSIN, "ErrMissingEHEntity") = NoError
        /\ When(~ company.ActingSubjectID, "ErrMissingEHActingSubject") = NoError
        /\ When(company.AssuranceClass = "", "ErrMissingEHAssurance") = NoError
        /\ When(company.AssuranceClass \notin EHClasses, "ErrInvalidAssuranceLevel") = NoError
    BY DEF company, When, EHClasses
  <2>3. EHerkenningValidate(company) = FirstError(<<NoError, NoError, NoError, NoError>>)
    BY <2>2, Zenon DEF EHerkenningValidate
  <2>4. FirstError(<<NoError, NoError, NoError, NoError>>) = NoError
    BY DEF FirstError
  <2> QED
    BY <2>1, <2>3, <2>4
<1> QED
  BY <1>1, <1>2, <1>3, <1>4

LEMMA AsksAreGrantable ==
  ASSUME NEW d \in DOMAIN Demos, NEW i \in 1..Len(Demos[d].asks)
  PROVE  Grantable(Demos[d].asks[i])
<1> DEFINE portal == [Ask("custom", "acme-portal-api", acmeClaims) EXCEPT
                        !.type = "acme-portal", !.key = "acme-portal"]
           border == [Ask("eidas", "cross-border-service", person) EXCEPT !.loa = "high"]
           digid  == Ask("digid", "citizen-portal", citizen)
           trade  == Ask("eherkenning", "business-portal", company)
           access == [Ask("access", "https://api.example.org", acmeClaims) EXCEPT
                        !.clientID = TRUE, !.acr = "substantial", !.key = "acme-portal",
                        !.optional = {"scope", "roles", "name", "preferred_username"},
                        !.amr = TRUE, !.since = 2 * Minute]
<1>1. Grantable(portal)
  BY PayloadsAreValid DEF Grantable, Ask, acmeClaims, Marshals, OptionalClaims, Ops, BuiltIns,
     reservedClaimNames
<1>2. Grantable(border)
  BY PayloadsAreValid DEF Grantable, Ask, person, Marshals, OptionalClaims, Ops, BuiltIns, LoAs
<1>3. Grantable(digid)
  BY PayloadsAreValid DEF Grantable, Ask, citizen, Marshals, OptionalClaims, Ops, BuiltIns
<1>4. Grantable(trade)
  BY PayloadsAreValid DEF Grantable, Ask, company, Marshals, OptionalClaims, Ops, BuiltIns
<1>5. Grantable(access)
  BY PayloadsAreValid DEF Grantable, Ask, acmeClaims, Marshals, OptionalClaims, Ops, BuiltIns,
     reservedClaimNames
<1>6. Demos[d].asks \in {<<portal, border, digid, trade>>, <<access>>}
  BY DEF Demos, basic, accessToken
<1> HIDE DEF portal, border, digid, trade, access
<1> QED
  BY <1>1, <1>2, <1>3, <1>4, <1>5, <1>6

LEMMA RequestFields ==
  ASSUME NEW a, NEW t
  PROVE  LET r == Request(a, t) IN
         /\ r.op = a.op /\ r.sub /\ r.aud = a.aud /\ r.ttl = 0 /\ r.loa = a.loa
         /\ r.type = a.type /\ r.clientID = a.clientID /\ r.optional = a.optional
         /\ r.key = a.key
BY DEF Request

\* The names of a request's standard claims are reserved.
LEMMA OnlyReservedNames ==
  ASSUME NEW s, NEW a, Grantable(a), NEW t, NEW at
  PROVE  LET r == Request(a, t)
             tc == Made(s, r, a.payload, at)
         IN  /\ StandardNames(r, tc) \subseteq reservedClaimNames
             /\ TypeNames(s, tc) \subseteq {s.tokenTypeClaim}
<1> DEFINE r == Request(a, t)
           tc == Made(s, r, a.payload, at)
<1>1. tc.filled \subseteq OptionalClaims \union {"client_id"}
  <2>1. tc.filled = IF r.op = "access" THEN {"client_id"} \union r.optional ELSE {}
    BY MadeFilled
  <2>2. r.optional \subseteq OptionalClaims
    BY RequestFields DEF Grantable
  <2> QED
    BY <2>1, <2>2
<1> HIDE DEF tc, r
<1>2. StandardNames(r, tc) \subseteq reservedClaimNames
  BY <1>1 DEF StandardNames, OptionalClaims, reservedClaimNames
<1>3. TypeNames(s, tc) \subseteq {s.tokenTypeClaim}
  BY DEF TypeNames
<1> QED
  BY <1>2, <1>3 DEF tc, r

\* Every check of the Issue methods passes.
LEMMA AsksAreGranted ==
  ASSUME NEW s, s.tokenTypeClaim = "token_type", SigningError(s.key, s.algorithm) = NoError,
         NEW a, Grantable(a), NEW t, NEW at
  PROVE  LET r == Request(a, t) IN
         /\ CheckError(s, r, a.payload) = NoError
         /\ BaseError(r) = NoError
         /\ SignError(s, r, Made(s, r, a.payload, at), a.payload) = NoError
<1> DEFINE r == Request(a, t)
           p == a.payload
           tc == Made(s, r, p, at)
<1>1. /\ r.op = a.op /\ r.sub /\ r.aud = a.aud /\ r.loa = a.loa
      /\ r.type = a.type /\ r.clientID = a.clientID /\ r.key = a.key
  BY RequestFields
<1>2. BaseError(r) = NoError
  BY <1>1, BasePasses DEF Grantable
<1>3. Validate(p) = NoError /\ p.kind # "nil"
  BY DEF Grantable
<1>4. a.op \notin BuiltIns => checkNested(s, r.key, p) = NoError
  <2> SUFFICES ASSUME a.op \notin BuiltIns PROVE checkNested(s, r.key, p) = NoError
    OBVIOUS
  <2>1. r.key # "" /\ r.key \notin reservedClaimNames /\ r.key # s.tokenTypeClaim
    BY <1>1 DEF Grantable
  <2> QED
    BY <1>3, <2>1, NestedPasses, Zenon
<1>5. CheckError(s, r, p) = NoError
  <2>1. CASE a.op = "eidas"
    <3>1. CheckError(s, r, p) =
            FirstError(<<When(r.loa \notin LoAs, "ErrInvalidAssuranceLevel"), Validate(p)>>)
      BY <1>1, <2>1 DEF CheckError
    <3>2. When(r.loa \notin LoAs, "ErrInvalidAssuranceLevel") = NoError
      BY <1>1, <2>1, ErrorNames, NotWhen DEF Grantable
    <3> QED
      BY <1>3, <3>1, <3>2, BothPass
  <2>2. CASE a.op \in {"digid", "eherkenning"}
    BY <1>1, <1>3, <2>2 DEF CheckError
  <2>3. CASE a.op = "custom"
    <3>1. CheckError(s, r, p) =
            FirstError(<<When(r.type = "", "ErrMissingTokenType"), checkNested(s, r.key, p)>>)
      BY <1>1, <2>3 DEF CheckError
    <3>2. When(r.type = "", "ErrMissingTokenType") = NoError
      BY <1>1, <2>3, ErrorNames, NotWhen DEF Grantable
    <3>3. checkNested(s, r.key, p) = NoError
      BY <1>4, <2>3 DEF BuiltIns
    <3> QED
      BY <3>1, <3>2, <3>3, BothPass
  <2>4. CASE a.op = "access"
    <3>1. CheckError(s, r, p) =
            FirstError(<<When(~ r.clientID, "ErrMissingClientID"), checkNested(s, r.key, p)>>)
      BY <1>1, <2>4 DEF CheckError
    <3>2. When(~ r.clientID, "ErrMissingClientID") = NoError
      BY <1>1, <2>4, ErrorNames, NotWhen DEF Grantable
    <3>3. checkNested(s, r.key, p) = NoError
      BY <1>4, <2>4 DEF BuiltIns
    <3> QED
      BY <3>1, <3>2, <3>3, BothPass
  <2> QED
    BY <2>1, <2>2, <2>3, <2>4 DEF Grantable, Ops, BuiltIns
<1>6. SignError(s, r, tc, p) = NoError
  <2>1. tc.variantKey \notin reservedClaimNames /\ tc.variantKey # "token_type"
    <3>1. tc.variantKey = IF a.op \in BuiltIns THEN a.op ELSE a.key
      BY <1>1, MadeFields DEF KeyOf
    <3>2. BuiltIns \intersect (reservedClaimNames \union {"token_type"}) = {}
      BY DEF BuiltIns, reservedClaimNames
    <3> QED
      BY <3>1, <3>2 DEF Grantable
  <2>2. tc.variantKey \notin StandardNames(r, tc) \union TypeNames(s, tc)
    BY <2>1, OnlyReservedNames
  <2>3. Marshals(p)
    BY DEF Grantable
  <2> QED
    BY <2>2, <2>3, SignPasses
<1> QED
  BY <1>2, <1>5, <1>6

-----------------------------------------------------------------------------
(* The Signer of a program, and the tokens it signs.                       *)

LEMMA ProgramsAre ==
  ASSUME NEW d \in DOMAIN Demos
  PROVE  /\ Len(Demos[d].asks) \in Nat /\ Len(Demos[d].asks) > 0
         /\ Demos[d].verified \in 1..Len(Demos[d].asks)
         /\ Demos[d].asks[Demos[d].verified].aud = {Demos[d].expectedAudience}
<1> DEFINE portal == [Ask("custom", "acme-portal-api", acmeClaims) EXCEPT
                        !.type = "acme-portal", !.key = "acme-portal"]
           border == [Ask("eidas", "cross-border-service", person) EXCEPT !.loa = "high"]
           digid  == Ask("digid", "citizen-portal", citizen)
           trade  == Ask("eherkenning", "business-portal", company)
           access == [Ask("access", "https://api.example.org", acmeClaims) EXCEPT
                        !.clientID = TRUE, !.acr = "substantial", !.key = "acme-portal",
                        !.optional = {"scope", "roles", "name", "preferred_username"},
                        !.amr = TRUE, !.since = 2 * Minute]
<1>1. border.aud = {"cross-border-service"} /\ access.aud = {"https://api.example.org"}
  BY DEF Ask
<1>2. \/ /\ Demos[d].asks = <<portal, border, digid, trade>>
         /\ Demos[d].verified = 2 /\ Demos[d].expectedAudience = "cross-border-service"
      \/ /\ Demos[d].asks = <<access>>
         /\ Demos[d].verified = 1 /\ Demos[d].expectedAudience = "https://api.example.org"
  BY DEF Demos, basic, accessToken
<1> HIDE DEF portal, border, digid, trade, access
<1>3. CASE Demos[d].asks = <<access>>
  <2>1. Len(Demos[d].asks) = 1
    BY <1>3
  <2> QED
    BY <1>1, <1>2, <1>3, <2>1
<1>4. CASE Demos[d].asks = <<portal, border, digid, trade>>
  <2>1. Len(Demos[d].asks) = 4
    BY <1>4
  <2> QED
    BY <1>1, <1>2, <1>4, <2>1
<1> QED
  BY <1>2, <1>3, <1>4

LEMMA ConfigBuilds ==
  /\ Buildable(Config)
  /\ SignerError(Config) = NoError
<1> DEFINE cfg == Config
<1>1. /\ cfg.issuer = issuer /\ cfg.keyPEM.form = "PRIVATE KEY" /\ cfg.keyPEM.key = DemoKey
      /\ cfg.algorithm = "RS256"
  BY DEF Config
<1> DEFINE key == cfg.keyPEM.key
<1>2. key.kty = "RSA" /\ key.bits = 2048
  <2>1. key = DemoKey
    BY <1>1, Zenon
  <2>2. DemoKey.kty = "RSA" /\ DemoKey.bits = 2048
    BY DemoKeyAssumption
  <2> HIDE DEF key
  <2> QED
    BY <2>1, <2>2
<1> HIDE DEF cfg, key
<1>3. When(cfg.issuer = "", "issuer is required") = NoError
  BY <1>1 DEF When, issuer
<1>4. When(cfg.keyPEM.form = "", "ErrNoSigningKey") = NoError
  BY <1>1 DEF When
<1>5. ParseError(cfg.keyPEM) = NoError
  <2>1. PEMBlocks["PRIVATE KEY"] = {"RSA", "EC"} /\ "PRIVATE KEY" \in DOMAIN PEMBlocks
    BY DEF PEMBlocks
  <2>2. /\ cfg.keyPEM.form \in DOMAIN PEMBlocks
        /\ cfg.keyPEM.key.kty \in PEMBlocks[cfg.keyPEM.form]
    <3>1. key.kty \in {"RSA", "EC"}
      BY <1>2
    <3> QED
      BY <1>1, <2>1, <3>1, Zenon DEF key
  <2> QED
    BY <2>2, Zenon DEF ParseError, When
<1>6. When(cfg.algorithm \notin Algorithms, "ErrUnsupportedAlgorithm") = NoError
  BY <1>1 DEF When, Algorithms, RSAAlgorithms
<1>7. CheckKeyMatchesAlgorithm(cfg.keyPEM.key, cfg.algorithm) = NoError
  <2>1. CheckKeyMatchesAlgorithm(key, cfg.algorithm) = NoError
    <3>1. When(cfg.algorithm \notin RSAAlgorithms, "ErrKeyAlgorithmMismatch") = NoError
      BY <1>1 DEF When, RSAAlgorithms
    <3> QED
      BY <1>2, <3>1 DEF CheckKeyMatchesAlgorithm
  <2> QED
    BY <2>1 DEF key
<1>8. ValidateKeyStrength(cfg.keyPEM.key) = NoError
  <2>1. ValidateKeyStrength(key) = NoError
    BY <1>2 DEF ValidateKeyStrength, When, minRSABits
  <2> QED
    BY <2>1 DEF key
<1>9. SignerError(cfg) = FirstError(<<NoError, NoError, NoError, NoError, NoError, NoError>>)
  BY <1>3, <1>4, <1>5, <1>6, <1>7, <1>8, Zenon DEF SignerError
<1>10. FirstError(<<NoError, NoError, NoError, NoError, NoError, NoError>>) = NoError
  BY DEF FirstError
<1> QED
  BY <1>9, <1>10 DEF Buildable, cfg

\* The Signer a program works with, and the JWK it publishes.
OurSigner(s) ==
  /\ s.key = DemoKey /\ s.algorithm = "RS256" /\ s.issuer = issuer
  /\ s.defaultTTL = TTLOption /\ s.tokenTypeClaim = "token_type"
  /\ s.keyID = s.jwk.kid /\ s.jwk.alg = "RS256" /\ s.jwk.pub = DemoKey
  /\ s.jwk.kty = "RSA" /\ PublicKeyError(s.jwk) = NoError
  /\ s # NoSigner /\ s.jwk.kid # ""

LEMMA BuiltIsOurs == OurSigner(Signer(Config))
<1> DEFINE s == Signer(Config)
<1>1. /\ s.key = DemoKey /\ s.algorithm = "RS256" /\ s.issuer = issuer
      /\ s.defaultTTL = TTLOption /\ s.tokenTypeClaim = "token_type"
      /\ s.keyID = s.jwk.kid /\ s.jwk.alg = "RS256"
      /\ s.jwk.pub = DemoKey /\ s.jwk.kty = DemoKey.kty
  BY DEF Signer, Config, PublicJWK
<1>2. s.keyID = Thumbprint[DemoKey]
  BY DEF Signer, Config, PublicJWK
<1>3. Thumbprint[DemoKey] # ""
  <2>1. DemoKey \in Keys
    BY DemoKeyAssumption
  <2>2. Thumbprint[DemoKey] \in STRING \ {""}
    BY <2>1, ThumbprintAssumption, Zenon
  <2> QED
    BY <2>2, Zenon
<1>4. s.jwk.kty = "RSA" /\ PublicKeyError(s.jwk) = NoError
  <2>1. s.jwk.kty = "RSA" /\ s.jwk.pub.kty = "RSA"
    BY <1>1, DemoKeyAssumption
  <2>2. Garbled.kty # "RSA"
    BY DEF Garbled
  <2> HIDE DEF s
  <2>3. s.jwk.pub # Garbled
    BY <2>1, <2>2
  <2> QED
    BY <2>1, <2>3 DEF PublicKeyError, When
<1>5. s # NoSigner
  <2>1. NoSigner.keyID = ""
    BY DEF NoSigner
  <2> QED
    BY <1>2, <1>3, <2>1, Zenon
<1> HIDE DEF s
<1>6. s.jwk.kid # ""
  BY <1>1, <1>2, <1>3, Zenon
<1> QED
  BY <1>1, <1>4, <1>5, <1>6, Zenon DEF OurSigner, s

LEMMA OursSigns ==
  ASSUME NEW s, OurSigner(s)
  PROVE  SigningError(s.key, s.algorithm) = NoError
BY DEF OurSigner, SigningError, When, ECAlgorithms

\* The token for a, asked for at t and dated at.
TokenFor(s, a, t, at) ==
  LET r == Request(a, t) IN Sign(s, r, Made(s, r, a.payload, at), a.payload)

\* What a token says.
Says(token, s, a, at) ==
  /\ token.kid = s.keyID /\ token.alg = "RS256"
  /\ token.sig = [key |-> DemoKey, alg |-> "RS256"]
  /\ token.exp \in Int /\ token.exp <= at + TTLOption
  /\ at + TTLOption < token.exp + TicksPerSecond
  /\ token.nbf \in Int /\ token.nbf <= at
  /\ token.iss = issuer /\ token.aud = a.aud
  /\ ~ Overwritten(token, "exp") /\ ~ Overwritten(token, "nbf")
  /\ ~ Overwritten(token, "iss") /\ ~ Overwritten(token, "aud")

LEMMA TokenSays ==
  ASSUME NEW s, OurSigner(s), NEW a, Grantable(a), NEW t, NEW at \in Nat
  PROVE  Says(TokenFor(s, a, t, at), s, a, at)
<1> DEFINE r == Request(a, t)
           tc == Made(s, r, a.payload, at)
           token == TokenFor(s, a, t, at)
<1>1. token = Sign(s, r, tc, a.payload)
  BY DEF TokenFor
<1>2. tc.now = at /\ tc.ttl = TTLOption
  <2>1. TTL(s, r) = TTLOption
    <3>1. r.ttl = 0 /\ s.defaultTTL = TTLOption
      BY RequestFields DEF OurSigner
    <3> HIDE DEF r
    <3> QED
      BY <3>1 DEF TTL
  <2> QED
    BY <2>1, MadeTimes
<1>t. ASSUME NEW name \in {"exp", "nbf", "iss", "aud"} PROVE name \notin TypeNames(s, tc)
  <2>1. name # "token_type" /\ s.tokenTypeClaim = "token_type"
    BY DEF OurSigner
  <2> QED
    BY <2>1, OnlyReservedNames
<1>u. /\ "iss" \notin TypeNames(s, tc) /\ "aud" \notin TypeNames(s, tc)
      /\ "nbf" \notin TypeNames(s, tc) /\ "exp" \notin TypeNames(s, tc)
  <2> HIDE DEF tc
  <2> QED
    BY <1>t
<1>3. /\ token.exp = NumericDate(at + TTLOption) /\ token.nbf = NumericDate(at)
      /\ token.iss = s.issuer /\ token.aud = r.aud
  <2> HIDE DEF tc, r, token
  <2>1. /\ token.exp = NumericDate(tc.now + tc.ttl) /\ token.nbf = NumericDate(tc.now)
        /\ token.iss = s.issuer /\ token.aud = r.aud
    BY <1>1, <1>u, ClaimsStand
  <2> QED
    BY <1>2, <2>1
<1>4. at \in Int /\ at + TTLOption \in Int
  BY TimeAssumption DEF TTLOption, Minute
<1>5. /\ token.exp \in Int /\ token.exp <= at + TTLOption
      /\ at + TTLOption < token.exp + TicksPerSecond
      /\ token.nbf \in Int /\ token.nbf <= at
  BY <1>3, <1>4, WholeSeconds
<1>6. ASSUME NEW name \in {"exp", "nbf", "iss", "aud"} PROVE ~ Overwritten(token, name)
  <2>1. name \in StandardNames(r, tc)
    BY DEF StandardNames
  <2> QED
    BY <1>1, <1>t, <2>1, KeptClaim
<1>7. /\ token.kid = s.keyID /\ token.alg = "RS256"
      /\ token.sig = [key |-> DemoKey, alg |-> "RS256"]
      /\ token.iss = issuer /\ token.aud = a.aud
  <2>1. /\ s.key = DemoKey /\ s.algorithm = "RS256" /\ s.issuer = issuer /\ r.aud = a.aud
    BY RequestFields DEF OurSigner
  <2> HIDE DEF r, tc, token
  <2>2. /\ token.kid = s.keyID /\ token.alg = s.algorithm
        /\ token.sig = [key |-> s.key, alg |-> s.algorithm]
    BY <1>1 DEF Sign
  <2> QED
    BY <1>3, <2>1, <2>2
<1> QED
  BY <1>5, <1>6, <1>7 DEF Says

\* A Verifier on the published JWKS takes it until it expires, and says so then.
LEMMA OnlyTimeDecides ==
  ASSUME NEW s, OurSigner(s), NEW a, NEW token, NEW at \in Nat, Says(token, s, a, at),
         NEW aud \in a.aud, NEW time \in Nat, at <= time
  PROVE  /\ NewVerifierError(<<s.jwk>>) = NoError
         /\ VerifyError(NewVerifier(<<s.jwk>>, issuer, aud), token, time) =
              When(time >= token.exp, "jwt.ErrTokenExpired")
<1> DEFINE jwks == <<s.jwk>>
           v == NewVerifier(jwks, issuer, aud)
<1>1. 1 \in Nat /\ DOMAIN jwks = 1..1 /\ jwks[1] = s.jwk
  OBVIOUS
<1>2. Clean(jwks)
  <2>1. s.jwk.kid # "" /\ s.jwk.alg # ""
    BY DEF OurSigner
  <2> HIDE DEF jwks
  <2>2. \A i \in DOMAIN jwks : i = 1
    BY <1>1
  <2> QED
    BY <1>1, <2>1, <2>2, Zenon DEF Clean
<1> HIDE DEF jwks
<1>3. NewVerifierError(jwks) = NoError
  BY <1>1, <1>2, CleanSetsOnly
<1>4. jwks[1].kid \in DOMAIN v.keys /\ v.keys[jwks[1].kid] = jwks[1] /\ jwks[1].alg \in v.allowedAlgs
  <2>1. DOMAIN jwks \subseteq Nat /\ 1 \in DOMAIN jwks
    BY <1>1
  <2> QED
    BY <1>2, <2>1, SnapshotFinds
<1>5. v.expectedIssuer = issuer /\ v.expectedAudience = aud
  BY DEF NewVerifier
<1> HIDE DEF v
<1>6. token.kid \in DOMAIN v.keys /\ token.alg \in v.allowedAlgs /\ v.keys[token.kid] = s.jwk
  BY <1>1, <1>4 DEF OurSigner, Says
<1>7. PublicKeyError(s.jwk) = NoError /\ SignatureError(token, s.jwk) = NoError
  <2>1. SignatureValid(token.sig, s.jwk.pub, token.alg)
    BY DEF OurSigner, Says, SignatureValid
  <2>2. s.jwk.pub = DemoKey /\ token.alg = "RS256"
    BY DEF OurSigner, Says
  <2>3. s.jwk.kty = "RSA" /\ s.jwk.pub # NoKey
    <3>1. DemoKey.kty = "RSA" /\ NoKey.kty = "none"
      BY DemoKeyAssumption DEF NoKey
    <3> QED
      BY <3>1 DEF OurSigner
  <2>4. SignatureError(token, s.jwk) = NoError
    BY <2>1, <2>2, <2>3 DEF SignatureError, When, RSAAlgorithms
  <2> QED
    BY <2>4 DEF OurSigner
<1>8. VerifyError(v, token, time) = ClaimsError(v, token, time)
  BY <1>6, <1>7, ClaimsDecide
<1>9. ~ (time < token.nbf)
  <2>1. token.nbf \in Int /\ token.nbf <= at
    BY DEF Says
  <2> QED
    BY <2>1
<1>10. v.expectedIssuer \in {"", token.iss} /\ v.expectedAudience \in {""} \union token.aud
  BY <1>5, Zenon DEF Says
<1>11. ClaimsError(v, token, time) = When(time >= token.exp, "jwt.ErrTokenExpired")
  BY <1>9, <1>10, OnlyExpiryFails DEF Says
<1> QED
  BY <1>3, <1>8, <1>11 DEF jwks, v

-----------------------------------------------------------------------------
(* The inductive invariant: what is printed is a token for each ask so far *)
(* by the program's own Signer, dated no later than now.                   *)

Prints(s, a) == {[token |-> TokenFor(s, a, t, at), at |-> at] : t \in Times, at \in Times}

AllPrints(s) == UNION {Prints(s, Program.asks[i]) : i \in 1..Len(Program.asks)}

PrintedInv ==
  /\ printed \in Seq(AllPrints(signer))
  /\ Len(printed) <= Len(Program.asks)
  /\ \A i \in 1..Len(printed) :
       printed[i] \in Prints(signer, Program.asks[i]) /\ printed[i].at <= now
  /\ printed # << >> => OurSigner(signer)

StepInv ==
  /\ demo \in DOMAIN Demos /\ now \in Times /\ composed \in Times \union {0}
  /\ pc \in {"build", "compose", "issue", "verify", "returned", "fatal"}
  /\ err # NoError <=> pc = "fatal"
  /\ pc \in {"compose", "issue", "verify", "returned"} => OurSigner(signer)
  /\ pc = "build" => printed = << >>
  /\ pc = "issue" => composed \in Times
  /\ pc \in {"compose", "issue"} => Len(printed) < Len(Program.asks)
  /\ pc \in {"verify", "returned"} => Len(printed) = Len(Program.asks)

ByChance == err \in {"generate key", "could not generate jti"}

TooLate ==
  /\ err = "jwt.ErrTokenExpired"
  /\ Len(printed) = Len(Program.asks)
  /\ now + TicksPerSecond > printed[Program.verified].at + TTLOption

FatalInv == pc = "fatal" => ByChance \/ TooLate

IInv == PrintedInv /\ StepInv /\ FatalInv

LEMMA ProgramFacts ==
  ASSUME demo \in DOMAIN Demos
  PROVE  /\ Len(Program.asks) \in Nat /\ Len(Program.asks) > 0
         /\ Program.verified \in 1..Len(Program.asks)
         /\ Program.asks[Program.verified].aud = {Program.expectedAudience}
         /\ \A i \in 1..Len(Program.asks) : Grantable(Program.asks[i])
BY ProgramsAre, AsksAreGrantable DEF Program

LEMMA InitIInv == Init => IInv
<1> SUFFICES ASSUME Init PROVE IInv
  OBVIOUS
<1>1. printed = << >> /\ Len(printed) = 0 /\ printed \in Seq(AllPrints(signer))
  BY DEF Init
<1>2. PrintedInv
  BY <1>1, ProgramFacts DEF Init, PrintedInv
<1>3. StepInv /\ FatalInv
  BY DEF Init, StepInv, FatalInv
<1> QED
  BY <1>2, <1>3 DEF IInv

\* log.Fatalf leaves everything but pc and err as it was.
LEMMA FatalKeeps ==
  ASSUME IInv, NEW e, e # NoError, Fatal(e),
         (e \in {"generate key", "could not generate jti"}) \/
         (/\ e = "jwt.ErrTokenExpired" /\ Len(printed) = Len(Program.asks)
          /\ now + TicksPerSecond > printed[Program.verified].at + TTLOption)
  PROVE  IInv'
<1>1. /\ pc' = "fatal" /\ err' = e /\ demo' = demo /\ now' = now /\ signer' = signer
      /\ composed' = composed /\ printed' = printed
  BY DEF Fatal
<1>2. Program' = Program /\ AllPrints(signer)' = AllPrints(signer)
  BY <1>1 DEF Program, AllPrints
<1>3. PrintedInv'
  BY <1>1, <1>2 DEF IInv, PrintedInv
<1>4. StepInv'
  BY <1>1, <1>2 DEF IInv, StepInv
<1>5. FatalInv'
  BY <1>1, <1>2 DEF FatalInv, ByChance, TooLate
<1> QED
  BY <1>3, <1>4, <1>5 DEF IInv

LEMMA BuildKeeps == ASSUME IInv, Build PROVE IInv'
<1> DEFINE refused == FirstError(<<SignerError(Config), NewServiceError(Signer(Config))>>)
<1>r. refused = NoError
  <2>1. SignerError(Config) = NoError
    BY ConfigBuilds DEF Buildable
  <2>2. NewServiceError(Signer(Config)) = NoError
    BY BuiltIsOurs DEF OurSigner, NewServiceError, When
  <2> QED
    BY <2>1, <2>2, BothPass
<1>s. \/ \E e \in {"generate key", refused} \ {NoError} : Fatal(e)
      \/ /\ signer' = Signer(Config) /\ pc' = "compose"
         /\ UNCHANGED <<demo, now, composed, printed, err>>
  BY DEF Build
<1> HIDE DEF refused
<1>1. ASSUME NEW e \in {"generate key", refused} \ {NoError}, Fatal(e) PROVE IInv'
  <2>1. e = "generate key" /\ e # NoError
    BY <1>r
  <2> QED
    BY <1>1, <2>1, FatalKeeps
<1>2. CASE /\ signer' = Signer(Config) /\ pc' = "compose"
           /\ UNCHANGED <<demo, now, composed, printed, err>>
  <2>1. OurSigner(signer')
    BY <1>2, BuiltIsOurs
  <2>2. Program' = Program
    BY <1>2 DEF Program
  <2>3. printed' = << >> /\ Len(printed') = 0 /\ printed' \in Seq(AllPrints(signer)')
    <3>1. printed' = << >>
      BY <1>2 DEF Build, IInv, StepInv
    <3> QED
      BY <3>1
  <2>4. PrintedInv'
    BY <2>2, <2>3, ProgramFacts DEF PrintedInv, IInv, StepInv
  <2>5. StepInv'
    BY <1>2, <2>1, <2>2, <2>3, ProgramFacts DEF Build, IInv, StepInv
  <2>6. FatalInv'
    BY <1>2 DEF FatalInv
  <2> QED
    BY <2>4, <2>5, <2>6 DEF IInv
<1> QED
  BY <1>s, <1>1, <1>2

LEMMA ComposeKeeps == ASSUME IInv, Compose PROVE IInv'
<1>1. /\ composed' = now /\ pc' = "issue" /\ demo' = demo /\ now' = now /\ signer' = signer
      /\ printed' = printed /\ err' = err /\ pc = "compose"
  BY DEF Compose
<1>2. Program' = Program /\ AllPrints(signer)' = AllPrints(signer)
  BY <1>1 DEF Program, AllPrints
<1>3. PrintedInv'
  BY <1>1, <1>2 DEF IInv, PrintedInv
<1>4. StepInv'
  BY <1>1, <1>2 DEF IInv, StepInv
<1>5. FatalInv'
  BY <1>1 DEF FatalInv
<1> QED
  BY <1>3, <1>4, <1>5 DEF IInv

\* An Issue call of a program fails only when its jti cannot be generated.
LEMMA OnlyTheJti ==
  ASSUME OurSigner(signer), NEW a, Grantable(a), NEW t, NEW at
  PROVE  IssueErrors(Request(a, t), Made(signer, Request(a, t), a.payload, at), a.payload)
           = {"could not generate jti"}
<1> DEFINE r == Request(a, t)
           tc == Made(signer, r, a.payload, at)
           refused == FirstError(<<CheckError(signer, r, a.payload), BaseError(r)>>)
<1>1. /\ CheckError(signer, r, a.payload) = NoError /\ BaseError(r) = NoError
      /\ SignError(signer, r, tc, a.payload) = NoError
  BY AsksAreGranted, OursSigns DEF OurSigner
<1>2. refused = NoError
  BY <1>1, BothPass
<1>3. {"could not generate jti", NoError} \ {NoError} = {"could not generate jti"}
  BY DEF NoError
<1> HIDE DEF r, tc
<1>4. IssueErrors(r, tc, a.payload) =
        {"could not generate jti", SignError(signer, r, tc, a.payload)} \ {NoError}
  BY <1>2, Zenon DEF IssueErrors
<1> QED
  BY <1>1, <1>3, <1>4 DEF r, tc

LEMMA IssueKeeps == ASSUME IInv, Issue PROVE IInv'
<1> DEFINE n == Len(printed)
           a == Program.asks[n + 1]
           r == Request(a, composed)
           tc == Dated(Assemble(r, a.payload), now, TTL(signer, r))
           rec == [token |-> Sign(signer, r, tc, a.payload), at |-> now]
<1>1. /\ pc = "issue" /\ OurSigner(signer) /\ composed \in Times /\ now \in Times
      /\ demo \in DOMAIN Demos /\ printed \in Seq(AllPrints(signer))
      /\ n < Len(Program.asks)
  BY DEF Issue, IInv, StepInv, PrintedInv
<1>2. n \in Nat /\ n + 1 \in 1..Len(Program.asks) /\ Grantable(a)
  <2>1. n \in Nat /\ Len(Program.asks) \in Nat
    BY <1>1, ProgramFacts
  <2>2. n + 1 \in 1..Len(Program.asks)
    BY <1>1, <2>1
  <2> QED
    BY <1>1, <2>1, <2>2, ProgramFacts
<1>3. tc = Made(signer, r, a.payload, now)
  BY DEF Made
<1>4. IssueErrors(r, tc, a.payload) = {"could not generate jti"}
  BY <1>1, <1>2, <1>3, OnlyTheJti
<1>5. rec \in Prints(signer, a)
  <2>1. rec = [token |-> TokenFor(signer, a, composed, now), at |-> now]
    BY <1>3 DEF TokenFor
  <2> QED
    BY <1>1, <2>1 DEF Prints
<1>6. rec \in AllPrints(signer) /\ rec.at = now
  BY <1>2, <1>5 DEF AllPrints
<1>7. \/ \E e \in IssueErrors(r, tc, a.payload) : Fatal(e)
      \/ /\ printed' = Append(printed, rec)
         /\ pc' = IF Len(printed') < Len(Program.asks) THEN "compose" ELSE "verify"
         /\ UNCHANGED <<demo, now, signer, composed, err>>
  BY DEF Issue
<1> HIDE DEF a, r, tc, rec
<1>8. CASE \E e \in IssueErrors(r, tc, a.payload) : Fatal(e)
  <2>1. Fatal("could not generate jti")
    BY <1>4, <1>8
  <2>2. "could not generate jti" # NoError
    BY DEF NoError
  <2> QED
    BY <2>1, <2>2, FatalKeeps
<1>9. CASE /\ printed' = Append(printed, rec)
           /\ pc' = IF Len(printed') < Len(Program.asks) THEN "compose" ELSE "verify"
           /\ UNCHANGED <<demo, now, signer, composed, err>>
  <2>1. Program' = Program /\ AllPrints(signer)' = AllPrints(signer)
    BY <1>9 DEF Program, AllPrints
  <2>2. /\ printed' \in Seq(AllPrints(signer)) /\ Len(printed') = n + 1
        /\ \A i \in 1..(n + 1) : printed'[i] = IF i <= n THEN printed[i] ELSE rec
    <3> DEFINE S == AllPrints(signer)
    <3> HIDE DEF S
    <3>1. printed \in Seq(S) /\ rec \in S /\ printed' = Append(printed, rec)
      BY <1>1, <1>6, <1>9 DEF S
    <3>2. printed' \in Seq(S) /\ Len(printed') = n + 1
      BY <3>1
    <3>3. \A i \in 1..(n + 1) : printed'[i] = IF i <= n THEN printed[i] ELSE rec
      BY <3>1
    <3> QED
      BY <3>2, <3>3 DEF S
  <2>3. ASSUME NEW i \in 1..(n + 1)
        PROVE  printed'[i] \in Prints(signer, Program.asks[i]) /\ printed'[i].at <= now
    <3>1. CASE i <= n
      <4>1. i \in 1..n
        BY <1>2, <3>1
      <4> QED
        BY <2>2, <3>1, <4>1 DEF IInv, PrintedInv
    <3>2. CASE ~ (i <= n)
      <4>1. i = n + 1
        BY <1>2, <3>2
      <4>2. printed'[i] = rec
        BY <2>2, <3>2
      <4>3. now \in Nat
        BY <1>1, TimesAssumption
      <4> QED
        BY <1>5, <1>6, <4>1, <4>2, <4>3 DEF a
    <3> QED
      BY <3>1, <3>2
  <2>4. PrintedInv'
    <3>1. n + 1 <= Len(Program.asks)
      BY <1>1, <1>2, ProgramFacts
    <3>2. signer' = signer /\ now' = now
      BY <1>9
    <3> HIDE DEF n
    <3> QED
      BY <1>1, <2>1, <2>2, <2>3, <3>1, <3>2 DEF PrintedInv, Prints
  <2>5. StepInv'
    <3>1. /\ demo' = demo /\ now' = now /\ composed' = composed /\ err' = err
          /\ signer' = signer /\ err = NoError
      BY <1>1, <1>9 DEF IInv, StepInv
    <3>2. Len(Program.asks) \in Nat
      BY <1>1, ProgramFacts
    <3>3. \/ pc' = "compose" /\ Len(printed') < Len(Program.asks)
          \/ pc' = "verify" /\ Len(printed') = Len(Program.asks)
      BY <1>1, <1>2, <1>9, <2>2, <3>2
    <3> HIDE DEF n
    <3> QED
      BY <1>1, <2>1, <3>1, <3>3 DEF StepInv
  <2>6. FatalInv'
    BY <1>9 DEF FatalInv
  <2> QED
    BY <2>4, <2>5, <2>6 DEF IInv
<1> QED
  BY <1>7, <1>8, <1>9

\* What a Verifier for one of its audiences makes of a printed token.
LEMMA PrintedIsGood ==
  ASSUME IInv, NEW i \in 1..Len(printed), NEW aud \in Program.asks[i].aud
  PROVE  /\ printed[i].at \in Nat /\ now \in Nat
         /\ NewVerifierError(JWKS) = NoError
         /\ \/ VerifyError(NewVerifier(JWKS, issuer, aud), printed[i].token, now) = NoError
            \/ /\ VerifyError(NewVerifier(JWKS, issuer, aud), printed[i].token, now)
                    = "jwt.ErrTokenExpired"
               /\ now + TicksPerSecond > printed[i].at + TTLOption
<1> DEFINE a == Program.asks[i]
           token == printed[i].token
           at == printed[i].at
<1>1. /\ demo \in DOMAIN Demos /\ now \in Nat /\ Len(printed) <= Len(Program.asks)
      /\ Len(printed) \in Nat /\ OurSigner(signer)
      /\ printed[i] \in Prints(signer, a) /\ at <= now
  <2>1. printed # << >> /\ Len(printed) \in Nat
    BY DEF IInv, PrintedInv
  <2> QED
    BY <2>1, TimesAssumption DEF IInv, PrintedInv, StepInv
<1>2. Grantable(a)
  <2>1. i \in 1..Len(Program.asks)
    BY <1>1, ProgramFacts
  <2> QED
    BY <1>1, <2>1, ProgramFacts
<1>3. PICK t \in Times, at2 \in Times :
        printed[i] = [token |-> TokenFor(signer, a, t, at2), at |-> at2]
  BY <1>1 DEF Prints
<1>4. at = at2 /\ at \in Nat /\ token = TokenFor(signer, a, t, at)
  BY <1>3, TimesAssumption
<1>5. Says(token, signer, a, at)
  BY <1>1, <1>2, <1>4, TokenSays
<1> HIDE DEF a, token, at
<1>6. /\ NewVerifierError(JWKS) = NoError
      /\ VerifyError(NewVerifier(JWKS, issuer, aud), token, now) =
           When(now >= token.exp, "jwt.ErrTokenExpired")
  <2>1. aud \in a.aud
    BY DEF a
  <2> QED
    BY <1>1, <1>4, <1>5, <2>1, OnlyTimeDecides DEF JWKS, at
<1>7. CASE now >= token.exp
  <2>1. When(now >= token.exp, "jwt.ErrTokenExpired") = "jwt.ErrTokenExpired"
    BY <1>7, Zenon DEF When
  <2>2. /\ token.exp \in Int /\ at + TTLOption < token.exp + TicksPerSecond
        /\ TTLOption \in Nat /\ TicksPerSecond \in Nat
    BY <1>5, TimeAssumption DEF Says, TTLOption, Minute
  <2>3. now + TicksPerSecond > at + TTLOption
    BY <1>1, <1>4, <1>7, <2>2
  <2> QED
    BY <1>1, <1>4, <1>6, <2>1, <2>3 DEF token, at
<1>8. CASE ~ (now >= token.exp)
  <2>1. When(now >= token.exp, "jwt.ErrTokenExpired") = NoError
    BY <1>8, Zenon DEF When
  <2> QED
    BY <1>1, <1>4, <1>6, <2>1 DEF token, at
<1> QED
  BY <1>7, <1>8

LEMMA VerifyKeeps == ASSUME IInv, Verify PROVE IInv'
<1> DEFINE v == NewVerifier(JWKS, issuer, Program.expectedAudience)
           e == FirstError(<<NewVerifierError(JWKS), VerifyError(v, verifiedToken, now)>>)
           k == Program.verified
<1>1. /\ pc = "verify" /\ demo \in DOMAIN Demos /\ Len(printed) = Len(Program.asks)
      /\ k \in 1..Len(printed) /\ Program.expectedAudience \in Program.asks[k].aud
  BY ProgramFacts DEF Verify, IInv, StepInv
<1>2. /\ NewVerifierError(JWKS) = NoError
      /\ \/ VerifyError(v, verifiedToken, now) = NoError
         \/ /\ VerifyError(v, verifiedToken, now) = "jwt.ErrTokenExpired"
            /\ now + TicksPerSecond > printed[k].at + TTLOption
  BY <1>1, PrintedIsGood DEF verifiedToken
<1>3. (e # NoError /\ Fatal(e)) \/ (e = NoError /\ pc' = "returned"
        /\ UNCHANGED <<demo, now, signer, composed, printed, err>>)
  BY DEF Verify
<1>4. CASE e # NoError /\ Fatal(e)
  <2>1. /\ e = "jwt.ErrTokenExpired"
        /\ now + TicksPerSecond > printed[k].at + TTLOption
    <3>1. VerifyError(v, verifiedToken, now) # NoError
      BY <1>2, <1>4, BothPass
    <3>2. VerifyError(v, verifiedToken, now) = "jwt.ErrTokenExpired"
      BY <1>2, <3>1
    <3>3. e = "jwt.ErrTokenExpired"
      BY <1>2, <3>1, <3>2, SecondOfTwo
    <3> QED
      BY <1>2, <3>1, <3>3
  <2> HIDE DEF e
  <2> QED
    BY <1>1, <1>4, <2>1, FatalKeeps
<1>5. CASE /\ e = NoError /\ pc' = "returned"
           /\ UNCHANGED <<demo, now, signer, composed, printed, err>>
  <2>1. Program' = Program /\ AllPrints(signer)' = AllPrints(signer)
    BY <1>5 DEF Program, AllPrints
  <2>2. PrintedInv'
    BY <1>5, <2>1 DEF IInv, PrintedInv
  <2>3. StepInv'
    BY <1>1, <1>5, <2>1 DEF IInv, StepInv
  <2>4. FatalInv'
    BY <1>5 DEF FatalInv
  <2> QED
    BY <2>2, <2>3, <2>4 DEF IInv
<1> QED
  BY <1>3, <1>4, <1>5

LEMMA StillLater ==
  ASSUME NEW a \in Nat, NEW b \in Nat, NEW c \in Nat, NEW e \in Int, b > a, a + c > e
  PROVE  b + c > e
OBVIOUS

LEMMA TickKeeps == ASSUME IInv, Tick PROVE IInv'
<1>1. /\ now' \in Times /\ now' > now /\ demo' = demo /\ pc' = pc /\ signer' = signer
      /\ composed' = composed /\ printed' = printed /\ err' = err
  BY DEF Tick
<1>2. Program' = Program /\ AllPrints(signer)' = AllPrints(signer)
  BY <1>1 DEF Program, AllPrints
<1>3. now \in Nat /\ now' \in Nat
  BY <1>1, TimesAssumption DEF IInv, StepInv
<1>4. \A i \in 1..Len(printed) : printed[i].at \in Nat
  <2>1. \A i \in 1..Len(printed) : printed[i] \in Prints(signer, Program.asks[i])
    BY DEF IInv, PrintedInv
  <2> QED
    BY <2>1, TimesAssumption DEF Prints
<1>5. PrintedInv'
  <2>1. ASSUME NEW i \in 1..Len(printed)
        PROVE  printed[i] \in Prints(signer, Program.asks[i]) /\ printed[i].at <= now'
    <3>1. printed[i].at <= now /\ printed[i].at \in Nat
      BY <1>4 DEF IInv, PrintedInv
    <3> QED
      BY <1>1, <1>3, <3>1 DEF IInv, PrintedInv
  <2> QED
    BY <1>1, <1>2, <2>1 DEF IInv, PrintedInv
<1>6. StepInv'
  BY <1>1, <1>2 DEF IInv, StepInv
<1>7. FatalInv'
  <2> SUFFICES ASSUME pc' = "fatal", ~ ByChance' PROVE TooLate'
    BY DEF FatalInv
  <2>1. TooLate
    BY <1>1 DEF IInv, FatalInv, ByChance
  <2>2. Program.verified \in 1..Len(printed)
    BY <2>1, ProgramFacts DEF TooLate, IInv, StepInv
  <2>3. now' + TicksPerSecond > printed[Program.verified].at + TTLOption
    <3> DEFINE end == printed[Program.verified].at + TTLOption
    <3>1. end \in Int /\ TicksPerSecond \in Nat
      BY <1>4, <2>2, TimeAssumption DEF TTLOption, Minute
    <3>2. now + TicksPerSecond > end
      BY <2>1 DEF TooLate
    <3> HIDE DEF end
    <3>3. now' + TicksPerSecond > end
      <4>1. now' > now
        BY <1>1
      <4> QED
        BY <1>3, <3>1, <3>2, <4>1, StillLater
    <3> QED
      BY <3>3 DEF end
  <2> QED
    BY <1>1, <1>2, <2>1, <2>3 DEF TooLate
<1> QED
  BY <1>5, <1>6, <1>7 DEF IInv

LEMMA Invariance == Spec => []IInv
<1>1. IInv /\ [Next]_vars => IInv'
  <2> SUFFICES ASSUME IInv, [Next]_vars PROVE IInv'
    OBVIOUS
  <2>1. CASE UNCHANGED vars
    <3>1. Program' = Program /\ AllPrints(signer)' = AllPrints(signer)
      BY <2>1 DEF vars, Program, AllPrints
    <3> QED
      BY <2>1, <3>1 DEF vars, IInv, PrintedInv, StepInv, FatalInv, ByChance, TooLate
  <2> QED
    BY <2>1, BuildKeeps, ComposeKeeps, IssueKeeps, VerifyKeeps, TickKeeps DEF Next
<1> QED
  BY <1>1, InitIInv, PTL DEF Spec

-----------------------------------------------------------------------------
(* Every component has its type, for every key and clock (main of both     *)
(* examples).                                                              *)
THEOREM TypeCorrect == Spec => []TypeOK
<1>1. IInv => TypeOK
  BY DEF IInv, PrintedInv, StepInv, OurSigner, TypeOK
<1> QED
  BY <1>1, Invariance, PTL

(* For every RSA key of 2048 bits and every clock, the programs stop with  *)
(* an error only when the random source fails, or because the token they   *)
(* verify has expired by then: nothing they ask for is refused             *)
(* (NewSigner, the Issue methods, NewVerifier, Verify).                    *)
THEOREM DemosFailOnlyByChanceOrTime == Spec => []FailsOnlyByChanceOrTime
<1>1. IInv => FailsOnlyByChanceOrTime
  BY DEF IInv, FatalInv, ByChance, TooLate, FailsOnlyByChanceOrTime
<1> QED
  BY <1>1, Invariance, PTL

(* For every RSA key of 2048 bits and every clock, each printed token is   *)
(* accepted for each audience it names, under the printed JWKS, until its  *)
(* five minutes, less a second, have passed (Sign, JWKSJSON, Verify).      *)
THEOREM PrintedTokensAreAccepted == Spec => []PrintedTokensVerify
<1>1. IInv => PrintedTokensVerify
  <2> SUFFICES ASSUME IInv, NEW i \in DOMAIN printed,
                      now + TicksPerSecond <= printed[i].at + TTLOption,
                      NEW aud \in Program.asks[i].aud
               PROVE  VerifyError(NewVerifier(JWKS, issuer, aud), printed[i].token, now) = NoError
    BY DEF PrintedTokensVerify
  <2>1. i \in 1..Len(printed)
    BY DEF IInv, PrintedInv
  <2>2. now \in Nat /\ printed[i].at \in Nat /\ TicksPerSecond \in Nat /\ TTLOption \in Nat
    BY <2>1, PrintedIsGood, TimeAssumption DEF TTLOption, Minute
  <2>3. ~ (now + TicksPerSecond > printed[i].at + TTLOption)
    BY <2>2
  <2> QED
    BY <2>1, <2>3, PrintedIsGood
<1> QED
  BY <1>1, Invariance, PTL
=============================================================================
