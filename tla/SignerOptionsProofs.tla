------------------------- MODULE SignerOptionsProofs -------------------------
(***************************************************************************)
(* NewSigner ends with a Signer or with an error; the Signer does what was *)
(* asked last, and its JWKS verifies what it signs: for any options, in    *)
(* any order and number.                                                   *)
(***************************************************************************)
EXTENDS SignerOptions, VerifierProofs, SequenceTheorems

-----------------------------------------------------------------------------
(* The last option that set a field, in any sequence of options.           *)

AskedIn(tr, field) ==
  LET given == {i \in DOMAIN tr : tr[i].field = field}
  IN  IF given = {}
      THEN defaultConfig[field]
      ELSE tr[CHOOSE i \in given : \A j \in given : j <= i].value

LEMMA GreatestElement ==
  ASSUME NEW n \in Nat, NEW T, T \subseteq 1..n, T # {}
  PROVE  \E i \in T : \A j \in T : j <= i
<1> DEFINE U == {n - i : i \in T}
<1>1. U \subseteq Nat /\ U # {}
  <2>1. ASSUME NEW i \in T PROVE n - i \in Nat
    <3>1. i \in 1..n
      OBVIOUS
    <3> QED
      BY <3>1
  <2> QED
    BY <2>1
<1>2. PICK u \in U : \A w \in U : u <= w
  BY <1>1, LeastElement
<1>3. PICK i \in T : u = n - i
  OBVIOUS
<1>4. ASSUME NEW j \in T PROVE j <= i
  <2>1. n - j \in U /\ i \in 1..n /\ j \in 1..n
    OBVIOUS
  <2>2. n - i <= n - j
    BY <1>2, <1>3, <2>1
  <2> QED
    BY <2>1, <2>2
<1> QED
  BY <1>4

\* One more option: its field has its value, the other fields what they had.
LEMMA LastAsked ==
  ASSUME NEW E, NEW tr \in Seq(E), NEW e \in E, NEW f
  PROVE  AskedIn(Append(tr, e), f) = IF e.field = f THEN e.value ELSE AskedIn(tr, f)
<1> DEFINE n == Len(tr)
           new == Append(tr, e)
           given == {i \in DOMAIN tr : tr[i].field = f}
           givenNew == {i \in DOMAIN new : new[i].field = f}
           Last(T) == CHOOSE i \in T : \A j \in T : j <= i
<1>1. /\ n \in Nat /\ DOMAIN tr = 1..n
      /\ DOMAIN new = 1..(n + 1) /\ new[n + 1] = e
      /\ \A i \in 1..n : new[i] = tr[i]
  BY LenProperties
<1>2. AskedIn(new, f) = IF givenNew = {} THEN defaultConfig[f] ELSE new[Last(givenNew)].value
  BY DEF AskedIn
<1>3. AskedIn(tr, f) = IF given = {} THEN defaultConfig[f] ELSE tr[Last(given)].value
  BY DEF AskedIn
<1> HIDE DEF new
<1>4. CASE e.field = f
  <2>1. n + 1 \in givenNew /\ \A j \in givenNew : j <= n + 1
    BY <1>1, <1>4
  <2>2. \A i \in givenNew : (\A j \in givenNew : j <= i) => i = n + 1
    BY <1>1, <2>1
  <2>3. Last(givenNew) = n + 1
    BY <2>1, <2>2
  <2> QED
    BY <1>1, <1>2, <1>4, <2>1, <2>3 DEF new
<1>5. CASE e.field # f
  <2>1. givenNew = given
    <3>1. \A i \in 1..(n + 1) : i = n + 1 \/ i \in 1..n
      BY <1>1
    <3>2. \A i \in 1..n : i \in 1..(n + 1)
      BY <1>1
    <3> QED
      BY <1>1, <1>5, <3>1, <3>2
  <2>2. CASE given = {}
    BY <1>2, <1>3, <1>5, <2>1, <2>2 DEF new
  <2>3. CASE given # {}
    <3>1. given \subseteq 1..n
      BY <1>1
    <3>2. \E i \in given : \A j \in given : j <= i
      BY <1>1, <2>3, <3>1, GreatestElement
    <3>3. Last(given) \in given
      BY <3>2, Zenon
    <3>4. new[Last(given)] = tr[Last(given)]
      BY <1>1, <3>1, <3>3
    <3>5. AskedIn(new, f) = new[Last(given)].value /\ AskedIn(tr, f) = tr[Last(given)].value
      BY <1>2, <1>3, <2>1, <2>3, Zenon
    <3> QED
      BY <1>5, <3>4, <3>5 DEF new
  <2> QED
    BY <2>2, <2>3
<1> QED
  BY <1>4, <1>5

-----------------------------------------------------------------------------
(* The inductive invariant: the config is legal, and is what was asked.    *)

Fields == {"issuer", "algorithm", "keyPEM", "keyID", "defaultTTL", "clock",
           "tokenTypeClaim", "headerTyp"}

Values == UNION {Issuers, Algs, PEMs, FileContents, KeyIDs, TTLs, ClaimNames, Typs,
                 {"injected", "nil"}}

Entries == [field : Fields, value : Values]

Filled(name) == name # ""

Legal(f, v) ==
  /\ f = "algorithm" => v \in Algorithms
  /\ f = "keyPEM" => v.key \in Keys \union {NoKey}
  /\ f = "defaultTTL" => v \in Int /\ v > 0
  /\ f \in {"tokenTypeClaim", "headerTyp"} => Filled(v)

ConfigInv ==
  /\ DOMAIN config = Fields
  /\ \A f \in Fields : Legal(f, config[f]) /\ config[f] = AskedIn(trail, f)

TrailInv == trail \in Seq(Entries) /\ Len(trail) <= MaxOptions

EndInv ==
  /\ status \in {"options", "built", "failed", "rejected"}
  /\ err # NoError <=> status \in {"failed", "rejected"}
  /\ status = "built" => SignerError(config) = NoError /\ signer = Signer(config)
  /\ status # "built" => signer = NoSigner

IInv == ConfigInv /\ TrailInv /\ EndInv

LEMMA InitIInv == Init => IInv
<1> SUFFICES ASSUME Init PROVE IInv
  OBVIOUS
<1>1. ConfigInv
  <2>1. DOMAIN defaultConfig = Fields
    BY DEF defaultConfig, Fields
  <2>2. ASSUME NEW f \in Fields PROVE Legal(f, defaultConfig[f])
    <3>1. defaultConfig["algorithm"] \in Algorithms
      BY Zenon DEF defaultConfig, Algorithms, RSAAlgorithms
    <3>2. defaultConfig["keyPEM"].key = NoKey
      BY Zenon DEF defaultConfig, NoPEM
    <3>3. defaultConfig["defaultTTL"] = 300
      BY Zenon DEF defaultConfig, DefaultTTL
    <3>4. Filled(defaultConfig["tokenTypeClaim"]) /\ Filled(defaultConfig["headerTyp"])
      BY DEF defaultConfig, Filled
    <3> QED
      BY <3>1, <3>2, <3>3, <3>4 DEF Legal
  <2>3. ASSUME NEW f \in Fields PROVE AskedIn(<<>>, f) = defaultConfig[f]
    BY DEF AskedIn
  <2> QED
    BY <2>1, <2>2, <2>3, Zenon DEF Init, ConfigInv
<1>2. TrailInv
  BY EmptySeq, OptionsAssumption DEF Init, TrailInv
<1>3. EndInv
  BY DEF Init, EndInv
<1> QED
  BY <1>1, <1>2, <1>3 DEF IInv

\* An option that sets its field to a legal value, or fails, keeps it.
LEMMA ApplyPreserves ==
  ASSUME IInv, Running, NEW field \in Fields, NEW v \in Values, NEW e,
         Apply(field, v, e), e = NoError => Legal(field, v)
  PROVE  IInv'
<1>1. CASE e = NoError
  <2> DEFINE entry == [field |-> field, value |-> v]
  <2>1. /\ config' = [config EXCEPT ![field] = v] /\ trail' = Append(trail, entry)
        /\ UNCHANGED <<status, err, signer>>
    BY <1>1 DEF Apply, Set
  <2>2. entry \in Entries /\ entry.field = field /\ entry.value = v
    BY DEF Entries
  <2> HIDE DEF entry
  <2>3. TrailInv'
    <3>1. trail \in Seq(Entries) /\ Len(trail) < MaxOptions /\ MaxOptions \in Nat
      BY OptionsAssumption, Zenon DEF IInv, TrailInv, Running
    <3>2. trail' \in Seq(Entries) /\ Len(trail') = Len(trail) + 1
      BY <2>1, <2>2, <3>1, AppendProperties
    <3>3. Len(trail) \in Nat
      BY <3>1, LenProperties
    <3> QED
      BY <3>1, <3>2, <3>3 DEF TrailInv
  <2>4. ConfigInv'
    <3>1. DOMAIN config' = Fields
      BY <2>1 DEF IInv, ConfigInv
    <3>2. ASSUME NEW f \in Fields
          PROVE  Legal(f, config'[f]) /\ config'[f] = AskedIn(trail', f)
      <4>1. AskedIn(trail', f) = IF field = f THEN v ELSE AskedIn(trail, f)
        BY <2>1, <2>2, LastAsked DEF IInv, TrailInv
      <4>2. config'[f] = IF field = f THEN v ELSE config[f]
        BY <2>1 DEF IInv, ConfigInv
      <4>3. Legal(f, config[f]) /\ config[f] = AskedIn(trail, f)
        BY DEF IInv, ConfigInv
      <4> QED
        BY <1>1, <4>1, <4>2, <4>3
    <3> QED
      BY <3>1, <3>2 DEF ConfigInv
  <2>5. EndInv'
    BY <2>1 DEF IInv, EndInv, Running
  <2> QED
    BY <2>3, <2>4, <2>5 DEF IInv
<1>2. CASE e # NoError
  <2>1. status' = "failed" /\ err' = e /\ UNCHANGED <<config, signer, trail>>
    BY <1>2 DEF Apply, Fail
  <2>2. EndInv'
    BY <1>2, <2>1 DEF IInv, EndInv, Running
  <2> QED
    BY <2>1, <2>2 DEF IInv, ConfigInv, TrailInv
<1> QED
  BY <1>1, <1>2

LEMMA NextIInv == IInv /\ [Next]_vars => IInv'
<1> SUFFICES ASSUME IInv, [Next]_vars PROVE IInv'
  OBVIOUS
<1>1. CASE WithIssuer
  <2>1. PICK iss \in Issuers : Apply("issuer", iss, When(iss = "", "issuer must not be empty"))
    BY <1>1, Zenon DEF WithIssuer
  <2>2. iss \in Values /\ "issuer" \in Fields /\ Legal("issuer", iss)
    BY DEF Values, Fields, Legal
  <2> QED
    BY <1>1, <2>1, <2>2, ApplyPreserves, Zenon DEF WithIssuer
<1>2. CASE WithAlgorithm
  <2>1. PICK alg \in Algs :
          Apply("algorithm", alg, When(alg \notin Algorithms, "ErrUnsupportedAlgorithm"))
    BY <1>2, Zenon DEF WithAlgorithm
  <2>2. alg \in Values /\ "algorithm" \in Fields
    BY DEF Values, Fields
  <2>3. When(alg \notin Algorithms, "ErrUnsupportedAlgorithm") = NoError
          => Legal("algorithm", alg)
    BY DEF Legal, When, NoError
  <2> QED
    BY <1>2, <2>1, <2>2, <2>3, ApplyPreserves, Zenon DEF WithAlgorithm
<1>3. CASE WithSigningKeyPEM
  <2>1. PICK pem \in PEMs : Apply("keyPEM", pem, When(pem.form = "", "ErrNoSigningKey"))
    BY <1>3, Zenon DEF WithSigningKeyPEM
  <2>2. pem \in Values /\ "keyPEM" \in Fields
    BY DEF Values, Fields
  <2>3. Legal("keyPEM", pem)
    BY OptionsAssumption DEF Legal
  <2> QED
    BY <1>3, <2>1, <2>2, <2>3, ApplyPreserves, Zenon DEF WithSigningKeyPEM
<1>4. CASE WithSigningKeyFile
  <2>1. PICK pem \in FileContents :
          Apply("keyPEM", pem, When(pem = Unreadable, "cannot read key file"))
    BY <1>4, Zenon DEF WithSigningKeyFile
  <2>2. pem \in Values /\ "keyPEM" \in Fields
    BY DEF Values, Fields
  <2>3. Legal("keyPEM", pem)
    BY OptionsAssumption DEF Legal
  <2> QED
    BY <1>4, <2>1, <2>2, <2>3, ApplyPreserves, Zenon DEF WithSigningKeyFile
<1>5. CASE WithKeyID
  <2>1. PICK kid \in KeyIDs : Apply("keyID", kid, NoError)
    BY <1>5, Zenon DEF WithKeyID
  <2>2. kid \in Values /\ "keyID" \in Fields /\ Legal("keyID", kid)
    BY DEF Values, Fields, Legal
  <2> QED
    BY <1>5, <2>1, <2>2, ApplyPreserves, Zenon DEF WithKeyID
<1>6. CASE WithDefaultTTL
  <2>1. PICK ttl \in TTLs : Apply("defaultTTL", ttl, When(ttl <= 0, "TTL must be positive"))
    BY <1>6, Zenon DEF WithDefaultTTL
  <2>2. ttl \in Values /\ "defaultTTL" \in Fields
    BY DEF Values, Fields
  <2>3. ttl \in Int
    BY OptionsAssumption
  <2>4. When(ttl <= 0, "TTL must be positive") = NoError => ~ (ttl <= 0)
    BY <2>3 DEF When, NoError
  <2>5. ~ (ttl <= 0) => Legal("defaultTTL", ttl)
    BY <2>3 DEF Legal
  <2>6. When(ttl <= 0, "TTL must be positive") = NoError => Legal("defaultTTL", ttl)
    BY <2>4, <2>5, Zenon
  <2> QED
    BY <1>6, <2>1, <2>2, <2>6, ApplyPreserves, Zenon DEF WithDefaultTTL
<1>7. CASE WithTokenTypeClaim
  <2>1. PICK name \in ClaimNames : Apply("tokenTypeClaim", name,
          When(name = "", "token-type claim must not be empty"))
    BY <1>7, Zenon DEF WithTokenTypeClaim
  <2>2. name \in Values /\ "tokenTypeClaim" \in Fields
    BY DEF Values, Fields
  <2>3. When(name = "", "token-type claim must not be empty") = NoError => Filled(name)
    BY NotWhen, Zenon DEF Filled, NoError
  <2>4. Filled(name) => Legal("tokenTypeClaim", name)
    BY DEF Legal
  <2>5. When(name = "", "token-type claim must not be empty") = NoError
          => Legal("tokenTypeClaim", name)
    BY <2>3, <2>4, Zenon
  <2> QED
    BY <1>7, <2>1, <2>2, <2>5, ApplyPreserves, Zenon DEF WithTokenTypeClaim
<1>8. CASE WithHeaderTyp
  <2>1. PICK typ \in Typs : Apply("headerTyp", typ,
          When(typ = "", "header typ must not be empty"))
    BY <1>8, Zenon DEF WithHeaderTyp
  <2>2. typ \in Values /\ "headerTyp" \in Fields
    BY DEF Values, Fields
  <2>3. When(typ = "", "header typ must not be empty") = NoError => Filled(typ)
    BY NotWhen, Zenon DEF Filled, NoError
  <2>4. Filled(typ) => Legal("headerTyp", typ)
    BY DEF Legal
  <2>5. When(typ = "", "header typ must not be empty") = NoError => Legal("headerTyp", typ)
    BY <2>3, <2>4, Zenon
  <2> QED
    BY <1>8, <2>1, <2>2, <2>5, ApplyPreserves, Zenon DEF WithHeaderTyp
<1>9. CASE WithClock
  <2>1. PICK clock \in {"injected", "nil"} :
          Apply("clock", clock, When(clock = "nil", "clock must not be nil"))
    BY <1>9, Zenon DEF WithClock
  <2>2. clock \in Values /\ "clock" \in Fields /\ Legal("clock", clock)
    BY DEF Values, Fields, Legal
  <2> QED
    BY <1>9, <2>1, <2>2, ApplyPreserves, Zenon DEF WithClock
<1>10. CASE NewSigner
  <2>1. UNCHANGED <<config, trail>> /\ status = "options"
    BY <1>10 DEF NewSigner
  <2>2. CASE SignerError(config) = NoError
    <3>1. status' = "built" /\ signer' = Signer(config) /\ err' = err
      BY <1>10, <2>2, Zenon DEF NewSigner
    <3> QED
      BY <2>1, <2>2, <3>1 DEF IInv, ConfigInv, TrailInv, EndInv
  <2>3. CASE SignerError(config) # NoError
    <3>1. status' = "rejected" /\ err' = SignerError(config) /\ signer' = signer
      BY <1>10, <2>3, Zenon DEF NewSigner
    <3> QED
      BY <2>1, <2>3, <3>1 DEF IInv, ConfigInv, TrailInv, EndInv
  <2> QED
    BY <2>2, <2>3
<1>11. CASE UNCHANGED vars
  BY <1>11 DEF vars, IInv, ConfigInv, TrailInv, EndInv
<1> QED
  BY <1>1, <1>2, <1>3, <1>4, <1>5, <1>6, <1>7, <1>8, <1>9, <1>10, <1>11 DEF Next

THEOREM Inductive == Spec => []IInv
BY InitIInv, NextIInv, PTL DEF Spec

-----------------------------------------------------------------------------
(* The properties.                                                         *)

(* NewSigner ends with a Signer or with an error, never both, and its      *)
(* options leave the config legal at every step, whatever they are.        *)
THEOREM TypeCorrect == Spec => []TypeOK
<1>1. ASSUME IInv PROVE TypeOK
  <2>1. /\ status \in {"options", "built", "failed", "rejected"}
        /\ err # NoError <=> status \in {"failed", "rejected"}
    BY <1>1 DEF IInv, EndInv
  <2>2. signer # NoSigner <=> status = "built"
    <3>1. CASE status # "built"
      BY <1>1, <3>1 DEF IInv, EndInv
    <3>2. CASE status = "built"
      <4>1. Buildable(config) /\ signer = Signer(config)
        BY <1>1, <3>2 DEF IInv, EndInv, Buildable
      <4>2. signer.issuer = config.issuer
        BY <4>1 DEF Signer
      <4>3. config.issuer # ""
        BY <4>1, BuiltSigner, Zenon
      <4>4. NoSigner.issuer = ""
        BY Zenon DEF NoSigner
      <4> QED
        BY <3>2, <4>2, <4>3, <4>4, Zenon
    <3> QED
      BY <3>1, <3>2
  <2>3. DOMAIN config = DOMAIN defaultConfig
    BY <1>1 DEF IInv, ConfigInv, Fields, defaultConfig
  <2>4. /\ config.algorithm \in Algorithms /\ config.defaultTTL > 0
        /\ Filled(config.tokenTypeClaim) /\ Filled(config.headerTyp)
    BY <1>1 DEF IInv, ConfigInv, Fields, Legal
  <2>5. Len(trail) <= MaxOptions
    BY <1>1 DEF IInv, TrailInv
  <2> QED
    BY <2>1, <2>2, <2>3, <2>4, <2>5, Zenon DEF TypeOK, Filled
<1> QED
  BY <1>1, Inductive, PTL

\* A built Signer and the config it is built of.
LEMMA BuiltOf ==
  ASSUME IInv, status = "built"
  PROVE  /\ Buildable(config)
         /\ signer = Signer(config)
         /\ \A f \in Fields : config[f] = AskedIn(trail, f)
BY DEF IInv, ConfigInv, EndInv, Buildable

LEMMA AskedIsAskedIn == \A f : Asked(f) = AskedIn(trail, f)
BY Zenon DEF Asked, AskedIn

(* A Signer does what its caller asked for last, option by option, for any *)
(* options in any order (options.go, NewSigner).                           *)
THEOREM SignersAreAsAsked == Spec => []SignerAsAsked
<1>1. ASSUME IInv, status = "built"
      PROVE  /\ \A field \in {"issuer", "algorithm", "defaultTTL", "clock",
                               "tokenTypeClaim", "headerTyp"} : signer[field] = Asked(field)
             /\ signer.key = Asked("keyPEM").key
             /\ Asked("keyPEM").form # ""
             /\ signer.keyID = IF Asked("keyID") = "" THEN Thumbprint[signer.key]
                                                     ELSE Asked("keyID")
  <2>1. Buildable(config) /\ signer = Signer(config)
    BY <1>1, BuiltOf
  <2>2. /\ Asked("issuer") = config.issuer /\ Asked("algorithm") = config.algorithm
        /\ Asked("defaultTTL") = config.defaultTTL /\ Asked("clock") = config.clock
        /\ Asked("tokenTypeClaim") = config.tokenTypeClaim
        /\ Asked("headerTyp") = config.headerTyp
        /\ Asked("keyPEM") = config.keyPEM /\ Asked("keyID") = config.keyID
    <3>1. \A f \in Fields : Asked(f) = config[f]
      BY <1>1, BuiltOf, AskedIsAskedIn
    <3> QED
      BY <3>1 DEF Fields
  <2>3. /\ signer.issuer = config.issuer /\ signer.algorithm = config.algorithm
        /\ signer.defaultTTL = config.defaultTTL /\ signer.clock = config.clock
        /\ signer.tokenTypeClaim = config.tokenTypeClaim
        /\ signer.headerTyp = config.headerTyp
        /\ signer.key = config.keyPEM.key
        /\ signer.keyID = PublicJWK(config.keyPEM.key, config.algorithm, config.keyID).kid
    BY <2>1 DEF Signer
  <2>4. config.keyPEM.form # ""
    BY <2>1, BuiltSigner, Zenon
  <2>5. PublicJWK(config.keyPEM.key, config.algorithm, config.keyID).kid
          = IF config.keyID = "" THEN Thumbprint[config.keyPEM.key] ELSE config.keyID
    BY Zenon DEF PublicJWK
  <2>6. ASSUME NEW field \in {"issuer", "algorithm", "defaultTTL", "clock",
                              "tokenTypeClaim", "headerTyp"}
        PROVE  signer[field] = Asked(field)
    BY <2>2, <2>3
  <2>7. signer.keyID = IF Asked("keyID") = "" THEN Thumbprint[signer.key]
                                            ELSE Asked("keyID")
    BY <2>2, <2>3, <2>5, Zenon
  <2> QED
    BY <2>2, <2>3, <2>4, <2>6, <2>7, Zenon
<1>2. IInv => SignerAsAsked
  BY <1>1, Zenon DEF SignerAsAsked
<1> QED
  BY <1>2, Inductive, PTL

(* The JWKS a Signer publishes verifies what the Signer signs, for every   *)
(* key and configuration (JWKS, Sign, publicJWK, publicKey).               *)
THEOREM JWKSIsTheSigners == Spec => []JWKSVerifiesOwnTokens
<1>1. ASSUME IInv, status = "built"
      PROVE  /\ signer.jwk.kid # "" /\ signer.jwk.kid = signer.keyID
             /\ PublicKeyError(signer.jwk) = NoError
             /\ SignatureValid([key |-> signer.key, alg |-> signer.algorithm],
                               signer.jwk.pub, signer.jwk.alg)
  <2> DEFINE key == config.keyPEM.key
             jwk == PublicJWK(key, config.algorithm, config.keyID)
  <2>1. Buildable(config) /\ signer = Signer(config)
    BY <1>1, BuiltOf
  <2>2. /\ signer.jwk = jwk /\ signer.keyID = jwk.kid /\ signer.key = key
        /\ signer.algorithm = config.algorithm
    BY <2>1 DEF Signer
  <2>3. jwk.pub = key /\ jwk.alg = config.algorithm /\ jwk.kty = key.kty
    BY DEF PublicJWK
  <2>4. jwk.kid = IF config.keyID = "" THEN Thumbprint[key] ELSE config.keyID
    BY Zenon DEF PublicJWK
  <2>5. key \in Keys
    <3>1. key \in Keys \union {NoKey}
      BY <1>1 DEF IInv, ConfigInv, Legal, Fields
    <3>2. key.kty \in {"RSA", "EC"}
      BY <2>1, BuiltSigner
    <3> QED
      BY <3>1, <3>2 DEF NoKey
  <2>6. Thumbprint[key] # ""
    <3>1. Thumbprint[key] \in STRING \ {""}
      BY <2>5, ThumbprintAssumption, Zenon
    <3> QED
      BY <3>1, Zenon
  <2>7. jwk.kid # ""
    BY <2>4, <2>6, Zenon
  <2>8. PublicKeyError(jwk) = NoError
    BY <2>1, BuiltJWKDecodes
  <2>9. SignatureValid([key |-> signer.key, alg |-> signer.algorithm], jwk.pub, jwk.alg)
    BY <2>2, <2>3 DEF SignatureValid
  <2> HIDE DEF jwk
  <2> QED
    BY <2>2, <2>7, <2>8, <2>9, Zenon
<1>2. IInv => JWKSVerifiesOwnTokens
  BY <1>1, Zenon DEF JWKSVerifiesOwnTokens
<1> QED
  BY <1>2, Inductive, PTL
=============================================================================
