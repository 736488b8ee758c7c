-------------------------- MODULE AtomicIssueProofs --------------------------
(***************************************************************************)
(* TokenService implements AtomicIssue: every step of a call is a stutter, *)
(* the decision of the call or its return, for any goroutines, requests    *)
(* with payloads passed by value, objects, Signers and clock.  The checks  *)
(* that the code spreads over three steps accept exactly the requests that *)
(* AtomicIssue calls acceptable.                                           *)
(***************************************************************************)
EXTENDS TokenServiceProofs

-----------------------------------------------------------------------------
(* AtomicIssue and TokenService speak of the same things.                  *)

LEMMA SameConstants ==
  /\ Atomic!NoError = NoError /\ Atomic!NoToken = NoToken /\ Atomic!NoRequest = NoRequest
  /\ Atomic!Undecided = [err |-> NoError, token |-> NoToken]
  /\ Atomic!NoClaims = NoClaims /\ Atomic!NoObject = NoObject
  /\ Atomic!BuiltIns = BuiltIns /\ Atomic!LoAs = LoAs
  /\ Atomic!OptionalClaims = OptionalClaims /\ Atomic!reservedClaimNames = reservedClaimNames
BY DEF NoError, Atomic!NoError, NoToken, Atomic!NoToken, NoRequest, Atomic!NoRequest,
       Atomic!Undecided, NoClaims, Atomic!NoClaims, NoObject, Atomic!NoObject,
       BuiltIns, Atomic!BuiltIns, LoAs, Atomic!LoAs, OptionalClaims, Atomic!OptionalClaims,
       reservedClaimNames, Atomic!reservedClaimNames

LEMMA SameOperators ==
  /\ \A p : Atomic!Validate(p) = Validate(p)
  /\ \A p : Atomic!Marshals(p) = Marshals(p)
  /\ \A key, alg : Atomic!SigningError(key, alg) = SigningError(key, alg)
  /\ \A r, p : Atomic!Acr(r, p) = Acr(r, p)
  /\ \A r : Atomic!TokenType(r) = TokenType(r)
  /\ \A t : Atomic!NumericDate(t) = NumericDate(t)
<1>1. \A p : Atomic!Validate(p) = Validate(p)
  BY DEF Validate, Atomic!Validate, EIDASValidate, Atomic!EIDASValidate,
         DigiDValidate, Atomic!DigiDValidate, EHerkenningValidate, Atomic!EHerkenningValidate,
         FirstError, Atomic!FirstError, When, Atomic!When, NoError, Atomic!NoError,
         DigiDLevels, Atomic!DigiDLevels, EHClasses, Atomic!EHClasses
<1>2. \A p : Atomic!Marshals(p) = Marshals(p)
  BY DEF Marshals, Atomic!Marshals
<1>3. \A key, alg : Atomic!SigningError(key, alg) = SigningError(key, alg)
  BY DEF SigningError, Atomic!SigningError, When, Atomic!When, NoError, Atomic!NoError,
         ECAlgorithms, Atomic!ECAlgorithms, CurveBits, Atomic!CurveBits
<1>4. \A r, p : Atomic!Acr(r, p) = Acr(r, p)
  BY DEF Acr, Atomic!Acr, DigiDToEIDAS, Atomic!DigiDToEIDAS, EHToEIDAS, Atomic!EHToEIDAS
<1>5. \A r : Atomic!TokenType(r) = TokenType(r)
  BY DEF TokenType, Atomic!TokenType, BuiltIns, Atomic!BuiltIns
<1>6. \A t : Atomic!NumericDate(t) = NumericDate(t)
  BY DEF NumericDate, Atomic!NumericDate
<1> QED
  BY <1>1, <1>2, <1>3, <1>4, <1>5, <1>6

-----------------------------------------------------------------------------
(* Which requests pass the checks.                                         *)

\* Go's types: what kind of payload a request may have.
LEMMA Payloads ==
  ASSUME NEW r \in Requests, NEW p \in Readable(r)
  PROVE  /\ r.op \in BuiltIns \union {"custom", "access"}
         /\ r.optional \subseteq OptionalClaims
         /\ p.kind = "nil" => p = NoClaims
         /\ r.op \in BuiltIns => p.kind = r.op
<1>1. WellTyped(r) /\ r \in RequestType
  BY RequestsAssumption DEF WellTyped
<1>2. r.op \in BuiltIns \union {"custom", "access"} /\ r.optional \subseteq OptionalClaims
  BY <1>1 DEF RequestType, Ops
<1>3. r.object \in Objects \union {NoObject}
  BY <1>1 DEF RequestType
<1>4. p = NoClaims \/ p \in Claims \ {NoClaims}
  BY <1>3, ObjectsAssumption DEF Readable
<1>5. p.kind = "nil" => p = NoClaims
  BY <1>4 DEF Claims, BuiltInClaims, EIDASClaims, DigiDClaims, EHerkenningClaims, CustomClaims
<1>6. ASSUME r.op \in BuiltIns PROVE p.kind = r.op
  BY <1>1, <1>6, ObjectsAssumption DEF WellTyped, Readable
<1> QED
  BY <1>2, <1>5, <1>6

\* The names of the standard claims are reserved; those of the variants are not.
LEMMA StandardIsReserved ==
  ASSUME NEW s, NEW r \in Requests, NEW p \in Readable(r), NEW t
  PROVE  /\ StandardNames(r, Made(s, r, p, t)) \subseteq reservedClaimNames
         /\ BuiltIns \intersect reservedClaimNames = {}
         /\ TypeNames(s, Made(s, r, p, t)) \subseteq {s.tokenTypeClaim}
         /\ r.op \in BuiltIns => TypeNames(s, Made(s, r, p, t)) = {s.tokenTypeClaim}
<1> DEFINE tc == Made(s, r, p, t)
<1>1. tc.filled \subseteq OptionalClaims \union {"client_id"}
  <2>1. tc.filled = IF r.op = "access" THEN {"client_id"} \union r.optional ELSE {}
    BY MadeFilled
  <2> QED
    BY <2>1, Payloads
<1>2. StandardNames(r, tc) \subseteq reservedClaimNames
  BY <1>1 DEF StandardNames, OptionalClaims, reservedClaimNames
<1>3. BuiltIns \intersect reservedClaimNames = {}
  BY DEF BuiltIns, reservedClaimNames
<1>4. TypeNames(s, tc) \subseteq {s.tokenTypeClaim}
  BY DEF TypeNames
<1>5. ASSUME r.op \in BuiltIns PROVE TypeNames(s, tc) = {s.tokenTypeClaim}
  <2>1. tc.tokenType = r.op
    <3>1. TokenType(r) = r.op
      BY <1>5 DEF TokenType, BuiltIns
    <3> QED
      BY <3>1, MadeFields
  <2>2. r.op # ""
    BY <1>5 DEF BuiltIns
  <2> QED
    BY <2>1, <2>2 DEF TypeNames
<1> QED
  BY <1>2, <1>3, <1>4, <1>5

\* The code's checks, wherever it makes them, accept what AtomicIssue accepts.
LEMMA AcceptableIsChecked ==
  ASSUME NEW s, NEW r \in Requests, NEW p \in Readable(r), NEW t
  PROVE  Atomic!Acceptable(s, r, p) <=>
           /\ CheckError(s, r, p) = NoError
           /\ BaseError(r) = NoError
           /\ SignError(s, r, Made(s, r, p, t), p) = NoError
<1> DEFINE tc == Made(s, r, p, t)
           free == KeyOf(r) # "" /\ KeyOf(r) \notin reservedClaimNames /\ KeyOf(r) # s.tokenTypeClaim
           signs == SigningError(s.key, s.algorithm) = NoError
<1>1. Atomic!Acceptable(s, r, p) <=>
        /\ r.sub /\ r.aud # {}
        /\ Validate(p) = NoError
        /\ Marshals(p)
        /\ r.op = "eidas"  => r.loa \in LoAs
        /\ r.op = "custom" => r.type # ""
        /\ r.op = "access" => r.clientID
        /\ p.kind # "nil" \/ KeyOf(r) # "" => free
        /\ signs
  BY SameConstants, SameOperators, Zenon
     DEF Atomic!Acceptable, Atomic!Nested, Atomic!KeyOfVariant, Atomic!Free, KeyOf
<1>2. BaseError(r) = NoError <=> r.sub /\ r.aud # {}
  BY BasePasses
<1>3. SignError(s, r, tc, p) = NoError <=>
        /\ Nests(tc, p) => /\ tc.variantKey \notin StandardNames(r, tc) \union TypeNames(s, tc)
                           /\ Marshals(p)
        /\ signs
  BY SignPasses
<1>4. Nests(tc, p) <=> KeyOf(r) # "" /\ p.kind # "nil"
  BY MadeFields DEF Nests
<1>5. p.kind # "custom" => Marshals(p)
  BY DEF Marshals
<1>6. CASE r.op \in BuiltIns
  <2>1. KeyOf(r) = r.op /\ KeyOf(r) # "" /\ KeyOf(r) \notin reservedClaimNames
    BY <1>6, StandardIsReserved DEF KeyOf, BuiltIns
  <2>2. p.kind = r.op /\ p.kind # "nil" /\ Marshals(p)
    BY <1>5, <1>6, Payloads DEF BuiltIns
  <2>3. tc.variantKey \notin StandardNames(r, tc) \union TypeNames(s, tc) <=> free
    BY <1>6, <2>1, StandardIsReserved, MadeFields
  <2>4. CheckError(s, r, p) = NoError <=>
          (r.op = "eidas" => r.loa \in LoAs) /\ Validate(p) = NoError
    <3>1. CASE r.op = "eidas"
      <4>1. When(r.loa \notin LoAs, "ErrInvalidAssuranceLevel") = NoError <=> ~ (r.loa \notin LoAs)
        BY ErrorNames, NotWhen
      <4>2. CheckError(s, r, p) =
              FirstError(<<When(r.loa \notin LoAs, "ErrInvalidAssuranceLevel"), Validate(p)>>)
        BY <3>1 DEF CheckError
      <4> QED
        BY <3>1, <4>1, <4>2, BothPass
    <3>2. CASE r.op \in {"digid", "eherkenning"}
      BY <3>2 DEF CheckError
    <3> QED
      BY <1>6, <3>1, <3>2 DEF BuiltIns
  <2>5. r.op # "custom" /\ r.op # "access"
    BY <1>6 DEF BuiltIns
  <2> HIDE DEF tc, free, signs
  <2>6. SignError(s, r, tc, p) = NoError <=> free /\ signs
    BY <1>3, <1>4, <2>1, <2>2, <2>3, Zenon
  <2>7. ASSUME Atomic!Acceptable(s, r, p)
        PROVE  /\ CheckError(s, r, p) = NoError /\ BaseError(r) = NoError
               /\ SignError(s, r, tc, p) = NoError
    BY <1>1, <1>2, <2>2, <2>4, <2>6, <2>7, Zenon
  <2>8. ASSUME CheckError(s, r, p) = NoError, BaseError(r) = NoError,
               SignError(s, r, tc, p) = NoError
        PROVE  Atomic!Acceptable(s, r, p)
    BY <1>1, <1>2, <2>2, <2>4, <2>5, <2>6, <2>8, Zenon
  <2> QED
    BY <2>7, <2>8 DEF tc
<1>7. CASE r.op \in {"custom", "access"}
  <2>1. KeyOf(r) = r.key
    BY <1>7 DEF KeyOf, BuiltIns
  <2>2. free => tc.variantKey \notin StandardNames(r, tc) \union TypeNames(s, tc)
    <3>1. tc.variantKey = KeyOf(r)
      BY MadeFields
    <3> QED
      BY <3>1, StandardIsReserved
  <2>3. checkNested(s, r.key, p) = NoError <=>
          /\ p.kind # "nil" \/ KeyOf(r) # "" => free
          /\ Validate(p) = NoError
    <3>1. checkNested(s, r.key, p) = NoError <=>
            /\ ~ (p.kind # "nil" /\ r.key = "")
            /\ ~ (r.key # "" /\ (r.key \in reservedClaimNames \/ r.key = s.tokenTypeClaim))
            /\ Validate(p) = NoError
      BY NestedPasses
    <3> QED
      BY <2>1, <3>1, Zenon
  <2>4. CheckError(s, r, p) = NoError <=>
          /\ r.op = "custom" => r.type # ""
          /\ r.op = "access" => r.clientID
          /\ checkNested(s, r.key, p) = NoError
    <3>1. CASE r.op = "custom"
      <4> DEFINE typed == When(r.type = "", "ErrMissingTokenType")
      <4>1. typed = NoError <=> ~ (r.type = "")
        BY ErrorNames, NotWhen
      <4>2. CheckError(s, r, p) = FirstError(<<typed, checkNested(s, r.key, p)>>)
        BY <3>1 DEF CheckError
      <4> HIDE DEF typed
      <4>3. CheckError(s, r, p) = NoError <=> typed = NoError /\ checkNested(s, r.key, p) = NoError
        BY <4>2, BothPass
      <4>4. r.op # "access"
        BY <3>1
      <4> QED
        BY <3>1, <4>1, <4>3, <4>4, Zenon
    <3>2. CASE r.op = "access"
      <4>1. When(~ r.clientID, "ErrMissingClientID") = NoError <=> ~ ~ r.clientID
        BY ErrorNames, NotWhen
      <4>2. CheckError(s, r, p) =
              FirstError(<<When(~ r.clientID, "ErrMissingClientID"), checkNested(s, r.key, p)>>)
        BY <3>2 DEF CheckError
      <4>3. CheckError(s, r, p) = NoError <=>
              When(~ r.clientID, "ErrMissingClientID") = NoError /\ checkNested(s, r.key, p) = NoError
        BY <4>2, BothPass, Zenon
      <4>4. r.op # "custom"
        BY <3>2
      <4> QED
        BY <3>2, <4>1, <4>3, <4>4, Zenon
    <3> QED
      BY <1>7, <3>1, <3>2
  <2>5. r.op # "eidas"
    BY <1>7
  <2>6. p.kind = "nil" => Marshals(p)
    BY <1>5
  <2>7. (p.kind # "nil" \/ KeyOf(r) # "" => free) /\ p.kind # "nil" => KeyOf(r) # ""
    BY Zenon
  <2> HIDE DEF tc, free, signs
  <2>8. ASSUME p.kind # "nil" \/ KeyOf(r) # "" => free
        PROVE  SignError(s, r, tc, p) = NoError <=> Marshals(p) /\ signs
    <3>1. CASE p.kind = "nil"
      BY <1>3, <1>4, <2>6, <3>1, Zenon
    <3>2. CASE p.kind # "nil"
      BY <1>3, <1>4, <2>2, <2>7, <2>8, <3>2, Zenon
    <3> QED
      BY <3>1, <3>2
  <2>9. ASSUME Atomic!Acceptable(s, r, p)
        PROVE  /\ CheckError(s, r, p) = NoError /\ BaseError(r) = NoError
               /\ SignError(s, r, tc, p) = NoError
    BY <1>1, <1>2, <2>3, <2>4, <2>8, <2>9, Zenon
  <2>10. ASSUME CheckError(s, r, p) = NoError, BaseError(r) = NoError,
                SignError(s, r, tc, p) = NoError
         PROVE  Atomic!Acceptable(s, r, p)
    BY <1>1, <1>2, <2>3, <2>4, <2>5, <2>8, <2>10, Zenon
  <2> QED
    BY <2>9, <2>10 DEF tc
<1> QED
  BY <1>6, <1>7, Payloads

-----------------------------------------------------------------------------
(* The token that is signed is the one AtomicIssue describes.              *)

\* An accepted payload that is there has a key, and is nested.
LEMMA NestedWhenThere ==
  ASSUME NEW s, NEW r \in Requests, NEW p \in Readable(r), NEW t, Atomic!Acceptable(s, r, p)
  PROVE  Nests(Made(s, r, p, t), p) <=> p.kind # "nil"
<1>1. p.kind # "nil" => KeyOf(r) # ""
  BY Zenon DEF Atomic!Acceptable, Atomic!Nested, Atomic!KeyOfVariant, Atomic!Free, KeyOf,
               BuiltIns, Atomic!BuiltIns
<1> QED
  BY <1>1, MadeFields DEF Nests

LEMMA StandardNamesAre ==
  ASSUME NEW s, NEW r \in Requests, NEW p, NEW t
  PROVE  StandardNames(r, Made(s, r, p, t)) = Atomic!StandardOf(r, p)
<1> DEFINE tc == Made(s, r, p, t)
<1>1. r.authTime.set \in BOOLEAN /\ r.amr \in BOOLEAN /\ r.optional \subseteq OptionalClaims
  BY RequestsAssumption DEF WellTyped, RequestType
<1>2. authTime(r.authTime) # 0 <=> r.authTime.set /\ r.authTime.unix # 0
  BY <1>1 DEF authTime
<1>3. (IF authTime(r.authTime) # 0 THEN {"auth_time"} ELSE {})
        = {n \in {"auth_time"} : r.authTime.set /\ r.authTime.unix # 0}
  BY <1>2
<1>4. (IF r.amr THEN {"amr"} ELSE {}) = {n \in {"amr"} : r.amr}
  OBVIOUS
<1>5. (IF tc.acr # "" THEN {"acr"} ELSE {}) = {n \in {"acr"} : Acr(r, p) # ""}
  <2>1. tc.acr = Acr(r, p)
    BY MadeFields
  <2> DEFINE none == Acr(r, p) = ""
  <2>2. (IF ~ none THEN {"acr"} ELSE {}) = {n \in {"acr"} : ~ none}
    <3> HIDE DEF none
    <3> QED
      OBVIOUS
  <2> QED
    BY <2>1, <2>2
<1>6. tc.filled = {n \in OptionalClaims \union {"client_id"} :
                     r.op = "access" /\ (n = "client_id" \/ n \in r.optional)}
  <2>1. tc.filled = IF r.op = "access" THEN {"client_id"} \union r.optional ELSE {}
    BY MadeFilled
  <2> QED
    BY <1>1, <2>1
<1>7. Atomic!StandardOf(r, p) =
        {"iss", "sub", "aud", "exp", "nbf", "iat", "jti"}
          \union {n \in {"amr"} : r.amr}
          \union {n \in {"auth_time"} : r.authTime.set /\ r.authTime.unix # 0}
          \union {n \in {"acr"} : Acr(r, p) # ""}
          \union {n \in OptionalClaims \union {"client_id"} :
                    r.op = "access" /\ (n = "client_id" \/ n \in r.optional)}
  BY SameConstants, SameOperators, Zenon DEF Atomic!StandardOf, Atomic!AlwaysPresent
<1> DEFINE acr == IF tc.acr # "" THEN {"acr"} ELSE {}
           amr == IF r.amr THEN {"amr"} ELSE {}
           auth == IF authTime(r.authTime) # 0 THEN {"auth_time"} ELSE {}
           always == {"iss", "sub", "aud", "exp", "nbf", "iat", "jti"}
<1>8. StandardNames(r, tc) = always \union tc.filled \union acr \union amr \union auth
  BY DEF StandardNames
<1>9. Atomic!StandardOf(r, p) = always \union amr \union auth \union acr \union tc.filled
  BY <1>3, <1>4, <1>5, <1>6, <1>7, Zenon
<1> HIDE DEF acr, amr, auth, always, tc
<1>10. StandardNames(r, tc) = Atomic!StandardOf(r, p)
  BY <1>8, <1>9
<1> QED
  BY <1>10 DEF tc

LEMMA TypeNamesAre ==
  ASSUME NEW s, NEW r \in Requests, NEW p \in Readable(r), NEW t, Atomic!Acceptable(s, r, p)
  PROVE  TypeNames(s, Made(s, r, p, t)) =
           IF r.op = "access" THEN {} ELSE {s.tokenTypeClaim}
<1>1. r.op = "custom" => r.type # ""
  BY Zenon DEF Atomic!Acceptable
<1>2. r.op = "access" <=> TokenType(r) = ""
  <2>1. CASE r.op \in BuiltIns
    BY <2>1 DEF TokenType, BuiltIns
  <2>2. CASE r.op = "custom"
    BY <1>1, <2>2 DEF TokenType, BuiltIns
  <2>3. CASE r.op = "access"
    BY <2>3 DEF TokenType, BuiltIns
  <2> QED
    BY <2>1, <2>2, <2>3, Payloads
<1>3. Made(s, r, p, t).tokenType = TokenType(r)
  BY MadeFields
<1> QED
  BY <1>2, <1>3, Zenon DEF TypeNames

NestedNames(tc, p) == IF Nests(tc, p) THEN {tc.variantKey} ELSE {}

\* Each part of a payload has written its own names, the token type before the standard.
OwnNames(w, std, typ, nested) ==
  /\ DOMAIN w = std \union typ \union nested
  /\ \A n \in DOMAIN w : /\ w[n] = "variant"    <=> n \in nested
                         /\ w[n] = "token type" <=> n \in typ
                         /\ w[n] = "standard"   <=> n \in std \ typ

LEMMA WrittenBy ==
  ASSUME NEW s, NEW r, NEW tc, NEW p, SignError(s, r, tc, p) = NoError
  PROVE  OwnNames(Writers(s, r, tc, p), StandardNames(r, tc), TypeNames(s, tc), NestedNames(tc, p))
<1> DEFINE nested == NestedNames(tc, p)
           w == Writers(s, r, tc, p)
           std == StandardNames(r, tc)
           typ == TypeNames(s, tc)
<1>1. nested \intersect (std \union typ) = {}
  <2>1. Nests(tc, p) => tc.variantKey \notin std \union typ
    BY SignPasses
  <2> QED
    BY <2>1 DEF NestedNames
<1>2. w = [name \in std \union typ \union nested |->
             CASE name \in nested -> "variant"
               [] name \notin nested /\ name \in typ -> "token type"
               [] OTHER -> "standard"]
  BY DEF Writers, NestedNames
<1> HIDE DEF std, typ, nested, w
<1>3. DOMAIN w = std \union typ \union nested
  BY <1>2
<1>4. ASSUME NEW n \in DOMAIN w
      PROVE  /\ w[n] = "variant" <=> n \in nested
             /\ w[n] = "token type" <=> n \in typ
             /\ w[n] = "standard" <=> n \in std \ typ
  BY <1>1, <1>2, <1>3
<1>5. OwnNames(w, std, typ, nested)
  BY <1>3, <1>4 DEF OwnNames
<1> QED
  BY <1>5 DEF std, typ, nested, w

LEMMA NamesByWriter ==
  ASSUME NEW w, NEW std, NEW typ, NEW nested, OwnNames(w, std, typ, nested)
  PROVE  /\ {n \in DOMAIN w : w[n] = "variant"} = nested
         /\ {n \in DOMAIN w : w[n] = "token type"} = typ
         /\ {n \in DOMAIN w : w[n] = "standard"} = std \ typ
<1>1. nested \subseteq DOMAIN w /\ typ \subseteq DOMAIN w /\ std \subseteq DOMAIN w
  BY DEF OwnNames
<1>2. {n \in DOMAIN w : w[n] = "variant"} = nested
  BY <1>1 DEF OwnNames
<1>3. {n \in DOMAIN w : w[n] = "token type"} = typ
  BY <1>1 DEF OwnNames
<1>4. {n \in DOMAIN w : w[n] = "standard"} = std \ typ
  BY <1>1 DEF OwnNames
<1> QED
  BY <1>2, <1>3, <1>4

\* The claims the token type may be written over.
LEMMA StandingClaims ==
  ASSUME NEW s, NEW r, NEW tc, NEW p
  PROVE  LET t == Sign(s, r, tc, p) IN
         /\ t.iss = Stands(s, tc, "iss", s.issuer)
         /\ t.acr = Stands(s, tc, "acr", tc.acr)
         /\ t.iat = Stands(s, tc, "iat", NumericDate(tc.now))
         /\ t.nbf = Stands(s, tc, "nbf", NumericDate(tc.now))
         /\ t.exp = Stands(s, tc, "exp", NumericDate(tc.now + tc.ttl))
         /\ "aud" \in TypeNames(s, tc) => t.aud = {tc.tokenType}
         /\ "aud" \notin TypeNames(s, tc) => t.aud = r.aud
BY DEF Sign

LEMMA OtherFields ==
  ASSUME NEW s, NEW r, NEW tc, NEW p
  PROVE  LET t == Sign(s, r, tc, p) IN
         /\ t.kid = s.keyID /\ t.typ = s.headerTyp
         /\ t.alg = s.algorithm /\ t.sig = [key |-> s.key, alg |-> s.algorithm]
         /\ t.writers = Writers(s, r, tc, p) /\ t.tokenType = tc.tokenType
         /\ Nests(tc, p) => t.variant = p
         /\ ~ Nests(tc, p) => t.variant = NoClaims
BY DEF Sign

LEMMA SignedIsTokenOf ==
  ASSUME NEW s, NEW r \in Requests, NEW p \in Readable(r), NEW t, Atomic!Acceptable(s, r, p)
  PROVE  Atomic!IsTokenOf(Sign(s, r, Made(s, r, p, t), p), s, r, p, t)
<1> DEFINE tc == Made(s, r, p, t)
           tok == Sign(s, r, tc, p)
           w == Writers(s, r, tc, p)
           typed == IF r.op = "access" THEN {} ELSE {s.tokenTypeClaim}
           nested == IF p.kind # "nil" THEN {KeyOf(r)} ELSE {}
           length == IF r.ttl > 0 THEN r.ttl ELSE s.defaultTTL
           Stood(name, value) == IF name \in typed THEN TokenType(r) ELSE value
<1>1. /\ tok.kid = s.keyID /\ tok.typ = s.headerTyp
      /\ tok.alg = s.algorithm /\ tok.sig = [key |-> s.key, alg |-> s.algorithm]
      /\ tok.writers = w /\ tok.tokenType = tc.tokenType
      /\ Nests(tc, p) => tok.variant = p
      /\ ~ Nests(tc, p) => tok.variant = NoClaims
  BY OtherFields
<1>2. tc.acr = Acr(r, p) /\ tc.tokenType = TokenType(r) /\ tc.variantKey = KeyOf(r)
  BY MadeFields
<1>3. tc.now = t /\ tc.ttl = length
  <2>1. r.ttl \in Int
    BY RequestsAssumption DEF WellTyped, RequestType
  <2>2. TTL(s, r) = length
    BY <2>1 DEF TTL
  <2> QED
    BY <2>2, MadeTimes
<1>4. Nests(tc, p) <=> p.kind # "nil"
  BY NestedWhenThere
<1>5. tok.variant = p
  BY <1>1, <1>4, Payloads
<1>6. /\ {n \in DOMAIN w : w[n] = "variant"} = nested
      /\ {n \in DOMAIN w : w[n] = "token type"} = typed
      /\ {n \in DOMAIN w : w[n] = "standard"} = Atomic!StandardOf(r, p) \ typed
  <2>1. SignError(s, r, tc, p) = NoError
    BY AcceptableIsChecked
  <2>2. TypeNames(s, tc) = typed
    BY TypeNamesAre
  <2>3. StandardNames(r, tc) = Atomic!StandardOf(r, p)
    BY StandardNamesAre
  <2>4. nested = NestedNames(tc, p)
    BY <1>2, <1>4 DEF NestedNames
  <2>5. OwnNames(w, Atomic!StandardOf(r, p), typed, nested)
    BY <2>1, <2>2, <2>3, <2>4, WrittenBy
  <2> HIDE DEF w, tc, nested, typed
  <2> QED
    BY <2>5, NamesByWriter
<1>t. TypeNames(s, tc) = typed
  BY TypeNamesAre
<1>v. \A name, value : Stands(s, tc, name, value) = Stood(name, value)
  BY <1>2, <1>t DEF Stands
<1>a. /\ tok.iss = Stood("iss", s.issuer)
      /\ tok.acr = Stood("acr", tc.acr)
      /\ tok.iat = Stood("iat", NumericDate(tc.now))
      /\ tok.nbf = Stood("nbf", NumericDate(tc.now))
      /\ tok.exp = Stood("exp", NumericDate(tc.now + tc.ttl))
  <2> HIDE DEF Stood, tc
  <2> QED
    BY <1>v, StandingClaims
<1>u. tok.aud = IF "aud" \in typed THEN {TokenType(r)} ELSE r.aud
  <2> HIDE DEF tc, typed
  <2>1. /\ "aud" \in typed => tok.aud = {tc.tokenType}
        /\ "aud" \notin typed => tok.aud = r.aud
    BY <1>t, StandingClaims
  <2> QED
    BY <1>2, <2>1
<1>7. Atomic!Nested(r, p) <=> p.kind # "nil"
  BY DEF Atomic!Nested
<1>8. Atomic!KeyOfVariant(r) = KeyOf(r)
  BY SameConstants DEF Atomic!KeyOfVariant, KeyOf
<1> HIDE DEF tc, tok, w, nested, length, Stood
<1>9. /\ tok.kid = s.keyID /\ tok.typ = s.headerTyp
      /\ tok.alg = s.algorithm /\ tok.sig = [key |-> s.key, alg |-> s.algorithm]
      /\ tok.variant = p
      /\ tok.iss = Stood("iss", s.issuer)
      /\ tok.acr = Stood("acr", Acr(r, p)) /\ tok.tokenType = TokenType(r)
      /\ tok.iat = Stood("iat", NumericDate(t)) /\ tok.nbf = Stood("nbf", NumericDate(t))
      /\ tok.exp = Stood("exp", NumericDate(t + length))
      /\ {n \in DOMAIN tok.writers : tok.writers[n] = "variant"} = nested
      /\ {n \in DOMAIN tok.writers : tok.writers[n] = "token type"} = typed
      /\ {n \in DOMAIN tok.writers : tok.writers[n] = "standard"} = Atomic!StandardOf(r, p) \ typed
  <2> HIDE DEF typed
  <2> QED
    BY <1>1, <1>2, <1>3, <1>5, <1>6, <1>a
<1>10. Atomic!IsTokenOf(tok, s, r, p, t)
  BY <1>7, <1>8, <1>9, <1>u, SameOperators, Zenon DEF Atomic!IsTokenOf, typed, nested, length, Stood
<1> QED
  BY <1>10 DEF tok, tc

-----------------------------------------------------------------------------
(* The steps.                                                              *)

ByValue == \A r \in Requests : ~ r.byRef

\* What the abstract specification sees of a call.
statusBar == [c \in Calls |-> Status(c)]
outcomeBar == [c \in Calls |-> Outcome(c)]

\* A call that does nothing keeps what is seen of it.
LEMMA SeenTheSame ==
  ASSUME NEW c \in Calls, signer' = signer,
         pc'[c] = pc[c], req'[c] = req[c], given'[c] = given[c],
         claims'[c] = claims[c], err'[c] = err[c], token'[c] = token[c]
  PROVE  Status(c)' = Status(c) /\ Outcome(c)' = Outcome(c)
BY DEF Status, Outcome

\* A step of call c shows only in c.
LEMMA OnlyOneIsSeen ==
  ASSUME NEW c \in Calls, signer' = signer,
         \A d \in Calls \ {c} : /\ pc'[d] = pc[d] /\ req'[d] = req[d]
                               /\ given'[d] = given[d] /\ claims'[d] = claims[d]
                               /\ err'[d] = err[d] /\ token'[d] = token[d]
  PROVE  /\ statusBar' = [statusBar EXCEPT ![c] = Status(c)']
         /\ outcomeBar' = [outcomeBar EXCEPT ![c] = Outcome(c)']
<1>1. \A d \in Calls \ {c} : Status(d)' = Status(d) /\ Outcome(d)' = Outcome(d)
  BY SeenTheSame
<1> QED
  BY <1>1 DEF statusBar, outcomeBar

LEMMA AtomicInit == Init => Atomic!Init
<1> SUFFICES ASSUME Init PROVE Atomic!Init
  OBVIOUS
<1>1. statusBar = [c \in Calls |-> "idle"]
  BY DEF Init, statusBar, Status
<1>2. outcomeBar = [c \in Calls |-> [err |-> NoError, token |-> NoToken]]
  BY DEF Init, outcomeBar, Outcome
<1>3. signer \in Signers
  BY InitEstablishes DEF IInv, TypeInv
<1> QED
  BY <1>1, <1>2, <1>3, SameConstants DEF Init, Atomic!Init, statusBar, outcomeBar

\* What AtomicIssue sees of a call before its claims are dated.
LEMMA SeenBefore ==
  ASSUME NEW c \in Calls, CallInv(c), pc[c] \in {"check", "base"}
  PROVE  Status(c) = "called" /\ Outcome(c) = [err |-> NoError, token |-> NoToken]
BY DEF Status, Outcome, CallInv, Issued

\* A decision: what makes one of what is seen of a step.
LEMMA DecideFrom ==
  ASSUME NEW c \in Calls, Status(c) = "called", NEW o, NEW x \in {"decided", "done"},
         outcomeBar' = [outcomeBar EXCEPT ![c] = o], statusBar' = [statusBar EXCEPT ![c] = x],
         UNCHANGED <<signer, now, object, req, given>>,
         \/ /\ Atomic!Acceptable(signer, req[c], given[c])
            /\ o.err = NoError
            /\ Atomic!IsTokenOf(o.token, signer, req[c], given[c], now)
         \/ /\ ~ Atomic!Acceptable(signer, req[c], given[c]) \/ o.err = "could not generate jti"
            /\ o.err # NoError
            /\ o.token = NoToken
  PROVE  Atomic!Decide(c)
<1>1. outcomeBar'[c] = o /\ statusBar[c] = "called"
  BY DEF outcomeBar, statusBar
<1>2. statusBar' \in {[statusBar EXCEPT ![c] = s] : s \in {"decided", "done"}}
  OBVIOUS
<1> QED
  BY <1>1, <1>2, SameConstants DEF Atomic!Decide, outcomeBar, statusBar

\* An error path of a call that is not decided yet is a decision.
LEMMA FailDecides ==
  ASSUME IInv, NEW c \in Calls, pc[c] \in {"check", "base"}, NEW e, e # NoError, Fail(c, e),
         ~ Atomic!Acceptable(signer, req[c], given[c]) \/ e = "could not generate jti"
  PROVE  Atomic!Decide(c)
<1>1. Status(c) = "called" /\ token[c] = NoToken /\ TypeInv
  BY SeenBefore DEF IInv, CallInv, Issued
<1>2. Status(c)' = "done" /\ Outcome(c)' = [err |-> e, token |-> NoToken]
  BY <1>1 DEF Fail, Status, Outcome, TypeInv
<1>3. /\ statusBar' = [statusBar EXCEPT ![c] = "done"]
      /\ outcomeBar' = [outcomeBar EXCEPT ![c] = [err |-> e, token |-> NoToken]]
  BY <1>1, <1>2, OnlyOneIsSeen DEF Fail, TypeInv
<1> QED
  BY <1>1, <1>3, DecideFrom DEF Fail

LEMMA CallIsCall ==
  ASSUME IInv, NEW c \in Calls, Call(c)
  PROVE  Atomic!Call(c)
<1>1. TypeInv
  BY DEF IInv
<1>2. Status(c) = pc[c] /\ Status(c)' = "called"
      /\ Outcome(c)' = [err |-> NoError, token |-> NoToken]
  BY <1>1 DEF Call, Status, Outcome, TypeInv
<1>3. /\ statusBar' = [statusBar EXCEPT ![c] = "called"]
      /\ outcomeBar' = [outcomeBar EXCEPT ![c] = [err |-> NoError, token |-> NoToken]]
  BY <1>1, <1>2, OnlyOneIsSeen DEF Call, TypeInv
<1>4. statusBar[c] \in {"idle", "done"}
  BY <1>2 DEF Call, statusBar
<1> QED
  BY <1>3, <1>4, SameConstants DEF Call, Atomic!Call, statusBar, outcomeBar

\* The payload of a by-value call is what it was given.
LEMMA OwnPayload ==
  ASSUME ByValue, IInv, NEW c \in Calls, pc[c] # "idle"
  PROVE  /\ req[c] \in Requests /\ given[c] \in Readable(req[c])
         /\ PayloadOf(c) = given[c]
BY DEF ByValue, IInv, CallInv, PayloadOf

LEMMA CheckIsDecideOrStutter ==
  ASSUME ByValue, IInv, NEW c \in Calls, Check(c)
  PROVE  Atomic!Decide(c) \/ UNCHANGED Atomic!vars
<1> DEFINE e == CheckError(signer, req[c], given[c])
<1>1. pc[c] = "check" /\ PayloadOf(c) = given[c] /\ TypeInv /\ CallInv(c)
  BY OwnPayload DEF Check, IInv
<1>2. CASE e # NoError /\ Fail(c, e)
  <2>1. ~ Atomic!Acceptable(signer, req[c], given[c])
    BY <1>1, <1>2, OwnPayload, AcceptableIsChecked
  <2> QED
    BY <1>1, <1>2, <2>1, FailDecides
<1>3. CASE /\ claims' = [claims EXCEPT ![c] = Assemble(req[c], given[c])]
           /\ pc' = [pc EXCEPT ![c] = "base"]
           /\ UNCHANGED <<signer, now, object, req, given, err, token>>
  <2>1. Status(c)' = Status(c) /\ Outcome(c)' = Outcome(c)
    BY <1>1, <1>3 DEF Status, Outcome, TypeInv
  <2>2. statusBar' = statusBar /\ outcomeBar' = outcomeBar
    BY <1>1, <1>3, <2>1, SeenTheSame DEF statusBar, outcomeBar, TypeInv
  <2> QED
    BY <1>3, <2>2 DEF Atomic!vars, statusBar, outcomeBar
<1> QED
  BY <1>1, <1>2, <1>3 DEF Check

LEMMA BaseIsDecide ==
  ASSUME ByValue, IInv, NEW c \in Calls, Base(c)
  PROVE  Atomic!Decide(c)
<1> DEFINE r == req[c]
           p == given[c]
           tc == Made(signer, r, p, now)
           e == SignError(signer, r, tc, p)
           o == [err   |-> e,
                 token |-> IF e = NoError THEN Sign(signer, r, tc, p) ELSE NoToken]
<1>1. pc[c] = "base" /\ TypeInv /\ CallInv(c) /\ r \in Requests /\ p \in Readable(r)
  BY OwnPayload DEF Base, IInv
<1>2. Status(c) = "called"
  BY <1>1, SeenBefore
<1>3. CheckError(signer, r, p) = NoError /\ claims[c] = Assemble(r, p)
  <2>1. PICK q : Checked(c, q) /\ claims[c] = Assemble(r, q)
    BY <1>1 DEF CallInv
  <2>2. q = p
    BY <1>1, <2>1 DEF ByValue, Checked, Read
  <2> QED
    BY <2>1, <2>2 DEF Checked
<1>4. Atomic!Acceptable(signer, r, p) <=> BaseError(r) = NoError /\ e = NoError
  BY <1>1, <1>3, AcceptableIsChecked
<1>5. CASE BaseError(r) # NoError /\ Fail(c, BaseError(r))
  BY <1>1, <1>4, <1>5, FailDecides
<1>6. CASE Fail(c, "could not generate jti")
  BY <1>1, <1>6, ErrorNames, FailDecides
<1>7. CASE /\ BaseError(r) = NoError
           /\ claims' = [claims EXCEPT ![c] = Dated(@, now, TTL(signer, r))]
           /\ pc' = [pc EXCEPT ![c] = "sign"]
           /\ UNCHANGED <<signer, now, object, req, given, err, token>>
  <2>1. claims'[c] = tc
    BY <1>1, <1>3, <1>7 DEF Made, TypeInv
  <2>2. Status(c)' = "decided"
    BY <1>1, <1>7 DEF Status, TypeInv
  <2>3. Outcome(c)' = o
    <3>1. pc'[c] = "sign" /\ signer' = signer /\ req'[c] = r /\ given'[c] = p
      BY <1>1, <1>7 DEF TypeInv
    <3> HIDE DEF tc
    <3> QED
      BY <2>1, <3>1 DEF Outcome
  <2>4. /\ statusBar' = [statusBar EXCEPT ![c] = "decided"]
        /\ outcomeBar' = [outcomeBar EXCEPT ![c] = o]
    BY <1>1, <1>7, <2>2, <2>3, OnlyOneIsSeen DEF TypeInv
  <2>5. \/ /\ Atomic!Acceptable(signer, r, p)
           /\ o.err = NoError
           /\ Atomic!IsTokenOf(o.token, signer, r, p, now)
        \/ /\ ~ Atomic!Acceptable(signer, r, p)
           /\ o.err # NoError
           /\ o.token = NoToken
    <3>1. CASE e = NoError
      <4>1. Atomic!Acceptable(signer, r, p) /\ o.err = NoError
        BY <1>4, <1>7, <3>1
      <4>2. o.token = Sign(signer, r, tc, p)
        BY <3>1
      <4>3. Atomic!IsTokenOf(Sign(signer, r, tc, p), signer, r, p, now)
        BY <1>1, <4>1, SignedIsTokenOf
      <4> QED
        BY <4>1, <4>2, <4>3
    <3>2. CASE e # NoError
      BY <1>4, <3>2
    <3> QED
      BY <3>1, <3>2
  <2> HIDE DEF o
  <2> QED
    BY <1>2, <1>7, <2>4, <2>5, DecideFrom
<1> QED
  BY <1>5, <1>6, <1>7 DEF Base

LEMMA SignIsReturn ==
  ASSUME ByValue, IInv, NEW c \in Calls, SignClaims(c)
  PROVE  Atomic!Return(c)
<1> DEFINE e == SignError(signer, req[c], claims[c], given[c])
<1>1. pc[c] = "sign" /\ PayloadOf(c) = given[c] /\ TypeInv /\ CallInv(c)
  BY OwnPayload DEF SignClaims, IInv
<1>2. Status(c) = "decided" /\ err[c] = NoError /\ token[c] = NoToken
  BY <1>1 DEF Status, CallInv, Issued
<1>3. /\ UNCHANGED <<signer, now, object, req, given, claims>>
      /\ pc' = [pc EXCEPT ![c] = "done"]
      /\ \A d \in Calls \ {c} : err'[d] = err[d] /\ token'[d] = token[d]
      /\ [err |-> err'[c], token |-> token'[c]] = Outcome(c)
  <2>1. CASE e # NoError /\ Fail(c, e)
    BY <1>1, <1>2, <2>1 DEF Fail, Outcome, TypeInv
  <2>2. CASE /\ e = NoError
             /\ token' = [token EXCEPT ![c] = Sign(signer, req[c], claims[c], given[c])]
             /\ pc' = [pc EXCEPT ![c] = "done"]
             /\ UNCHANGED <<signer, now, object, req, given, claims, err>>
    BY <1>1, <1>2, <2>2 DEF Outcome, TypeInv
  <2> QED
    BY <1>1, <2>1, <2>2 DEF SignClaims
<1>4. Status(c)' = "done" /\ Outcome(c)' = Outcome(c)
  <2>1. pc'[c] = "done"
    BY <1>1, <1>3 DEF TypeInv
  <2>2. Outcome(c)' = [err |-> err'[c], token |-> token'[c]]
    BY <2>1 DEF Outcome
  <2>3. Status(c)' = "done"
    BY <2>1 DEF Status
  <2> QED
    BY <1>3, <2>2, <2>3
<1>5. /\ statusBar' = [statusBar EXCEPT ![c] = "done"]
      /\ outcomeBar' = [outcomeBar EXCEPT ![c] = Outcome(c)]
  BY <1>1, <1>3, <1>4, OnlyOneIsSeen DEF TypeInv
<1>6. outcomeBar' = outcomeBar /\ statusBar[c] = "decided"
  BY <1>2, <1>5 DEF outcomeBar, statusBar
<1> QED
  BY <1>3, <1>5, <1>6 DEF Atomic!Return, statusBar, outcomeBar

LEMMA EnvironmentIsEnvironment ==
  ASSUME IInv
  PROVE  /\ \A o \in Objects : Rewrite(o) => Atomic!Rewrite(o)
         /\ Tick => Atomic!Tick
         /\ UNCHANGED vars => UNCHANGED Atomic!vars
<1>1. ASSUME NEW o \in Objects, Rewrite(o) PROVE Atomic!Rewrite(o)
  <2>1. PICK p \in Contents[o] : object' = [object EXCEPT ![o] = p]
    BY <1>1 DEF Rewrite
  <2>2. object'[o] = p
    BY <2>1 DEF IInv, TypeInv
  <2>3. statusBar' = statusBar /\ outcomeBar' = outcomeBar
    BY <1>1, SeenTheSame DEF Rewrite, statusBar, outcomeBar
  <2> QED
    BY <1>1, <2>1, <2>2, <2>3 DEF Rewrite, Atomic!Rewrite, statusBar, outcomeBar
<1>2. ASSUME Tick PROVE Atomic!Tick
  <2>1. statusBar' = statusBar /\ outcomeBar' = outcomeBar
    BY <1>2, SeenTheSame DEF Tick, statusBar, outcomeBar
  <2> QED
    BY <1>2, <2>1 DEF Tick, Atomic!Tick, statusBar, outcomeBar
<1>3. ASSUME UNCHANGED vars PROVE UNCHANGED Atomic!vars
  <2>1. statusBar' = statusBar /\ outcomeBar' = outcomeBar
    BY <1>3, SeenTheSame DEF vars, statusBar, outcomeBar
  <2> QED
    BY <1>3, <2>1 DEF vars, Atomic!vars, statusBar, outcomeBar
<1> QED
  BY <1>1, <1>2, <1>3

LEMMA AtomicNext ==
  ASSUME ByValue, IInv, [Next]_vars
  PROVE  [Atomic!Next]_Atomic!vars
<1>1. ASSUME NEW c \in Calls, Call(c) PROVE Atomic!Next
  BY <1>1, CallIsCall DEF Atomic!Next
<1>2. ASSUME NEW c \in Calls, Check(c) PROVE [Atomic!Next]_Atomic!vars
  BY <1>2, CheckIsDecideOrStutter DEF Atomic!Next
<1>3. ASSUME NEW c \in Calls, Base(c) PROVE Atomic!Next
  BY <1>3, BaseIsDecide DEF Atomic!Next
<1>4. ASSUME NEW c \in Calls, SignClaims(c) PROVE Atomic!Next
  BY <1>4, SignIsReturn DEF Atomic!Next
<1>5. ASSUME (\E o \in Objects : Rewrite(o)) \/ Tick PROVE Atomic!Next
  BY <1>5, EnvironmentIsEnvironment DEF Atomic!Next
<1>6. CASE UNCHANGED vars
  BY <1>6, EnvironmentIsEnvironment
<1> QED
  BY <1>1, <1>2, <1>3, <1>4, <1>5, <1>6 DEF Next

(* A call whose payload is passed by value takes effect at one instant:    *)
(* whatever the goroutines, the callers and the clock do between its three *)
(* steps, it returns what the request, the payload as it was passed and    *)
(* the clock of that instant make, or an error (the Issue methods).        *)
THEOREM CallsTakeEffectAtOnce ==
  ASSUME ByValue
  PROVE  Spec => CallsAreAtomic
<1>1. Init => Atomic!Init
  BY AtomicInit
<1>2. IInv /\ [Next]_vars => [Atomic!Next]_Atomic!vars
  BY AtomicNext
<1>3. Spec => []IInv
  BY Invariance
<1> QED
  BY <1>1, <1>2, <1>3, PTL DEF Spec, CallsAreAtomic, Atomic!Spec

(* What SignVerify takes for one Issue call, all checks, the clock and the *)
(* signature in one step, is what AtomicIssue promises of a call: the      *)
(* chain of checks passes exactly the acceptable requests, and makes of    *)
(* each the token it describes, for every Signer, payload and time.        *)
THEOREM OneStepIssueIsAtomicIssue ==
  ASSUME NEW s, NEW r \in Requests, NEW p \in Readable(r), NEW t
  PROVE  LET tc == Dated(Assemble(r, p), t, TTL(s, r)) IN
         /\ FirstError(<<CheckError(s, r, p), BaseError(r), SignError(s, r, tc, p)>>) = NoError
              <=> Atomic!Acceptable(s, r, p)
         /\ Atomic!Acceptable(s, r, p) => Atomic!IsTokenOf(Sign(s, r, tc, p), s, r, p, t)
<1> DEFINE tc == Dated(Assemble(r, p), t, TTL(s, r))
<1>1. tc = Made(s, r, p, t)
  BY DEF Made
<1> HIDE DEF tc
<1>2. FirstError(<<CheckError(s, r, p), BaseError(r), SignError(s, r, tc, p)>>) = NoError
        <=> Atomic!Acceptable(s, r, p)
  <2>1. FirstError(<<CheckError(s, r, p), BaseError(r), SignError(s, r, tc, p)>>) = NoError
          <=> /\ CheckError(s, r, p) = NoError /\ BaseError(r) = NoError
              /\ SignError(s, r, tc, p) = NoError
    BY AllThreePass
  <2>2. Atomic!Acceptable(s, r, p)
          <=> /\ CheckError(s, r, p) = NoError /\ BaseError(r) = NoError
              /\ SignError(s, r, tc, p) = NoError
    BY <1>1, AcceptableIsChecked
  <2> QED
    BY <2>1, <2>2, Zenon
<1>3. Atomic!Acceptable(s, r, p) => Atomic!IsTokenOf(Sign(s, r, tc, p), s, r, p, t)
  BY <1>1, SignedIsTokenOf, Zenon
<1> QED
  BY <1>2, <1>3 DEF tc
=============================================================================
