---------------------------- MODULE TokenClaims ----------------------------
(***************************************************************************)
(* Package pkg/token without its state: what a request is, what the Issue  *)
(* methods check, the claims they assemble and the token that results.     *)
(* s is the Signer, r the request, p the payload as it is read at that     *)
(* moment, tc the tokenClaims.                                             *)
(***************************************************************************)
EXTENDS VariantClaims, SigningKeys

CONSTANTS
  Objects,          \* payload objects of the callers
  Contents,         \* what each object may hold, by its Go type
  Requests,         \* the requests callers make
  Signers,          \* the Signers NewSigner can return
  TicksPerSecond    \* the clock is finer than a NumericDate

NoObject == "no object"
BuiltIns == {"eidas", "digid", "eherkenning"}     \* also their token types and keys
Ops      == BuiltIns \union {"custom", "access"}

\* The omitempty claims only an access token fills from its request.
OptionalClaims == {"scope", "roles", "name", "email", "preferred_username"}

RequestType ==
  [op       : Ops,
   sub      : BOOLEAN,                       \* is there a subject?
   aud      : SUBSET STRING,
   ttl      : Int,                           \* in ticks
   authTime : [set : BOOLEAN, unix : Int],   \* set is ~t.IsZero()
   amr      : BOOLEAN,                       \* is there a method reference?
   loa      : Stated(LoAs),
   type     : STRING,
   clientID : BOOLEAN,
   optional : SUBSET OptionalClaims,
   key      : STRING,                        \* ClaimsKey
   acr      : STRING,
   object   : Objects \union {NoObject},     \* the payload, NoObject for nil
   byRef    : BOOLEAN]                       \* does it share memory with the caller?

(* Go's types.  A built-in request holds a struct of its own variant, of   *)
(* plain fields, which is copied with the request.  The `any` payload of   *)
(* the others is byRef when it is a pointer or has slices or maps in it,   *)
(* for Go copies no further than those.                                    *)
WellTyped(r) ==
  /\ r \in RequestType
  /\ r.op \in BuiltIns => /\ r.object \in Objects /\ ~ r.byRef
                          /\ \A p \in Contents[r.object] : p.kind = r.op
  /\ r.byRef => r.object \in Objects

ASSUME ObjectsAssumption ==
  /\ NoObject \notin Objects
  /\ Contents \in [Objects -> SUBSET (Claims \ {NoClaims})]

ASSUME RequestsAssumption == \A r \in Requests : WellTyped(r)

ASSUME SignersAssumption ==
  \A s \in Signers : /\ s.issuer # "" /\ s.keyID # "" /\ s.tokenTypeClaim # ""
                     /\ s.defaultTTL \in Nat \ {0}

\* NewService refuses nil, and takes any Signer there is.
NewServiceError(s) == When(s = NoSigner, "signer must not be nil")

\* A configuration that NewSigner makes the Signer s of.
ConfigOf(s) ==
  [issuer |-> s.issuer, algorithm |-> s.algorithm, keyID |-> s.keyID,
   keyPEM |-> [form |-> "PRIVATE KEY", key |-> s.key], defaultTTL |-> s.defaultTTL,
   clock |-> s.clock, tokenTypeClaim |-> s.tokenTypeClaim, headerTyp |-> s.headerTyp]

ASSUME BuiltSignersAssumption ==
  \A s \in Signers : SignerError(ConfigOf(s)) = NoError /\ s = Signer(ConfigOf(s))

ASSUME TimeAssumption == TicksPerSecond \in Nat \ {0}

-----------------------------------------------------------------------------
reservedClaimNames ==
  {"iss", "sub", "aud", "exp", "nbf", "iat", "jti", "acr", "amr", "auth_time",
   "client_id", "scope", "roles", "name", "email", "preferred_username",
   "groups", "entitlements", "azp", "cnf", "sid", "given_name", "family_name"}

\* jwt.NewNumericDate drops the fraction of a second.
NumericDate(t) == t - (t % TicksPerSecond)

authTime(t) == IF t.set THEN t.unix ELSE 0

\* Deviation: the name of the token-type claim may be taken as a ClaimsKey.
CheckNested_AnyTypeClaim(s, key, p) == FirstError(<<
  When(p.kind # "nil" /\ key = "", "ErrMissingClaimsKey"),
  When(key \in reservedClaimNames, "ErrReservedClaimsKey"),
  Validate(p)>>)

\* Deviation: only the claims every token has are protected.
CheckNested_FewReserved(s, key, p) == FirstError(<<
  When(p.kind # "nil" /\ key = "", "ErrMissingClaimsKey"),
  When(key \in {"iss", "sub", "aud", "exp", "nbf", "iat", "jti", s.tokenTypeClaim},
       "ErrReservedClaimsKey"),
  Validate(p)>>)

checkNested(s, key, p) == FirstError(<<
  When(p.kind # "nil" /\ key = "", "ErrMissingClaimsKey"),
  When(key # "" /\ (key \in reservedClaimNames \/ key = s.tokenTypeClaim),
       "ErrReservedClaimsKey"),
  Validate(p)>>)

\* What an Issue method checks before it calls issue.
CheckError(s, r, p) ==
  CASE r.op = "eidas" ->
         FirstError(<<When(r.loa \notin LoAs, "ErrInvalidAssuranceLevel"), Validate(p)>>)
    [] r.op \in {"digid", "eherkenning"} -> Validate(p)
    [] r.op = "custom" ->
         FirstError(<<When(r.type = "", "ErrMissingTokenType"), checkNested(s, r.key, p)>>)
    [] r.op = "access" ->
         FirstError(<<When(~ r.clientID, "ErrMissingClientID"), checkNested(s, r.key, p)>>)

\* The acr claim an Issue method asks for.
Acr(r, p) ==
  CASE r.op = "eidas"       -> r.loa
    [] r.op = "digid"       -> DigiDToEIDAS(p.AssuranceLevel)
    [] r.op = "eherkenning" -> EHToEIDAS(p.AssuranceClass)
    [] OTHER                -> r.acr

\* The token type it asks for: none for an access token.
TokenType(r) ==
  CASE r.op \in BuiltIns -> r.op
    [] r.op = "custom"   -> r.type
    [] r.op = "access"   -> ""

\* The tokenClaims it hands to issue, which are not dated yet.
Assemble(r, p) ==
  [acr        |-> Acr(r, p),
   tokenType  |-> TokenType(r),
   variantKey |-> IF r.op \in BuiltIns THEN r.op ELSE r.key,
   filled     |-> IF r.op = "access" THEN {"client_id"} \union r.optional ELSE {},
   now        |-> 0,
   ttl        |-> 0]

\* What issue adds to them: the clock and the TTL the registered claims come from.
Dated(tc, time, ttl) == [tc EXCEPT !.now = time, !.ttl = ttl]

NoTokenClaims ==
  [acr |-> "", tokenType |-> "", variantKey |-> "", filled |-> {}, now |-> 0, ttl |-> 0]

-----------------------------------------------------------------------------
(* tokenClaims.MarshalJSON.  A payload is, for each top-level name in it,  *)
(* which of the three parts wrote it.                                      *)

\* The names the embedded standard struct writes: omitempty drops the rest.
StandardNames(r, tc) ==
  {"iss", "sub", "aud", "exp", "nbf", "iat", "jti"}
    \union tc.filled
    \union (IF tc.acr # "" THEN {"acr"} ELSE {})
    \union (IF r.amr THEN {"amr"} ELSE {})
    \union (IF authTime(r.authTime) # 0 THEN {"auth_time"} ELSE {})

TypeNames(s, tc) == IF tc.tokenType # "" THEN {s.tokenTypeClaim} ELSE {}

Nests(tc, p) == tc.variantKey # "" /\ p.kind # "nil"

\* Deviation: the variant is written whatever has that name already.
MarshalError_Overwrites(s, r, tc, p) ==
  When(Nests(tc, p) /\ ~ Marshals(p), "json: marshal error")

MarshalError(s, r, tc, p) == FirstError(<<
  When(Nests(tc, p) /\ tc.variantKey \in StandardNames(r, tc) \union TypeNames(s, tc),
       "ErrReservedClaimsKey"),
  When(Nests(tc, p) /\ ~ Marshals(p), "json: marshal error")>>)

Writers(s, r, tc, p) ==
  LET nested == IF Nests(tc, p) THEN {tc.variantKey} ELSE {}
  IN  [name \in StandardNames(r, tc) \union TypeNames(s, tc) \union nested |->
         CASE name \in nested -> "variant"
           [] name \notin nested /\ name \in TypeNames(s, tc) -> "token type"
           [] OTHER -> "standard"]

\* A claim as the token has it: the token type stands over what had its name.
Stands(s, tc, name, value) == IF name \in TypeNames(s, tc) THEN tc.tokenType ELSE value

\* Signer.Sign: marshal, then sign; the header gets the Signer's typ and kid.
SignError(s, r, tc, p) ==
  FirstError(<<MarshalError(s, r, tc, p), SigningError(s.key, s.algorithm)>>)

\* A claim that is not there is "", and a single audience needs no array.
Sign(s, r, tc, p) ==
  [alg |-> s.algorithm, typ |-> s.headerTyp, kid |-> s.keyID,
   sig |-> [key |-> s.key, alg |-> s.algorithm],
   writers |-> Writers(s, r, tc, p),
   iss |-> Stands(s, tc, "iss", s.issuer),
   aud |-> IF "aud" \in TypeNames(s, tc) THEN {tc.tokenType} ELSE r.aud,
   iat |-> Stands(s, tc, "iat", NumericDate(tc.now)),
   nbf |-> Stands(s, tc, "nbf", NumericDate(tc.now)),
   exp |-> Stands(s, tc, "exp", NumericDate(tc.now + tc.ttl)),
   acr |-> Stands(s, tc, "acr", tc.acr),
   tokenType |-> tc.tokenType,
   variant |-> IF Nests(tc, p) THEN p ELSE NoClaims]

\* What base checks: the fields every token needs.
BaseError(r) == FirstError(<<
  When(~ r.sub,    "ErrMissingSubject"),
  When(r.aud = {}, "ErrMissingAudience")>>)

\* Deviation: only a negative TTL is replaced.
TTL_ZeroStands(s, r) == IF r.ttl < 0 THEN s.defaultTTL ELSE r.ttl

\* The TTL of a request: unset or negative means the Signer's default.
TTL(s, r) == IF r.ttl <= 0 THEN s.defaultTTL ELSE r.ttl
=============================================================================
