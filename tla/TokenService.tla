---------------------------- MODULE TokenService ----------------------------
(***************************************************************************)
(* Package pkg/token: a Service assembles the claims of a token and signs  *)
(* it with its immutable Signer.  Goroutines (Calls) run the Issue methods *)
(* concurrently.  A call takes four steps, as the code does: it is entered *)
(* with its arguments copied, validates the payload, builds the registered *)
(* claims at the Signer's clock, and marshals and signs.  The Service      *)
(* locks nothing: time passes and callers rewrite the payload objects they *)
(* passed between any two steps.                                           *)
(*                                                                         *)
(* A built-in payload is a struct of plain fields and is copied with the   *)
(* request.  The `any` payload of a custom or access token may share       *)
(* memory with the caller: it is a pointer, or a value with slices or maps *)
(* in it, which Go does not copy.  It is then read again each time the     *)
(* code looks at it, and is one of the contents the caller may give it,    *)
(* the half copied ones among them.  It is taken to guard its own methods, *)
(* so that one read sees one content.  The slices of a request itself (its *)
(* audience, amr and roles) the caller is taken to leave alone.            *)
(***************************************************************************)
EXTENDS TokenClaims

CONSTANTS
  Calls,      \* goroutines that use the Service
  MaxTime     \* bound of the clock, in ticks

ASSUME MaxTimeAssumption == MaxTime \in Nat

VARIABLES
  signer,   \* the Service's Signer, never changed
  now,      \* the Signer's clock, in ticks
  object,   \* what the callers' payload objects hold
  pc,       \* where each call is: "idle", "check", "base", "sign", "done"
  req,      \* its request
  given,    \* the payload as it was when the call was entered
  claims,   \* its tokenClaims
  err,      \* the error it returned
  token     \* the token it returned

vars == <<signer, now, object, pc, req, given, claims, err, token>>

NoRequest == [op |-> "none"]
NoToken   == [kid |-> ""]

\* Deviation: every payload is read through a pointer to the caller's object.
PayloadOf_Shared(c) ==
  IF req[c].object = NoObject THEN NoClaims ELSE object[req[c].object]

\* The payload as call c reads it now: in shared memory, or in its own copy.
PayloadOf(c) == IF req[c].byRef THEN object[req[c].object] ELSE given[c]

-----------------------------------------------------------------------------
Init ==
  /\ signer \in {s \in Signers \union {NoSigner} : NewServiceError(s) = NoError}
  /\ now = 0
  /\ object \in {f \in [Objects -> UNION {Contents[o] : o \in Objects}] :
                   \A o \in Objects : f[o] \in Contents[o]}
  /\ pc = [c \in Calls |-> "idle"]
  /\ req = [c \in Calls |-> NoRequest]
  /\ given = [c \in Calls |-> NoClaims]
  /\ claims = [c \in Calls |-> NoTokenClaims]
  /\ err = [c \in Calls |-> NoError]
  /\ token = [c \in Calls |-> NoToken]

\* A goroutine calls an Issue method; its arguments are copied.
Call(c) ==
  /\ pc[c] \in {"idle", "done"}
  /\ \E r \in Requests :
       /\ req' = [req EXCEPT ![c] = r]
       /\ given' = [given EXCEPT ![c] = IF r.object = NoObject THEN NoClaims
                                                             ELSE object[r.object]]
  /\ pc' = [pc EXCEPT ![c] = "check"]
  /\ claims' = [claims EXCEPT ![c] = NoTokenClaims]
  /\ err' = [err EXCEPT ![c] = NoError]
  /\ token' = [token EXCEPT ![c] = NoToken]
  /\ UNCHANGED <<signer, now, object>>

\* Deviation: the error is noted and the call goes on.
Fail_GoesOn(c, e) ==
  /\ err' = [err EXCEPT ![c] = e]
  /\ UNCHANGED <<signer, now, object, pc, req, given, claims, token>>

\* The call returns an error and no token.
Fail(c, e) ==
  /\ pc' = [pc EXCEPT ![c] = "done"]
  /\ err' = [err EXCEPT ![c] = e]
  /\ UNCHANGED <<signer, now, object, req, given, claims, token>>

\* IssueEIDAS ... IssueAccessToken, up to the call of issue.
Check(c) ==
  /\ pc[c] = "check"
  /\ LET e == CheckError(signer, req[c], PayloadOf(c)) IN
       \/ /\ e # NoError
          /\ Fail(c, e)
       \/ /\ e = NoError
          /\ claims' = [claims EXCEPT ![c] = Assemble(req[c], PayloadOf(c))]
          /\ pc' = [pc EXCEPT ![c] = "base"]
          /\ UNCHANGED <<signer, now, object, req, given, err, token>>

\* base: required fields, then the clock, then a random jti, which may fail.
Base(c) ==
  /\ pc[c] = "base"
  /\ LET e == BaseError(req[c]) IN
       \/ /\ e # NoError
          /\ Fail(c, e)
       \/ /\ e = NoError
          /\ Fail(c, "could not generate jti")
       \/ /\ e = NoError
          /\ claims' = [claims EXCEPT ![c] = Dated(@, now, TTL(signer, req[c]))]
          /\ pc' = [pc EXCEPT ![c] = "sign"]
          /\ UNCHANGED <<signer, now, object, req, given, err, token>>

\* Signer.Sign: the payload is marshalled only here.
SignClaims(c) ==
  /\ pc[c] = "sign"
  /\ LET e == SignError(signer, req[c], claims[c], PayloadOf(c)) IN
       \/ /\ e # NoError
          /\ Fail(c, e)
       \/ /\ e = NoError
          /\ token' = [token EXCEPT ![c] = Sign(signer, req[c], claims[c], PayloadOf(c))]
          /\ pc' = [pc EXCEPT ![c] = "done"]
          /\ UNCHANGED <<signer, now, object, req, given, claims, err>>

-----------------------------------------------------------------------------
(* The environment: callers rewrite their objects, and time passes.        *)

Rewrite(o) ==
  /\ \E p \in Contents[o] : object' = [object EXCEPT ![o] = p]
  /\ UNCHANGED <<signer, now, pc, req, given, claims, err, token>>

Tick ==
  /\ now < MaxTime
  /\ now' = now + 1
  /\ UNCHANGED <<signer, object, pc, req, given, claims, err, token>>

Next ==
  \/ \E c \in Calls : Call(c) \/ Check(c) \/ Base(c) \/ SignClaims(c)
  \/ \E o \in Objects : Rewrite(o)
  \/ Tick

Spec == Init /\ [][Next]_vars

-----------------------------------------------------------------------------
(* Properties.  A call that returned a token is called issued.             *)

Issued(c) == pc[c] = "done" /\ err[c] = NoError

\* The token type goes over no claim of that name: an access token has no type.
Keeps(c, name) == signer.tokenTypeClaim # name \/ req[c].op = "access"

(* Every component has its type; a call that ended has either a token or   *)
(* an error, and a call under way has neither.                             *)
TypeOK ==
  /\ signer \in Signers
  /\ now \in 0..MaxTime
  /\ object \in [Objects -> Claims]
  /\ \A o \in Objects : object[o] \in Contents[o]
  /\ pc \in [Calls -> {"idle", "check", "base", "sign", "done"}]
  /\ \A c \in Calls :
       /\ pc[c] # "idle" => req[c] \in Requests
       /\ given[c] \in Claims
       /\ claims[c].now \in 0..now
       /\ pc[c] # "done" => err[c] = NoError
       /\ token[c] # NoToken <=> Issued(c)

(* A payload that is validated is validated as signed: unless its memory   *)
(* is shared with the caller, the payload in a token passed its Validate,       *)
(* whatever the callers did to their objects since.                        *)
SignedPayloadIsValid ==
  \A c \in Calls :
    Issued(c) /\ ~ req[c].byRef => Validate(token[c].variant) = NoError

(* The acr claim of a built-in token is not higher than the assurance      *)
(* level in the same token's payload (IssueDigiD, IssueEHerkenning, the    *)
(* EIDAS mappings), and an eIDAS token's is an official level; only a      *)
(* Signer whose token-type claim is named acr takes it away (MarshalJSON). *)
AcrMatchesPayload ==
  \A c \in Calls :
    LET t == token[c] IN
    Issued(c) /\ req[c].op \in BuiltIns /\ Keeps(c, "acr") =>
      /\ t.acr \in LoAs
      /\ req[c].op = "digid" =>
           /\ t.acr = "high"        <=> t.variant.AssuranceLevel = "hoog"
           /\ t.acr = "substantial" <=> t.variant.AssuranceLevel = "substantieel"
      /\ req[c].op = "eherkenning" =>
           /\ t.acr = "high"        <=> t.variant.AssuranceClass = "loa4"
           /\ t.acr = "substantial" <=> t.variant.AssuranceClass = "loa3"

(* A variant writes no reserved name, present in this token or not, and    *)
(* never the token-type claim (checkNested, MarshalJSON).                  *)
VariantKeepsToItsKey ==
  \A c \in Calls : Issued(c) =>
    \A name \in DOMAIN token[c].writers :
      token[c].writers[name] = "variant" =>
        name \notin reservedClaimNames /\ name # signer.tokenTypeClaim

(* The token-type claim is the Service's: every token but an access token  *)
(* carries its own type there, an access token none (MarshalJSON,          *)
(* IssueAccessToken).                                                      *)
TypeClaimIsTheTokensType ==
  \A c \in Calls :
    LET w == token[c].writers IN
    Issued(c) =>
      IF req[c].op = "access"
      THEN \A name \in DOMAIN w : w[name] # "token type"
                               /\ (name = signer.tokenTypeClaim => w[name] = "standard")
      ELSE /\ signer.tokenTypeClaim \in DOMAIN w
           /\ w[signer.tokenTypeClaim] = "token type"
           /\ token[c].tokenType # ""
           /\ req[c].op \in BuiltIns => token[c].tokenType = req[c].op

\* A time is cut off to the date: less than a second is lost, and none is gained.
CutTo(time, date) == date <= time /\ time < date + TicksPerSecond

(* A token expires within the second before the clock reading plus the     *)
(* TTL, never after it, and is dated within the second before that reading *)
(* (base); a Signer may name its token-type claim like one of the dates,   *)
(* which is then no date, but the others still are (MarshalJSON).          *)
ExpiresWithTTL ==
  \A c \in Calls : Issued(c) =>
    LET at  == claims[c].now
        ttl == IF req[c].ttl > 0 THEN req[c].ttl ELSE signer.defaultTTL
    IN  /\ Keeps(c, "exp") => CutTo(at + ttl, token[c].exp)
        /\ Keeps(c, "iat") => CutTo(at, token[c].iat)
        /\ Keeps(c, "nbf") => CutTo(at, token[c].nbf)
        /\ at <= now

(* docs/threat-model.md:112: "iss, iat, jti on every Service token".       *)
IdentifyingClaimsOnEveryToken ==
  \A c \in Calls : Issued(c) =>
    \A name \in {"iss", "iat", "jti"} :
      name \in DOMAIN token[c].writers /\ token[c].writers[name] = "standard"

(* service.go:202-203: an access token's type signal is the at+jwt header  *)
(* typ, so the typ tells access tokens from the others.                    *)
TypSignalsAccessToken ==
  \A c \in Calls : Issued(c) => (req[c].op = "access" <=> token[c].typ = "at+jwt")

-----------------------------------------------------------------------------
(* With payloads passed by value a call is atomic: it is decided when base *)
(* has read the clock, although the payload is marshalled later.           *)

Status(c) ==
  CASE pc[c] = "idle"              -> "idle"
    [] pc[c] \in {"check", "base"} -> "called"
    [] pc[c] = "sign"              -> "decided"
    [] pc[c] = "done"              -> "done"

\* What a call that waits to sign is bound to return.
Outcome(c) ==
  LET e == SignError(signer, req[c], claims[c], given[c]) IN
  IF pc[c] # "sign" THEN [err |-> err[c], token |-> token[c]]
  ELSE [err   |-> e,
        token |-> IF e = NoError THEN Sign(signer, req[c], claims[c], given[c]) ELSE NoToken]

Atomic == INSTANCE AtomicIssue WITH
  status  <- [c \in Calls |-> Status(c)],
  outcome <- [c \in Calls |-> Outcome(c)]

\* By-value calls are atomic: the Service implements AtomicIssue.
CallsAreAtomic == Atomic!Spec
=============================================================================
