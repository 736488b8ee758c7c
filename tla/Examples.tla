------------------------------ MODULE Examples ------------------------------
(***************************************************************************)
(* examples/basic and examples/access-token: two programs that generate a  *)
(* key, build a Signer and a Service, issue tokens, print them and verify  *)
(* one.  Each stops with log.Fatalf at the first error.  They run on the   *)
(* real clock: between any two steps as much time may pass as it likes.    *)
(*                                                                         *)
(* Left out are the log.Fatalf of mustDecodeSegment, of JWKSJSON and of    *)
(* marshalling the key: a token that was just signed consists of base64    *)
(* segments of JSON, a JWK of strings, and the key is an RSA key, so that  *)
(* no state of the programs leads there.                                   *)
(***************************************************************************)
EXTENDS Verifier

CONSTANTS
  DemoKey,   \* the RSA key of 2048 bits that is generated
  Times      \* what the clock may show, in ticks

ASSUME DemoKeyAssumption ==
  DemoKey \in Keys /\ DemoKey.kty = "RSA" /\ DemoKey.bits = 2048

Minute == 60 * TicksPerSecond

\* The clock shows no time close to 1970.
ASSUME TimesAssumption == Times \subseteq Nat /\ \A t \in Times : t > 3 * Minute

VARIABLES
  demo,     \* the program that runs
  now,      \* time.Now()
  pc,       \* "build", "compose", "issue", "verify", "returned", "fatal"
  signer,   \* its Signer
  composed, \* when the request at hand was put together
  printed,  \* the tokens it has printed, with the time each was issued at
  err       \* what log.Fatalf printed

vars == <<demo, now, pc, signer, composed, printed, err>>

-----------------------------------------------------------------------------
(* What the programs ask for.  since is how long ago the user is said to   *)
(* have authenticated, 0 where AuthTime is left out.                       *)

issuer == "https://signer.example.org"
TTLOption == 5 * Minute

Ask(op, aud, payload) ==
  [op |-> op, aud |-> {aud}, payload |-> payload, type |-> "", key |-> "", loa |-> "",
   acr |-> "", clientID |-> FALSE, optional |-> {}, amr |-> FALSE, since |-> 0]

\* A custom payload of the application, with its employee_id filled in.
acmeClaims == [kind |-> "custom", validates |-> TRUE, valid |-> TRUE, marshals |-> TRUE]

person == [kind |-> "eidas", PersonIdentifier |-> TRUE, FamilyName |-> TRUE,
           GivenName |-> TRUE, DateOfBirth |-> "date"]
citizen == [kind |-> "digid", BSN |-> FALSE, Pseudonym |-> TRUE,
            AssuranceLevel |-> "substantieel"]
company == [kind |-> "eherkenning", OIN |-> FALSE, KvK |-> TRUE, RSIN |-> FALSE,
            ActingSubjectID |-> TRUE, AssuranceClass |-> "loa3"]

basic ==
  [headerTyp |-> "JWT",
   asks |-> <<[Ask("custom", "acme-portal-api", acmeClaims) EXCEPT
                 !.type = "acme-portal", !.key = "acme-portal"],
              [Ask("eidas", "cross-border-service", person) EXCEPT !.loa = "high"],
              Ask("digid", "citizen-portal", citizen),
              Ask("eherkenning", "business-portal", company)>>,
   verified |-> 2, expectedAudience |-> "cross-border-service"]

accessToken ==
  [headerTyp |-> "at+jwt",
   asks |-> <<[Ask("access", "https://api.example.org", acmeClaims) EXCEPT
                 !.clientID = TRUE, !.acr = "substantial", !.key = "acme-portal",
                 !.optional = {"scope", "roles", "name", "preferred_username"},
                 !.amr = TRUE, !.since = 2 * Minute]>>,
   verified |-> 1, expectedAudience |-> "https://api.example.org"]

Demos == [basic |-> basic, accessToken |-> accessToken]

Program == Demos[demo]

\* The request an Ask becomes when it is put together at that time.
Request(a, time) ==
  [op |-> a.op, sub |-> TRUE, aud |-> a.aud, ttl |-> 0,
   authTime |-> [set |-> a.since # 0, unix |-> (time - a.since) \div TicksPerSecond],
   amr |-> a.amr, loa |-> a.loa, type |-> a.type, clientID |-> a.clientID,
   optional |-> a.optional, key |-> a.key, acr |-> a.acr,
   object |-> NoObject, byRef |-> FALSE]

Config ==
  [issuer |-> issuer, algorithm |-> "RS256", keyID |-> "",
   keyPEM |-> [form |-> "PRIVATE KEY", key |-> DemoKey], defaultTTL |-> TTLOption,
   clock |-> "time.Now", tokenTypeClaim |-> "token_type", headerTyp |-> Program.headerTyp]

-----------------------------------------------------------------------------
Init ==
  /\ demo \in DOMAIN Demos
  /\ now \in Times
  /\ pc = "build" /\ signer = NoSigner /\ composed = 0
  /\ printed = << >> /\ err = NoError

\* Deviation: the error is printed and main goes on.
Fatal_Printed(e) ==
  /\ err' = e
  /\ UNCHANGED <<demo, now, pc, signer, composed, printed>>

\* log.Fatalf.
Fatal(e) ==
  /\ pc' = "fatal" /\ err' = e
  /\ UNCHANGED <<demo, now, signer, composed, printed>>

\* mustGenerateRSAKeyPEM, whose random source may fail, NewSigner and NewService.
Build ==
  LET refused == FirstError(<<SignerError(Config), NewServiceError(Signer(Config))>>) IN
  /\ pc = "build"
  /\ \/ \E e \in {"generate key", refused} \ {NoError} : Fatal(e)
     \/ /\ refused = NoError
        /\ signer' = Signer(Config)
        /\ pc' = "compose"
        /\ UNCHANGED <<demo, now, composed, printed, err>>

\* The request literal is evaluated, and with it time.Now(), before the call.
Compose ==
  /\ pc = "compose"
  /\ composed' = now
  /\ pc' = "issue"
  /\ UNCHANGED <<demo, now, signer, printed, err>>

\* What an Issue call may fail with: its jti comes after the checks of the request.
IssueErrors(r, tc, payload) ==
  LET refused == FirstError(<<CheckError(signer, r, payload), BaseError(r)>>)
  IN  IF refused # NoError THEN {refused}
      ELSE {"could not generate jti", SignError(signer, r, tc, payload)} \ {NoError}

\* An Issue call, and the printing of its token (must).
Issue ==
  LET a  == Program.asks[Len(printed) + 1]
      r  == Request(a, composed)
      tc == Dated(Assemble(r, a.payload), now, TTL(signer, r))
  IN  /\ pc = "issue"
      /\ \/ \E e \in IssueErrors(r, tc, a.payload) : Fatal(e)
         \/ /\ IssueErrors(r, tc, a.payload) = {"could not generate jti"}
            /\ printed' = Append(printed, [token |-> Sign(signer, r, tc, a.payload), at |-> now])
            /\ pc' = IF Len(printed') < Len(Program.asks) THEN "compose" ELSE "verify"
            /\ UNCHANGED <<demo, now, signer, composed, err>>

JWKS == <<signer.jwk>>

\* Deviation: the token printed last is verified.
verifiedToken_Last == printed[Len(printed)].token

verifiedToken == printed[Program.verified].token

\* NewVerifier on the Signer's JWKS, and Verify.
Verify ==
  LET v == NewVerifier(JWKS, issuer, Program.expectedAudience)
      e == FirstError(<<NewVerifierError(JWKS), VerifyError(v, verifiedToken, now)>>)
  IN  /\ pc = "verify"
      /\ \/ e # NoError /\ Fatal(e)
         \/ /\ e = NoError
            /\ pc' = "returned"
            /\ UNCHANGED <<demo, now, signer, composed, printed, err>>

\* Any time may pass; the clock is never set back.
Tick ==
  /\ \E t \in Times : t > now /\ now' = t
  /\ UNCHANGED <<demo, pc, signer, composed, printed, err>>

Next == Build \/ Compose \/ Issue \/ Verify \/ Tick

Spec == Init /\ [][Next]_vars

-----------------------------------------------------------------------------
(* Properties.                                                             *)

(* Every component has its type; the programs go on while there is no      *)
(* error, and there is a Signer as soon as there is something to sign.     *)
TypeOK ==
  /\ demo \in DOMAIN Demos /\ now \in Times /\ composed \in Times \union {0}
  /\ pc \in {"build", "compose", "issue", "verify", "returned", "fatal"}
  /\ err # NoError <=> pc = "fatal"
  /\ pc \in {"compose", "issue", "verify", "returned"} => signer # NoSigner
  /\ Len(printed) <= Len(Program.asks)
  /\ pc \in {"verify", "returned"} => Len(printed) = Len(Program.asks)

(* What the programs ask for is acceptable and what they verify is what    *)
(* they issued: they stop with an error only when the random source fails  *)
(* or when the token's five minutes, less a second, have passed before it  *)
(* is verified (main of both examples).                                    *)
FailsOnlyByChanceOrTime ==
  pc = "fatal" =>
    \/ err \in {"generate key", "could not generate jti"}
    \/ /\ err = "jwt.ErrTokenExpired"
       /\ now + TicksPerSecond > printed[Program.verified].at + TTLOption

(* Whoever takes a printed token, of any variant and with any payload, to  *)
(* the audience it names and the printed JWKS, has it accepted until its   *)
(* five minutes, less a second, have passed (JWKSJSON, the Issue methods). *)
PrintedTokensVerify ==
  \A i \in DOMAIN printed : now + TicksPerSecond <= printed[i].at + TTLOption =>
    \A aud \in Program.asks[i].aud :
      VerifyError(NewVerifier(JWKS, issuer, aud), printed[i].token, now) = NoError
=============================================================================
