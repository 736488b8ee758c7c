--------------------------- MODULE MCTokenService ---------------------------
(* Instances of TokenService.  One caller object per variant and two for   *)
(* own payloads; each may hold a valid content and invalid ones.           *)
EXTENDS IssuedTokens

RSAKey  == [id |-> "rsa", kty |-> "RSA", bits |-> 2048]
P384Key == [id |-> "p384", kty |-> "EC", bits |-> 384]
MCKeys  == {RSAKey, P384Key}
MCThumbprint == [k \in MCKeys |-> "thumb-" \o k.id]

\* Signers as NewSigner builds them, by what the Service can tell apart.
Config(key, alg, name, typ) ==
  [issuer |-> "https://issuer", algorithm |-> alg, keyID |-> "",
   keyPEM |-> [form |-> "PRIVATE KEY", key |-> key], defaultTTL |-> 3,
   clock |-> "injected", tokenTypeClaim |-> name, headerTyp |-> typ]

MCConfigs == {Config(RSAKey, "RS256", "token_type", "JWT"),
              Config(RSAKey, "RS256", "token_type", "at+jwt"),
              Config(RSAKey, "RS256", "eidas", "JWT"),
              Config(RSAKey, "RS256", "jti", "JWT"),
              Config(RSAKey, "RS256", "acr", "JWT"),
              Config(RSAKey, "RS256", "exp", "JWT"),
              Config(P384Key, "ES256", "token_type", "JWT")}

MCSigners == {Signer(cfg) : cfg \in {k \in MCConfigs : SignerError(k) = NoError}}

-----------------------------------------------------------------------------
EIDAS(id, dob) == [kind |-> "eidas", PersonIdentifier |-> id, FamilyName |-> TRUE,
                   GivenName |-> TRUE, DateOfBirth |-> dob]
DigiD(bsn, level) == [kind |-> "digid", BSN |-> bsn, Pseudonym |-> FALSE,
                      AssuranceLevel |-> level]
EHerkenning(kvk, class) ==
  [kind |-> "eherkenning", OIN |-> FALSE, KvK |-> kvk, RSIN |-> FALSE,
   ActingSubjectID |-> TRUE, AssuranceClass |-> class]
Custom(validates, valid, marshals) ==
  [kind |-> "custom", validates |-> validates, valid |-> valid, marshals |-> marshals]

MCObjects == {"person", "citizen", "company", "own", "opaque"}

MCContents ==
  [o \in MCObjects |->
     CASE o = "person"  -> {EIDAS(TRUE, "date"), EIDAS(TRUE, "other")}
       [] o = "citizen" -> {DigiD(TRUE, "basis"), DigiD(TRUE, "hoog"), DigiD(TRUE, "")}
       [] o = "company" -> {EHerkenning(TRUE, "loa3"), EHerkenning(FALSE, "loa4")}
       [] o = "own"     -> {Custom(TRUE, TRUE, TRUE), Custom(TRUE, FALSE, TRUE)}
       [] o = "opaque"  -> {Custom(FALSE, FALSE, TRUE), Custom(FALSE, FALSE, FALSE)}]

\* A request for which everything is filled in, to be varied below.
Plain(op, obj) ==
  [op |-> op, sub |-> TRUE, aud |-> {"api"}, ttl |-> 0,
   authTime |-> [set |-> TRUE, unix |-> 1], amr |-> TRUE, loa |-> "high",
   type |-> "acme", clientID |-> TRUE, optional |-> {}, key |-> "acme", acr |-> "",
   object |-> obj, byRef |-> FALSE]

BuiltInRequests ==
  {Plain("eidas", "person"), Plain("digid", "citizen"), Plain("eherkenning", "company"),
   [Plain("eidas", "person") EXCEPT !.loa = "unknown"],
   [Plain("digid", "citizen") EXCEPT !.sub = FALSE],
   [Plain("digid", "citizen") EXCEPT !.aud = {}],
   [Plain("digid", "citizen") EXCEPT !.ttl = 1, !.amr = FALSE],
   [Plain("eherkenning", "company") EXCEPT !.ttl = -1]}

CustomRequests ==
  {Plain("custom", "own"), Plain("custom", "opaque"), Plain("custom", NoObject),
   [Plain("custom", "own") EXCEPT !.byRef = TRUE],
   [Plain("custom", "own") EXCEPT !.type = ""],
   [Plain("custom", "own") EXCEPT !.key = ""],
   [Plain("custom", "own") EXCEPT !.key = "roles"],
   [Plain("custom", "own") EXCEPT !.key = "token_type"],
   [Plain("custom", "own") EXCEPT !.key = "eidas", !.type = "eidas", !.acr = "high"],
   [Plain("custom", NoObject) EXCEPT !.key = ""],
   Plain("custom", "citizen")}

AccessRequests ==
  {Plain("access", "own"),
   [Plain("access", NoObject) EXCEPT !.key = ""],
   [Plain("access", "own") EXCEPT !.clientID = FALSE],
   [Plain("access", "own") EXCEPT !.key = "token_type"],
   [Plain("access", "own") EXCEPT !.key = "roles", !.optional = {"scope"}],
   [Plain("access", "own") EXCEPT !.optional = {"roles", "email"}, !.byRef = TRUE,
                                  !.authTime = [set |-> FALSE, unix |-> 0]]}

MCRequests == BuiltInRequests \union CustomRequests \union AccessRequests

-----------------------------------------------------------------------------
(* Two goroutines at once: fewer requests, payloads by value only, all     *)
(* taken from the same two objects.                                        *)

SharedObjects  == {"citizen", "own"}
SharedContents == [o \in SharedObjects |-> {p \in MCContents[o] :
                     p.kind = "digid" => p.AssuranceLevel # ""}]
SharedRequests == {Plain("digid", "citizen"),
                   [Plain("custom", "own") EXCEPT !.ttl = 1],
                   [Plain("access", "own") EXCEPT !.optional = {"roles"}, !.key = "roles"],
                   [Plain("access", "own") EXCEPT !.aud = {}]}
SharedConfigs  == {Config(RSAKey, "RS256", "digid", "JWT"),
                   Config(RSAKey, "RS256", "acr", "JWT"),
                   Config(RSAKey, "RS256", "token_type", "at+jwt")}
SharedSigners  == {Signer(cfg) : cfg \in SharedConfigs}
=============================================================================
