----------------------------- MODULE KeyRotation -----------------------------
(***************************************************************************)
(* examples/vault-sign: an authorization service that fetches the active   *)
(* private key from the jwks-service's Vault, builds a Signer of it and    *)
(* issues a token.  Around it run the rotator, which writes, activates,    *)
(* retires and deletes the keys in Vault, and the jwks-service, which      *)
(* publishes the keys Vault holds.  Both are external and are modelled     *)
(* from what main.go and README.md rely on: a retired key gets an          *)
(* expires_at and stays published until then.                              *)
(*                                                                         *)
(* The program is one run of main; it is run again to reload the key.  A   *)
(* read of Vault takes two steps, Vault's answer and its receipt, so that  *)
(* keys rotate under way.  One clock is used by all; times are in ticks.   *)
(***************************************************************************)
EXTENDS Verifier, FiniteSets

CONSTANTS
  ServiceKid,    \* the kid the jwks-service derived for each key
  Grace,         \* how long a retired key stays in Vault and in the JWKS
  FetchTimeout,  \* the budget of a run's reads of Vault
  SignerTTL,     \* the TTL main configures
  MaxPause,      \* the longest a run waits between its last read and its token
  MaxTime        \* bound of the clock

\* Kids tell keys apart, whether they are thumbprints or not.
ASSUME ServiceKidAssumption ==
  /\ IsFiniteSet(Keys)
  /\ ServiceKid \in [Keys -> STRING \ {""}]
  /\ \A k, l \in Keys : ServiceKid[k] = ServiceKid[l] => k = l

ASSUME PeriodsAssumption ==
  /\ FetchTimeout \in Nat /\ MaxPause \in Nat /\ MaxTime \in Nat
  /\ SignerTTL \in Nat \ {0}

\* What README.md calls short-lived tokens and a grace period.
ASSUME GraceAssumption ==
  Grace \in Nat /\ Grace >= FetchTimeout + MaxPause + SignerTTL

VARIABLES
  now,         \* the time
  active,      \* the kid in <secret-path>/active, "" when there is none
  keys,        \* <secret-path>/keys: the record under every stored kid
  written,     \* the kids the rotator has used: it never uses one again
  lastActive,  \* history: when each kid last stopped being the active one
  pc,          \* main: "idle", reading "active" or "record", or to "sign"
  deadline,    \* of the run's context
  asked,       \* the kid whose record is asked for
  reply,       \* Vault's answer on its way to main
  key,         \* the signingKey that fetchActiveSigningKey returned
  readAt,      \* when it returned
  held         \* a token that was issued, which a client keeps, and when it was

vault   == <<active, keys, written, lastActive>>
program == <<pc, deadline, asked, reply, key, readAt, held>>
vars    == <<now, vault, program>>

Kids == {ServiceKid[k] : k \in Keys}

NoKid   == ""
noPEM   == [form |-> "", key |-> NoKey]
NoReply == [status |-> "none"]
Failed  == [status |-> "failed"]    \* no connection, another status, no JSON
NothingHeld  == [at |-> -1]
NoSigningKey == [pem |-> noPEM, kid |-> NoKid]

\* The rotator writes PKCS#1.
PEMs == {noPEM} \union {[form |-> "RSA PRIVATE KEY", key |-> k] : k \in Keys}

-----------------------------------------------------------------------------
Init ==
  /\ now = 0
  /\ active = NoKid /\ keys = << >> /\ written = {} /\ lastActive = << >>
  /\ pc = "idle" /\ deadline = 0 /\ asked = NoKid /\ reply = NoReply
  /\ key = NoSigningKey /\ readAt = 0 /\ held = NothingHeld

-----------------------------------------------------------------------------
(* The rotator (external).  It may stop for any time between two steps;    *)
(* whether it retires the old key before or after it moves the pointer is  *)
(* left open.                                                              *)

Store(kid, rec) ==
  keys' = [l \in DOMAIN keys \union {kid} |-> IF l = kid THEN rec ELSE keys[l]]

\* A record lacks its kid only where the thumbprint says the same.
WriteKey(k) ==
  LET kid == ServiceKid[k] IN
  /\ kid \notin written
  /\ written' = written \union {kid}
  /\ \E pem \in {noPEM, [form |-> "RSA PRIVATE KEY", key |-> k]},
        field \in IF kid = Thumbprint[k] THEN {kid, NoKid} ELSE {kid} :
       Store(kid, [pem |-> pem, kid |-> field, expiresAt |-> 0])
  /\ UNCHANGED <<now, active, lastActive, program>>

Activate(kid) ==
  /\ kid \in DOMAIN keys /\ keys[kid].expiresAt = 0 /\ kid # active
  /\ active' = kid
  /\ lastActive' = [l \in DOMAIN lastActive \union ({active} \ {NoKid}) |->
                      IF l = active THEN now ELSE lastActive[l]]
  /\ UNCHANGED <<now, keys, written, program>>

\* expires_at is "", here 0, until the key is retired.
Retire(kid) ==
  /\ kid \in DOMAIN keys /\ keys[kid].expiresAt = 0
  /\ keys' = [keys EXCEPT ![kid].expiresAt = now + Grace]
  /\ UNCHANGED <<now, active, written, lastActive, program>>

Delete(kid) ==
  /\ kid \in DOMAIN keys /\ keys[kid].expiresAt # 0 /\ keys[kid].expiresAt <= now
  /\ keys' = [l \in DOMAIN keys \ {kid} |-> keys[l]]
  /\ UNCHANGED <<now, active, written, lastActive, program>>

-----------------------------------------------------------------------------
(* Vault's answer to the read that is under way.  It may never come.       *)

Answer ==
  /\ reply = NoReply
  /\ \/ /\ pc \in {"active", "record"}
        /\ reply' = Failed
     \/ /\ pc = "active"
        /\ reply' = [status |-> "ok", kid |-> active]
     \/ /\ pc = "record" /\ asked \in DOMAIN keys
        /\ reply' = [status |-> "ok", record |-> keys[asked]]
  /\ UNCHANGED <<now, vault, pc, deadline, asked, key, readAt, held>>

-----------------------------------------------------------------------------
(* main.                                                                   *)

\* The run is over, and with it all it knew.
Exit ==
  /\ pc' = "idle" /\ deadline' = 0 /\ asked' = NoKid /\ reply' = NoReply
  /\ key' = NoSigningKey /\ readAt' = 0
  /\ UNCHANGED <<now, vault>>

\* log.Fatalf.
Fatal == Exit /\ UNCHANGED held

\* A run starts: the context covers both reads.
Start ==
  /\ pc = "idle"
  /\ now + FetchTimeout <= MaxTime
  /\ pc' = "active"
  /\ deadline' = now + FetchTimeout
  /\ UNCHANGED <<now, vault, asked, reply, key, readAt, held>>

\* What fetchActiveSigningKey refuses of Vault's answers.
ActiveError(r) ==
  IF r.status = "failed" THEN "read active pointer"
                         ELSE When(r.kid = NoKid, "active pointer has no kid")

\* Deviation: a record is taken whether or not its key is expiring.
RecordError_AnyExpiry(r) ==
  IF r.status = "failed" THEN "read key record"
  ELSE When(r.record.pem.form = "", "key record has no pem field")

\* Deviation: a record is taken without its pem.
RecordError_NoPEM(r) ==
  IF r.status = "failed" THEN "read key record"
  ELSE When(r.record.expiresAt # 0, "active key is expiring")

RecordError(r) ==
  IF r.status = "failed" THEN "read key record"
  ELSE FirstError(<<When(r.record.pem.form = "", "key record has no pem field"),
                    When(r.record.expiresAt # 0, "active key is expiring")>>)

\* Deviation: every read gets a budget of its own.
ReadActive_NewBudget ==
  /\ pc = "active" /\ reply # NoReply /\ now <= deadline
  /\ ActiveError(reply) = NoError
  /\ pc' = "record" /\ asked' = reply.kid /\ reply' = NoReply
  /\ deadline' = now + FetchTimeout
  /\ UNCHANGED <<now, vault, key, readAt, held>>

\* fetchActiveSigningKey, the pointer.
ReadActive ==
  /\ pc = "active" /\ reply # NoReply /\ now <= deadline
  /\ LET e == ActiveError(reply) IN
       \/ /\ e # NoError
          /\ Fatal
       \/ /\ e = NoError
          /\ pc' = "record" /\ asked' = reply.kid /\ reply' = NoReply
          /\ UNCHANGED <<now, vault, deadline, key, readAt, held>>

\* fetchActiveSigningKey, the record: the kid is the one the record says.
ReadRecord ==
  /\ pc = "record" /\ reply # NoReply /\ now <= deadline
  /\ LET e == RecordError(reply) IN
       \/ /\ e # NoError
          /\ Fatal
       \/ /\ e = NoError
          /\ pc' = "sign" /\ reply' = NoReply /\ asked' = NoKid /\ readAt' = now
          /\ key' = [pem |-> reply.record.pem, kid |-> reply.record.kid]
          /\ UNCHANGED <<now, vault, deadline, held>>

\* Deviation: only the first read is under the context.
TimeOut_FirstReadOnly ==
  /\ pc = "active" /\ now >= deadline
  /\ Fatal

\* The context's deadline passes during a read.
TimeOut ==
  /\ pc \in {"active", "record"} /\ now >= deadline
  /\ Fatal

issuer   == "https://signer.example.org"
audience == "urn:service:consumer"

\* Deviation: the kid Vault holds is not passed on.
Config_NoKeyID(k) ==
  [issuer |-> issuer, algorithm |-> "RS256", keyPEM |-> k.pem, keyID |-> "",
   defaultTTL |-> SignerTTL, clock |-> "time.Now",
   tokenTypeClaim |-> "token_type", headerTyp |-> "JWT"]

\* The config of main's options: all others keep their defaults.
Config(k) ==
  [issuer |-> issuer, algorithm |-> "RS256", keyPEM |-> k.pem, keyID |-> k.kid,
   defaultTTL |-> SignerTTL, clock |-> "time.Now",
   tokenTypeClaim |-> "token_type", headerTyp |-> "JWT"]

eidasRequest ==
  [op |-> "eidas", sub |-> TRUE, aud |-> {audience}, ttl |-> 0,
   authTime |-> [set |-> FALSE, unix |-> 0], amr |-> TRUE, loa |-> "high",
   type |-> "", clientID |-> FALSE, optional |-> {}, key |-> "", acr |-> "",
   object |-> NoObject, byRef |-> FALSE]

person == [kind |-> "eidas", PersonIdentifier |-> TRUE, FamilyName |-> TRUE,
           GivenName |-> TRUE, DateOfBirth |-> "date"]

TokenClaimsNow(s) == Dated(Assemble(eidasRequest, person), now, TTL(s, eidasRequest))

\* What NewSigner and IssueEIDAS may refuse.
IssueError(s) == FirstError(<<
  SignerError(Config(key)), NewServiceError(s),
  CheckError(s, eidasRequest, person), BaseError(eidasRequest),
  SignError(s, eidasRequest, TokenClaimsNow(s), person)>>)

(* NewSigner, NewService and IssueEIDAS, whose jti may fail; then main      *)
(* returns.  held is one token out of all that are issued.                 *)
SignToken ==
  LET s == Signer(Config(key)) IN
  /\ pc = "sign"
  /\ \/ Fatal                         \* IssueError, or no random jti
     \/ /\ IssueError(s) = NoError
        /\ \/ UNCHANGED held
           \/ held' = [token |-> Sign(s, eidasRequest, TokenClaimsNow(s), person), at |-> now]
        /\ Exit

-----------------------------------------------------------------------------
\* Time passes, but not while a run has been waiting to sign for MaxPause.
Tick ==
  /\ now < MaxTime
  /\ pc = "sign" => now < readAt + MaxPause
  /\ now' = now + 1
  /\ UNCHANGED <<vault, program>>

Next ==
  \/ \E k \in Keys : WriteKey(k)
  \/ \E kid \in Kids : Activate(kid) \/ Retire(kid) \/ Delete(kid)
  \/ Answer
  \/ Start \/ ReadActive \/ ReadRecord \/ TimeOut \/ SignToken
  \/ Tick

(* The program's own steps are taken: the runtime fires the timer of a     *)
(* context and runs main.  Nothing is assumed of Vault or of the rotator.  *)
Fairness == WF_vars(Tick) /\ WF_vars(TimeOut) /\ WF_vars(SignToken)

Spec == Init /\ [][Next]_vars /\ Fairness
-----------------------------------------------------------------------------
(* Properties.                                                             *)

(* What the jwks-service publishes, in any order: the public half of every *)
(* key that Vault holds, under the kid it is stored by.                    *)
Published == {kid \in DOMAIN keys : keys[kid].pem # noPEM}

JWKOf(kid) == PublicJWK(keys[kid].pem.key, "RS256", kid)

Listing ==
  CHOOSE kids \in [1..Cardinality(Published) -> Published] :
    /\ \A i, j \in DOMAIN kids : kids[i] = kids[j] => i = j
    /\ \A kid \in Published : \E i \in DOMAIN kids : kids[i] = kid

JWKS == [i \in 1..Cardinality(Published) |-> JWKOf(Listing[i])]

(* Every component has its type.  The rotator's records carry the key and  *)
(* kid they are stored by, and a run that is about to sign has a PEM.      *)
TypeOK ==
  /\ now \in 0..MaxTime
  /\ DOMAIN keys \subseteq written /\ written \subseteq Kids
  /\ active \in written \union {NoKid}
  /\ DOMAIN lastActive \subseteq written
  /\ \A kid \in DOMAIN lastActive : lastActive[kid] \in 0..now
  /\ \A kid \in DOMAIN keys : keys[kid].pem \in PEMs /\ keys[kid].expiresAt \in Nat
  /\ pc \in {"idle", "active", "record", "sign"}
  /\ asked \in written \union {NoKid}
  /\ pc = "record" <=> asked # NoKid
  /\ deadline \in 0..MaxTime /\ readAt \in 0..now
  /\ pc = "sign" => key.pem \in PEMs \ {noPEM}

(* A token can be verified until it expires: a consumer that takes the JWKS*)
(* of that moment, however the keys have rotated since the program read    *)
(* the pointer, builds a Verifier and finds the key that signed under the  *)
(* token's kid (fetchActiveSigningKey, main, NewVerifier, Verify).         *)
VerifiableUntilExpiry ==
  held # NothingHeld /\ now < held.token.exp =>
    /\ NewVerifierError(JWKS) = NoError
    /\ VerifyError(NewVerifier(JWKS, issuer, audience), held.token, now) = NoError

(* A rotation takes hold: a token is signed only with the active key or    *)
(* with one that stopped being active no longer ago than a run may take    *)
(* (main, readKVv1).                                                       *)
RotationTakesHold ==
  held # NothingHeld =>
    \/ held.token.kid = active
    \/ /\ held.token.kid \in DOMAIN lastActive
       /\ held.at <= lastActive[held.token.kid] + FetchTimeout + MaxPause

(* Every run of main ends, whether Vault answers or not (main's context).  *)
EveryRunEnds == pc # "idle" ~> pc = "idle"
=============================================================================
