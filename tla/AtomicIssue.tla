---------------------------- MODULE AtomicIssue ----------------------------
(***************************************************************************)
(* What the Service promises when payloads are passed by value: an Issue   *)
(* call takes effect at one instant between its entry and its return.  At  *)
(* that instant an acceptable request becomes the token it describes, made *)
(* of the payload as it was passed, the Signer and the time of that        *)
(* instant; every other request becomes an error.  Nothing other calls or  *)
(* their callers do shows in the outcome.                                  *)
(***************************************************************************)
EXTENDS TokenClaims

CONSTANT Calls

VARIABLES
  signer, now, object,   \* as in TokenService
  status,    \* of each call: "idle", "called", "decided", "done"
  req,       \* its request
  given,     \* its payload
  outcome    \* what it will return, once it is decided

vars == <<signer, now, object, status, req, given, outcome>>

NoRequest == [op |-> "none"]
NoToken   == [kid |-> ""]
Undecided == [err |-> NoError, token |-> NoToken]

-----------------------------------------------------------------------------
(* Which requests are acceptable, and what they become.                    *)

KeyOfVariant(r) == IF r.op \in BuiltIns THEN r.op ELSE r.key

Nested(r, p) == p.kind # "nil"

\* A name no standard claim and not the type claim of s has.
Free(s, name) == name # "" /\ name \notin reservedClaimNames /\ name # s.tokenTypeClaim

Acceptable(s, r, p) ==
  /\ r.sub /\ r.aud # {}
  /\ Validate(p) = NoError
  /\ Marshals(p)
  /\ r.op = "eidas"  => r.loa \in LoAs
  /\ r.op = "custom" => r.type # ""
  /\ r.op = "access" => r.clientID
  /\ Nested(r, p) \/ KeyOfVariant(r) # "" => Free(s, KeyOfVariant(r))
  /\ SigningError(s.key, s.algorithm) = NoError

AlwaysPresent == {"iss", "sub", "aud", "exp", "nbf", "iat", "jti"}

\* The standard claims of the token of r: those always there, and the given ones.
StandardOf(r, p) ==
  AlwaysPresent
    \union {n \in {"amr"} : r.amr}
    \union {n \in {"auth_time"} : r.authTime.set /\ r.authTime.unix # 0}
    \union {n \in {"acr"} : Acr(r, p) # ""}
    \union {n \in OptionalClaims \union {"client_id"} :
              r.op = "access" /\ (n = "client_id" \/ n \in r.optional)}

IsTokenOf(t, s, r, p, time) ==
  LET typed  == IF r.op = "access" THEN {} ELSE {s.tokenTypeClaim}
      nested == IF Nested(r, p) THEN {KeyOfVariant(r)} ELSE {}
      Says(name, value) == IF name \in typed THEN TokenType(r) ELSE value
  IN  /\ t.kid = s.keyID /\ t.typ = s.headerTyp
      /\ t.alg = s.algorithm /\ t.sig = [key |-> s.key, alg |-> s.algorithm]
      /\ t.iss = Says("iss", s.issuer)
      /\ t.aud = IF "aud" \in typed THEN {TokenType(r)} ELSE r.aud
      /\ t.variant = p
      /\ t.acr = Says("acr", Acr(r, p))
      /\ t.tokenType = TokenType(r)
      /\ t.iat = Says("iat", NumericDate(time))
      /\ t.nbf = Says("nbf", NumericDate(time))
      /\ t.exp = Says("exp", NumericDate(time + (IF r.ttl > 0 THEN r.ttl ELSE s.defaultTTL)))
      /\ {n \in DOMAIN t.writers : t.writers[n] = "variant"} = nested
      /\ {n \in DOMAIN t.writers : t.writers[n] = "token type"} = typed
      /\ {n \in DOMAIN t.writers : t.writers[n] = "standard"} = StandardOf(r, p) \ typed

-----------------------------------------------------------------------------
Init ==
  /\ signer \in Signers
  /\ now = 0
  /\ \A o \in Objects : object[o] \in Contents[o]
  /\ status = [c \in Calls |-> "idle"]
  /\ req = [c \in Calls |-> NoRequest]
  /\ given = [c \in Calls |-> NoClaims]
  /\ outcome = [c \in Calls |-> Undecided]

\* A goroutine calls an Issue method, once its previous call has returned.
Call(c) ==
  /\ status[c] \in {"idle", "done"}
  /\ status' = [status EXCEPT ![c] = "called"]
  /\ \E r \in Requests :
       /\ req' = [req EXCEPT ![c] = r]
       /\ given' = [given EXCEPT ![c] = IF r.object = NoObject THEN NoClaims
                                                             ELSE object[r.object]]
  /\ outcome' = [outcome EXCEPT ![c] = Undecided]
  /\ UNCHANGED <<signer, now, object>>

\* The call takes effect: only an acceptable request becomes a token.
Decide(c) ==
  /\ status[c] = "called"
  /\ LET o == outcome'[c]
         acceptable == Acceptable(signer, req[c], given[c])
     IN  /\ outcome' = [outcome EXCEPT ![c] = o]
         /\ \/ /\ acceptable
               /\ o.err = NoError
               /\ IsTokenOf(o.token, signer, req[c], given[c], now)
            \/ /\ ~ acceptable \/ o.err = "could not generate jti"
               /\ o.err # NoError
               /\ o.token = NoToken
  /\ status' \in {[status EXCEPT ![c] = s] : s \in {"decided", "done"}}
  /\ UNCHANGED <<signer, now, object, req, given>>

\* What was decided is returned, whatever happened since.
Return(c) ==
  /\ status[c] = "decided"
  /\ status' = [status EXCEPT ![c] = "done"]
  /\ UNCHANGED <<signer, now, object, req, given, outcome>>

Rewrite(o) ==
  /\ object' = [object EXCEPT ![o] = object'[o]]
  /\ object'[o] \in Contents[o]
  /\ UNCHANGED <<signer, now, status, req, given, outcome>>

Tick ==
  /\ now' = now + 1
  /\ UNCHANGED <<signer, object, status, req, given, outcome>>

Next ==
  \/ \E c \in Calls : Call(c) \/ Decide(c) \/ Return(c)
  \/ \E o \in Objects : Rewrite(o)
  \/ Tick

Spec == Init /\ [][Next]_vars
=============================================================================
