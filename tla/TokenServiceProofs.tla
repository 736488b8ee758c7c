-------------------------- MODULE TokenServiceProofs --------------------------
(***************************************************************************)
(* The safety properties of TokenService, for any goroutines, objects,     *)
(* requests, Signers and clock.  The inductive invariant says, for each    *)
(* call and each point it may be at, which payload its claims and its      *)
(* token were made from: one the call was given, or one it read in the     *)
(* memory it shares with its caller.                                       *)
(***************************************************************************)
EXTENDS IssuedTokens, VerifierProofs

PCs == {"idle", "check", "base", "sign", "done"}

TypeInv ==
  /\ signer \in Signers
  /\ now \in 0..MaxTime
  /\ object \in [Objects -> Claims]
  /\ \A o \in Objects : object[o] \in Contents[o]
  /\ pc \in [Calls -> PCs]
  /\ req \in [Calls -> Requests \union {NoRequest}]
  /\ given \in [Calls -> Claims]
  /\ DOMAIN claims = Calls /\ claims = [c \in Calls |-> claims[c]]
  /\ DOMAIN err = Calls /\ err = [c \in Calls |-> err[c]]
  /\ DOMAIN token = Calls /\ token = [c \in Calls |-> token[c]]

\* The payloads a call with request r can read.
Readable(r) == IF r.object = NoObject THEN {NoClaims} ELSE Contents[r.object]

\* p is what call c was given, or may have read in shared memory.
Read(c, p) == p \in Readable(req[c]) /\ (~ req[c].byRef => p = given[c])

\* q passed the checks of call c.
Checked(c, q) == Read(c, q) /\ CheckError(signer, req[c], q) = NoError

\* The claims of c were assembled from q, and dated at some time up to now.
DatedFrom(c, q) ==
  \E t \in 0..now : claims[c] = Dated(Assemble(req[c], q), t, TTL(signer, req[c]))

\* The token of c was signed with the payload p.
SignedWith(c, p) ==
  /\ Read(c, p)
  /\ SignError(signer, req[c], claims[c], p) = NoError
  /\ token[c] = Sign(signer, req[c], claims[c], p)

\* What holds of a call at each of its points.
CallInv(c) ==
  /\ pc[c] # "idle" => req[c] \in Requests /\ given[c] \in Readable(req[c])
  /\ pc[c] # "done" => err[c] = NoError
  /\ claims[c].now \in 0..now
  /\ pc[c] \in {"idle", "check"} => claims[c] = NoTokenClaims
  /\ pc[c] = "base" => \E q : Checked(c, q) /\ claims[c] = Assemble(req[c], q)
  /\ pc[c] = "sign" => /\ BaseError(req[c]) = NoError
                       /\ \E q : Checked(c, q) /\ DatedFrom(c, q)
  /\ Issued(c) => /\ BaseError(req[c]) = NoError
                  /\ \E q : Checked(c, q) /\ DatedFrom(c, q)
                  /\ \E p : SignedWith(c, p)
  /\ ~ Issued(c) => token[c] = NoToken

IInv == TypeInv /\ \A c \in Calls : CallInv(c)
-----------------------------------------------------------------------------
(* Calls leave each other alone.                                           *)

\* What a step must leave of call c for its invariant to survive: all its
\* own components, the Signer, and a clock that does not go back.
Untouched(c) ==
  /\ signer' = signer
  /\ now' \in Nat /\ now <= now'
  /\ pc'[c] = pc[c] /\ req'[c] = req[c] /\ given'[c] = given[c]
  /\ claims'[c] = claims[c] /\ err'[c] = err[c] /\ token'[c] = token[c]

LEMMA UntouchedCall ==
  ASSUME TypeInv, NEW c \in Calls, CallInv(c), Untouched(c)
  PROVE  CallInv(c)'
<1>0. now \in Nat /\ 0..now \subseteq 0..now'
  BY MaxTimeAssumption DEF TypeInv, Untouched
<1>1. \A q : Checked(c, q) => Checked(c, q)'
  BY DEF Untouched, Checked, Read
<1>2. \A q : DatedFrom(c, q) => DatedFrom(c, q)'
  BY <1>0 DEF Untouched, DatedFrom
<1>3. \A p : SignedWith(c, p) => SignedWith(c, p)'
  BY DEF Untouched, SignedWith, Read
<1>4. claims'[c].now \in 0..now'
  BY <1>0 DEF Untouched, CallInv
<1> QED
  BY <1>1, <1>2, <1>3, <1>4 DEF CallInv, Untouched, Issued

\* A call under way reads one of the payloads it may read.
LEMMA PayloadIsRead ==
  ASSUME TypeInv, NEW c \in Calls, CallInv(c), pc[c] # "idle"
  PROVE  Read(c, PayloadOf(c))
<1>1. req[c] \in Requests /\ given[c] \in Readable(req[c])
  BY DEF CallInv
<1>2. CASE req[c].byRef
  <2>1. req[c].object \in Objects /\ req[c].object # NoObject
    BY <1>1, <1>2, RequestsAssumption, ObjectsAssumption DEF WellTyped
  <2> QED
    BY <1>2, <2>1 DEF TypeInv, Read, Readable, PayloadOf
<1>3. CASE ~ req[c].byRef
  BY <1>1, <1>3 DEF Read, PayloadOf
<1> QED
  BY <1>2, <1>3

-----------------------------------------------------------------------------
(* The invariant holds initially and every step keeps it.                  *)

\* Claims that issue has not dated carry the start of time.
LEMMA UndatedClaims == NoTokenClaims.now = 0
<1> QED
  BY DEF NoTokenClaims

LEMMA InitEstablishes == Init => IInv
<1> SUFFICES ASSUME Init PROVE IInv
  OBVIOUS
<1>1. object \in [Objects -> Claims] /\ \A o \in Objects : object[o] \in Contents[o]
  BY ObjectsAssumption DEF Init
<1>0. signer \in Signers
  <2>1. "signer must not be nil" # NoError
    BY DEF NoError
  <2>2. NewServiceError(NoSigner) # NoError
    BY <2>1 DEF NewServiceError, When
  <2> QED
    BY <2>2 DEF Init
<1>2. TypeInv
  BY <1>0, <1>1, MaxTimeAssumption DEF Init, TypeInv, PCs, Claims, NoRequest
<1>3. ASSUME NEW c \in Calls PROVE CallInv(c)
  <2>1. /\ pc[c] = "idle" /\ err[c] = NoError /\ token[c] = NoToken /\ now = 0
        /\ claims[c] = NoTokenClaims
    BY DEF Init
  <2>2. claims[c].now \in 0..now
    <3>1. claims[c].now = NoTokenClaims.now
      BY <2>1
    <3> QED
      BY <2>1, <3>1, UndatedClaims
  <2> QED
    BY <2>1, <2>2 DEF CallInv, Issued
<1> QED
  BY <1>2, <1>3 DEF IInv

\* A step of call c alone: its own invariant is what is left to show.
LEMMA OthersKept ==
  ASSUME IInv, NEW c \in Calls, TypeInv', CallInv(c)',
         signer' = signer, now' = now,
         \A d \in Calls \ {c} : /\ pc'[d] = pc[d] /\ req'[d] = req[d]
                               /\ given'[d] = given[d] /\ claims'[d] = claims[d]
                               /\ err'[d] = err[d] /\ token'[d] = token[d]
  PROVE  IInv'
<1>1. ASSUME NEW d \in Calls \ {c} PROVE CallInv(d)'
  <2>1. Untouched(d)
    BY MaxTimeAssumption DEF Untouched, IInv, TypeInv
  <2> QED
    BY <2>1, UntouchedCall DEF IInv
<1> QED
  BY <1>1 DEF IInv

LEMMA CallKeeps == ASSUME IInv, NEW c \in Calls, Call(c) PROVE IInv'
<1>1. PICK r \in Requests :
        /\ req' = [req EXCEPT ![c] = r]
        /\ given' = [given EXCEPT ![c] = IF r.object = NoObject THEN NoClaims
                                                              ELSE object[r.object]]
  BY DEF Call
<1>2. given'[c] \in Readable(r) /\ given'[c] \in Claims
  <2>1. r.object = NoObject \/ r.object \in Objects
    BY RequestsAssumption DEF WellTyped, RequestType
  <2> QED
    BY <1>1, <2>1 DEF IInv, TypeInv, Readable, Claims
<1>3. TypeInv'
  BY <1>1, <1>2 DEF IInv, TypeInv, Call, PCs
<1>4. CallInv(c)'
  <2>1. /\ pc'[c] = "check" /\ err'[c] = NoError /\ token'[c] = NoToken
        /\ claims'[c] = NoTokenClaims /\ req'[c] = r /\ now' = now
    BY <1>1 DEF IInv, TypeInv, Call
  <2>2. claims'[c].now \in 0..now'
    <3>1. claims'[c].now = NoTokenClaims.now
      BY <2>1
    <3> QED
      BY <2>1, <3>1, UndatedClaims, MaxTimeAssumption DEF IInv, TypeInv
  <2>3. given'[c] \in Readable(req'[c])
    BY <1>2, <2>1
  <2> QED
    BY <2>1, <2>2, <2>3 DEF CallInv, Issued, Readable
<1> QED
  BY <1>1, <1>3, <1>4, OthersKept DEF Call, IInv, TypeInv

\* Every error path ends the call the same way.
LEMMA FailKeeps ==
  ASSUME IInv, NEW c \in Calls, NEW e, e # NoError, Fail(c, e),
         pc[c] \in {"check", "base", "sign"}
  PROVE  IInv'
<1>1. TypeInv'
  BY DEF IInv, TypeInv, Fail, PCs
<1>2. CallInv(c)'
  BY DEF IInv, TypeInv, Fail, CallInv, Issued
<1> QED
  BY <1>1, <1>2, OthersKept DEF Fail, IInv, TypeInv

LEMMA CheckKeeps == ASSUME IInv, NEW c \in Calls, Check(c) PROVE IInv'
<1> DEFINE p == PayloadOf(c)
<1>1. pc[c] = "check" /\ CallInv(c) /\ TypeInv
  BY DEF Check, IInv
<1>2. CASE CheckError(signer, req[c], p) # NoError
  BY <1>1, <1>2, FailKeeps DEF Check
<1>3. CASE /\ CheckError(signer, req[c], p) = NoError
           /\ claims' = [claims EXCEPT ![c] = Assemble(req[c], p)]
           /\ pc' = [pc EXCEPT ![c] = "base"]
           /\ UNCHANGED <<signer, now, object, req, given, err, token>>
  <2>1. PICK q : q = p /\ Checked(c, q)
    BY <1>1, <1>3, PayloadIsRead DEF Checked
  <2>2. TypeInv'
    BY <1>1, <1>3 DEF TypeInv, PCs
  <2>3. Checked(c, q)'
    BY <1>3, <2>1 DEF Checked, Read
  <2>4. claims'[c] = Assemble(req'[c], q)
    BY <1>1, <1>3, <2>1 DEF TypeInv
  <2>5. claims'[c].now \in 0..now'
    BY <1>1, <1>3, <2>4, MaxTimeAssumption DEF Assemble, TypeInv
  <2>6. CallInv(c)'
    <3>1. pc'[c] = "base" /\ err'[c] = NoError /\ token'[c] = NoToken
      BY <1>1, <1>3 DEF CallInv, Issued, TypeInv
    <3>2. req'[c] \in Requests /\ given'[c] \in Readable(req'[c])
      BY <1>1, <1>3 DEF CallInv
    <3> QED
      BY <2>3, <2>4, <2>5, <3>1, <3>2 DEF CallInv, Issued, Readable
  <2> QED
    BY <1>1, <1>3, <2>2, <2>6, OthersKept DEF TypeInv
<1> QED
  BY <1>2, <1>3 DEF Check

LEMMA BaseKeeps == ASSUME IInv, NEW c \in Calls, Base(c) PROVE IInv'
<1>1. pc[c] = "base" /\ CallInv(c) /\ TypeInv
  BY DEF Base, IInv
<1>2. CASE BaseError(req[c]) # NoError /\ Fail(c, BaseError(req[c]))
  BY <1>1, <1>2, FailKeeps
<1>3. CASE Fail(c, "could not generate jti")
  BY <1>1, <1>3, FailKeeps DEF NoError
<1>4. CASE /\ BaseError(req[c]) = NoError
           /\ claims' = [claims EXCEPT ![c] = Dated(@, now, TTL(signer, req[c]))]
           /\ pc' = [pc EXCEPT ![c] = "sign"]
           /\ UNCHANGED <<signer, now, object, req, given, err, token>>
  <2>1. PICK q : Checked(c, q) /\ claims[c] = Assemble(req[c], q)
    BY <1>1 DEF CallInv
  <2>2. TypeInv'
    BY <1>1, <1>4 DEF TypeInv, PCs
  <2>3. Checked(c, q)'
    BY <1>4, <2>1 DEF Checked, Read
  <2>4. now \in 0..now
    BY <1>1, MaxTimeAssumption DEF TypeInv
  <2>5. DatedFrom(c, q)'
    BY <1>1, <1>4, <2>1, <2>4 DEF DatedFrom, TypeInv
  <2>6. claims'[c].now = now
    BY <1>1, <1>4, <2>1 DEF Dated, Assemble, TypeInv
  <2>7. CallInv(c)'
    BY <1>1, <1>4, <2>3, <2>4, <2>5, <2>6 DEF CallInv, Issued, TypeInv
  <2> QED
    BY <1>1, <1>4, <2>2, <2>7, OthersKept DEF TypeInv
<1> QED
  BY <1>2, <1>3, <1>4 DEF Base

LEMMA SignKeeps == ASSUME IInv, NEW c \in Calls, SignClaims(c) PROVE IInv'
<1> DEFINE p == PayloadOf(c)
           e == SignError(signer, req[c], claims[c], p)
<1>1. pc[c] = "sign" /\ CallInv(c) /\ TypeInv
  BY DEF SignClaims, IInv
<1>2. CASE e # NoError
  BY <1>1, <1>2, FailKeeps DEF SignClaims
<1>3. CASE /\ e = NoError
           /\ token' = [token EXCEPT ![c] = Sign(signer, req[c], claims[c], p)]
           /\ pc' = [pc EXCEPT ![c] = "done"]
           /\ UNCHANGED <<signer, now, object, req, given, claims, err>>
  <2>1. TypeInv'
    BY <1>1, <1>3 DEF TypeInv, PCs
  <2>2. PICK p0 : p0 = p /\ Read(c, p0)
    BY <1>1, PayloadIsRead
  <2>7. SignedWith(c, p0)'
    BY <1>1, <1>3, <2>2 DEF SignedWith, Read, TypeInv
  <2>3. PICK q : Checked(c, q) /\ DatedFrom(c, q)
    BY <1>1 DEF CallInv
  <2>4. Checked(c, q)' /\ DatedFrom(c, q)'
    BY <1>3, <2>3 DEF Checked, Read, DatedFrom
  <2>5. Issued(c)'
    BY <1>1, <1>3 DEF Issued, CallInv, TypeInv
  <2>6. CallInv(c)'
    BY <1>1, <1>3, <2>7, <2>4, <2>5 DEF CallInv, TypeInv
  <2> QED
    BY <1>1, <1>3, <2>1, <2>6, OthersKept DEF TypeInv
<1> QED
  BY <1>2, <1>3 DEF SignClaims

\* Time and the callers' writes touch no call.
LEMMA EnvironmentKeeps ==
  ASSUME IInv, Tick \/ \E o \in Objects : Rewrite(o)
  PROVE  IInv'
<1>1. TypeInv'
  <2>1. CASE Tick
    BY <2>1, MaxTimeAssumption DEF IInv, TypeInv, Tick
  <2>2. CASE \E o \in Objects : Rewrite(o)
    <3>1. PICK o \in Objects : Rewrite(o)
      BY <2>2
    <3>2. PICK p \in Contents[o] : object' = [object EXCEPT ![o] = p]
      BY <3>1 DEF Rewrite
    <3>3. p \in Claims
      BY <3>2, ObjectsAssumption
    <3> QED
      BY <3>1, <3>2, <3>3 DEF IInv, TypeInv, Rewrite
  <2> QED
    BY <2>1, <2>2
<1>2. ASSUME NEW c \in Calls PROVE CallInv(c)'
  <2>1. Untouched(c)
    BY MaxTimeAssumption DEF Untouched, IInv, TypeInv, Tick, Rewrite
  <2> QED
    BY <2>1, UntouchedCall DEF IInv
<1> QED
  BY <1>1, <1>2 DEF IInv

LEMMA NextKeeps == IInv /\ [Next]_vars => IInv'
<1> SUFFICES ASSUME IInv, [Next]_vars PROVE IInv'
  OBVIOUS
<1>1. ASSUME NEW c \in Calls, Call(c) PROVE IInv'
  BY <1>1, CallKeeps
<1>2. ASSUME NEW c \in Calls, Check(c) PROVE IInv'
  BY <1>2, CheckKeeps
<1>3. ASSUME NEW c \in Calls, Base(c) PROVE IInv'
  BY <1>3, BaseKeeps
<1>4. ASSUME NEW c \in Calls, SignClaims(c) PROVE IInv'
  BY <1>4, SignKeeps
<1>5. CASE Tick \/ \E o \in Objects : Rewrite(o)
  BY <1>5, EnvironmentKeeps
<1>6. CASE UNCHANGED vars
  <2>1. TypeInv'
    BY <1>6 DEF IInv, TypeInv, vars
  <2>2. ASSUME NEW c \in Calls PROVE CallInv(c)'
    <3>1. Untouched(c)
      BY <1>6, MaxTimeAssumption DEF Untouched, IInv, TypeInv, vars
    <3> QED
      BY <3>1, UntouchedCall DEF IInv
  <2> QED
    BY <2>1, <2>2 DEF IInv
<1> QED
  BY <1>1, <1>2, <1>3, <1>4, <1>5, <1>6 DEF Next

LEMMA Invariance == Spec => []IInv
<1> QED
  BY InitEstablishes, NextKeeps, PTL DEF Spec

-----------------------------------------------------------------------------
(* What the invariant says of an issued token.                             *)

\* An issued token was signed with a payload the call could read, and its
\* claims come from another such payload, which passed the checks.
LEMMA HowIssued ==
  ASSUME IInv, NEW c \in Calls, Issued(c)
  PROVE  /\ req[c] \in Requests /\ signer \in Signers
         /\ BaseError(req[c]) = NoError
         /\ \E q : Checked(c, q) /\ DatedFrom(c, q)
         /\ \E p : SignedWith(c, p)
<1> QED
  BY DEF IInv, TypeInv, CallInv, Issued

\* Without shared memory, both are the payload the call was given.
LEMMA HowIssuedByValue ==
  ASSUME IInv, NEW c \in Calls, Issued(c), ~ req[c].byRef
  PROVE  Checked(c, given[c]) /\ DatedFrom(c, given[c]) /\ SignedWith(c, given[c])
<1>1. PICK q : Checked(c, q) /\ DatedFrom(c, q)
  BY HowIssued
<1>2. PICK p : SignedWith(c, p)
  BY HowIssued
<1>3. q = given[c] /\ p = given[c]
  BY <1>1, <1>2 DEF Checked, SignedWith, Read
<1> QED
  BY <1>1, <1>2, <1>3

\* The fields of dated claims.
LEMMA DatedFields ==
  ASSUME NEW c \in Calls, NEW q, DatedFrom(c, q)
  PROVE  /\ claims[c].acr = Acr(req[c], q)
         /\ claims[c].tokenType = TokenType(req[c])
         /\ claims[c].variantKey = IF req[c].op \in BuiltIns THEN req[c].op ELSE req[c].key
         /\ claims[c].now \in 0..now
         /\ claims[c].ttl = TTL(signer, req[c])
<1>1. PICK t \in 0..now : claims[c] = Dated(Assemble(req[c], q), t, TTL(signer, req[c]))
  BY DEF DatedFrom
<1> QED
  BY <1>1 DEF Dated, Assemble

\* A claim the token type is not written over has the value issue gave it.
LEMMA KeptStands ==
  ASSUME IInv, NEW c \in Calls, Issued(c), NEW name, Keeps(c, name)
  PROVE  name \notin TypeNames(signer, claims[c])
<1>1. PICK q : DatedFrom(c, q)
  BY HowIssued
<1>2. claims[c].tokenType = TokenType(req[c])
  BY <1>1, DatedFields
<1>3. CASE signer.tokenTypeClaim # name
  BY <1>3 DEF TypeNames
<1>4. CASE req[c].op = "access"
  <2>1. TokenType(req[c]) = ""
    BY <1>4 DEF TokenType, BuiltIns
  <2> QED
    BY <1>2, <2>1 DEF TypeNames
<1> QED
  BY <1>3, <1>4 DEF Keeps

\* The checks of every operation end with the payload's own Validate.
LEMMA CheckedIsValid ==
  ASSUME NEW s, NEW r \in Requests, NEW p, CheckError(s, r, p) = NoError
  PROVE  Validate(p) = NoError
<1>1. r.op \in Ops
  BY RequestsAssumption DEF WellTyped, RequestType
<1>2. CASE r.op = "eidas"
  <2>1. FirstError(<<When(r.loa \notin LoAs, "ErrInvalidAssuranceLevel"), Validate(p)>>) = NoError
    BY <1>2 DEF CheckError
  <2> QED
    BY <2>1, BothPass
<1>3. CASE r.op \in {"digid", "eherkenning"}
  BY <1>3 DEF CheckError
<1>4. checkNested(s, r.key, p) = NoError => Validate(p) = NoError
  BY NestedPasses
<1>5. CASE r.op = "custom"
  <2> DEFINE typed == When(r.type = "", "ErrMissingTokenType")
  <2>1. FirstError(<<typed, checkNested(s, r.key, p)>>) = NoError
    BY <1>5 DEF CheckError
  <2> HIDE DEF typed
  <2>2. checkNested(s, r.key, p) = NoError
    BY <2>1, BothPass
  <2> QED
    BY <1>4, <2>2
<1>6. CASE r.op = "access"
  <2>1. FirstError(<<When(~ r.clientID, "ErrMissingClientID"), checkNested(s, r.key, p)>>) = NoError
    BY <1>6 DEF CheckError
  <2> QED
    BY <1>4, <2>1, BothPass
<1> QED
  BY <1>1, <1>2, <1>3, <1>5, <1>6 DEF Ops, BuiltIns

\* A custom or access payload that is nested has a key no other claim has.
LEMMA CheckedKeyIsFree ==
  ASSUME NEW s, NEW r \in Requests, r.op \notin BuiltIns, NEW p,
         CheckError(s, r, p) = NoError, r.key # ""
  PROVE  r.key \notin reservedClaimNames /\ r.key # s.tokenTypeClaim
<1>1. r.op \in {"custom", "access"}
  BY RequestsAssumption DEF WellTyped, RequestType, Ops
<1>2. checkNested(s, r.key, p) = NoError
  <2>1. CASE r.op = "custom"
    BY <2>1, BothPass DEF CheckError
  <2>2. CASE r.op = "access"
    BY <2>2, BothPass DEF CheckError
  <2> QED
    BY <1>1, <2>1, <2>2
<1> QED
  BY <1>2, NestedPasses

\* A variant that is nested takes no name of this token's other claims.
LEMMA SignedKeyIsFree ==
  ASSUME NEW s, NEW r, NEW tc, NEW p, SignError(s, r, tc, p) = NoError, Nests(tc, p)
  PROVE  tc.variantKey \notin StandardNames(r, tc) \union TypeNames(s, tc)
<1>1. MarshalError(s, r, tc, p) = NoError
  BY BothPass DEF SignError
<1>2. When(Nests(tc, p) /\ tc.variantKey \in StandardNames(r, tc) \union TypeNames(s, tc),
           "ErrReservedClaimsKey") = NoError
  BY <1>1, BothPass DEF MarshalError
<1> QED
  BY <1>2 DEF When, NoError

\* The variant wrote its own key and nothing else.
LEMMA VariantWritesItsKey ==
  ASSUME NEW s, NEW r, NEW tc, NEW p, NEW w, w = Writers(s, r, tc, p),
         NEW name \in DOMAIN w, w[name] = "variant"
  PROVE  Nests(tc, p) /\ name = tc.variantKey
<1> QED
  BY DEF Writers

\* The token type is written under its own name only.
LEMMA OnlyTypeIsWritten ==
  ASSUME NEW s, NEW r, NEW tc, NEW p, NEW w, w = Writers(s, r, tc, p),
         NEW name \in DOMAIN w, w[name] = "token type"
  PROVE  name \in TypeNames(s, tc)
<1> QED
  BY DEF Writers

-----------------------------------------------------------------------------
(* The theorems.                                                           *)

(* In every reachable state every component has its type, and exactly the  *)
(* calls that ended without an error hold a token.                         *)
THEOREM TypeCorrect == Spec => []TypeOK
<1>1. IInv => TypeOK
  <2> SUFFICES ASSUME IInv PROVE TypeOK
    OBVIOUS
  <2>1. ASSUME NEW c \in Calls, Issued(c) PROVE token[c] # NoToken
    <3>1. PICK p : SignedWith(c, p)
      BY <2>1, HowIssued
    <3>2. token[c].kid = signer.keyID
      BY <3>1 DEF SignedWith, Sign
    <3>3. NoToken.kid = ""
      BY DEF NoToken
    <3> QED
      BY <3>2, <3>3, SignersAssumption DEF IInv, TypeInv
  <2>2. ASSUME NEW c \in Calls, ~ Issued(c) PROVE token[c] = NoToken
    BY <2>2 DEF IInv, CallInv
  <2>3. ASSUME NEW c \in Calls
        PROVE  /\ pc[c] # "idle" => req[c] \in Requests
               /\ given[c] \in Claims
               /\ claims[c].now \in 0..now
               /\ pc[c] # "done" => err[c] = NoError
               /\ token[c] # NoToken <=> Issued(c)
    BY <2>1, <2>2 DEF IInv, TypeInv, CallInv
  <2>4. /\ signer \in Signers
        /\ now \in 0..MaxTime
        /\ object \in [Objects -> Claims]
        /\ \A o \in Objects : object[o] \in Contents[o]
        /\ pc \in [Calls -> {"idle", "check", "base", "sign", "done"}]
    BY DEF IInv, TypeInv, PCs
  <2> QED
    BY <2>3, <2>4, Zenon DEF TypeOK
<1> QED
  BY <1>1, Invariance, PTL

(* Whatever the callers do to their objects while a call runs, a payload   *)
(* that was passed by value is in the token only if its Validate accepts   *)
(* it: what was validated is what is signed.                               *)
THEOREM ValidatedIsSigned == Spec => []SignedPayloadIsValid
<1>1. IInv => SignedPayloadIsValid
  <2> SUFFICES ASSUME IInv, NEW c \in Calls, Issued(c), ~ req[c].byRef
               PROVE  Validate(token[c].variant) = NoError
    BY DEF SignedPayloadIsValid
  <2>1. Validate(given[c]) = NoError
    BY HowIssued, HowIssuedByValue, CheckedIsValid DEF Checked
  <2>2. Validate(NoClaims) = NoError
    BY DEF Validate, NoClaims
  <2>3. token[c] = Sign(signer, req[c], claims[c], given[c])
    BY HowIssuedByValue DEF SignedWith
  <2>4. token[c].variant \in {given[c], NoClaims}
    BY <2>3 DEF Sign
  <2> QED
    BY <2>1, <2>2, <2>4
<1> QED
  BY <1>1, Invariance, PTL

(* The acr claim of a built-in token stands for the assurance level in the *)
(* same token's payload, and is an official level, unless the Signer's     *)
(* token-type claim is the acr and its type stands there.                  *)
THEOREM AcrIsThePayloads == Spec => []AcrMatchesPayload
<1>1. IInv => AcrMatchesPayload
  <2> SUFFICES ASSUME IInv, NEW c \in Calls, Issued(c), req[c].op \in BuiltIns,
                      Keeps(c, "acr")
               PROVE  /\ token[c].acr \in LoAs
                      /\ req[c].op = "digid" =>
                           /\ token[c].acr = "high"        <=> token[c].variant.AssuranceLevel = "hoog"
                           /\ token[c].acr = "substantial" <=> token[c].variant.AssuranceLevel = "substantieel"
                      /\ req[c].op = "eherkenning" =>
                           /\ token[c].acr = "high"        <=> token[c].variant.AssuranceClass = "loa4"
                           /\ token[c].acr = "substantial" <=> token[c].variant.AssuranceClass = "loa3"
    BY DEF AcrMatchesPayload
  <2> DEFINE p == given[c]
  <2>1. req[c] \in Requests /\ WellTyped(req[c])
    BY HowIssued, RequestsAssumption
  <2>2. ~ req[c].byRef
    BY <2>1 DEF WellTyped
  <2>3. Checked(c, p) /\ DatedFrom(c, p) /\ SignedWith(c, p)
    BY <2>2, HowIssuedByValue
  <2>4. p.kind = req[c].op
    BY <2>1, <2>3, ObjectsAssumption DEF Checked, Read, Readable, WellTyped
  <2>5. claims[c].acr = Acr(req[c], p) /\ claims[c].variantKey = req[c].op
    BY <2>3, DatedFields
  <2>6. Nests(claims[c], p)
    BY <2>4, <2>5 DEF Nests, BuiltIns
  <2>7. token[c] = Sign(signer, req[c], claims[c], p)
    BY <2>3 DEF SignedWith
  <2>8. token[c].acr = Acr(req[c], p) /\ token[c].variant = p
    <3>1. "acr" \notin TypeNames(signer, claims[c])
      BY KeptStands
    <3>2. token[c].acr = claims[c].acr
      BY <2>7, <3>1, ClaimsStand
    <3>3. token[c].variant = p
      BY <2>6, <2>7 DEF Sign
    <3> QED
      BY <2>5, <3>2, <3>3
  <2>9. CASE req[c].op = "eidas"
    <3>1. FirstError(<<When(req[c].loa \notin LoAs, "ErrInvalidAssuranceLevel"), Validate(p)>>) = NoError
      BY <2>3, <2>9 DEF Checked, CheckError
    <3>2. req[c].loa \in LoAs
      BY <3>1, BothPass DEF When, NoError
    <3> QED
      BY <2>8, <2>9, <3>2 DEF Acr
  <2>10. CASE req[c].op = "digid"
    <3>1. token[c].acr = DigiDToEIDAS(token[c].variant.AssuranceLevel)
      BY <2>8, <2>10 DEF Acr
    <3> QED
      BY <3>1, <2>10 DEF DigiDToEIDAS, LoAs
  <2>11. CASE req[c].op = "eherkenning"
    <3>1. token[c].acr = EHToEIDAS(token[c].variant.AssuranceClass)
      BY <2>8, <2>11 DEF Acr
    <3> QED
      BY <3>1, <2>11 DEF EHToEIDAS, LoAs
  <2> QED
    BY <2>9, <2>10, <2>11 DEF BuiltIns
<1> QED
  BY <1>1, Invariance, PTL

(* Each date of a token is its time cut off to the second: exp that of the *)
(* clock reading plus the TTL, iat and nbf that of the reading; rounding   *)
(* never extends a token.  A date the Signer's token type is written over  *)
(* says nothing, the others still do.                                      *)
THEOREM ExpiryIsTheTTLs == Spec => []ExpiresWithTTL
<1>1. IInv => ExpiresWithTTL
  <2> SUFFICES ASSUME IInv, NEW c \in Calls, Issued(c)
               PROVE  LET at  == claims[c].now
                          ttl == IF req[c].ttl > 0 THEN req[c].ttl ELSE signer.defaultTTL
                      IN  /\ Keeps(c, "exp") => CutTo(at + ttl, token[c].exp)
                          /\ Keeps(c, "iat") => CutTo(at, token[c].iat)
                          /\ Keeps(c, "nbf") => CutTo(at, token[c].nbf)
                          /\ at <= now
    BY DEF ExpiresWithTTL
  <2> DEFINE at  == claims[c].now
             ttl == IF req[c].ttl > 0 THEN req[c].ttl ELSE signer.defaultTTL
  <2>1. req[c] \in Requests /\ signer \in Signers /\ now \in Nat
    BY HowIssued, MaxTimeAssumption DEF IInv, TypeInv
  <2>2. req[c].ttl \in Int /\ signer.defaultTTL \in Nat
    BY <2>1, RequestsAssumption, SignersAssumption DEF WellTyped, RequestType
  <2>3. PICK q : DatedFrom(c, q)
    BY HowIssued
  <2>4. TTL(signer, req[c]) = ttl
    BY <2>2 DEF TTL
  <2>5. at \in 0..now /\ claims[c].ttl = ttl
    BY <2>3, <2>4, DatedFields
  <2>6. PICK p : token[c] = Sign(signer, req[c], claims[c], p)
    BY HowIssued DEF SignedWith
  <2>7. ttl \in Int
    BY <2>2
  <2> HIDE DEF ttl
  <2>8. at \in Int /\ at + ttl \in Int /\ at <= now
    BY <2>1, <2>5, <2>7
  <2>9. ASSUME Keeps(c, "exp") PROVE CutTo(at + ttl, token[c].exp)
    <3>1. "exp" \notin TypeNames(signer, claims[c])
      BY <2>9, KeptStands
    <3>2. token[c].exp = NumericDate(at + ttl)
      BY <2>5, <2>6, <3>1, ClaimsStand
    <3> QED
      BY <2>8, <3>2, WholeSeconds DEF CutTo
  <2>10. ASSUME Keeps(c, "iat") PROVE CutTo(at, token[c].iat)
    <3>1. "iat" \notin TypeNames(signer, claims[c])
      BY <2>10, KeptStands
    <3>2. token[c].iat = NumericDate(at)
      BY <2>6, <3>1, ClaimsStand
    <3> QED
      BY <2>8, <3>2, WholeSeconds DEF CutTo
  <2>11. ASSUME Keeps(c, "nbf") PROVE CutTo(at, token[c].nbf)
    <3>1. "nbf" \notin TypeNames(signer, claims[c])
      BY <2>11, KeptStands
    <3>2. token[c].nbf = NumericDate(at)
      BY <2>6, <3>1, ClaimsStand
    <3> QED
      BY <2>8, <3>2, WholeSeconds DEF CutTo
  <2> QED
    BY <2>8, <2>9, <2>10, <2>11 DEF ttl
<1> QED
  BY <1>1, Invariance, PTL

(* No payload ever takes a reserved name or the token-type claim, whatever *)
(* ClaimsKey a request asks for and whatever the Signer calls that claim.  *)
THEOREM VariantNeverShadows == Spec => []VariantKeepsToItsKey
<1>1. IInv => VariantKeepsToItsKey
  <2> SUFFICES ASSUME IInv, NEW c \in Calls, Issued(c),
                      NEW name \in DOMAIN token[c].writers,
                      token[c].writers[name] = "variant"
               PROVE  name \notin reservedClaimNames /\ name # signer.tokenTypeClaim
    BY DEF VariantKeepsToItsKey
  <2> DEFINE r == req[c]
             tc == claims[c]
  <2>1. r \in Requests
    BY HowIssued
  <2>2. PICK q : Checked(c, q) /\ DatedFrom(c, q)
    BY HowIssued
  <2>3. PICK p : SignError(signer, r, tc, p) = NoError /\ token[c] = Sign(signer, r, tc, p)
    BY HowIssued DEF SignedWith
  <2>4. token[c].writers = Writers(signer, r, tc, p)
    BY <2>3 DEF Sign
  <2>5. Nests(tc, p) /\ name = tc.variantKey
    BY <2>4, VariantWritesItsKey
  <2>6. /\ tc.variantKey = IF r.op \in BuiltIns THEN r.op ELSE r.key
        /\ tc.tokenType = TokenType(r)
    BY <2>2, DatedFields
  <2>7. CASE r.op \in BuiltIns
    <3>1. name \notin TypeNames(signer, tc)
      BY <2>3, <2>5, SignedKeyIsFree
    <3>2. TypeNames(signer, tc) = {signer.tokenTypeClaim}
      BY <2>6, <2>7 DEF TypeNames, TokenType, BuiltIns
    <3>3. name \notin reservedClaimNames
      BY <2>5, <2>6, <2>7 DEF BuiltIns, reservedClaimNames
    <3> QED
      BY <3>1, <3>2, <3>3
  <2>8. CASE r.op \notin BuiltIns
    <3>1. name = r.key /\ r.key # ""
      BY <2>5, <2>6, <2>8 DEF Nests
    <3> QED
      BY <2>1, <2>2, <2>8, <3>1, CheckedKeyIsFree DEF Checked
  <2> QED
    BY <2>7, <2>8
<1> QED
  BY <1>1, Invariance, PTL

(* The token-type claim is the Service's own: the token's type in every    *)
(* token but an access token, where nothing but a standard claim may have  *)
(* that name.                                                              *)
THEOREM TypeClaimIsOwn == Spec => []TypeClaimIsTheTokensType
<1>1. IInv /\ VariantKeepsToItsKey => TypeClaimIsTheTokensType
  <2> SUFFICES ASSUME IInv, VariantKeepsToItsKey, NEW c \in Calls, Issued(c)
               PROVE  LET w == token[c].writers IN
                      IF req[c].op = "access"
                      THEN \A name \in DOMAIN w :
                             /\ w[name] # "token type"
                             /\ name = signer.tokenTypeClaim => w[name] = "standard"
                      ELSE /\ signer.tokenTypeClaim \in DOMAIN w
                           /\ w[signer.tokenTypeClaim] = "token type"
                           /\ token[c].tokenType # ""
                           /\ req[c].op \in BuiltIns => token[c].tokenType = req[c].op
    BY DEF TypeClaimIsTheTokensType
  <2> DEFINE r == req[c]
             tc == claims[c]
  <2>1. r \in Requests /\ r.op \in Ops
    BY HowIssued, RequestsAssumption DEF WellTyped, RequestType
  <2>2. PICK q : Checked(c, q) /\ DatedFrom(c, q)
    BY HowIssued
  <2>3. PICK p : token[c] = Sign(signer, r, tc, p)
    BY HowIssued DEF SignedWith
  <2>4. PICK w : /\ w = token[c].writers /\ w = Writers(signer, r, tc, p)
                 /\ token[c].tokenType = tc.tokenType
    BY <2>3 DEF Sign
  <2>5. tc.tokenType = TokenType(r)
    BY <2>2, DatedFields
  <2>6. \A name \in DOMAIN w : w[name] = "variant" => name # signer.tokenTypeClaim
    BY <2>4 DEF VariantKeepsToItsKey
  <2>7. CASE r.op = "access"
    <3>1. TypeNames(signer, tc) = {}
      BY <2>5, <2>7 DEF TypeNames, TokenType, BuiltIns
    <3>2. ASSUME NEW name \in DOMAIN w PROVE w[name] # "token type"
      <4>1. ASSUME w[name] = "token type" PROVE name \in TypeNames(signer, tc)
        BY <2>4, <4>1, OnlyTypeIsWritten
      <4> QED
        BY <3>1, <4>1
    <3>3. ASSUME NEW name \in DOMAIN w, name = signer.tokenTypeClaim PROVE w[name] = "standard"
      <4>1. w[name] # "variant" /\ w[name] # "token type"
        BY <2>6, <3>2, <3>3
      <4>2. w = Writers(signer, r, tc, p)
        BY <2>4
      <4> QED
        BY <4>1, <4>2, <3>3 DEF Writers
    <3> QED
      BY <2>4, <2>6, <2>7, <3>2, <3>3
  <2>8. CASE r.op # "access"
    <3>1. TokenType(r) # "" /\ (r.op \in BuiltIns => TokenType(r) = r.op)
      <4>1. CASE r.op \in BuiltIns
        BY <4>1 DEF TokenType, BuiltIns
      <4>2. CASE r.op = "custom"
        <5>1. When(r.type = "", "ErrMissingTokenType") = NoError
          BY <2>2, <4>2, BothPass DEF Checked, CheckError
        <5> QED
          BY <4>2, <5>1 DEF TokenType, BuiltIns, When, NoError
      <4> QED
        BY <2>1, <2>8, <4>1, <4>2 DEF Ops
    <3>2. TypeNames(signer, tc) = {signer.tokenTypeClaim}
      BY <2>5, <3>1 DEF TypeNames
    <3>3. PICK name : name = signer.tokenTypeClaim /\ name \in TypeNames(signer, tc)
      BY <3>2
    <3>4. name \in DOMAIN w /\ (w[name] # "variant" => w[name] = "token type")
      <4>1. w = Writers(signer, r, tc, p)
        BY <2>4
      <4> QED
        BY <4>1, <3>3 DEF Writers
    <3>5. w[name] = "token type"
      BY <2>6, <3>3, <3>4
    <3> QED
      BY <2>4, <2>5, <2>8, <3>1, <3>3, <3>4, <3>5
  <2> QED
    BY <2>7, <2>8
<1> QED
  BY <1>1, Invariance, VariantNeverShadows, PTL
-----------------------------------------------------------------------------
(* Issued tokens and the published JWKS.                                   *)

\* Its type is written over none of the claims that are checked.
KeepsChecked(c) == \A name \in CheckedClaims : Keeps(c, name)

\* What an issued token then says, whoever marshalled it and whatever it carries.
Says(t, at, ttl, r) ==
  /\ t.kid = signer.keyID /\ t.alg = signer.algorithm
  /\ t.sig = [key |-> signer.key, alg |-> signer.algorithm]
  /\ t.iss = signer.issuer /\ t.aud = r.aud
  /\ t.nbf \in Int /\ t.nbf <= at
  /\ t.exp \in Int /\ t.exp <= at + ttl /\ at + ttl < t.exp + TicksPerSecond

LEMMA IssuedSays ==
  ASSUME IInv, NEW c \in Calls, Issued(c), KeepsChecked(c)
  PROVE  /\ claims[c].now \in 0..now /\ TTL(signer, req[c]) \in Int
         /\ Says(token[c], claims[c].now, TTL(signer, req[c]), req[c])
<1> DEFINE at == claims[c].now
           ttl == TTL(signer, req[c])
<1>1. req[c] \in Requests /\ signer \in Signers /\ now \in Nat
  BY HowIssued, MaxTimeAssumption DEF IInv, TypeInv
<1>2. ttl \in Int
  <2>1. req[c].ttl \in Int /\ signer.defaultTTL \in Nat
    BY <1>1, RequestsAssumption, SignersAssumption DEF WellTyped, RequestType
  <2> QED
    BY <2>1 DEF TTL
<1>3. PICK q : DatedFrom(c, q)
  BY HowIssued
<1>4. at \in 0..now /\ claims[c].ttl = ttl
  BY <1>3, DatedFields
<1>5. PICK p : token[c] = Sign(signer, req[c], claims[c], p)
  BY HowIssued DEF SignedWith
<1>6. /\ token[c].kid = signer.keyID /\ token[c].alg = signer.algorithm
      /\ token[c].sig = [key |-> signer.key, alg |-> signer.algorithm]
      /\ token[c].iss = signer.issuer /\ token[c].aud = req[c].aud
      /\ token[c].nbf = NumericDate(at) /\ token[c].exp = NumericDate(at + ttl)
  <2>1. /\ token[c].kid = signer.keyID /\ token[c].alg = signer.algorithm
        /\ token[c].sig = [key |-> signer.key, alg |-> signer.algorithm]
    BY <1>5 DEF Sign
  <2>2. \A name \in CheckedClaims : name \notin TypeNames(signer, claims[c])
    BY KeptStands DEF KeepsChecked
  <2>3. /\ "iss" \notin TypeNames(signer, claims[c])
        /\ "aud" \notin TypeNames(signer, claims[c])
        /\ "nbf" \notin TypeNames(signer, claims[c])
        /\ "exp" \notin TypeNames(signer, claims[c])
    BY <2>2 DEF CheckedClaims
  <2>4. /\ token[c].iss = signer.issuer /\ token[c].aud = req[c].aud
        /\ token[c].nbf = NumericDate(at)
        /\ token[c].exp = NumericDate(at + claims[c].ttl)
    BY <1>5, <2>3, ClaimsStand
  <2> QED
    BY <1>4, <2>1, <2>4
<1>7. at \in Int /\ at + ttl \in Int
  BY <1>1, <1>2, <1>4
<1> HIDE DEF at, ttl
<1>8. /\ token[c].nbf \in Int /\ token[c].nbf <= at
      /\ token[c].exp \in Int /\ token[c].exp <= at + ttl
      /\ at + ttl < token[c].exp + TicksPerSecond
  BY <1>6, <1>7, WholeSeconds
<1> QED
  BY <1>2, <1>4, <1>6, <1>8 DEF Says, at, ttl

\* The claims that Verify looks at are the Service's own.
LEMMA CheckedClaimsAreKept ==
  ASSUME IInv, NEW c \in Calls, Issued(c), KeepsChecked(c),
         NEW name \in CheckedClaims
  PROVE  ~ Overwritten(token[c], name)
<1>1. PICK p : token[c] = Sign(signer, req[c], claims[c], p)
  BY HowIssued DEF SignedWith
<1>2. name \in StandardNames(req[c], claims[c])
  BY DEF CheckedClaims, StandardNames
<1>3. name \notin TypeNames(signer, claims[c])
  BY KeptStands DEF KeepsChecked
<1> QED
  BY <1>1, <1>2, <1>3, KeptClaim

\* The JWK set a Signer publishes is one a Verifier can be built of, and the
\* Verifier finds and decodes the key that verifies the Signer's tokens.
LEMMA OwnJWKSVerifies ==
  ASSUME NEW s \in Signers, NEW iss, NEW aud, NEW t,
         t.kid = s.keyID, t.alg = s.algorithm, t.sig = [key |-> s.key, alg |-> s.algorithm]
  PROVE  LET v == NewVerifier(<<s.jwk>>, iss, aud) IN
         /\ NewVerifierError(<<s.jwk>>) = NoError
         /\ t.kid \in DOMAIN v.keys /\ t.alg \in v.allowedAlgs
         /\ PublicKeyError(v.keys[t.kid]) = NoError
         /\ SignatureError(t, v.keys[t.kid]) = NoError
<1> DEFINE cfg == ConfigOf(s)
           jwks == <<s.jwk>>
           v == NewVerifier(jwks, iss, aud)
<1>1. Buildable(cfg) /\ s = Signer(cfg)
  BY BuiltSignersAssumption, Zenon DEF Buildable
<1>2. cfg.keyPEM.key = s.key /\ cfg.algorithm = s.algorithm
  BY DEF ConfigOf
<1> HIDE DEF cfg
<1>3. /\ PublicKeyError(s.jwk) = NoError /\ SignatureError(t, s.jwk) = NoError
      /\ s.jwk.kid = s.keyID /\ s.jwk.alg = s.algorithm
  BY <1>1, <1>2, OwnJWKVerifies
<1>4. s.jwk.kid # "" /\ s.jwk.alg # ""
  <2>1. s.keyID # ""
    BY SignersAssumption, Zenon
  <2>2. s.algorithm \in Algorithms
    BY <1>1, <1>2, BuiltSigner
  <2>3. "" \notin Algorithms
    BY DEF Algorithms, RSAAlgorithms, ECAlgorithms
  <2> QED
    BY <1>3, <2>1, <2>2, <2>3, Zenon
<1>5. 1 \in Nat /\ DOMAIN jwks = 1..1 /\ jwks[1] = s.jwk
  OBVIOUS
<1> HIDE DEF jwks
<1>6. Clean(jwks)
  <2>1. \A i \in DOMAIN jwks : i = 1
    BY <1>5
  <2> QED
    BY <1>4, <1>5, <2>1, Zenon DEF Clean
<1>7. NewVerifierError(jwks) = NoError
  BY <1>5, <1>6, CleanSetsOnly
<1>8. /\ jwks[1].kid \in DOMAIN v.keys /\ v.keys[jwks[1].kid] = jwks[1]
      /\ jwks[1].alg \in v.allowedAlgs
  <2>1. DOMAIN jwks \subseteq Nat /\ 1 \in DOMAIN jwks
    BY <1>5
  <2> QED
    BY <1>6, <2>1, SnapshotFinds
<1> HIDE DEF v
<1>9. t.kid \in DOMAIN v.keys /\ t.alg \in v.allowedAlgs /\ v.keys[t.kid] = s.jwk
  BY <1>3, <1>5, <1>8
<1> QED
  BY <1>3, <1>7, <1>9 DEF jwks, v

\* Time alone decides what Verify says of an issued token.
LEMMA TimeDecides ==
  ASSUME IInv, NEW c \in Calls, Issued(c), KeepsChecked(c),
         NEW aud \in req[c].aud
  PROVE  Verdict(c, aud) = When(now >= token[c].exp, "jwt.ErrTokenExpired")
<1> DEFINE t == token[c]
           jwks == <<signer.jwk>>
           v == NewVerifier(jwks, signer.issuer, aud)
<1>1. signer \in Signers /\ now \in Nat
  BY HowIssued, MaxTimeAssumption DEF IInv, TypeInv
<1>2. /\ t.kid = signer.keyID /\ t.alg = signer.algorithm
      /\ t.sig = [key |-> signer.key, alg |-> signer.algorithm]
      /\ t.iss = signer.issuer /\ t.aud = req[c].aud
      /\ t.nbf \in Int /\ t.nbf <= claims[c].now /\ claims[c].now \in 0..now
  BY IssuedSays DEF Says
<1> HIDE DEF t
<1>3. /\ NewVerifierError(jwks) = NoError
      /\ t.kid \in DOMAIN v.keys /\ t.alg \in v.allowedAlgs
      /\ PublicKeyError(v.keys[t.kid]) = NoError
      /\ SignatureError(t, v.keys[t.kid]) = NoError
  BY <1>1, <1>2, OwnJWKSVerifies
<1>4. v.expectedIssuer = signer.issuer /\ v.expectedAudience = aud
  BY DEF NewVerifier
<1>5. Verdict(c, aud) = FirstError(<<NewVerifierError(jwks), VerifyError(v, t, now)>>)
  BY DEF Verdict, t
<1> HIDE DEF jwks, v
<1>6. Verdict(c, aud) = VerifyError(v, t, now)
  BY <1>3, <1>5, SecondOfTwo
<1>7. VerifyError(v, t, now) = ClaimsError(v, t, now)
  BY <1>3, ClaimsDecide
<1>8. ~ (now < t.nbf)
  BY <1>1, <1>2
<1>9. /\ ~ Overwritten(t, "exp") /\ ~ Overwritten(t, "nbf")
      /\ ~ Overwritten(t, "iss") /\ ~ Overwritten(t, "aud")
  BY CheckedClaimsAreKept DEF CheckedClaims, t
<1>10. v.expectedIssuer \in {"", t.iss} /\ v.expectedAudience \in {""} \union t.aud
  BY <1>2, <1>4, Zenon
<1>11. ClaimsError(v, t, now) = When(now >= t.exp, "jwt.ErrTokenExpired")
  BY <1>8, <1>9, <1>10, OnlyExpiryFails
<1> QED
  BY <1>6, <1>7, <1>11 DEF t

(* For any goroutines, requests, Signers and clock, and whatever callers   *)
(* do to payloads they share with a call: an issued token is accepted      *)
(* under the Signer's own JWKS for each of its audiences until less than a *)
(* second of its TTL is left, never after its TTL, and is refused only as  *)
(* expired (Sign, JWKS, NewVerifier, Verify).                              *)
THEOREM IssuedTokensAreGood == Spec => []IssuedTokensVerify
<1>1. IInv => IssuedTokensVerify
  <2> SUFFICES ASSUME IInv, NEW c \in Calls, Issued(c),
                      KeepsChecked(c), NEW aud \in req[c].aud
               PROVE  /\ Verdict(c, aud) \in {NoError, "jwt.ErrTokenExpired"}
                      /\ Left(c) >= TicksPerSecond => Verdict(c, aud) = NoError
                      /\ Left(c) <= 0 => Verdict(c, aud) # NoError
    BY DEF IssuedTokensVerify, KeepsChecked
  <2> DEFINE ttl == TTL(signer, req[c])
             at == claims[c].now
             exp == token[c].exp
  <2>1. Verdict(c, aud) = When(now >= exp, "jwt.ErrTokenExpired")
    BY TimeDecides
  <2>2. /\ at \in 0..now /\ ttl \in Int /\ exp \in Int
        /\ exp <= at + ttl /\ at + ttl < exp + TicksPerSecond
    BY IssuedSays DEF Says
  <2>3. Left(c) = at + ttl - now
    <3>1. req[c].ttl \in Int
      BY HowIssued, RequestsAssumption DEF WellTyped, RequestType
    <3>2. ttl = IF req[c].ttl > 0 THEN req[c].ttl ELSE signer.defaultTTL
      BY <3>1 DEF TTL
    <3> QED
      BY <3>2 DEF Left
  <2>4. now \in Nat
    BY MaxTimeAssumption DEF IInv, TypeInv
  <2> HIDE DEF ttl, at, exp
  <2>5. /\ Left(c) >= TicksPerSecond => ~ (now >= exp)
        /\ Left(c) <= 0 => now >= exp
    BY <2>2, <2>3, <2>4, TimeAssumption
  <2> QED
    BY <2>1, <2>5 DEF When, NoError
<1> QED
  BY <1>1, Invariance, PTL
=============================================================================
