-------------------------- MODULE KeyRotationProofs --------------------------
(***************************************************************************)
(* The safety properties of KeyRotation, for any keys and kids and any     *)
(* periods that satisfy GraceAssumption.  The inductive invariant follows  *)
(* a key from Vault into the token: what main has read of it promises that *)
(* the key stays in Vault until a token made of it has expired (Promise),  *)
(* and that it was still the active one at some time since the run began   *)
(* (Recent).                                                               *)
(***************************************************************************)
EXTENDS KeyRotation, VerifierProofs, FiniteSetTheorems

PKCS1(k) == [form |-> "RSA PRIVATE KEY", key |-> k]

\* The kid fields the record of key k may have.
KidFields(k) == IF ServiceKid[k] = Thumbprint[k] THEN {ServiceKid[k], NoKid}
                                                 ELSE {ServiceKid[k]}

\* The records the rotator makes of key k.
Records(k) == [pem : {noPEM, PKCS1(k)}, kid : KidFields(k), expiresAt : Nat]

\* Key k is in Vault, with its PEM, until that time.
Promise(k, until) ==
  \/ now >= until
  \/ /\ ServiceKid[k] \in DOMAIN keys
     /\ keys[ServiceKid[k]].pem = PKCS1(k)
     /\ \/ keys[ServiceKid[k]].expiresAt = 0
        \/ keys[ServiceKid[k]].expiresAt >= until

\* Key k is the active one, or was at some time from then on.
Recent(kid, since) ==
  \/ active = kid
  \/ kid \in DOMAIN lastActive /\ lastActive[kid] >= since

\* The token that a run signs at time t with key k and the kid field f.
TokenOf(k, f, t) ==
  LET s == Signer(Config([pem |-> PKCS1(k), kid |-> f]))
  IN  Sign(s, eidasRequest, Dated(Assemble(eidasRequest, person), t, TTL(s, eidasRequest)),
           person)

Accepted(k, f) == Buildable(Config([pem |-> PKCS1(k), kid |-> f]))

-----------------------------------------------------------------------------
VaultInv ==
  /\ now \in Nat /\ now <= MaxTime
  /\ written \subseteq Kids
  /\ active # NoKid => active \in written
  /\ DOMAIN keys \subseteq written
  /\ \A k \in Keys : ServiceKid[k] \in DOMAIN keys => keys[ServiceKid[k]] \in Records(k)
  /\ DOMAIN lastActive \subseteq written
  /\ \A kid \in DOMAIN lastActive : lastActive[kid] \in Nat /\ lastActive[kid] <= now

ReplyInv ==
  \/ reply = NoReply
  \/ reply = Failed
  \/ /\ pc = "active"
     /\ \E kid :
          /\ reply = [status |-> "ok", kid |-> kid]
          /\ kid # NoKid => kid \in written /\ Recent(kid, deadline - FetchTimeout)
  \/ /\ pc = "record"
     /\ \E k \in Keys : \E rec \in Records(k) :
          /\ asked = ServiceKid[k] /\ reply = [status |-> "ok", record |-> rec]
          /\ rec.pem # noPEM /\ rec.expiresAt = 0
               => Promise(k, deadline + MaxPause + SignerTTL)

RunInv ==
  /\ pc \in {"idle", "active", "record", "sign"}
  /\ deadline \in Nat /\ deadline <= MaxTime
  /\ asked # NoKid => asked \in written
  /\ pc = "record" <=> asked # NoKid
  /\ pc \in {"active", "record"} => deadline <= now + FetchTimeout
  /\ pc \in {"idle", "sign"} => reply = NoReply
  /\ pc = "record" => Recent(asked, deadline - FetchTimeout)
  /\ readAt \in Nat /\ readAt <= now

\* What a run that is about to sign has read.
SignInv ==
  pc = "sign" => \E k \in Keys : \E f \in KidFields(k) :
    /\ key = [pem |-> PKCS1(k), kid |-> f]
    /\ now <= readAt + MaxPause
    /\ Promise(k, readAt + MaxPause + SignerTTL)
    /\ Recent(ServiceKid[k], readAt - FetchTimeout)

HeldInv ==
  held # NothingHeld => \E k \in Keys, t \in Nat : \E f \in KidFields(k) :
    /\ t <= now
    /\ held = [token |-> TokenOf(k, f, t), at |-> t]
    /\ Accepted(k, f)
    /\ Promise(k, t + SignerTTL)
    /\ Recent(ServiceKid[k], t - MaxPause - FetchTimeout)

IInv == VaultInv /\ ReplyInv /\ RunInv /\ SignInv /\ HeldInv

-----------------------------------------------------------------------------
(* The vault.                                                              *)

\* What a step may do to the vault and the clock.
LEMMA VaultSteps ==
  ASSUME [Next]_vars
  PROVE  \/ \E k \in Keys : WriteKey(k)
         \/ \E kid \in Kids : Activate(kid) \/ Retire(kid) \/ Delete(kid)
         \/ Tick
         \/ UNCHANGED <<now, vault>>
BY DEF Next, vars, vault, program, Answer, Start, ReadActive, ReadRecord, TimeOut,
       SignToken, Fatal, Exit

LEMMA KidsAreKids ==
  /\ \A k \in Keys : ServiceKid[k] \in Kids /\ ServiceKid[k] # NoKid
  /\ \A kid \in Kids : kid # NoKid /\ \E k \in Keys : kid = ServiceKid[k]
BY ServiceKidAssumption, Zenon DEF Kids, NoKid

LEMMA NoPEMIsNone == \A k : PKCS1(k) # noPEM /\ PKCS1(k).form = "RSA PRIVATE KEY"
BY DEF PKCS1, noPEM

LEMMA VaultInitially == Init => VaultInv
BY PeriodsAssumption DEF Init, VaultInv

LEMMA VaultKeeps ==
  ASSUME VaultInv, [Next]_vars
  PROVE  VaultInv' /\ now' >= now /\ written \subseteq written'
<1> USE DEF VaultInv
<1>0. now \in Nat /\ MaxTime \in Nat /\ FetchTimeout \in Nat
  BY PeriodsAssumption
<1>1. CASE \E k \in Keys : WriteKey(k)
  <2>1. PICK k \in Keys : WriteKey(k)
    BY <1>1
  <2>2. /\ ServiceKid[k] \in Kids /\ ServiceKid[k] \notin written
        /\ written' = written \union {ServiceKid[k]}
        /\ UNCHANGED <<now, active, lastActive>>
    BY <2>1, KidsAreKids DEF WriteKey
  <2>3. PICK rec : Store(ServiceKid[k], rec) /\ rec \in Records(k)
    <3>1. PICK pem \in {noPEM, PKCS1(k)},
               field \in IF ServiceKid[k] = Thumbprint[k] THEN {ServiceKid[k], NoKid}
                                                          ELSE {ServiceKid[k]} :
                 Store(ServiceKid[k], [pem |-> pem, kid |-> field, expiresAt |-> 0])
      BY <2>1 DEF WriteKey, PKCS1
    <3>2. [pem |-> pem, kid |-> field, expiresAt |-> 0] \in Records(k)
      BY DEF Records, KidFields
    <3> QED
      BY <3>1, <3>2
  <2>4. DOMAIN keys' = DOMAIN keys \union {ServiceKid[k]}
    BY <2>3 DEF Store
  <2>5. \A l \in Keys : ServiceKid[l] \in DOMAIN keys' => keys'[ServiceKid[l]] \in Records(l)
    <3>1. SUFFICES ASSUME NEW l \in Keys, ServiceKid[l] \in DOMAIN keys'
                   PROVE  keys'[ServiceKid[l]] \in Records(l)
      OBVIOUS
    <3>2. CASE l = k
      BY <2>3, <3>2 DEF Store
    <3>3. CASE l # k
      <4>1. ServiceKid[l] # ServiceKid[k]
        BY <3>3, ServiceKidAssumption
      <4> QED
        BY <2>3, <2>4, <3>1, <4>1 DEF Store
    <3> QED
      BY <3>2, <3>3
  <2>6. now' >= now /\ \A l \in DOMAIN lastActive' : lastActive'[l] \in Nat /\ lastActive'[l] <= now'
    BY <1>0, <2>2
  <2> QED
    BY <2>2, <2>4, <2>5, <2>6
<1>2. ASSUME NEW kid \in Kids, Activate(kid)
      PROVE  VaultInv' /\ now' >= now /\ written \subseteq written'
  <2>1. /\ kid \in written /\ active' = kid
        /\ UNCHANGED <<now, keys, written>>
        /\ lastActive' = [l \in DOMAIN lastActive \union ({active} \ {NoKid}) |->
                            IF l = active THEN now ELSE lastActive[l]]
    BY <1>2 DEF Activate
  <2>2. DOMAIN lastActive' \subseteq written
    BY <2>1
  <2>3. \A l \in DOMAIN lastActive' : lastActive'[l] \in Nat /\ lastActive'[l] <= now
    BY <1>0, <2>1
  <2> QED
    BY <1>0, <2>1, <2>2, <2>3
<1>3. ASSUME NEW kid \in Kids, Retire(kid)
      PROVE  VaultInv' /\ now' >= now /\ written \subseteq written'
  <2>1. /\ kid \in DOMAIN keys /\ UNCHANGED <<now, active, written, lastActive>>
        /\ keys' = [keys EXCEPT ![kid].expiresAt = now + Grace]
    BY <1>3 DEF Retire
  <2>2. ASSUME NEW k \in Keys, ServiceKid[k] \in DOMAIN keys'
        PROVE  keys'[ServiceKid[k]] \in Records(k)
    <3>1. keys[ServiceKid[k]] \in Records(k)
      BY <2>1, <2>2
    <3>2. now + Grace \in Nat
      BY <1>0, GraceAssumption
    <3> QED
      BY <2>1, <2>2, <3>1, <3>2 DEF Records
  <2>3. DOMAIN keys' = DOMAIN keys
    BY <2>1
  <2> QED
    BY <1>0, <2>1, <2>2, <2>3
<1>4. ASSUME NEW kid \in Kids, Delete(kid)
      PROVE  VaultInv' /\ now' >= now /\ written \subseteq written'
  BY <1>0, <1>4 DEF Delete
<1>5. CASE Tick
  BY <1>0, <1>5 DEF Tick, vault
<1>6. CASE UNCHANGED <<now, vault>>
  BY <1>0, <1>6 DEF vault
<1> QED
  BY <1>1, <1>2, <1>3, <1>4, <1>5, <1>6, VaultSteps

\* A promise is kept: the grace period covers every promise made so far.
LEMMA PromiseKept ==
  ASSUME VaultInv, [Next]_vars, NEW k \in Keys, NEW until \in Int,
         until <= now + Grace, Promise(k, until)
  PROVE  Promise(k, until)'
<1> DEFINE kid == ServiceKid[k]
<1>1. CASE now >= until
  <2>1. now' >= now /\ now' \in Int /\ now \in Int
    BY VaultKeeps, PeriodsAssumption DEF VaultInv
  <2> QED
    BY <1>1, <2>1 DEF Promise
<1>2. ASSUME kid \in DOMAIN keys, keys[kid].pem = PKCS1(k),
             keys[kid].expiresAt = 0 \/ keys[kid].expiresAt >= until
      PROVE  Promise(k, until)'
  <2>1. CASE \E l \in Keys : WriteKey(l)
    <3>1. PICK l \in Keys : WriteKey(l)
      BY <2>1
    <3>2. kid # ServiceKid[l]
      BY <1>2, <3>1 DEF WriteKey, VaultInv
    <3>3. kid \in DOMAIN keys' /\ keys'[kid] = keys[kid]
      BY <1>2, <3>1, <3>2 DEF WriteKey, Store
    <3> QED
      BY <1>2, <3>3 DEF Promise
  <2>2. ASSUME NEW l \in Kids, Activate(l) PROVE Promise(k, until)'
    BY <1>2, <2>2 DEF Activate, Promise
  <2>3. ASSUME NEW l \in Kids, Retire(l) PROVE Promise(k, until)'
    <3>1. CASE l = kid
      <4>1. /\ kid \in DOMAIN keys' /\ keys'[kid].pem = keys[kid].pem
            /\ keys'[kid].expiresAt = now + Grace
        <5>1. keys[kid] \in Records(k)
          BY <1>2 DEF VaultInv
        <5> QED
          BY <1>2, <2>3, <3>1, <5>1 DEF Retire, Records
      <4> QED
        BY <1>2, <4>1 DEF Promise
    <3>2. CASE l # kid
      <4>1. kid \in DOMAIN keys' /\ keys'[kid] = keys[kid]
        BY <1>2, <2>3, <3>2 DEF Retire
      <4> QED
        BY <1>2, <4>1 DEF Promise
    <3> QED
      BY <3>1, <3>2
  <2>4. ASSUME NEW l \in Kids, Delete(l) PROVE Promise(k, until)'
    <3>1. CASE l = kid
      <4>1. keys[kid].expiresAt \in Nat
        BY <1>2 DEF VaultInv, Records
      <4>2. now \in Int /\ now' = now
        BY <2>4, PeriodsAssumption DEF VaultInv, Delete
      <4>3. now >= until
        BY <1>2, <2>4, <3>1, <4>1, <4>2 DEF Delete
      <4> QED
        BY <4>2, <4>3 DEF Promise
    <3>2. CASE l # kid
      BY <1>2, <2>4, <3>2 DEF Delete, Promise
    <3> QED
      BY <3>1, <3>2
  <2>5. CASE Tick
    BY <1>2, <2>5 DEF Tick, vault, Promise
  <2>6. CASE UNCHANGED <<now, vault>>
    BY <1>2, <2>6 DEF vault, Promise
  <2> QED
    BY <2>1, <2>2, <2>3, <2>4, <2>5, <2>6, VaultSteps
<1> QED
  BY <1>1, <1>2 DEF Promise

\* A key that was active since some time up to now stays one.
LEMMA RecentKept ==
  ASSUME VaultInv, [Next]_vars, NEW kid, kid # NoKid, NEW since \in Int, since <= now,
         Recent(kid, since)
  PROVE  Recent(kid, since)'
<1>1. now \in Int
  BY PeriodsAssumption DEF VaultInv
<1>2. ASSUME NEW l \in Kids, Activate(l) PROVE Recent(kid, since)'
  <2>1. lastActive' = [m \in DOMAIN lastActive \union ({active} \ {NoKid}) |->
                         IF m = active THEN now ELSE lastActive[m]]
    BY <1>2 DEF Activate
  <2>2. CASE active = kid
    BY <1>1, <2>1, <2>2 DEF Recent
  <2>3. CASE active # kid
    BY <1>1, <2>1, <2>3 DEF Recent
  <2> QED
    BY <2>2, <2>3
<1>3. CASE UNCHANGED <<active, lastActive>>
  BY <1>3 DEF Recent
<1>4. \/ \E l \in Kids : Activate(l)
      \/ UNCHANGED <<active, lastActive>>
  BY VaultSteps DEF WriteKey, Retire, Delete, Tick, vault
<1> QED
  BY <1>2, <1>3, <1>4

LEMMA Numbers ==
  ASSUME VaultInv
  PROVE  /\ now \in Nat /\ MaxTime \in Nat /\ FetchTimeout \in Nat /\ MaxPause \in Nat
         /\ SignerTTL \in Nat /\ Grace \in Nat /\ now <= MaxTime
         /\ Grace >= FetchTimeout + MaxPause + SignerTTL
BY PeriodsAssumption, GraceAssumption DEF VaultInv

\* A promise includes every shorter one.
LEMMA LesserPromise ==
  ASSUME VaultInv, NEW k \in Keys, NEW u \in Int, NEW until \in Int, until <= u,
         Promise(k, u)
  PROVE  Promise(k, until)
<1>1. CASE now >= u
  BY <1>1, Numbers DEF Promise
<1>2. ASSUME ServiceKid[k] \in DOMAIN keys,
             keys[ServiceKid[k]].pem = PKCS1(k),
             keys[ServiceKid[k]].expiresAt = 0 \/ keys[ServiceKid[k]].expiresAt >= u
      PROVE  Promise(k, until)
  <2>1. keys[ServiceKid[k]].expiresAt \in Nat
    BY <1>2 DEF VaultInv, Records
  <2>2. keys[ServiceKid[k]].expiresAt = 0 \/ keys[ServiceKid[k]].expiresAt >= until
    BY <1>2, <2>1
  <2> QED
    BY <1>2, <2>2 DEF Promise
<1> QED
  BY <1>1, <1>2 DEF Promise

LEMMA EarlierRecent ==
  ASSUME VaultInv, NEW kid, NEW d \in Int, NEW since \in Int, since <= d, Recent(kid, d)
  PROVE  Recent(kid, since)
<1>1. \A l \in DOMAIN lastActive : lastActive[l] \in Nat
  BY DEF VaultInv
<1> QED
  BY <1>1 DEF Recent

-----------------------------------------------------------------------------
(* What the program knows, kept by the steps of the others.                *)

LEMMA ReplyKept ==
  ASSUME VaultInv, RunInv, ReplyInv, [Next]_vars, UNCHANGED <<pc, reply, asked, deadline>>
  PROVE  ReplyInv'
<1>1. CASE reply = NoReply \/ reply = Failed
  BY <1>1 DEF ReplyInv
<1>2. ASSUME pc = "active",
             NEW kid, reply = [status |-> "ok", kid |-> kid],
             kid # NoKid => kid \in written /\ Recent(kid, deadline - FetchTimeout)
      PROVE  ReplyInv'
  <2>1. PICK since : since = deadline - FetchTimeout
    OBVIOUS
  <2>2. since \in Int /\ since <= now
    BY <1>2, <2>1, Numbers DEF RunInv
  <2>3. kid # NoKid => Recent(kid, since)'
    BY <1>2, <2>1, <2>2, RecentKept
  <2>4. kid # NoKid => kid \in written' /\ Recent(kid, deadline - FetchTimeout)'
    BY <1>2, <2>1, <2>3, VaultKeeps DEF Recent
  <2> QED
    BY <1>2, <2>4 DEF ReplyInv
<1>3. ASSUME pc = "record", NEW k \in Keys, NEW rec \in Records(k),
             asked = ServiceKid[k], reply = [status |-> "ok", record |-> rec],
             rec.pem # noPEM /\ rec.expiresAt = 0
               => Promise(k, deadline + MaxPause + SignerTTL)
      PROVE  ReplyInv'
  <2>1. PICK until : until = deadline + MaxPause + SignerTTL
    OBVIOUS
  <2>2. until \in Int /\ until <= now + Grace
    BY <1>3, <2>1, Numbers DEF RunInv
  <2>3. rec.pem # noPEM /\ rec.expiresAt = 0 => Promise(k, until)'
    BY <1>3, <2>1, <2>2, PromiseKept
  <2>4. rec.pem # noPEM /\ rec.expiresAt = 0
          => Promise(k, deadline + MaxPause + SignerTTL)'
    BY <2>1, <2>3 DEF Promise
  <2> QED
    BY <1>3, <2>4 DEF ReplyInv
<1> QED
  BY <1>1, <1>2, <1>3 DEF ReplyInv

LEMMA RunKept ==
  ASSUME VaultInv, RunInv, [Next]_vars, UNCHANGED <<pc, deadline, asked, readAt>>,
         pc \in {"idle", "sign"} => UNCHANGED reply
  PROVE  RunInv'
<1>1. now' >= now /\ now' \in Nat /\ now \in Nat /\ written \subseteq written'
  BY VaultKeeps DEF VaultInv
<1>2. ASSUME pc = "record" PROVE Recent(asked, deadline - FetchTimeout)'
  <2>1. PICK kid, since : kid = asked /\ since = deadline - FetchTimeout
    OBVIOUS
  <2>2. kid # NoKid /\ since \in Int /\ since <= now /\ Recent(kid, since)
    BY <1>2, <2>1, Numbers DEF RunInv
  <2>3. Recent(kid, since)'
    BY <2>2, RecentKept
  <2> QED
    BY <2>1, <2>3 DEF Recent
<1>3. /\ deadline' \in Nat /\ deadline' <= MaxTime /\ readAt' \in Nat /\ readAt' <= now'
      /\ pc' \in {"active", "record"} => deadline' <= now' + FetchTimeout
  BY <1>1, Numbers DEF RunInv
<1>4. /\ pc' \in {"idle", "active", "record", "sign"}
      /\ asked' # NoKid => asked' \in written'
      /\ pc' = "record" <=> asked' # NoKid
      /\ pc' \in {"idle", "sign"} => reply' = NoReply
      /\ pc' = "record" => Recent(asked, deadline - FetchTimeout)'
  BY <1>1, <1>2 DEF RunInv
<1> QED
  BY <1>3, <1>4 DEF RunInv

LEMMA SignKept ==
  ASSUME VaultInv, RunInv, SignInv, [Next]_vars, UNCHANGED <<pc, key, readAt>>,
         pc = "sign" => now' <= readAt + MaxPause
  PROVE  SignInv'
<1>1. SUFFICES ASSUME pc = "sign" PROVE SignInv'
  BY DEF SignInv
<1>2. PICK k \in Keys : \E f \in KidFields(k) :
        /\ key = [pem |-> PKCS1(k), kid |-> f]
        /\ now <= readAt + MaxPause
        /\ Promise(k, readAt + MaxPause + SignerTTL)
        /\ Recent(ServiceKid[k], readAt - FetchTimeout)
  BY <1>1 DEF SignInv
<1>3. PICK until, since : until = readAt + MaxPause + SignerTTL /\ since = readAt - FetchTimeout
  OBVIOUS
<1>4. until \in Int /\ until <= now + Grace /\ since \in Int /\ since <= now
  BY <1>3, Numbers DEF RunInv
<1>5. Promise(k, until)' /\ Recent(ServiceKid[k], since)'
  BY <1>2, <1>3, <1>4, PromiseKept, RecentKept, KidsAreKids
<1>6. Promise(k, readAt + MaxPause + SignerTTL)' /\ Recent(ServiceKid[k], readAt - FetchTimeout)'
  BY <1>3, <1>5 DEF Promise, Recent
<1> QED
  BY <1>1, <1>2, <1>6 DEF SignInv

LEMMA HeldKept ==
  ASSUME VaultInv, HeldInv, [Next]_vars, UNCHANGED held
  PROVE  HeldInv'
<1>1. SUFFICES ASSUME held # NothingHeld PROVE HeldInv'
  BY DEF HeldInv
<1>2. PICK k \in Keys, t \in Nat : \E f \in KidFields(k) :
        /\ t <= now
        /\ held = [token |-> TokenOf(k, f, t), at |-> t]
        /\ Accepted(k, f)
        /\ Promise(k, t + SignerTTL)
        /\ Recent(ServiceKid[k], t - MaxPause - FetchTimeout)
  BY <1>1 DEF HeldInv
<1>3. /\ t + SignerTTL \in Int /\ t + SignerTTL <= now + Grace
      /\ t - MaxPause - FetchTimeout \in Int /\ t - MaxPause - FetchTimeout <= now
  BY <1>2, Numbers
<1>4. Promise(k, t + SignerTTL)' /\ Recent(ServiceKid[k], t - MaxPause - FetchTimeout)'
  BY <1>2, <1>3, PromiseKept, RecentKept, KidsAreKids
<1>5. now' >= now /\ now' \in Nat /\ now \in Nat
  BY VaultKeeps DEF VaultInv
<1>6. t <= now'
  BY <1>2, <1>5
<1> QED
  BY <1>2, <1>4, <1>6 DEF HeldInv

-----------------------------------------------------------------------------
(* What the steps of the program, of Vault and of the clock establish.     *)

\* Steps of the rotator and of the clock leave the program alone.
LEMMA ProgramWaits ==
  ASSUME IInv, [Next]_vars, UNCHANGED program,
         pc = "sign" => now' <= readAt + MaxPause
  PROVE  IInv'
<1>1. UNCHANGED <<pc, deadline, asked, reply, key, readAt, held>>
  BY DEF program
<1> QED
  BY <1>1, VaultKeeps, ReplyKept, RunKept, SignKept, HeldKept DEF IInv

LEMMA RotatorKeeps ==
  ASSUME IInv, [Next]_vars,
         \/ \E k \in Keys : WriteKey(k)
         \/ \E kid \in Kids : Activate(kid) \/ Retire(kid) \/ Delete(kid)
  PROVE  IInv'
<1>1. UNCHANGED program /\ UNCHANGED now
  BY DEF WriteKey, Activate, Retire, Delete
<1>2. pc = "sign" => now' <= readAt + MaxPause
  BY <1>1 DEF IInv, SignInv
<1> QED
  BY <1>1, <1>2, ProgramWaits

LEMMA TickKeeps ==
  ASSUME IInv, [Next]_vars, Tick
  PROVE  IInv'
<1>1. UNCHANGED program /\ now' = now + 1 /\ (pc = "sign" => now < readAt + MaxPause)
  BY DEF Tick
<1>2. pc = "sign" => now' <= readAt + MaxPause
  BY <1>1, Numbers DEF IInv, RunInv
<1> QED
  BY <1>1, <1>2, ProgramWaits

\* Vault answers with what it holds at that moment.
LEMMA AnswerKeeps ==
  ASSUME IInv, [Next]_vars, Answer
  PROVE  IInv'
<1>1. /\ UNCHANGED <<now, vault, pc, deadline, asked, key, readAt, held>>
      /\ pc \in {"active", "record"}
  BY DEF Answer
<1>2. UNCHANGED <<now, active, keys, written, lastActive>>
  BY <1>1 DEF vault
<1>3. ReplyInv'
  <2>1. CASE reply' = Failed
    BY <2>1 DEF ReplyInv
  <2>2. CASE pc = "active" /\ reply' = [status |-> "ok", kid |-> active]
    <3>1. active # NoKid => active \in written /\ Recent(active, deadline - FetchTimeout)
      BY DEF IInv, VaultInv, Recent
    <3>2. PICK kid : kid = active
      OBVIOUS
    <3>3. reply' = [status |-> "ok", kid |-> kid]
      BY <2>2, <3>2
    <3>4. kid # NoKid => kid \in written' /\ Recent(kid, deadline - FetchTimeout)'
      BY <1>1, <1>2, <3>1, <3>2 DEF Recent
    <3> QED
      BY <1>1, <2>2, <3>3, <3>4 DEF ReplyInv
  <2>3. CASE pc = "record" /\ asked \in DOMAIN keys
             /\ reply' = [status |-> "ok", record |-> keys[asked]]
    <3>1. PICK k \in Keys : asked = ServiceKid[k]
      BY <2>3, KidsAreKids DEF IInv, VaultInv
    <3>2. PICK rec : rec = keys[asked]
      OBVIOUS
    <3>3. rec \in Records(k)
      BY <2>3, <3>1, <3>2 DEF IInv, VaultInv
    <3>4. rec.pem # noPEM => rec.pem = PKCS1(k)
      BY <3>3 DEF Records
    <3>5. rec.pem # noPEM /\ rec.expiresAt = 0
            => Promise(k, deadline + MaxPause + SignerTTL)'
      BY <1>1, <1>2, <2>3, <3>1, <3>2, <3>4 DEF Promise
    <3> QED
      BY <1>1, <2>3, <3>1, <3>2, <3>3, <3>5 DEF ReplyInv
  <2> QED
    BY <2>1, <2>2, <2>3 DEF Answer
<1>4. RunInv'
  BY <1>1, RunKept DEF IInv
<1>5. pc # "sign"
  BY <1>1
<1> QED
  BY <1>1, <1>3, <1>4, <1>5, VaultKeeps, SignKept, HeldKept DEF IInv

\* A run that ends forgets what it read.
LEMMA ExitKeeps ==
  ASSUME IInv, [Next]_vars, Exit
  PROVE  VaultInv' /\ ReplyInv' /\ RunInv' /\ SignInv'
<1>1. /\ pc' = "idle" /\ deadline' = 0 /\ asked' = NoKid /\ reply' = NoReply
      /\ readAt' = 0
  BY DEF Exit
<1>2. VaultInv'
  BY VaultKeeps DEF IInv
<1>3. ReplyInv' /\ SignInv'
  BY <1>1 DEF ReplyInv, SignInv
<1>4. now' \in Nat /\ MaxTime \in Nat
  BY <1>2, PeriodsAssumption DEF VaultInv
<1>5. RunInv'
  BY <1>1, <1>4 DEF RunInv
<1> QED
  BY <1>2, <1>3, <1>5

LEMMA FatalKeeps ==
  ASSUME IInv, [Next]_vars, Fatal
  PROVE  IInv'
<1>1. Exit /\ UNCHANGED held
  BY DEF Fatal
<1> QED
  BY <1>1, ExitKeeps, HeldKept DEF IInv

LEMMA StartKeeps ==
  ASSUME IInv, [Next]_vars, Start
  PROVE  IInv'
<1>1. /\ pc = "idle" /\ pc' = "active" /\ deadline' = now + FetchTimeout
      /\ now + FetchTimeout <= MaxTime
      /\ UNCHANGED <<now, vault, asked, reply, key, readAt, held>>
  BY DEF Start
<1>2. reply' = NoReply /\ asked' = NoKid
  BY <1>1 DEF IInv, RunInv
<1>3. ReplyInv' /\ SignInv'
  BY <1>1, <1>2 DEF ReplyInv, SignInv
<1>4. RunInv'
  BY <1>1, <1>2, Numbers DEF IInv, RunInv
<1> QED
  BY <1>1, <1>3, <1>4, VaultKeeps, HeldKept DEF IInv

\* The pointer names a kid that was active since the run began.
LEMMA ReadActiveKeeps ==
  ASSUME IInv, [Next]_vars, ReadActive
  PROVE  IInv'
<1>1. CASE Fatal
  BY <1>1, FatalKeeps
<1>2. CASE ~ Fatal
  <2>1. /\ pc = "active" /\ reply # NoReply /\ ActiveError(reply) = NoError
        /\ pc' = "record" /\ asked' = reply.kid /\ reply' = NoReply
        /\ UNCHANGED <<now, vault, deadline, key, readAt, held>>
    BY <1>2 DEF ReadActive
  <2>2. reply # Failed
    <3>1. ASSUME reply = Failed PROVE ActiveError(reply) = "read active pointer"
      <4>1. reply.status = "failed"
        BY <3>1 DEF Failed
      <4> QED
        BY <4>1 DEF ActiveError
    <3> QED
      BY <2>1, <3>1 DEF NoError
  <2>3. PICK kid : /\ reply = [status |-> "ok", kid |-> kid]
                   /\ kid # NoKid => kid \in written /\ Recent(kid, deadline - FetchTimeout)
    BY <2>1, <2>2 DEF IInv, ReplyInv
  <2>4. kid # NoKid
    <3>1. ActiveError(reply) = When(kid = NoKid, "active pointer has no kid")
      BY <2>3 DEF ActiveError
    <3> QED
      BY <2>1, <3>1 DEF When, NoError
  <2>5. asked' = kid
    BY <2>1, <2>3
  <2>6. UNCHANGED <<now, active, keys, written, lastActive>>
    BY <2>1 DEF vault
  <2>7. ReplyInv' /\ SignInv'
    BY <2>1 DEF ReplyInv, SignInv
  <2>8. Recent(kid, deadline - FetchTimeout)'
    BY <2>1, <2>3, <2>4, <2>6 DEF Recent
  <2>9. Recent(asked, deadline - FetchTimeout)'
    BY <2>5, <2>8 DEF Recent
  <2>10. RunInv'
    <3>1. /\ deadline' \in Nat /\ deadline' <= MaxTime /\ deadline' <= now' + FetchTimeout
          /\ readAt' \in Nat /\ readAt' <= now'
      BY <2>1 DEF IInv, RunInv
    <3>2. asked' \in written' /\ asked' # NoKid
      BY <2>3, <2>4, <2>5, <2>6
    <3> QED
      BY <2>1, <2>9, <3>1, <3>2 DEF RunInv
  <2> QED
    BY <2>1, <2>7, <2>10, VaultKeeps, HeldKept DEF IInv
<1> QED
  BY <1>1, <1>2

\* The record that is taken holds the key that was asked for, not expiring.
LEMMA ReadRecordKeeps ==
  ASSUME IInv, [Next]_vars, ReadRecord
  PROVE  IInv'
<1>1. CASE Fatal
  BY <1>1, FatalKeeps
<1>2. CASE ~ Fatal
  <2>1. /\ pc = "record" /\ reply # NoReply /\ RecordError(reply) = NoError
        /\ now <= deadline
        /\ pc' = "sign" /\ reply' = NoReply /\ asked' = NoKid /\ readAt' = now
        /\ key' = [pem |-> reply.record.pem, kid |-> reply.record.kid]
        /\ UNCHANGED <<now, vault, deadline, held>>
    BY <1>2 DEF ReadRecord
  <2>2. reply # Failed
    <3>1. ASSUME reply = Failed PROVE RecordError(reply) = "read key record"
      <4>1. reply.status = "failed"
        BY <3>1 DEF Failed
      <4> QED
        BY <4>1 DEF RecordError
    <3> QED
      BY <2>1, <3>1 DEF NoError
  <2>3. PICK k \in Keys : \E rec \in Records(k) :
          /\ asked = ServiceKid[k] /\ reply = [status |-> "ok", record |-> rec]
          /\ rec.pem # noPEM /\ rec.expiresAt = 0
               => Promise(k, deadline + MaxPause + SignerTTL)
    BY <2>1, <2>2 DEF IInv, ReplyInv
  <2>4. PICK rec \in Records(k) :
          /\ asked = ServiceKid[k] /\ reply = [status |-> "ok", record |-> rec]
          /\ rec.pem # noPEM /\ rec.expiresAt = 0
               => Promise(k, deadline + MaxPause + SignerTTL)
    BY <2>3
  <2>5. rec.pem # noPEM /\ rec.expiresAt = 0
    <3> DEFINE errs == <<When(rec.pem.form = "", "key record has no pem field"),
                         When(rec.expiresAt # 0, "active key is expiring")>>
    <3>1. RecordError(reply) = FirstError(errs)
      BY <2>4 DEF RecordError
    <3>2. DOMAIN errs \subseteq Nat /\ {1, 2} \subseteq DOMAIN errs
      OBVIOUS
    <3>3. errs[1] = NoError /\ errs[2] = NoError
      <4> HIDE DEF errs
      <4> QED
        BY <2>1, <3>1, <3>2, NoErrorAnywhere
    <3>4. rec.pem.form # "" /\ rec.expiresAt = 0
      BY <3>3 DEF When, NoError
    <3>5. noPEM.form = ""
      BY DEF noPEM
    <3> QED
      BY <3>4, <3>5, Zenon
  <2>6. rec.pem = PKCS1(k) /\ rec.kid \in KidFields(k)
    BY <2>5 DEF Records
  <2>7. key' = [pem |-> PKCS1(k), kid |-> rec.kid]
    BY <2>1, <2>4, <2>6
  <2>8. UNCHANGED <<now, active, keys, written, lastActive>>
    BY <2>1 DEF vault
  <2>9. PICK since, until : since = readAt' - FetchTimeout
                            /\ until = readAt' + MaxPause + SignerTTL
    OBVIOUS
  <2>10. Promise(k, until)
    <3>1. PICK u : u = deadline + MaxPause + SignerTTL
      OBVIOUS
    <3>2. u \in Int /\ until \in Int /\ until <= u /\ now \in Int
      BY <2>1, <2>9, <3>1, Numbers DEF IInv, RunInv
    <3>3. Promise(k, u)
      BY <2>4, <2>5, <3>1
    <3> QED
      BY <3>2, <3>3, LesserPromise DEF IInv
  <2>11. Recent(ServiceKid[k], since)
    <3>1. PICK d : d = deadline - FetchTimeout
      OBVIOUS
    <3>2. d \in Int /\ since \in Int /\ since <= d
      BY <2>1, <2>9, <3>1, Numbers DEF IInv, RunInv
    <3>3. Recent(ServiceKid[k], d)
      BY <2>1, <2>4, <3>1 DEF IInv, RunInv
    <3> QED
      BY <3>2, <3>3, EarlierRecent DEF IInv
  <2>12. SignInv'
    <3>1. Promise(k, readAt + MaxPause + SignerTTL)'
      BY <2>8, <2>9, <2>10 DEF Promise
    <3>2. Recent(ServiceKid[k], readAt - FetchTimeout)'
      BY <2>8, <2>9, <2>11 DEF Recent
    <3>3. now' <= readAt' + MaxPause
      BY <2>1, Numbers DEF IInv
    <3> QED
      BY <2>6, <2>7, <3>1, <3>2, <3>3 DEF SignInv
  <2>13. ReplyInv'
    BY <2>1 DEF ReplyInv
  <2>14. RunInv'
    <3>1. deadline' \in Nat /\ deadline' <= MaxTime /\ readAt' \in Nat /\ readAt' <= now'
      BY <2>1, Numbers DEF IInv, RunInv
    <3> QED
      BY <2>1, <3>1 DEF RunInv
  <2> QED
    BY <2>1, <2>12, <2>13, <2>14, VaultKeeps, HeldKept DEF IInv
<1> QED
  BY <1>1, <1>2

LEMMA TimeOutKeeps ==
  ASSUME IInv, [Next]_vars, TimeOut
  PROVE  IInv'
BY FatalKeeps DEF TimeOut

\* The token is signed with the key that was read, no later than MaxPause after.
LEMMA SignTokenKeeps ==
  ASSUME IInv, [Next]_vars, SignToken
  PROVE  IInv'
<1> DEFINE s == Signer(Config(key))
<1>1. CASE Fatal
  BY <1>1, FatalKeeps
<1>2. CASE Exit /\ UNCHANGED held
  BY <1>2, FatalKeeps DEF Fatal
<1>3. CASE /\ pc = "sign" /\ IssueError(s) = NoError /\ Exit
           /\ held' = [token |-> Sign(s, eidasRequest, TokenClaimsNow(s), person), at |-> now]
  <2>1. PICK k \in Keys : \E f \in KidFields(k) :
          /\ key = [pem |-> PKCS1(k), kid |-> f]
          /\ now <= readAt + MaxPause
          /\ Promise(k, readAt + MaxPause + SignerTTL)
          /\ Recent(ServiceKid[k], readAt - FetchTimeout)
    BY <1>3 DEF IInv, SignInv
  <2>2. PICK f \in KidFields(k) : key = [pem |-> PKCS1(k), kid |-> f]
    BY <2>1
  <2>3. Accepted(k, f)
    <3> DEFINE errs == <<SignerError(Config(key)), NewServiceError(s),
                         CheckError(s, eidasRequest, person), BaseError(eidasRequest),
                         SignError(s, eidasRequest, TokenClaimsNow(s), person)>>
    <3>1. FirstError(errs) = NoError
      BY <1>3 DEF IssueError
    <3>2. DOMAIN errs \subseteq Nat /\ 1 \in DOMAIN errs
      OBVIOUS
    <3>3. errs[1] = NoError
      <4> HIDE DEF errs
      <4> QED
        BY <3>1, <3>2, NoErrorAnywhere
    <3>4. SignerError(Config(key)) = NoError
      BY <3>3
    <3> QED
      BY <2>2, <3>4 DEF Accepted, Buildable
  <2>4. PICK t \in Nat : t = now
    BY Numbers DEF IInv
  <2>5. held' = [token |-> TokenOf(k, f, t), at |-> t]
    BY <1>3, <2>2, <2>4 DEF TokenOf, TokenClaimsNow
  <2>6. UNCHANGED <<now, active, keys, written, lastActive>>
    BY <1>3 DEF Exit, vault
  <2>7. PICK u, d : u = readAt + MaxPause + SignerTTL /\ d = readAt - FetchTimeout
    OBVIOUS
  <2>8. /\ u \in Int /\ t + SignerTTL \in Int /\ t + SignerTTL <= u
        /\ d \in Int /\ t - MaxPause - FetchTimeout \in Int
        /\ t - MaxPause - FetchTimeout <= d
    BY <2>1, <2>4, <2>7, Numbers DEF IInv, RunInv
  <2>9. Promise(k, t + SignerTTL) /\ Recent(ServiceKid[k], t - MaxPause - FetchTimeout)
    BY <2>1, <2>7, <2>8, LesserPromise, EarlierRecent DEF IInv
  <2>10. Promise(k, t + SignerTTL)' /\ Recent(ServiceKid[k], t - MaxPause - FetchTimeout)'
    BY <2>6, <2>9 DEF Promise, Recent
  <2>11. t <= now'
    BY <2>4, <2>6
  <2>12. HeldInv'
    BY <2>2, <2>3, <2>5, <2>10, <2>11 DEF HeldInv
  <2> QED
    BY <1>3, <2>12, ExitKeeps DEF IInv
<1> QED
  BY <1>1, <1>2, <1>3 DEF SignToken

LEMMA InitEstablishes == Init => IInv
<1> SUFFICES ASSUME Init PROVE IInv
  OBVIOUS
<1>1. VaultInv
  BY VaultInitially
<1>2. ReplyInv /\ SignInv /\ HeldInv
  BY DEF Init, ReplyInv, SignInv, HeldInv
<1>3. RunInv
  BY PeriodsAssumption DEF Init, RunInv
<1> QED
  BY <1>1, <1>2, <1>3 DEF IInv

LEMMA NextKeeps == IInv /\ [Next]_vars => IInv'
<1> SUFFICES ASSUME IInv, [Next]_vars PROVE IInv'
  OBVIOUS
<1>1. CASE \/ \E k \in Keys : WriteKey(k)
           \/ \E kid \in Kids : Activate(kid) \/ Retire(kid) \/ Delete(kid)
  BY <1>1, RotatorKeeps
<1>2. CASE Answer
  BY <1>2, AnswerKeeps
<1>3. CASE Start
  BY <1>3, StartKeeps
<1>4. CASE ReadActive
  BY <1>4, ReadActiveKeeps
<1>5. CASE ReadRecord
  BY <1>5, ReadRecordKeeps
<1>6. CASE TimeOut
  BY <1>6, TimeOutKeeps
<1>7. CASE SignToken
  BY <1>7, SignTokenKeeps
<1>8. CASE Tick
  BY <1>8, TickKeeps
<1>9. CASE UNCHANGED vars
  <2>1. UNCHANGED program /\ UNCHANGED now
    BY <1>9 DEF vars
  <2>2. pc = "sign" => now' <= readAt + MaxPause
    BY <2>1 DEF IInv, SignInv
  <2> QED
    BY <2>1, <2>2, ProgramWaits
<1> QED
  BY <1>1, <1>2, <1>3, <1>4, <1>5, <1>6, <1>7, <1>8, <1>9 DEF Next

LEMMA Invariance == Spec => []IInv
BY InitEstablishes, NextKeeps, PTL DEF Spec

-----------------------------------------------------------------------------
(* The token and the JWKS.                                                 *)

\* What the token of key k says.
LEMMA TokenFacts ==
  ASSUME NEW k \in Keys, NEW f \in KidFields(k), NEW t \in Nat, Accepted(k, f)
  PROVE  LET token == TokenOf(k, f, t) IN
         /\ token.kid = ServiceKid[k] /\ token.alg = "RS256"
         /\ token.sig = [key |-> k, alg |-> "RS256"]
         /\ token.exp \in Int /\ token.exp <= t + SignerTTL
         /\ token.nbf \in Int /\ token.nbf <= t
         /\ token.iss = issuer /\ token.aud = {audience}
         /\ \A name \in {"exp", "nbf", "iss", "aud"} : ~ Overwritten(token, name)
<1> DEFINE cfg == Config([pem |-> PKCS1(k), kid |-> f])
           s == Signer(cfg)
           tc == Dated(Assemble(eidasRequest, person), t, TTL(s, eidasRequest))
           token == TokenOf(k, f, t)
<1>1. token = Sign(s, eidasRequest, tc, person)
  BY DEF TokenOf
<1>2. /\ s.key = k /\ s.algorithm = "RS256" /\ s.issuer = issuer
      /\ s.defaultTTL = SignerTTL /\ s.tokenTypeClaim = "token_type"
  BY DEF Signer, Config, PKCS1
<1>3. s.keyID = ServiceKid[k]
  <2>1. s.keyID = IF f = NoKid THEN Thumbprint[k] ELSE f
    BY DEF Signer, Config, PublicJWK, PKCS1, NoKid
  <2> QED
    BY <2>1, KidsAreKids DEF KidFields
<1>4. tc.now = t /\ tc.ttl = SignerTTL /\ tc.tokenType = "eidas"
  <2>1. TTL(s, eidasRequest) = SignerTTL
    BY <1>2 DEF TTL, eidasRequest
  <2> QED
    BY <2>1 DEF Dated, Assemble, TokenType, eidasRequest, BuiltIns
<1>s. TypeNames(s, tc) \subseteq {"token_type"}
  BY <1>2 DEF TypeNames
<1>t. /\ "iss" \notin TypeNames(s, tc) /\ "aud" \notin TypeNames(s, tc)
      /\ "nbf" \notin TypeNames(s, tc) /\ "exp" \notin TypeNames(s, tc)
  BY <1>s
<1>5. token.exp = NumericDate(t + SignerTTL) /\ token.nbf = NumericDate(t)
  <2>1. /\ token.exp = NumericDate(tc.now + tc.ttl)
        /\ token.nbf = NumericDate(tc.now)
    BY <1>1, <1>t, ClaimsStand
  <2> QED
    BY <1>4, <2>1
<1>6. t \in Int /\ t + SignerTTL \in Int
  BY PeriodsAssumption
<1>7. /\ token.exp \in Int /\ token.exp <= t + SignerTTL
      /\ token.nbf \in Int /\ token.nbf <= t
  BY <1>5, <1>6, WholeSeconds
<1>8. ASSUME NEW name \in {"exp", "nbf", "iss", "aud"} PROVE ~ Overwritten(token, name)
  <2>1. name \in StandardNames(eidasRequest, tc)
    BY DEF StandardNames
  <2>2. name \notin TypeNames(s, tc)
    BY <1>2 DEF TypeNames
  <2> QED
    BY <1>1, <2>1, <2>2, KeptClaim
<1>9. /\ token.kid = ServiceKid[k] /\ token.alg = "RS256"
      /\ token.sig = [key |-> k, alg |-> "RS256"]
      /\ token.iss = issuer /\ token.aud = {audience}
  <2>1. eidasRequest.aud = {audience}
    BY DEF eidasRequest
  <2>2. token.iss = s.issuer /\ token.aud = eidasRequest.aud
    BY <1>1, <1>t, ClaimsStand
  <2>3. /\ token.kid = s.keyID /\ token.alg = s.algorithm
        /\ token.sig = [key |-> s.key, alg |-> s.algorithm]
    BY <1>1 DEF Sign
  <2> QED
    BY <1>2, <1>3, <2>1, <2>2, <2>3
<1> QED
  BY <1>7, <1>8, <1>9

\* Every published key is listed once.
LEMMA ListingLists ==
  ASSUME VaultInv
  PROVE  /\ Cardinality(Published) \in Nat
         /\ Listing \in [1..Cardinality(Published) -> Published]
         /\ \A i, j \in DOMAIN Listing : Listing[i] = Listing[j] => i = j
         /\ \A kid \in Published : \E i \in DOMAIN Listing : Listing[i] = kid
<1>1. IsFiniteSet(Kids)
  <2>1. ServiceKid \in Surjection(Keys, Kids)
    BY ServiceKidAssumption DEF Kids, Surjection
  <2> QED
    BY <2>1, ServiceKidAssumption, FS_Surjection
<1>2. Published \in SUBSET Kids
  BY DEF Published, VaultInv
<1>3. IsFiniteSet(Published)
  BY <1>1, <1>2, FS_Subset
<1> DEFINE n == Cardinality(Published)
           Lists(kids) == /\ \A i, j \in DOMAIN kids : kids[i] = kids[j] => i = j
                          /\ \A kid \in Published : \E i \in DOMAIN kids : kids[i] = kid
<1>4. n \in Nat /\ ExistsBijection(1..n, Published)
  BY <1>3, FS_CardinalityType
<1>5. \E kids \in [1..n -> Published] : Lists(kids)
  <2>1. PICK kids : kids \in Bijection(1..n, Published)
    BY <1>4 DEF ExistsBijection
  <2>2. /\ kids \in [1..n -> Published]
        /\ \A i, j \in 1..n : kids[i] = kids[j] => i = j
        /\ \A kid \in Published : \E i \in 1..n : kids[i] = kid
    BY <2>1 DEF Bijection, Injection, Surjection, IsInjective
  <2> QED
    BY <2>2
<1>6. Listing = CHOOSE kids \in [1..n -> Published] : Lists(kids)
  BY DEF Listing
<1>7. Listing \in [1..n -> Published] /\ Lists(Listing)
  BY <1>5, <1>6
<1> QED
  BY <1>4, <1>7

\* The JWK under which a consumer finds the key that is stored by kid.
LEMMA JWKFacts ==
  ASSUME NEW kid \in Kids
  PROVE  /\ JWKOf(kid).kid = kid /\ JWKOf(kid).alg = "RS256"
         /\ JWKOf(kid).pub = keys[kid].pem.key /\ JWKOf(kid).kty = keys[kid].pem.key.kty
<1>1. kid # ""
  BY KidsAreKids DEF NoKid
<1> QED
  BY <1>1, Zenon DEF JWKOf, PublicJWK

LEMMA JWKSIsClean ==
  ASSUME VaultInv
  PROVE  /\ Cardinality(Published) \in Nat /\ DOMAIN JWKS = 1..Cardinality(Published)
         /\ Clean(JWKS)
         /\ \A kid \in Published : \E i \in DOMAIN JWKS : JWKS[i] = JWKOf(kid)
<1>1. DOMAIN JWKS = 1..Cardinality(Published)
  BY DEF JWKS
<1>2. DOMAIN Listing = 1..Cardinality(Published)
  BY ListingLists
<1>3. \A i \in DOMAIN JWKS : /\ Listing[i] \in Published /\ Listing[i] \in Kids
                             /\ JWKS[i] = JWKOf(Listing[i])
  BY <1>1, ListingLists DEF JWKS, Published, VaultInv
<1>4. \A i \in DOMAIN JWKS : JWKS[i].kid = Listing[i] /\ JWKS[i].alg = "RS256"
  BY <1>3, JWKFacts
<1>5. \A i \in DOMAIN JWKS : JWKS[i].kid # NoKid
  BY <1>3, <1>4, KidsAreKids
<1>6. \A i \in DOMAIN JWKS : JWKS[i].kid # "" /\ JWKS[i].alg # ""
  BY <1>4, <1>5, Zenon DEF NoKid
<1>7. \A i, j \in DOMAIN JWKS : JWKS[i].kid = JWKS[j].kid => i = j
  BY <1>1, <1>2, <1>4, ListingLists
<1>8. \A kid \in Published : \E i \in DOMAIN JWKS : JWKS[i] = JWKOf(kid)
  BY <1>1, <1>2, <1>3, ListingLists
<1> QED
  BY <1>1, <1>6, <1>7, <1>8, ListingLists, Zenon DEF Clean

-----------------------------------------------------------------------------
(* The theorems.                                                           *)

(* In every reachable state every component has its type, and a run that   *)
(* is about to sign has a PEM.                                             *)
THEOREM TypeCorrect == Spec => []TypeOK
<1>1. IInv => TypeOK
  <2> SUFFICES ASSUME IInv PROVE TypeOK
    OBVIOUS
  <2>1. now \in 0..MaxTime /\ deadline \in 0..MaxTime /\ readAt \in 0..now
    BY Numbers DEF IInv, RunInv
  <2>2. /\ DOMAIN keys \subseteq written /\ written \subseteq Kids
        /\ DOMAIN lastActive \subseteq written
    BY DEF IInv, VaultInv
  <2>3. \A kid \in DOMAIN lastActive : lastActive[kid] \in 0..now
    BY Numbers DEF IInv, VaultInv
  <2>4. active \in written \union {NoKid} /\ asked \in written \union {NoKid}
    BY DEF IInv, VaultInv, RunInv
  <2>5. ASSUME NEW kid \in DOMAIN keys
        PROVE  keys[kid].pem \in PEMs /\ keys[kid].expiresAt \in Nat
    <3>1. PICK k \in Keys : kid = ServiceKid[k]
      BY <2>2, KidsAreKids
    <3>2. keys[kid] \in Records(k)
      BY <3>1 DEF IInv, VaultInv
    <3> QED
      BY <3>2 DEF Records, PEMs, PKCS1
  <2>6. pc \in {"idle", "active", "record", "sign"} /\ (pc = "record" <=> asked # NoKid)
    BY DEF IInv, RunInv
  <2>7. pc = "sign" => key.pem \in PEMs \ {noPEM}
    <3>1. SUFFICES ASSUME pc = "sign" PROVE key.pem \in PEMs \ {noPEM}
      OBVIOUS
    <3>2. PICK k \in Keys : \E f \in KidFields(k) : key = [pem |-> PKCS1(k), kid |-> f]
      BY <3>1 DEF IInv, SignInv
    <3>3. key.pem = PKCS1(k)
      BY <3>2
    <3>4. PKCS1(k) \in PEMs
      BY DEF PEMs, PKCS1
    <3> QED
      BY <3>3, <3>4, NoPEMIsNone
  <2> QED
    BY <2>1, <2>2, <2>3, <2>4, <2>5, <2>6, <2>7 DEF TypeOK
<1> QED
  BY <1>1, Invariance, PTL

(* A token can be verified until it expires: the JWKS of that moment makes *)
(* a Verifier that accepts it (fetchActiveSigningKey, main, NewVerifier).  *)
THEOREM VerifiableToTheEnd == Spec => []VerifiableUntilExpiry
<1>1. IInv => VerifiableUntilExpiry
  <2> SUFFICES ASSUME IInv, held # NothingHeld, now < held.token.exp
               PROVE  /\ NewVerifierError(JWKS) = NoError
                      /\ VerifyError(NewVerifier(JWKS, issuer, audience), held.token, now)
                           = NoError
    BY DEF VerifiableUntilExpiry
  <2> DEFINE v == NewVerifier(JWKS, issuer, audience)
             token == held.token
  <2>1. PICK k \in Keys, t \in Nat : \E f \in KidFields(k) :
          /\ t <= now
          /\ held = [token |-> TokenOf(k, f, t), at |-> t]
          /\ Accepted(k, f)
          /\ Promise(k, t + SignerTTL)
    BY DEF IInv, HeldInv
  <2>2. PICK f \in KidFields(k) : /\ token = TokenOf(k, f, t)
                                  /\ Accepted(k, f)
    BY <2>1
  <2>3. VaultInv /\ now \in Nat /\ SignerTTL \in Nat
    BY Numbers DEF IInv
  <2>4. /\ token.kid = ServiceKid[k] /\ token.alg = "RS256"
         /\ token.sig = [key |-> k, alg |-> "RS256"]
         /\ token.exp \in Int /\ token.exp <= t + SignerTTL
         /\ token.nbf \in Int /\ token.nbf <= t
         /\ token.iss = issuer /\ token.aud = {audience}
         /\ \A name \in {"exp", "nbf", "iss", "aud"} : ~ Overwritten(token, name)
    <3> HIDE DEF token
    <3> QED
      BY <2>2, TokenFacts
  <2>5. ~ (now >= token.exp) /\ ~ (now < token.nbf) /\ now < t + SignerTTL
    <3>1. PICK exp, nbf : exp = token.exp /\ nbf = token.nbf
      OBVIOUS
    <3>2. now < exp /\ exp \in Int /\ exp <= t + SignerTTL /\ nbf \in Int /\ nbf <= t
      BY <2>4, <3>1
    <3>3. ~ (now >= exp) /\ ~ (now < nbf) /\ now < t + SignerTTL
      BY <2>1, <2>3, <3>2
    <3> QED
      BY <3>1, <3>3
  <2>6. /\ ServiceKid[k] \in DOMAIN keys /\ keys[ServiceKid[k]].pem = PKCS1(k)
    BY <2>1, <2>3, <2>5 DEF Promise
  <2>7. ServiceKid[k] \in Published
    BY <2>6, NoPEMIsNone DEF Published
  <2>8. PICK i \in DOMAIN JWKS : JWKS[i] = JWKOf(ServiceKid[k])
    BY <2>3, <2>7, JWKSIsClean
  <2>9. NewVerifierError(JWKS) = NoError
    BY <2>3, JWKSIsClean, CleanSetsOnly
  <2>10. /\ JWKS[i].kid = ServiceKid[k] /\ JWKS[i].alg = "RS256"
        /\ JWKS[i].pub = k /\ JWKS[i].kty = k.kty
    <3>1. keys[ServiceKid[k]].pem.key = k
      <4>1. PKCS1(k).key = k
        BY DEF PKCS1
      <4> QED
        BY <2>6, <4>1
    <3>2. ServiceKid[k] \in Kids
      BY KidsAreKids
    <3> QED
      BY <2>8, <3>1, <3>2, JWKFacts
  <2>11. /\ JWKS[i].kid \in DOMAIN v.keys /\ v.keys[JWKS[i].kid] = JWKS[i]
         /\ JWKS[i].alg \in v.allowedAlgs
    <3>1. DOMAIN JWKS \subseteq Nat /\ Clean(JWKS)
      BY <2>3, JWKSIsClean
    <3> QED
      BY <3>1, SnapshotFinds
  <2>12. token.kid \in DOMAIN v.keys /\ token.alg \in v.allowedAlgs
         /\ v.keys[token.kid] = JWKS[i]
    BY <2>10, <2>11, <2>4
  <2>13. k.kty = "RSA"
    <3> DEFINE cfg == Config([pem |-> PKCS1(k), kid |-> f])
    <3>1. cfg.keyPEM.key = k /\ cfg.algorithm = "RS256"
      BY DEF Config, PKCS1
    <3>2. Buildable(cfg)
      BY <2>2 DEF Accepted
    <3>3. cfg.algorithm \notin ECAlgorithms
      BY <3>1 DEF ECAlgorithms
    <3> HIDE DEF cfg
    <3> QED
      BY <3>1, <3>2, <3>3, BuiltSigner
  <2>n. JWKS[i].pub # Garbled /\ JWKS[i].pub # NoKey
    <3>1. Garbled.kty = "none" /\ NoKey.kty = "none"
      BY DEF Garbled, NoKey
    <3> QED
      BY <2>10, <2>13, <3>1
  <2>14. PublicKeyError(JWKS[i]) = NoError
    BY <2>10, <2>13, <2>n DEF PublicKeyError, When
  <2>15. SignatureError(token, JWKS[i]) = NoError
    BY <2>10, <2>13, <2>4, <2>n DEF SignatureError, SignatureValid, When, RSAAlgorithms
  <2>16. ClaimsError(v, token, now) = NoError
    <3>1. v.expectedIssuer = issuer /\ v.expectedAudience = audience
      BY DEF NewVerifier
    <3>2. v.expectedIssuer \in {"", token.iss} /\ v.expectedAudience \in {""} \union token.aud
      BY <2>4, <3>1
    <3> HIDE DEF v, token
    <3> QED
      BY <2>5, <2>4, <3>2, ClaimsPass
  <2> QED
    BY <2>9, <2>12, <2>14, <2>15, <2>16, TokenPasses
<1> QED
  BY <1>1, Invariance, PTL

(* A rotation takes hold: a token is signed only with the active key or    *)
(* with one that stopped being active no longer ago than a run may take    *)
(* (main, fetchActiveSigningKey).                                          *)
THEOREM RotationsTakeHold == Spec => []RotationTakesHold
<1>1. IInv => RotationTakesHold
  <2> SUFFICES ASSUME IInv, held # NothingHeld
               PROVE  \/ held.token.kid = active
                      \/ /\ held.token.kid \in DOMAIN lastActive
                         /\ held.at <= lastActive[held.token.kid] + FetchTimeout + MaxPause
    BY DEF RotationTakesHold
  <2>1. PICK k \in Keys, t \in Nat : \E f \in KidFields(k) :
          /\ held = [token |-> TokenOf(k, f, t), at |-> t]
          /\ Accepted(k, f)
          /\ Recent(ServiceKid[k], t - MaxPause - FetchTimeout)
    BY DEF IInv, HeldInv
  <2>2. held.at = t /\ held.token.kid = ServiceKid[k]
    <3>1. PICK f \in KidFields(k) : /\ held = [token |-> TokenOf(k, f, t), at |-> t]
                                    /\ Accepted(k, f)
      BY <2>1
    <3>2. TokenOf(k, f, t).kid = ServiceKid[k]
      BY <3>1, TokenFacts
    <3> QED
      BY <3>1, <3>2
  <2>3. \A kid \in DOMAIN lastActive : lastActive[kid] \in Nat
    BY DEF IInv, VaultInv
  <2>4. FetchTimeout \in Nat /\ MaxPause \in Nat
    BY PeriodsAssumption
  <2> QED
    BY <2>1, <2>2, <2>3, <2>4 DEF Recent
<1> QED
  BY <1>1, Invariance, PTL
=============================================================================
