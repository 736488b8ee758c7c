# A TLA+ model of gov-jwt-signer

gov-jwt-signer is a Go library that issues signed JWTs for Dutch government
authentication (eIDAS, DigiD, eHerkenning), for variants of its callers' own and
for RFC 9068 access tokens, and that verifies such tokens. This directory holds
TLA+ modules that model it, TLC configurations that check them, and proofs for
the TLA+ proof system.

## The system and its parts

| Part | Code | State | Operations | What must be right |
|---|---|---|---|---|
| Signer construction | `options.go`, `signer.go` | a `config` while the options run; then an immutable `Signer` | nine `With...` options, `NewSigner` | no Signer after an error; the Signer does what was asked last; it can sign |
| Keys and JWKs | `keys.go`, `publicKey` of `verify.go` | none | parse a PEM, check algorithm and strength, publish a JWK, read one, thumbprint | the published set verifies what the Signer signs; what is read is the key that was written; a kid names one key |
| Token Service | `pkg/token/service.go` | a Signer; per call: request, claims | five `Issue...` methods | what was validated is what is signed; no claim takes another's name; acr, type and dates fit the request; calls do not disturb each other |
| Variant claims | `pkg/claims` | none | `Validate`, mappings to eIDAS levels | only complete payloads pass; levels are never inflated |
| Verifier | `verify.go` | a snapshot of a JWK set and expectations | `NewVerifier`, `Verify` | accepts exactly what is authentic, expected and in time |
| golang-jwt | external | none | sign, parse, validate claims | modelled from its use |
| Vault example | `examples/vault-sign` | the fetched key, one deadline | two reads of Vault, then sign once | the key belongs to the kid, and is published until the token expires; the run ends |
| Demo programs | `examples/basic`, `examples/access-token` | a Signer, the tokens printed | issue, print, verify one | they fail only for reasons outside them; what they print is good |
| JSON and JWS text, CI, documents | `encoding/json`, `.github`, `docs` | none | | |

How they interact. A caller builds a Signer once and wraps it in a Service.
Goroutines call the Service concurrently; each call validates a payload, reads
the Signer's clock, marshals and signs. Nothing is locked, because nothing
shared is written, except by the callers: a payload is an object of theirs.
A request struct copies it, but as Go copies: what it points to, and the slices
and maps inside it, stay shared until the token is marshalled. Tokens travel with a client, for any time, to a consumer, whose
Verifier was built from a JWK set published earlier or later by the Signer or by
an external jwks-service. The Vault example shares its keys with that service:
a rotator writes, activates, retires and deletes them while the program reads.

What is hard here:

* a payload is validated at one step and marshalled at a later one, with the
  clock read in between;
* three writers fill one JSON object (standard claims, the token-type claim,
  whose name is configurable, and the payload, whose key may be the caller's);
* options may come in any order and any number;
* the Verifier's view of keys, and its clock, differ from the Signer's;
* rounding of dates to whole seconds against TTLs of any length;
* the active pointer and the key's record are two reads, under one deadline,
  of a store that rotates in between, and the key that was read is then used
  for as long as the program likes;
* a JWK may have been written by another library, with more or fewer zeros in
  front of its integers than this one writes.

The library itself neither blocks, waits, retries nor persists: its calls are
local computation, and a crash loses nothing but the call. What waits, and so
what has liveness, is the Vault example, which waits for Vault under a context.

`PROJECT.json` lists the hazards one by one, each at its line.

## The modules

| Module | Models | Extends |
|---|---|---|
| `Errors` | the "first check that fails decides" style of every function | |
| `VariantClaims` | `pkg/claims`: payloads, `Validate`, level mappings | `Errors` |
| `SigningKeys` | `keys.go` and the checks and result of `NewSigner` | `Errors` |
| `SignerOptions` | the options of `options.go`, run one by one by `NewSigner` | `SigningKeys` |
| `JWKEncoding` | the bytes of a JWK's parameters, written and read | `Errors` |
| `TokenClaims` | `service.go` as functions: checks, `tokenClaims`, `MarshalJSON`, `Sign` | `VariantClaims`, `SigningKeys` |
| `TokenService` | the Service as a state machine of concurrent calls | `TokenClaims` |
| `AtomicIssue` | abstract: what a call promises, in one step | `TokenClaims` |
| `Verifier` | `verify.go` as functions, and golang-jwt's parser | `TokenClaims` |
| `IssuedTokens` | the tokens of `TokenService` at a Verifier of the Signer's JWKS | `TokenService`, `Verifier` |
| `SignVerify` | Services, a Verifier, a client and two clocks together | `Verifier` |
| `KeyRotation` | the Vault example among rotator, Vault and jwks-service | `Verifier` |
| `Examples` | the mains of the two demo programs | `Verifier` |
| `MC...` | instances for TLC | |
| `VerifierProofs` | lemmas and theorems about the functions of `Errors`, `SigningKeys`, `TokenClaims` and `Verifier`, which the other proofs share | `Verifier` |
| `...Proofs` | the invariant and the theorems of a module | that module, `VerifierProofs` |

### SignerOptions

`config`, `err` and `signer` are the variables of `NewSigner`; `trail` is
history, the options that ran, and only properties read it. Every option is an
action with its own check; `NewSigner` is the rest of that function. A PEM text is the block type
and the key inside it; an RSA or EC key is its identity, family and size.

### JWKEncoding

The other modules take the parameters of a JWK for the key they stand for;
this one shows that they do. An integer of a key stands for itself as the bytes
`big.Int.Bytes` gives of it: most significant first, without leading zeros.
`publicJWK` writes: `PointBytes` puts both coordinates together, filled up to
the length of the curve, `WriteError` are the checks on the curve and on what was
put together, and `Coordinates` slices it. `publicKey` reads: `leftPad`, the two
copies of `ecUncompressedPoint`, the check that the point is on the curve, and
the cut of the exponent to an int. Actions publish a Signer's JWK in the place of
an earlier one, or a JWK of another library, whose two parameters are each
written in one of five `Styles` (with all bytes, stripped of zeros, with a sign
byte, not base64url, missing), or one of a kind the library does not know.
base64url is a bijection but for text it refuses, and SHA-256 has no collisions.

Some things the model brings out are the code's, not faults of it: an exponent
wider than an int is cut, not refused; an RSA JWK without its parameters
decodes to a key that `crypto/rsa` will not use; an EC coordinate that is missing
is zero, and one that is a byte too long loses its last byte, so that only the
check of the point refuses it. `NeverAnotherKey` names them all: what is read is
the key, but for such a coordinate, of which it says what it is taken for
(`Left`). The instance has points on both curves that are another point without
a coordinate, or without its last byte, so the exception occurs.

### TokenService

A call goes through `pc`: `idle`, `check` (an Issue method up to `issue`),
`base` (required fields, clock, TTL, jti), `sign` (`Signer.Sign`, where
`MarshalJSON` runs), `done`. `given` is the copy of a payload that shares no
memory with its caller; one that does (`byRef`: a pointer, or slices or maps
inside it) is read from `object` at each look, and `Rewrite` lets its owner
change it at any time. Random numbers may fail (`Base`). `NewService` refuses a
nil Signer and takes any other (`NewServiceError`). The token is a record:
header, signature, dates, acr, type and payload, and `writers`, which says for
every top-level name of the JSON object which of the three writers it came from.
Each claim is the one that stands in the JSON object at the end: where the
token-type claim has the name of a standard claim, that claim is the token's
type (`Stands`), and `ClaimsError` of the Verifier finds a string for a date.
Properties about a claim except the Signers that write their type over it
(`Keeps`). The clock counts ticks, `TicksPerSecond` to the second, so that
cutting dates to seconds shows.

### AtomicIssue

The abstract specification does not mention the steps, `FirstError` chains or
the order of checks: `Acceptable` says which requests become tokens and
`IsTokenOf` says which tokens. A call is decided at one instant. `TokenService`
implements it under a refinement mapping (`Status`, `Outcome`): a call is
decided when `base` has read the clock, and what it will return is then a
function of what it holds. That holds for payloads that are not shared with the
caller only; with shared ones the call is not atomic, and the code does not claim it is.

### IssuedTokens

A property over `TokenService`: at every moment every issued token is presented
to a Verifier built of the Signer's own JWKS. `SignVerify` varies the set, the
expectations and the clock, but its calls are atomic; here they are the
interleaved ones, payloads shared with the caller included, which are not atomic and whose
tokens must be good all the same.

### SignVerify

`Issue` is one step: the refinement says that by-value calls take effect at
one, and `OneStepIssueIsAtomicIssue` that it is this one. `BuildVerifier` takes any JWK
set of `JWKSets`, the Signers' own, mixed ones and unusable ones, so that the
Verifier's snapshot is older or newer than the token; `skew` is the
consumer's clock error. Signers are those `NewSigner` builds, among them two
whose token-type claim bears the name of a standard claim.

### KeyRotation

A run of `main` goes through `pc`: reading `active`, reading the `record`,
`sign`. Each read is two steps, `Answer` (Vault sends what it holds now) and
`ReadActive` or `ReadRecord` (`main` acts on it, perhaps later), so that keys
rotate while an answer is under way; an answer may fail or never come, and
`TimeOut` is the context, whose one `deadline` covers both reads. `SignToken`
is the rest of `main`: `NewSigner`, `NewService`, `IssueEIDAS`, with the
library's own definitions. `main` may be run again and again, which is how it
reloads its key. `held` is any one of the tokens issued; `lastActive` is
history, for properties only.

Around it is what the repository only relies on, external and modelled from
`main.go` and `README.md`. The rotator writes records, moves the pointer, retires
keys (`expires_at` is then `Grace` ahead) and deletes expired ones, one step at
a time, with the pointer moved before or after the retirement, and records with
the PEM or the kid missing. The jwks-service publishes what Vault holds
(`JWKS`). Assumed of all of them: one clock; a record is stored under its own
kid, and a kid is never used again; a consumer takes the JWKS of the moment it
verifies in. `GraceAssumption` is what `README.md` calls short-lived tokens and a
grace period, made exact: `Grace >= FetchTimeout + MaxPause + SignerTTL`.
`MaxPause`, how long a run may pause between its last read and its token, is
bounded in `Tick`; nothing in the code bounds it, and nothing in the code could.

### Examples

Both programs are one state machine over what they ask for (`basic`,
`accessToken`): `build`, then for each token `compose` (the request literal,
with its `time.Now()`) and `issue`, then `verify`, and `returned` or `fatal`.
Between any two steps the clock may run on to any later time of `Times`.
All the work is done by the definitions of `SigningKeys`, `TokenClaims` and
`Verifier`, so this is also where those meet requests as users write them. Left
out are the `Fatalf` calls that nothing reaches: of `mustDecodeSegment`, on a token
the program has just made, and of `JWKSJSON`, on a set of strings.

## The runs

| Run | Question | Bounds |
|---|---|---|
| `SignerOptions.cfg` | any options in any order | 4 options of 9 kinds; 6 keys (two RSA sizes, three curves, Ed25519), all PEM forms, 5 algorithms |
| `SignerOptions_CanSign.cfg` | can every built Signer sign? No | 3 options |
| `SignerOptions_Mismatch.cfg` | is a key of the wrong family `ErrInvalidKey`? No | 3 options |
| `TokenService.cfg` | the safety of one call among rewriting callers and running time; is what it issues accepted? | 1 call that is repeated, 5 objects, 25 requests, 7 configurations of the Signer, 3 of them with a type claim named like a standard claim, 2 ticks to the second, clock up to 3 |
| `TokenService_Atomic.cfg` | is a call atomic? | 2 calls on 2 shared objects, 4 requests, 3 Signers, one with the type claim `acr`, clock up to 2 |
| `TokenService_Identifying.cfg` | do all tokens have `iss`, `iat`, `jti`? No | as `TokenService.cfg` |
| `TokenService_Typ.cfg` | does `typ` tell access tokens apart? No | as `TokenService.cfg` |
| `SignVerify.cfg` | are the right tokens accepted? | 5 Signers, 2 with one kid and 2 with type claims `iss` and `aud`; sets of up to 2 JWKs; skews of -2 and 1 ticks; clock up to 4 |
| `JWKEncoding.cfg` | is the key that is read the key that was written? | bytes of 4 values, ints of 2 bytes, curves of 1 and 3 bytes with 10 points, 10 RSA keys, all pairs of 5 styles |
| `KeyRotation.cfg` | are the tokens good while keys rotate? | 2 keys, one with its thumbprint as kid; clock up to 5; budget, pause and TTL of 1, grace of 3 |
| `KeyRotation_Ends.cfg` | does every run end? | 2 keys, one that `NewSigner` refuses; clock up to 2 |
| `Examples.cfg` | do the demo programs do what they should? | both programs; 2 ticks to the second; 6 times, around the start and around the end of the 5 minutes |

Why the bounds are enough. Four options reach a key, an issuer, an algorithm
and one option more, or a key set twice. Calls interact only through the
callers' objects, and the rewriting of those is an action of the environment,
so one call already meets every interference; the refinement run adds a second
call. The two-tick second and a default TTL of three ticks give dates that fall
on and between seconds. A kid selects one JWK, so two members of a set show
every clash. A byte of four values has a zero, a top bit and two more; three bytes have
leading zeros in any number and a coordinate that a sign byte pushes out; an
exponent of three bytes does not fit an int of two. A token-type claim may go over
the identifier, the level, a date or, in `SignVerify`, the issuer and the
audience. A rotation involves the old and the new key, and the grace period is the least that `GraceAssumption` allows, so a token
that outlived its key by one tick would show. The times of the demo programs
lie on both sides of the last tick a token is good for.

`CHECK_DEADLOCK FALSE` is used where the program really may stop:
`SignerOptions` (`NewSigner` returns), `KeyRotation` (nothing obliges anyone to run
`main` again, and its clock is bounded) and `Examples` (`main` returns).

Fairness is stated where a program waits, which is one place. `KeyRotation` has weak fairness of
`Tick`, `TimeOut` and `SignToken`: time passes, the runtime fires the timer of a
context, and `main` is run. Nothing is assumed of Vault or the rotator, so
`EveryRunEnds` holds though no answer ever comes.

Four runs show where the code differs from what a document or comment says;
the findings in `PROJECT.json` quote both. Each of the properties of the
passing runs is broken by a deviation (definitions named `..._...` next to the
original, such as `PayloadOf_Shared` or `RecordError_AnyExpiry`): a plausible
mistake in that code.

## What is proved

`TokenServiceProofs`, for any number of calls, objects, requests, Signers and any
clock bound:

* `TypeCorrect`: `Spec => []TypeOK`
* `ValidatedIsSigned`: `Spec => []SignedPayloadIsValid`
* `AcrIsThePayloads`: `Spec => []AcrMatchesPayload`
* `ExpiryIsTheTTLs`: `Spec => []ExpiresWithTTL`
* `VariantNeverShadows`: `Spec => []VariantKeepsToItsKey`
* `TypeClaimIsOwn`: `Spec => []TypeClaimIsTheTokensType`
* `IssuedTokensAreGood`: `Spec => []IssuedTokensVerify`

None of these is inductive: a state at `sign` says nothing of the checks that
were passed at `check`. The inductive invariant `IInv` carries that history.
For each call and each point it says which payload its claims were made from
(`Checked`, `DatedFrom`) and which one its token was signed with
(`SignedWith`): some payload the call could read, and, when nothing is shared,
in both cases the one it was given. Its preservation is split by action;
`UntouchedCall` says that a step of one call, of the clock or of a caller keeps
the invariant of every other call, and `FailKeeps` serves all error paths. The
theorems then unfold the checks and the assembly of the token. For
`IssuedTokensAreGood` the argument goes on into the Verifier: `IssuedSays` is
what the token says, `OwnJWKSVerifies` that the published set is one a Verifier
can be built of and finds the right key in, `CheckedClaimsAreKept` that the
claims Verify looks at are the Service's, so that `TimeDecides`. `AcrIsThePayloads`,
`ExpiryIsTheTTLs` and `IssuedTokensAreGood` speak of claims as the token has them,
and so except a Signer whose token-type claim has that claim's name; `KeptStands`
is the step from the one to the other.

`VerifierProofs` has two theorems about functions, which say what their checks
come to without the order the code makes them in. `VerifyAcceptsExactly`: for
every set that `NewVerifier` takes, `Verify` accepts exactly what `Accepts`
describes, in terms of the set alone. `NewSignerTakesExactly`: the six
overlapping checks of `NewSigner` pass exactly the configurations `Takes`
describes. Its lemmas serve every other module: `NoErrorAnywhere` and
`OnlyOneDecides` for chains of checks, `CleanSetsOnly` and `SnapshotFinds` for
`NewVerifier`, `ClaimsDecide` and `OnlyExpiryFails` for `Verify`.

`AtomicIssueProofs` proves `CallsTakeEffectAtOnce`, that `TokenService` implements
`AtomicIssue`, under one hypothesis, `ByValue`: no request shares memory with its
caller. With
`IInv` as the invariant, there is a lemma per action: `Call` is `Call`, `Base` is
the decision, `SignClaims` is the return, and `Check` is a stutter or the
decision to fail. Its substance is two lemmas about data.
`AcceptableIsChecked`: the checks that the code makes in three places, in an
order, accept exactly the requests that `Acceptable` describes without one.
`SignedIsTokenOf`: the object that three writers fill is the one `IsTokenOf`
describes. The same two lemmas prove `OneStepIssueIsAtomicIssue`, which ties the
`Issue` step of `SignVerify` to what `AtomicIssue` promises.

`SignerOptionsProofs`, for any options, in any order and number (`MaxOptions` is
any number): `TypeCorrect`; `SignersAreAsAsked` (`SignerAsAsked`);
`JWKSIsTheSigners` (`JWKSVerifiesOwnTokens`). The invariant says of each field of
`config` that it is legal and what the last option for it asked (`AskedIn`);
lemma `LastAsked` says what one more option does to that.

`SignVerifyProofs`, for any Signers that `NewSigner` builds, any requests, JWK
sets, expectations and skews: `VerifiersAreSound` (`VerifierOK`);
`AcceptedTokensAreGenuine` (`AcceptedIsAuthenticAndTimely`);
`TokensAreGoodForTheirTTL` (`GoodForItsTTL`). The invariant records where the
Verifier, the held token and the verdict came from; the arguments are in the
lemmas of `VerifierProofs` on what `NewVerifier` and `Verify` pass (`CleanSetsOnly`,
`TokenPasses`, `OnlyThenPasses`, `ClaimsPass`, `PassedClaims`), and in what a token
says when a standard claim gave way to the token-type claim (`KeptClaim`).

`KeyRotationProofs`, for any keys, kids and periods that satisfy
`GraceAssumption`: `TypeCorrect`; `VerifiableToTheEnd` (`VerifiableUntilExpiry`);
`RotationsTakeHold` (`RotationTakesHold`). The invariant follows a key from Vault
into the token. `Promise(k, until)` says that `k` stays in Vault until that time
or for ever; a record read without an `expires_at` gives a promise for the whole
grace period, which every later step shortens by what it may take: receipt,
pause, TTL. `Recent(kid, since)` says in the same way when the key was still
active, and so `RotationsTakeHold` that a token's key was the active one no longer
ago than the budget of the reads and the pause after them. Of the rotator's steps only `Retire`, `Delete` and `Activate` touch the
two, and each is a lemma's case (`PromiseKept`, `RecentKept`).

`JWKEncodingProofs`, for any byte size, int width, curves and keys:
`OwnKeyIsReadBack` (`OwnKeyComesBack`); `LeadingZerosDoNotMatter`
(`ShortFormsAreRead`); `KeysAreNotConfused` (`NeverAnotherKey`);
`ThumbprintIsTheKeys` (`ThumbprintNamesTheKey`). What a Signer writes are the two
coordinates filled up (`PointIsSliced`). Zeros in front of an integer are nothing
to it (`IsPadded`, `PaddedIsRead`), however many there are and whoever wrote them,
so a coordinate that fits is read as itself (`FittingIsRead`), and one that is a
sign byte too long as itself without its last byte (`OverlongIsCut`); after that
the two copies give the pair of both or no point (`PointRead`). The invariant
says where each JWK came from (`OwnPublication`, `OtherPublication`) and that what
was decoded is what `publicKey` makes of it. Nothing is assumed of the points of a
curve but their length.

`ExamplesProofs`, for every RSA key of 2048 bits, every thumbprint and any times
later than three minutes after the epoch (which `AuthTime` looks back from):
`TypeCorrect` (`TypeOK`); `DemosFailOnlyByChanceOrTime`
(`FailsOnlyByChanceOrTime`); `PrintedTokensAreAccepted` (`PrintedTokensVerify`).
The first half is about what the programs ask for: `AsksAreGrantable` shows of
each request literal what a request must have, `AsksAreGranted` that every check
on its way then passes. `ConfigBuilds` and `BuiltIsOurs` do the same for the
Signer, and `OnlyTimeDecides` for the token. The invariant says that what is
printed are tokens for the asks so far, in their order, by the program's own
Signer and dated no later than now (`PrintedInv`), so that the token verified is
the one whose audience is expected.

The assumptions are those of the modules: requests are well-typed Go values;
Signers have an issuer, a kid, a token-type claim and a positive default TTL
(`SignerOptions` shows it of `NewSigner`) and are ones `NewSigner` builds; thumbprints, and the jwks-service's kids, tell keys apart; a second
has at least one tick; the grace period is long enough; coordinates are no longer
than their curve's size. All are evaluated by TLC in the runs.

Every safety property of the passing runs, and the refinement, is stated by one
of these theorems. Only model-checked are the liveness property `EveryRunEnds`,
since the proof system has no rule for `ENABLED`, and the four violations.

## What is not modelled

* The layout of JSON and JWS text, which is `encoding/json`'s and golang-jwt's.
* The slices of a request (audience, AMR, roles), which stay shared with the
  caller during a call: requests are values here. The code neither copies them
  nor promises to, so there is nothing for it to keep.
* Payload objects that change in the middle of one read: an object is taken to
  guard its own methods.
* Uniqueness of the jti: 128 random bits.
* `Signer.Sign` called directly with claims of the caller's own.
* Environment variables (`VAULT_ADDR`, `VAULT_TOKEN`) and command output of the
  example programs; the demo payloads' optional attributes, which no check reads.
* Consumers that cache a JWK set beyond the moment they verify in, in
  `KeyRotation`; `SignVerify` has Verifiers with old sets, but keys that stay.
* Build, CI and documents, which have no behaviour at run time.

## Plan

Done: construction (`SigningKeys`, `SignerOptions`), issuance (`VariantClaims`,
`TokenClaims`, `TokenService`), its abstract specification and the refinement,
verification (`Verifier`, `SignVerify`), the bytes of JWKs (`JWKEncoding`), rotation
(`KeyRotation`), the demo programs (`Examples`), and the proofs of all their safety
properties.

Next, in this order:

1. A consumer in `KeyRotation` that caches its JWK set for a time, with the
   grace period its staleness asks for.
2. Request slices among the callers' objects in `TokenService`.
3. `Signer.Sign` with claims of the caller's own, as a further kind of request.
