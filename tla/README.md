# A model of did-sdk-swift

The Metadium DID SDK creates and deletes decentralised identifiers (DIDs) on the
Metadium chain and issues and verifies credentials for them.  This directory holds
TLA+ modules that model its core, TLC configurations that check them on small
instances, and proofs that hold for every instance.

Paths below are under `src/Sources/DID-SDK-Swift/Classes/` unless they begin with `src/`.

## The system

| Component | State | Operations | Talks to |
| --- | --- | --- | --- |
| Wallet (`MetaWallet.swift`) | private key or signer, `did`, `metaID`, `tryReceiptCount` | open from JSON or with a signer, `createDID`, `deleteDID`, `getDid`, `toJson`; signing and verifying | delegator object, node, signer, resolver |
| Delegator object (`MetaDelegator.swift`) | `registryAddress`, `publicKey`, `timeStamp`, shared by every wallet built on it | `getAllServiceAddress`, `fetchLastBlockTimeStamp`, the four `...Delegated` requests | delegator service by JSON-RPC, node |
| JSON-RPC provider (`Network/DataProvider.swift`) | none | `jsonRpcMethod`, `reqDidDocument` | delegator service, resolver |
| Delegator service, node, contracts (external) | identities by address, public keys, transactions, blocks | submit, mine, revert; `getEIN`, receipts | – |
| Key service (`Data/MetaKeySigner.swift`) | none in the SDK | `signDigest`; r/s and DER parsing, recovery id | external key storage |
| DID documents (`getDiDDocument`, `reqDiDDocument`, `Data/DiDDocument.swift`) | cached document of the wallet | fetch, parse | resolver |
| JWS and JWT (`JWTsSwift/`) | headers and claims of a token | encode, sign, parse, verify | signer, verifier |
| Credentials (`VerifiableSwift/`) | a JSON document | typed accessors, issue, read back | JWT |
| Encodings (`getInt32Byte`, `BigUInt(hex:)`, `MetaUtils`, `BytesExtensions`) | none | – | – |
| ECDSA (`SECP256K1+ECDSA.swift`), example application, Pods | – | – | – |

An operation runs like this.  `createDID` makes a key (or takes a signer), tells the
delegator object its public key, and starts a task.  The task reads the service
addresses, fetches the time stamp of the latest block (on another task, waiting on a
semaphore for at most 30 seconds), signs, and has the delegator object send
`create_identity`.  A callback of URLSession receives the transaction id and starts
a task that asks the node for the receipt once a second, at most ten times.  When the
receipt is there its event gives the EIN, and the same is done again with
`add_public_key_delegated`.  `deleteDID` first compares the EIN of the DID with
the one the registry has for the wallet's address, then does
`remove_public_key_delegated` and `remove_associated_address_delegated`.

What is hard about it:

* calls do not exclude each other, and move between tasks, URLSession callbacks and
  the main queue; all of them read and write the fields of one wallet, and wallets
  share the fields of one delegator object, without locks;
* the request is put together from three sources read at different times: the
  wallet's signature, and the public key and the time stamp that are in the delegator
  object when the request is sent;
* each operation is two transactions, and may end between them;
* a connection that fails, or a receipt that does not come in time, leaves a
  transaction behind that may be mined later, when the application already retries;
* completion must be called on every path, and tell the truth.

`PROJECT.json` lists these hazards at the lines where they bite.

What makes the wallet and the delegator object correct, then: completion is called;
what it reports is true of the transactions of that call; a refused call has sent
nothing; success shows on the chain; requests carry what was signed; polling is not
cut short by what was polled before; deletion is about the identity that was checked;
nothing is unwrapped that is nil.  Of credentials and tokens: a credential read back has
what was put in; a token verifies with the key its `kid` names, as long as that key is the
DID's, and never after the DID is deleted.  A service's
answer is accepted exactly when it is a signature of the key the wallet keeps, in one of the
forms named, and then always sent in the same form.  A wait ends for every answer somebody
handles, and a signing step gives up only for a reason.  What is saved of a wallet can be
restored and deleted, wherever the process ended.  For what is not modelled yet: EIN and DID
convert into each other; a token is signed over the bytes it is sent as.

## Modules

* **IdentityRegistry** – the chain, as the SDK relies on it.  None of it is in the
  repository: the contracts' conditions are read off the data each signature covers
  (`createKeySignature` and its siblings), the receipts and the `IdentityCreated`
  event.  A key stands for a key pair and its address, an EIN for the DID it ends.
  `einOf`, `hasPublicKey` are registry and resolver; `body[c][s]` is the request call
  `c` sent in its step `s`, `tx[c][s]` what became of it.  A transaction the node has
  accepted may be mined with success, if the contract accepts it, or revert for any
  reason, at any later time or never.
* **MetaDelegator** – the fields of the delegator object, the block fetch (started,
  answered with a block that was the latest at some moment since, or failed) and the
  request it makes (`RequestOf`).
* **MetaWallet** – the wallet objects and the calls.  `pc[c]` is the place of a call
  between two points where another task, callback or wallet may run: `deleting`
  (the task of `deleteDID`), `reading` (awaiting `getEIN`), `preparing` (a signing
  function begins), `fetching` (the semaphore), `signing`, `sending` (the
  `...Delegated` method), `requested` (URLSession), `polling`, `sleeping` and
  `counting` (`transactionReceipt` and its retry), `lost` (no completion will come),
  `done`.  `step[c]` tells the two transactions apart; all four go through the same
  actions because the four signing functions, the four requests and their callbacks
  differ only in what they sign, the method, and the callbacks that the actions
  `IdentityMined`, `PublicKeyRemoved`, `SecondMined` and `Fail` model.
* **DidOperation** – what a call promises its caller: up to two effects on the chain
  in order, one report, and what the report says about the effects there are and those
  that may still come.
* **Credential** – a verifiable credential or presentation as the application builds it,
  signs it and reads it back.  `doc` is the `jsonObject`, a function from the fields it has;
  `token` what the last step signed.  `ToJWT` and `Read` are the two conversions, `Presented` the reference they are
  checked against.
* **Attestation** – extends MetaWallet: the issuing functions read the signer, the DID for the guard, the
  DID for the `kid`, the address, the DID of the author and the public key one after the other
  (`TakeSigner`, `RequireDid`, `NameDid`, `NameAddress`, `SignToken`, `CheckSigner`) while calls of `createDID` and `deleteDID` proceed, and `verify` asks the
  resolver, which knows what the registry has at that moment.
* **WalletStore** – extends MetaWallet: the application saves a wallet with `toJson` (the key is
  read in one step, the DID in the next), makes it again from what it saved, and the process
  may end between any two steps, which leaves only what was saved and what was sent.
* **Waiting** – the threads.  A job is a function of the SDK that blocks: `open`
  (`getAllServiceAddress`), `verify` (`getDiDDocument`), or a signing step with the request and
  the polling that follow it.  `job[j]` is where it is, the thread it holds while it waits
  on its semaphore, and how it ended; `fetch[j]` the block fetch task, which needs a
  thread of the pool to begin and to go on; `reply[j]` an answer whose handler has not run.
  An application calls a job on a thread of its own, the main thread, a task, or from a
  completion (`Complete`).
* **ExternalSignature** – a key service, `ExternalSignatureUtils` and `ExternalJWSSigner`.
  Bytes are small, a signature `made` recovers to its key, and `raw` is what the service
  answers with.
* **MCMetaWallet**, **MCWalletStore**, **MCWaiting**, **MCExternalSignature**, **MCCredential**,
  **MCAttestation** – values of the constants for TLC.
* **MetaWalletProofs**, **RefinementProofs**, **IdentityProofs**, **WalletStoreProofs**,
  **AttestationProofs**, **WaitingProofs**, **ExternalSignatureProofs**, **CredentialProofs** –
  theorems.  Each extends the ones it cites: RefinementProofs extends MetaWalletProofs, IdentityProofs
  extends that, and WalletStoreProofs and AttestationProofs extend IdentityProofs.

Definitions whose comment begins with `Mutant:` are not used by the specifications.  Each is a
plausible error in the definition after it, and shows that a property would notice it.

### Choices that matter

* The increment of `tryReceiptCount` is a read and a write (`ReadCount`,
  `WriteCount`), since `Int` fields are read and written without a lock on tasks
  that run in parallel.  The other accesses are single loads and stores; torn reads
  of Swift references under a race are not modelled.
* `registryAddress`, `publicKey`, `timeStamp` are read when the request is sent, in
  an action after the signature is made.
* A wait for a block that times out (`FetchTimesOut`) leaves the fetch running, and
  its answer still stores the time stamp: `late` records that this happened.
* `jsonRpcMethod` passes a JSON-RPC error, or a body that is not JSON, on without error.
  Three of the four requests then call nobody (`lost`), and only the JSON-RPC error
  means that the transaction was not submitted.
* In the second step of a call every error is wrapped in `partialCreation` or
  `partialDeletion`; the model records the step, the cause and the DID in it.
* `createDID(completion:)` of a wallet with a signer, and `createDID(signer:)`, are one
  action: the former is the latter with the wallet's own signer.
* The callback of `create_identity` clears `did` and `metaID` and `getEin` stores the new EIN in one step
  (`IdentityMined`).  Between the two the wallet looks as it does when no event is found, which the
  model has as an outcome of that step.
* Time stamps only grow; EINs are given out in order; the key a call would generate is
  new (`NewKey`), as 256 random bits are.
* History variables: `polls`, `late`.

* Credential: dates are in half seconds, so that the fraction a token loses is visible.  `token`
  holds only what the last step signed; a token is read back at once or never.  Issuing
  touches no object of the application and is explored only while it has a new
  document, or one with a status, at hand.  The JWT passed to `sign` has what an application can put there (`Jwts`): issuer,
  subject, id, audience, times, and entries of its own in `claims`.  `JwtOK` asks only for values the setters
  give (a time is a number, an issuer a URL) and leaves the names `vc` and `vp` to `toJWT`.  Each such JWT is
  new; `toJWT` leaves its claims in it, and a second signature with it would bring them along.  History: `given`.  The field `proof` and the
  serialisation of a token to text are left out; a claim is a field of the signed payload.  `:>`
  and `@@` are defined in the module, as in TLC, because the prover knows those of TLC only by
  name.  The `id` is taken out of a subject before it is compared: a subject without it is still a
  dictionary (`CredentialAssumption`).
* Attestation: each `getDid()` reads and stores in one step (`CacheDid`), and the three of an issue, in the guard,
  in `getKid` and for the author, are three steps.  A token is the
  DID and address of its `kid` (`Unnamed` when the `kid` is empty), its author and the key that signed it.  Documents of the
  resolver have a key when the identity has one.  `about[v]` is the issue whose token `v`
  verifies.  Histories: `met`, `sound`, `why`.
* WalletStore: a new process has a new delegator object; blocks and transactions go on.  `coherent[w]`
  and the `sound` of a saved JSON say that key and DID came together (JSON without a DID is not sound); a wallet is not coherent
  from the beginning of `createDID` to its second step, because the key is replaced at once.
  Histories: `coherent`, `cut`.
* Waiting: an answer is a result, a transport error, an object without result, a body that
  is not JSON, or JSON that is no object; a trap ends the process.  A request to the node
  holds no thread.  The 30 seconds of `lastBlockTimeStamp` pass only when no fetch task can
  run or a node is late (`SecondsPass`): a thread that is free is used sooner.  Up to one
  request is open per job.  Histories: `unsignalled`, `refused`, `peak`.
* ExternalSignature: the curve is external.  A signature recovers to its key with the parity it was
  made with, or with the other when s is replaced by `Order - s`; a damaged answer may not happen to
  be another valid signature.  Histories: `intact`, `changed`.

Not in these modules: receipts with a status that is neither ok nor failed, chain
reorganisations, more than one delegator object alive at a time, malformed JSON given to
`init(delegator:jsonStr:)` (the object traps on first use), a JWT object that is signed with twice.

## Runs

The first four runs are of `MCMetaWallet`; the module of each other run is named in `PROJECT.json`.
Times are with two workers.

| Run | Bounds | Properties | Shows |
| --- | --- | --- | --- |
| Sequential | 3 calls in a row, 1 wallet, 5 keys, 1 block time, 1 poll, every answer of the service | TypeOK, PatientPolling, DeleteKeepsItsIdentity, PartialCreationNamesIdentity, SuccessShowsOnChain | 0.7 M states, 30 s. Holds with every stored wallet, also one whose DID is another key's or none. At a success the chain has what the call promised; the two late transactions `ShownOnChain` names are needed, without them the property is violated |
| Overlap | 2 calls in any interleaving, 1 wallet, 1 block time, 2 polls, every answer | OutcomeMatchesChain, RefusalSendsNothing, NeverUnwrapsNil, CallInv, KeyInv, KeepsPromise | 0.9 M states, 105 s. Reports are true even when calls race; MetaWallet implements DidOperation |
| Completion | 2 overlapping calls, service answers with ids or errors | EveryCallCompletes | 0.15 M states, 35 s |
| LostCompletion | 1 call, service may answer without an id | EveryCallCompletes | violated, see below |
| Restarts | 2 calls in a row, the wallet saved and restored at any moment, 1 end of the process, 2 block times, ids or errors | RequestMatchesSignature, StoreTypeOK, SavedIsRestorable, RestoredCanDelete, SuccessSurvivesCrash | 3.2 M states, 160 s. JSON saved outside the first step of `createDID` names the identity of its key, a deletion that was cut off can be begun again, and once a call was cut off the success of the next is on the chain, late transactions of the first or not |
| Waits | a pool of 2 threads; createDID's and removeAssociatedAddress' signing steps, a verify and an open; 5 kinds of answer | TypeOK, NotReadyHasCause, SigningStepEnds, EveryWaitEnds, EveryJobEnds | 0.1 M states, 165 s. Signing steps always end, and give up for want of threads only when jobs held all of the pool at once; the other waits end except after an answer nobody handles, or on the queue they wait for |
| Signatures | bytes of 6 bits, r and s of 4 bytes, 8 values of r and s at the limits, 2 keys, one byte lost, added or replaced | TypeOK, CanonicalSignature, FormsAreUnderstood, SignatureIsOfKeptKey | 1.5 M states, 30 s. Every form is understood and sent on as one; nothing else is accepted |
| Documents | two dates (one with a fraction), two subjects (one with an `id` of its own), an author that is a URL and one that is not, lists of 2, a JWT with each of its claims and several at once | TypeOK, RoundTrip, ReadingIsStable | 0.2 M states, 95 s. Reading a token gives back the document that was signed, and of the JWT what the document does not say |
| LostFields | as Documents | SomethingGivenIsKept | violated, see below |
| Attest | 2 calls in a row, 1 issue and 1 verify at any moment; private key, own signer or a signer handed over; also a wallet with a DID and no key | AttestationTypeOK, KidNamesSigner, IssuedVerifies, DeletedNeverVerifies | 1.6 M states, 75 s. Tokens verify until a removal is asked for, never after a deletion; the address in the `kid` is the signer's, with as many key changes as the checks of the code can stand; a `kid` is empty only after a createDID made an identity |
| Unnamed | 1 call, otherwise as Attest | TokensAreNamed | violated, see below |
| Unresolved | 1 call, otherwise as Attest | FalseMeansForged | violated, see below |

Two calls are enough for a pair to race on every field of the wallet and of the
delegator, three in a row for a retry to meet a transaction of a call before the
last; each call has two steps, so that the steps of one already meet both steps of
the other.  That wallets sharing a delegator object do no worse is proved (PromiseKept).  Keys: one
with an identity in the stored wallets, a signer's key without, and a fresh key for
each call.  Two polls let the count be reset at every value; the code's limit is ten
(`MaxReceiptTries`).  Restarts has two block times, so that a stale time stamp differs from a fresh one.  The other runs have
one: what a stale stamp does to calls that overlap, or to wallets that share a delegator object, rests on the
theorem PromiseKept alone.  Calls on one wallet are alike, so that
permuting them, each with the key it would generate, is a symmetry; no run with a
liveness property uses it.  A pool of two threads is the least on which two signing
steps fill it and one does not; four jobs leave two to block the other threads.  In
Signatures 4 bytes keep the proportions of the real sizes: DER answers are longer, shorter and as
long as `r||s`, integers have and lack a sign byte, and r may be a byte short of its width.
DER answers exactly as long as `r||s` or `r||s||v` are taken for those, and those of 8 bytes
refused; `Mistaken` names them, and with 32 bytes only one signature in billions is one.
`CHECK_DEADLOCK` is off because an application stops after its calls, and because a call may be lost.

**Fairness** (`FairSpec`): `WF_vars(Proceed(c))` for each call.  The code's tasks are resumed by the Swift
runtime; URLSession calls its handler with an answer or, after its time limit, an
error; `lastBlockTimeStamp` stops waiting after 30 seconds; the sleep between polls is
bounded.  Nothing is assumed of the chain: no transaction need ever be mined, and no new
block found.  Starting a call is not fair either.  In Waiting, `WF_vars(Proceed(j))` for each job and
`WF_vars(TimePasses)`: the runtime runs a task when a thread of the pool is free, URLSession answers or
times out, time passes.  Calling a job is not fair.

**Findings.**  *LostCompletion.*  `src/README.md:315` promises that completion is called
exactly once on every path that ends.  `createIdentityDelegated`, `addPublicKeyDelegated`
and `removePublicKeyDelegated` (`MetaDelegator.swift:173`, `:208`, `:256`) call their
completion only for a transport error or a string result.  A JSON-RPC error answer is
neither, so `createDID` or `deleteDID` waits for ever; only
`removeAssociatedAddressDelegated` ends such a call.  Once a service answers only with
ids or errors the promise holds, as the run Completion shows.

*LostFields.*  `credentialStatus(id:type:)` stores under `credentailStatus`
(`VerifiableSwift/VerifiableCredential.swift:156`), and the getters read `credentialStatus`: a
status that was set is never read back.  `addContexts` (`VerifiableSwift/Verifiable.swift:89`)
appends to a local copy of the list and drops it, so the document keeps only the base
context.  `issueCredential` (`MetaWallet.swift:1101`) puts the owner's DID into the subject
as `id`, over a claim of that name; `src/README.md:371` issues a credential whose only claim is
called `id`, and it is lost.  The counterexample gives all three and finds none.

*Unnamed.*  `signWithSigner` requires a DID and a `kid` (`MetaWallet.swift:1051`), and the comment above it
says that without a DID there can be no `kid`.  But `getKid` reads the DID anew, and its answer without one
is the empty string, not nil.  When the callback of `create_identity` forgets the old DID (323-324) between the
two, a token with an empty `kid` is signed and returned.  The resolver has no document for it, so that it
never verifies.

*Unresolved.*  `verify` returns false (`MetaWallet.swift:950`) when there is no document or the
resolver cannot be reached.  `src/README.md:459` expects `noneDidDocument` to be thrown, and
its example takes false for a failed verification.

With overlapping calls, or several wallets on one delegator object, RequestMatchesSignature and
PatientPolling do not hold, and neither is promised anywhere: the chain rejects
a mismatched request, and the call then reports transactionFailed, truthfully.  They are
stated for one wallet and one call at a time.

## Proofs

Every invariant that a run checks is a theorem, and so are the safety action properties and the
refinement.  Theorems hold for any number of wallets, calls and keys, any limit of polls, any
service and any values of the other constants that satisfy the modules' `...Assumption`s; TLC
evaluates those assumptions in each run.

Some theorems ask for more, as the properties do:

* `Sequential` – the application waits for a call to complete before it makes the next.  Transactions
  of earlier calls may still be mined, block fetches that were given up may still answer, any
  number of wallets may share the delegator object.  Nothing in the repository says what happens otherwise, and the
  properties concerned are violated by two calls that overlap: both poll with the same
  `tryReceiptCount`, and each may replace the key and the DID the other has checked.
* `OneWallet` – there is one wallet.  Two wallets built on one delegator object overwrite each
  other's `publicKey`, even if their calls take turns.

### Calls and the chain

**MetaWalletProofs** (any interleaving): `TypeCorrect`, `UnwrapSafety`, `TruthfulReports`,
`RefusalsAreSilent`, `KeysStay`, `RequestsInOrder`, that is `Spec => []TypeOK`, and so on for
NeverUnwrapsNil, OutcomeMatchesChain, RefusalSendsNothing, KeyInv, CallInv.  The assumptions are
`RegistryAssumption`, `DelegatorAssumption` and `WalletAssumption`: the constants have their types,
`NoKey` is no key, and an EIN belongs to one key at the start.

None of the properties is inductive.  The invariant is `IInv == TypeOK /\ KeyInv /\ CallInv`:

* `KeyInv` – an unopened wallet has no key; a wallet with a key has told the delegator
  object one; a call that fetches, signs or sends has found the service addresses and a key, and from
  `signing` on a time stamp.  `NeverUnwrapsNil` follows, since these never become nil again.
  Its part `RunInv` speaks only of calls that run, so that it also survives the end of the process;
* `StepInv(c)` – a step that has not sent has no request; the second step has none before
  the first has taken effect; a call that polls has a submitted transaction;
* `ReportInv(c)` – a report is about the step the call ended in, is true now
  (`Truthful`), and says enough to stay true: a refusal means that the step has no
  request that could still be mined.

`CallInv` is proved through lemmas rather than action by action from scratch:
`OthersSame` and `OtherCalls` (a step of one call leaves the others' variables alone), `MoveKeeps` (a
call that moves on without sending) and `FailKeeps` (a call that ends with an error
true of it) cover all but the actions that send, mine or change step.

**RefinementProofs** (any interleaving) proves `PromiseKept`: `Spec => KeepsPromise`, that every call implements
DidOperation under the mapping `Promise`.  With `IInv` for both states of a step, a step of MetaWallet is,
for a given call, a stutter (another call's step that leaves its variables alone, `OtherCalls`;
a move that does not show, `MoveUnseen`), its beginning (`BeginRefines`), an effect when one of its
transactions is mined (`EffectRefines`), or its end (`EndRefines`).  At the end the abstract
operation asks that the report be about the effects there are and those that may still come:
`ReportsBound` derives that from `Truthful`, and `EffectsKept` that no effect is undone or
out of order.

**IdentityProofs** relates the calls to the identities on the chain.

* Any interleaving: `RegistrySound`, `Spec => []RegistryInv` – EINs are given out once and to one address
  (`EinInv`), a call has `created` one exactly when its `create_identity` took effect, each step
  sends one request of its method (`RequestInv`), and the EIN a removal was about is nobody's again
  (`RemovedInv`).
* `Sequential`: `PollsArePatient` (PatientPolling), `PartialCreationIsNamed`
  (PartialCreationNamesIdentity), `DeleteStaysOnItsIdentity` (DeleteKeepsItsIdentity), and
  `SuccessIsShown` (the action property SuccessShowsOnChain), whose two exceptions name the transaction: the
  removal of this same public key by an earlier deleteDID, and the identity an earlier createDID gave this
  same address, both of calls that left their end open.
* `Sequential` and `OneWallet`: `RequestsMatch` (RequestMatchesSignature).

The invariant is `SeqInv`: only one call runs; that call's polls are what its wallet counts (`PollInv`); what it
signs and sends is about the wallet's key (`SignInv`), and its DID is the one it created or
checked (`DidInv`); the chain shows what it has done, but for those two transactions (`ShownInv`).  The last is
where late transactions matter: a call that ended with everything settled cannot change anything any more (`RefusedInv`), so only an `OpenEnd` can.  `MatchInv` adds for one
wallet that the delegator object's public key is its key, and that a time stamp changes under a
signature only when a fetch answers that was given up (`late`).

### Saving and restoring

**WalletStoreProofs** carries the same invariants across the end of the process, any number of times:
`RunInv`, `CallInv`, `RegistryInv` and `SeqInv` hold in the state a crash leaves, when no wallet is
open and every call that ran has ended without a report.

* Any interleaving: `StoreTyped` (StoreTypeOK).
* `Sequential`: `SavedCanBeRestored` (SavedIsRestorable), `RestoredMayDelete` (RestoredCanDelete),
  `SuccessOutlivesCrash` (SuccessSurvivesCrash).
* `Sequential` and `OneWallet`: `RestartsMatch` (RequestMatchesSignature).

`SuccessOutlivesCrash` rests on `SeqInv` too: a call that was cut off is one with an open end, so that `ShownInv`
already names what it may still change, and `EndsInv` says that a call without a report was cut off.
The invariant `StoreInv` adds `EndsInv`, that a wallet whose
key and DID came together, and JSON saved of one, name an identity that the key has or whose removal was asked
for (`CoherentInv`, `SavedInv`), and that no wallet is coherent in the first step of `createDID`.

### Issuing and verifying

**AttestationProofs** proves, of any number of issues and checks,

* in any interleaving: `AttestationTyped` (AttestationTypeOK), `KidsNameSigners` (KidNamesSigner),
  `DeletedStaysUnverified` (DeletedNeverVerifies);
* with `Sequential`: `IssuedTokensVerify` (IssuedVerifies).

`AnyInv` says what an issue has taken at each place (`IssueInv`), how far the address in its `kid` may be
from the signer's by the createDIDs since (`KidInv`), and that a `kid` without a DID is one whose wallet has
created an identity (`EmptyInv`: only createDID loses a DID, `DidLost`, and what is created stays, `CreatedStays`); counting those needs that only finitely many calls
have begun (`FinitelyBegun`).  A deletion that has succeeded leaves a DID that no address has, by
`RegistryInv`, so that no document is found.  `HonestInv` adds that what createDID did for an address lasts
until a removal is asked for (`ClaimsInv`), so that a wallet whose calls were all successful
createDIDs (`SettledInv`), and what it has issued (`SoundInv`), verify.

### Documents

**CredentialProofs** proves, for any subjects, dates, lists and any history of edits, signing, reading and
issuing: `ClaimsAreTyped` (TypeOK), `TokensReadBack` (RoundTrip) and `PassingOnLosesNothing`
(ReadingIsStable).  The invariant `CredentialInv` is that documents have the fields of their kind with
dates and subjects well formed (`DocOK`), and that the token is `ToJWT` of such a document.  The work is in the two conversions:
`TokenClaims` says claim by claim what `ToJWT` makes of a document and any JWT that is `JwtOK`, `ReadsBack` that
reading undoes it except for an author that is no URL, and adds what the JWT alone says, `ReadIsDocument` that what was read is a document again, and `PresentedWhole` that nothing more
is lost by a second time.  `CredentialAssumption`: times are numbers, the marks for a value of another
format are no numbers and no subjects, a subject without its `id` is a dictionary, the DID is a URL, and
the JWTs are `JwtOK`.

### Signatures

**ExternalSignatureProofs** proves, for any width, base and odd order, and whatever the service sends, whole or with one byte lost, added or replaced:

* `SignedWithKeptKey`: `Spec => []SignatureIsOfKeptKey`;
* `ReturnsOneResult`: `Spec => []TypeOK`;
* `LowerS`: the s that is sent is in range and the lower of the two of its signature, and lowering
  it again changes nothing.  This needs an odd order, as the order of a curve of prime order is
  (`SignatureAssumption`);
* `LeavesCanonical`: `PaddingIsExact` implies `Spec => []CanonicalSignature`;
* `WholeFormsUnderstood`: `PaddingIsExact` and `DerIsExact` imply `Spec => []FormsAreUnderstood`.

The invariant `SigInv` adds to TypeOK that a signing makes at most one signature and gets one answer, in order
(`MadeInv`), that until the service changes its key what it holds and shows is what the wallet has
kept (`KeptInv`), and that what is accepted is the made r and the lower of its s and `Order - s`, padded
(`LowerInv`).  `RecoversToMaker` says whose signature passes the check.  `FormInv` adds that a whole answer is the made
signature in its form; `WholeIsSplit` takes each form apart, `DerIsSplit` that of DER.

`PaddingIsExact` and `DerIsExact` say that a number is read back from the bytes `Pad` and
`SignedBytes` make of it.  Numbers are folds over bytes, so that this is an induction over data, which the
prover cannot do.  They are hypotheses of the two theorems, and TLC evaluates them for the constants of
Signatures (`ConversionAssumption` of MCExternalSignature).

### Threads

**WaitingProofs** proves, for any pool of threads, any finite number of jobs of any kind and any answers:

* `ThreadsKept`: `Spec => []TypeOK`, of which the interesting part is that the pool is never
  overdrawn and the delegate queue and the main thread run one thing at a time;
* `GivesUpForReason`: `Spec => []NotReadyHasCause`.

That the jobs are finitely many (`WaitingAssumption`) is what makes threads countable.  The
invariant is `WaitInv`: a wait of a signing step holds a thread of the pool and has a fetch that is not
over (`JobsOK`, `CausesOK`), a missing block or a deadline has its cause noted when it comes about
(`CausesOK`), `peak` bounds the threads held (`ThreadsOK`), and only who waits has a reply
(`ReplyOK`).  Actions that complete share `CompletionKeeps`: the thread a completion runs on was free, or is
the one its own job gives up (`ThreadTaken`, `Exchanged`).

### Only model-checked

Liveness and ENABLED are outside the prover's reach: EveryCallCompletes, SigningStepEnds, EveryWaitEnds and
EveryJobEnds stay with TLC.  So do `PaddingIsExact` and `DerIsExact`, see above, and of course the
counterexamples.

## Plan

*Done:* IdentityRegistry, MetaDelegator, MetaWallet, DidOperation; Credential; Attestation; Waiting;
ExternalSignature; WalletStore; a theorem for every invariant the runs check.  What is left, in this
order:

1. **Token** – `JWSObject`: parsing and serialising a token, what its signing input is after
   the header was read and written again.
2. `getDid` in finer steps, and an application that calls `getLastBlockTimeStamp` itself.
3. **Encoding** – EIN and DID: `ein(fromDid:)`, `BigUInt(hex:)` and leading zeros.
4. Proofs: how far the promise of DidOperation holds across the end of the process, and what
   overlapping calls keep of SeqInv.
