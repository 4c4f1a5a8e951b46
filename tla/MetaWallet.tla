------------------------------ MODULE MetaWallet ------------------------------
(***************************************************************************)
(* The wallet object (MetaWallet.swift) and its two asynchronous           *)
(* operations, createDID and deleteDID, over a delegator object that       *)
(* wallets may share.  Each operation signs and sends one transaction,     *)
(* waits for its receipt, and then does the same with a second one.  A     *)
(* call moves from task to task, so steps of several calls interleave.     *)
(***************************************************************************)
EXTENDS MetaDelegator

CONSTANTS
    Wallets,          \* wallet objects of the applications
    WalletOf,         \* WalletOf[c]: the wallet call c is made on
    NewKey,           \* NewKey[c]: the key generateKey would make in call c
    SignerKeys,       \* keys held by external key services
    StoredWallets,    \* what the applications restore wallets from
    ForeignDid,       \* a DID no EIN can be read from (other prefix, not hex)
    MaxReceiptTries,  \* polls before a receipt is given up: 10 in the code
    Replies,          \* the kinds of answer the delegator service gives
    Sequential        \* the applications wait for each call to complete

NoDid == NoEin

Dids == Nat \cup {ForeignDid}

ReplyKinds == {"txId", "error", "noTxId"}

Kinds == {"create", "delete"}

Outcomes == {"success", "notReady", "noDid", "didDoesNotMatchKey", "conflictingKeyMode",
             "signerError", "delegatorError", "transactionUnconfirmed",
             "transactionFailed", "eventNotFound"}

ASSUME WalletAssumption ==
    /\ WalletOf \in [Calls -> Wallets]
    /\ NewKey \in [Calls -> Keys]
    /\ SignerKeys \subseteq Keys
    /\ ForeignDid \notin Nat
    /\ StoredWallets \subseteq [key : Keys \cup {NoKey}, did : Dids]
    /\ MaxReceiptTries \in Nat \ {0}
    /\ Replies \subseteq ReplyKinds
    /\ Sequential \in BOOLEAN

VARIABLES
    opened,           \* wallets whose initializer has run
    key,              \* key[w]: private key, or key of the signer; NoKey if none
    external,         \* external[w]: the wallet has a signer
    did,              \* did[w]: the DID, NoDid if empty
    metaID,           \* metaID[w]: EIN of the last IdentityCreated, NoEin if empty
    tryReceiptCount,  \* tryReceiptCount[w]: polls without a receipt
    pc,               \* pc[c]: where call c is
    kind,             \* kind[c]: the operation
    step,             \* step[c]: which of its two transactions
    draft,            \* draft[c]: {what the signing function has read so far}
    seen,             \* seen[c]: the count read by the task about to write it
    polls,            \* polls[c]: polls of this step without a receipt (history)
    result            \* result[c]: {what completion was called with}

walletVars == <<opened, key, external, did, metaID, tryReceiptCount>>

callVars == <<pc, kind, step, draft, seen, polls, result>>

vars == <<chainVars, delegatorVars, walletVars, callVars>>

Pcs == {"idle", "deleting", "reading", "preparing", "fetching", "signing", "sending",
        "requested", "polling", "sleeping", "counting", "lost", "done"}

Init ==
    /\ ChainInit
    /\ DelegatorInit
    /\ opened = {}
    /\ key = [w \in Wallets |-> NoKey]
    /\ external = [w \in Wallets |-> FALSE]
    /\ did = [w \in Wallets |-> NoDid]
    /\ metaID = [w \in Wallets |-> NoEin]
    /\ tryReceiptCount = [w \in Wallets |-> 0]
    /\ pc = [c \in Calls |-> "idle"]
    /\ kind = [c \in Calls |-> "create"]
    /\ step = [c \in Calls |-> 1]
    /\ draft = [c \in Calls |-> {}]
    /\ seen = [c \in Calls |-> 0]
    /\ polls = [c \in Calls |-> 0]
    /\ result = [c \in Calls |-> {}]

-----------------------------------------------------------------------------
(* Helpers of the wallet. *)

(* getDid(): the cached DID, or the one of the EIN found at creation. *)
GetDid(w) == IF did[w] # NoDid THEN did[w] ELSE metaID[w]

CacheDid(w) == did' = [did EXCEPT ![w] = GetDid(w)]

(* Mutant: the prefix and the digits of the DID are not checked. *)
EinFromAnyDid(d) == d

(* ein(fromDid:prefix:): NoEin stands for nil. *)
EinFromDid(d) == IF d = ForeignDid THEN NoEin ELSE d

Goto(c, l) == pc' = [pc EXCEPT ![c] = l]

(* completion(receipt, nil) *)
Succeed(c) ==
    /\ Goto(c, "done")
    /\ result' = [result EXCEPT ![c] = {[cause |-> "success", step |-> 2, did |-> NoDid]}]

(* completion(nil, why).  In the second step the error is wrapped in       *)
(* partialCreation or partialDeletion, with the DID getDid() gives then.   *)
Fail(c, why) ==
    /\ Goto(c, "done")
    /\ IF step[c] = 1
         THEN /\ result' = [result EXCEPT ![c] =
                              {[cause |-> why, step |-> 1, did |-> NoDid]}]
              /\ UNCHANGED did
         ELSE /\ result' = [result EXCEPT ![c] =
                              {[cause |-> why, step |-> 2, did |-> GetDid(WalletOf[c])]}]
              /\ CacheDid(WalletOf[c])

Active == {c \in Calls : pc[c] \notin {"idle", "done"}}

MayCall(c) ==
    /\ pc[c] = "idle"
    /\ WalletOf[c] \in opened
    /\ Sequential => Active = {}

(* The transaction call c sends in its current step. *)
Method(c) ==
    CASE kind[c] = "create" /\ step[c] = 1 -> "create_identity"
      [] kind[c] = "create" /\ step[c] = 2 -> "add_public_key_delegated"
      [] kind[c] = "delete" /\ step[c] = 1 -> "remove_public_key_delegated"
      [] kind[c] = "delete" /\ step[c] = 2 -> "remove_associated_address_delegated"

-----------------------------------------------------------------------------
(* Wallet objects. *)

(* configure(delegator:): the key of the wallet opened last becomes the    *)
(* delegator's public key.                                                 *)
Configure(w, k, d, ext) ==
    /\ w \notin opened
    /\ opened' = opened \cup {w}
    /\ key' = [key EXCEPT ![w] = k]
    /\ did' = [did EXCEPT ![w] = d]
    /\ external' = [external EXCEPT ![w] = ext]
    /\ FetchRegistry
    /\ publicKey' = IF k # NoKey THEN k ELSE publicKey
    /\ UNCHANGED <<chainVars, timeStamp, fetch, late, metaID, tryReceiptCount, callVars>>

(* init(delegator:jsonStr:) *)
OpenStored(w) == \E j \in StoredWallets : Configure(w, j.key, j.did, FALSE)

(* init(delegator:signer:did:) *)
OpenExternal(w) ==
    \E k \in SignerKeys, d \in {NoDid} \cup {InitialEin[l] : l \in Keys} :
        Configure(w, k, d, TRUE)

-----------------------------------------------------------------------------
(* createDID *)

(* Mutant: tryReceiptCount is not reset. *)
StartCreateCounting(c, w, k) ==
    /\ key' = [key EXCEPT ![w] = k]
    /\ Goto(c, "preparing")
    /\ kind' = [kind EXCEPT ![c] = "create"]
    /\ UNCHANGED tryReceiptCount

StartCreate(c, w, k) ==
    /\ tryReceiptCount' = [tryReceiptCount EXCEPT ![w] = 0]
    /\ key' = [key EXCEPT ![w] = k]
    /\ Goto(c, "preparing")
    /\ kind' = [kind EXCEPT ![c] = "create"]

(* Mutant: the delegator is not told of the new key. *)
CreateDIDUnpublished(c) ==
    LET w == WalletOf[c] IN
    /\ MayCall(c) /\ ~external[w]
    /\ \E k \in {NewKey[c], key[w]} : StartCreate(c, w, k)
    /\ UNCHANGED <<chainVars, delegatorVars, opened, external,
                   did, metaID, step, draft, seen, polls, result>>

(* createDID(completion:) of a wallet without signer: the new key replaces *)
(* the old one before anything is sent.  If none can be generated the      *)
(* wallet goes on with what it has.                                        *)
CreateDID(c) ==
    LET w == WalletOf[c] IN
    /\ MayCall(c) /\ ~external[w]
    /\ \/ StartCreate(c, w, NewKey[c]) /\ publicKey' = NewKey[c]
       \/ StartCreate(c, w, key[w]) /\ UNCHANGED publicKey
    /\ UNCHANGED <<chainVars, registryAddress, timeStamp, fetch, late, opened, external,
                   did, metaID, step, draft, seen, polls, result>>

(* createDID(signer:completion:), which createDID(completion:) calls too   *)
(* when the wallet has a signer.                                           *)
CreateDIDWithSigner(c) ==
    LET w == WalletOf[c] IN
    /\ MayCall(c) /\ (external[w] \/ key[w] = NoKey)
    /\ \E k \in SignerKeys : StartCreate(c, w, k) /\ publicKey' = k
    /\ external' = [external EXCEPT ![w] = TRUE]
    /\ UNCHANGED <<chainVars, registryAddress, timeStamp, fetch, late, opened,
                   did, metaID, step, draft, seen, polls, result>>

(* A wallet with a private key refuses a signer, and any wallet a signer   *)
(* whose public key is malformed; neither changes it.                      *)
RefuseSigner(c) ==
    LET w == WalletOf[c] IN
    /\ MayCall(c)
    /\ Fail(c, IF ~external[w] /\ key[w] # NoKey THEN "conflictingKeyMode" ELSE "signerError")
    /\ kind' = [kind EXCEPT ![c] = "create"]
    /\ UNCHANGED <<chainVars, delegatorVars, opened, key, external, metaID,
                   tryReceiptCount, step, draft, seen, polls>>

-----------------------------------------------------------------------------
(* deleteDID *)

DeleteDID(c) ==
    /\ MayCall(c)
    /\ Goto(c, "deleting")
    /\ kind' = [kind EXCEPT ![c] = "delete"]
    /\ UNCHANGED <<chainVars, delegatorVars, walletVars, step, draft, seen, polls, result>>

(* The task of deleteDID up to the await of einOfWalletKey. *)
CheckDid(c) ==
    LET w == WalletOf[c] IN
    /\ pc[c] = "deleting"
    /\ tryReceiptCount' = [tryReceiptCount EXCEPT ![w] = 0]
    /\ CacheDid(w)
    /\ LET ein == EinFromDid(GetDid(w))
           why == IF ein = NoEin THEN "noDid" ELSE "notReady"
       IN  IF ein = NoEin \/ key[w] = NoKey \/ ~registryAddress
             THEN /\ Goto(c, "done")
                  /\ result' = [result EXCEPT ![c] = {[cause |-> why, step |-> 1, did |-> NoDid]}]
                  /\ UNCHANGED draft
             ELSE /\ Goto(c, "reading")
                  /\ draft' = [draft EXCEPT ![c] =
                         {[addr |-> key[w], ein |-> ein, ts |-> NoTime, key |-> key[w]]}]
                  /\ UNCHANGED result
    /\ UNCHANGED <<chainVars, delegatorVars, opened, key, external, metaID,
                   kind, step, seen, polls>>

(* Mutant: any identity of the address will do. *)
ReadEinOfAny(c) ==
    /\ pc[c] = "reading"
    /\ \E d \in draft[c] : einOf[d.addr] # NoEin
    /\ Goto(c, "preparing")
    /\ UNCHANGED <<chainVars, delegatorVars, walletVars, kind, step, draft, seen, polls, result>>

(* getEIN answers for the address read before the call, reverts when the   *)
(* address has no identity, or the node fails.                             *)
ReadEin(c) ==
    /\ pc[c] = "reading"
    /\ \E d \in draft[c] :
          \/ /\ einOf[d.addr] = d.ein
             /\ Goto(c, "preparing")
             /\ UNCHANGED <<did, result>>
          \/ einOf[d.addr] \notin {NoEin, d.ein} /\ Fail(c, "didDoesNotMatchKey")
          \/ Fail(c, "notReady")
    /\ UNCHANGED <<chainVars, delegatorVars, opened, key, external, metaID, tryReceiptCount,
                   kind, step, draft, seen, polls>>

-----------------------------------------------------------------------------
(* Signing, the same in each of the four signing functions. *)

(* The address, and in the second step of deleteDID the EIN, are read      *)
(* before the block time stamp is fetched.                                 *)
Prepare(c) ==
    LET w == WalletOf[c]
        removes == Method(c) = "remove_associated_address_delegated"
        ein == IF removes THEN EinFromDid(GetDid(w)) ELSE NoEin
    IN
    /\ pc[c] = "preparing"
    /\ IF ~registryAddress \/ key[w] = NoKey
         THEN Fail(c, "notReady") /\ UNCHANGED <<draft, fetch>>
       ELSE IF removes /\ ein = NoEin
         THEN Fail(c, "noDid") /\ UNCHANGED <<draft, fetch>>
       ELSE /\ Goto(c, "fetching")
            /\ draft' = [draft EXCEPT ![c] =
                   {[addr |-> key[w], ein |-> ein, ts |-> NoTime, key |-> key[w]]}]
            /\ StartFetch(c)
            /\ IF removes THEN CacheDid(w) ELSE UNCHANGED did
            /\ UNCHANGED result
    /\ UNCHANGED <<chainVars, registryAddress, publicKey, timeStamp, late, opened, key,
                   external, metaID, tryReceiptCount, kind, step, seen, polls>>

(* The fetch completes; a call that still waits goes on to sign. *)
BlockFetched(c) ==
    /\ \E t \in FetchedTimes(c) :
        /\ StoreTimeStamp(c, t)
        /\ IF pc[c] = "fetching"
             THEN /\ Goto(c, "signing")
                  /\ draft' = [draft EXCEPT ![c] = {[d EXCEPT !.ts = t] : d \in @}]
             ELSE UNCHANGED <<pc, draft>>
    /\ UNCHANGED <<chainVars, registryAddress, publicKey, late, walletVars, kind, step, seen,
                   polls, result>>

(* The node has no block for the fetch. *)
BlockMissing(c) ==
    /\ FetchFails(c)
    /\ IF pc[c] = "fetching" THEN Fail(c, "notReady") ELSE UNCHANGED <<pc, result, did>>
    /\ UNCHANGED <<chainVars, registryAddress, publicKey, late, opened, key, external, metaID,
                   tryReceiptCount, kind, step, draft, seen, polls>>

(* lastBlockTimeStamp stops waiting after 30 seconds; the fetch goes on.   *)
FetchTimesOut(c) ==
    /\ pc[c] = "fetching"
    /\ late' = late \cup {c}
    /\ Fail(c, "notReady")
    /\ UNCHANGED <<chainVars, registryAddress, publicKey, timeStamp, fetch, opened, key,
                   external, metaID, tryReceiptCount, kind, step, draft, seen, polls>>

(* signature(data:): with the key the wallet has now. *)
Sign(c) ==
    /\ pc[c] = "signing"
    /\ Goto(c, "sending")
    /\ draft' = [draft EXCEPT ![c] = {[d EXCEPT !.key = key[WalletOf[c]]] : d \in @}]
    /\ UNCHANGED <<chainVars, delegatorVars, walletVars, kind, step, seen, polls, result>>

(* The key service fails, or signs with a key that is not the signer's.    *)
SignerFails(c) ==
    /\ pc[c] = "signing" /\ external[WalletOf[c]]
    /\ Fail(c, "signerError")
    /\ UNCHANGED <<chainVars, delegatorVars, opened, key, external, metaID,
                   tryReceiptCount, kind, step, draft, seen, polls>>

-----------------------------------------------------------------------------
(* The delegator service. *)

Send(c) ==
    /\ pc[c] = "sending" /\ CanSend
    /\ body' = [body EXCEPT ![c][step[c]] = {RequestOf(Method(c), sig) : sig \in draft[c]}]
    /\ Goto(c, "requested")
    /\ UNCHANGED <<einOf, hasPublicKey, lastEin, created, now, tx, delegatorVars, walletVars,
                   kind, step, draft, seen, polls, result>>

ReplyTxId(c) ==
    /\ pc[c] = "requested" /\ "txId" \in Replies
    /\ tx[c][step[c]] \notin {"none", "refused"}
    /\ Goto(c, "polling")
    /\ polls' = [polls EXCEPT ![c] = 0]
    /\ UNCHANGED <<chainVars, delegatorVars, walletVars, kind, step, draft, seen, result>>

(* Mutant: an error is not passed on. *)
ReplyErrorUnreported(c) ==
    /\ pc[c] = "requested" /\ "error" \in Replies
    /\ Goto(c, "lost")
    /\ UNCHANGED <<chainVars, delegatorVars, walletVars, kind, step, draft, seen, polls, result>>

(* No answer in time, or no connection: the transaction may be submitted.  *)
ReplyError(c) ==
    /\ pc[c] = "requested" /\ "error" \in Replies
    /\ Fail(c, "delegatorError")
    /\ UNCHANGED <<chainVars, delegatorVars, opened, key, external, metaID,
                   tryReceiptCount, kind, step, draft, seen, polls>>

(* A JSON-RPC error, a body that is not JSON, a result that is no string:  *)
(* jsonRpcMethod passes no error on, and no completion follows.  Only the  *)
(* JSON-RPC error says that nothing was and nothing will be submitted.     *)
ReplyWithoutTxId(c) ==
    /\ pc[c] = "requested" /\ "noTxId" \in Replies
    /\ \/ tx[c][step[c]] = "none" /\ tx' = [tx EXCEPT ![c][step[c]] = "refused"]
       \/ UNCHANGED tx
    /\ IF CompletesWithoutTxId(Method(c))
         THEN Fail(c, "notReady")
         ELSE Goto(c, "lost") /\ UNCHANGED <<result, did>>
    /\ UNCHANGED <<einOf, hasPublicKey, lastEin, created, now, body, delegatorVars, opened, key,
                   external, metaID, tryReceiptCount, kind, step, draft, seen, polls>>

-----------------------------------------------------------------------------
(* transactionReceipt(txId:completion:) and the callbacks given to it. *)

(* tryReceiptCount has reached the limit: completion(nil). *)
GiveUpReceipt(c) ==
    /\ pc[c] = "polling"
    /\ tryReceiptCount[WalletOf[c]] >= MaxReceiptTries
    /\ Fail(c, "transactionUnconfirmed")
    /\ UNCHANGED <<chainVars, delegatorVars, opened, key, external, metaID,
                   tryReceiptCount, kind, step, draft, seen, polls>>

MayPoll(c) == pc[c] = "polling" /\ tryReceiptCount[WalletOf[c]] < MaxReceiptTries

(* No receipt: the transaction is not mined, or the node fails.  A task    *)
(* sleeps a second.                                                        *)
NoReceipt(c) ==
    /\ MayPoll(c)
    /\ Goto(c, "sleeping")
    /\ polls' = [polls EXCEPT ![c] = @ + 1]
    /\ UNCHANGED <<chainVars, delegatorVars, walletVars, kind, step, draft, seen, result>>

(* tryReceiptCount = tryReceiptCount + 1 takes no lock, and other calls of *)
(* the wallet may run between the read and the write.                      *)
ReadCount(c) ==
    /\ pc[c] = "sleeping"
    /\ Goto(c, "counting")
    /\ seen' = [seen EXCEPT ![c] = tryReceiptCount[WalletOf[c]]]
    /\ UNCHANGED <<chainVars, delegatorVars, walletVars, kind, step, draft, polls, result>>

WriteCount(c) ==
    /\ pc[c] = "counting"
    /\ Goto(c, "polling")
    /\ tryReceiptCount' = [tryReceiptCount EXCEPT ![WalletOf[c]] = seen[c] + 1]
    /\ UNCHANGED <<chainVars, delegatorVars, opened, key, external, did, metaID,
                   kind, step, draft, seen, polls, result>>

(* Mutant: the status of the receipt is not looked at. *)
HasAnyReceipt(c, status) ==
    /\ MayPoll(c)
    /\ tx[c][step[c]] \in {"ok", "reverted"}
    /\ tryReceiptCount' = [tryReceiptCount EXCEPT ![WalletOf[c]] = 0]

(* A receipt resets the count before the callback runs. *)
HasReceipt(c, status) ==
    /\ MayPoll(c)
    /\ tx[c][step[c]] = status
    /\ tryReceiptCount' = [tryReceiptCount EXCEPT ![WalletOf[c]] = 0]

ReceiptFailed(c) ==
    /\ HasReceipt(c, "reverted")
    /\ Fail(c, "transactionFailed")
    /\ UNCHANGED <<chainVars, delegatorVars, opened, key, external, metaID,
                   kind, step, draft, seen, polls>>

(* Mutant: the DID the wallet had is not forgotten. *)
IdentityMinedKeepingDid(c) ==
    /\ kind[c] = "create" /\ step[c] = 1
    /\ HasReceipt(c, "ok")
    /\ metaID' = [metaID EXCEPT ![WalletOf[c]] = created[c]]
    /\ step' = [step EXCEPT ![c] = 2]
    /\ Goto(c, "preparing")
    /\ UNCHANGED <<chainVars, delegatorVars, opened, key, external, did, kind, draft, seen,
                   polls, result>>

(* create_identity is mined.  getEin takes the EIN from the event, or      *)
(* finds no event it can decode; the DID is forgotten either way.          *)
IdentityMined(c) ==
    LET w == WalletOf[c] IN
    /\ kind[c] = "create" /\ step[c] = 1
    /\ HasReceipt(c, "ok")
    /\ did' = [did EXCEPT ![w] = NoDid]
    /\ \/ /\ metaID' = [metaID EXCEPT ![w] = created[c]]
          /\ step' = [step EXCEPT ![c] = 2]
          /\ Goto(c, "preparing")
          /\ UNCHANGED result
       \/ /\ metaID' = [metaID EXCEPT ![w] = NoEin]
          /\ Goto(c, "done")
          /\ result' = [result EXCEPT ![c] =
                 {[cause |-> "eventNotFound", step |-> 1, did |-> NoDid]}]
          /\ UNCHANGED step
    /\ UNCHANGED <<chainVars, delegatorVars, opened, key, external, kind, draft, seen, polls>>

(* removePublicKeyDelegated is mined: removeAssociatedAddress follows. *)
PublicKeyRemoved(c) ==
    /\ kind[c] = "delete" /\ step[c] = 1
    /\ HasReceipt(c, "ok")
    /\ step' = [step EXCEPT ![c] = 2]
    /\ Goto(c, "preparing")
    /\ UNCHANGED <<chainVars, delegatorVars, opened, key, external, did, metaID,
                   kind, draft, seen, polls, result>>

(* The second transaction is mined. *)
SecondMined(c) ==
    /\ step[c] = 2
    /\ HasReceipt(c, "ok")
    /\ Succeed(c)
    /\ UNCHANGED <<chainVars, delegatorVars, opened, key, external, did, metaID,
                   kind, step, draft, seen, polls>>

-----------------------------------------------------------------------------

Open(w) == OpenStored(w) \/ OpenExternal(w)

Start(c) == CreateDID(c) \/ CreateDIDWithSigner(c) \/ RefuseSigner(c) \/ DeleteDID(c)

Fetching(c) == BlockFetched(c) \/ BlockMissing(c) \/ FetchTimesOut(c)

Signing(c) == Sign(c) \/ SignerFails(c)

Reply(c) == ReplyTxId(c) \/ ReplyError(c) \/ ReplyWithoutTxId(c)

Receipt(c) ==
    \/ GiveUpReceipt(c) \/ NoReceipt(c) \/ ReceiptFailed(c)
    \/ IdentityMined(c) \/ PublicKeyRemoved(c) \/ SecondMined(c)

(* What a call does once it has been made. *)
Proceed(c) ==
    \/ CheckDid(c) \/ ReadEin(c) \/ Prepare(c) \/ Fetching(c) \/ Signing(c)
    \/ Send(c) \/ Reply(c) \/ Receipt(c) \/ ReadCount(c) \/ WriteCount(c)

OffChain == UNCHANGED <<delegatorVars, walletVars, callVars>>

Chain ==
    /\ \/ NextBlock
       \/ \E c \in Calls, s \in Steps : Submit(c, s) \/ MineOk(c, s) \/ MineReverted(c, s)
    /\ OffChain

Next ==
    \/ \E w \in Wallets : Open(w)
    \/ \E c \in Calls : Start(c) \/ Proceed(c)
    \/ Chain

Spec == Init /\ [][Next]_vars

-----------------------------------------------------------------------------
(* Properties. *)

Results == [cause : Outcomes, step : Steps, did : Dids]

(* Every variable keeps its type; requests are always of known keys. *)
WalletTypeOK ==
    /\ opened \subseteq Wallets /\ key \in [Wallets -> Keys \cup {NoKey}]
    /\ external \in [Wallets -> BOOLEAN] /\ did \in [Wallets -> Dids]
    /\ metaID \in [Wallets -> Nat] /\ tryReceiptCount \in [Wallets -> Nat]

CallTypeOK ==
    /\ pc \in [Calls -> Pcs] /\ kind \in [Calls -> Kinds] /\ step \in [Calls -> Steps]
    /\ draft \in [Calls -> SUBSET Signed] /\ seen \in [Calls -> Nat]
    /\ polls \in [Calls -> Nat] /\ result \in [Calls -> SUBSET Results]

TypeOK == ChainTypeOK /\ DelegatorTypeOK /\ WalletTypeOK /\ CallTypeOK

(* What completion reports is true of the call's own transactions, however *)
(* calls interleave: success means both took effect, transactionFailed     *)
(* that this one reverted, transactionUnconfirmed that it was submitted,   *)
(* and any error wrapped in partialCreation or partialDeletion, as well as *)
(* eventNotFound, that the first took effect.                              *)
Truthful(c, r) ==
    /\ r.cause = "success" => \A s \in Steps : tx[c][s] = "ok"
    /\ r.cause = "transactionFailed" => tx[c][r.step] = "reverted"
    /\ r.cause = "transactionUnconfirmed" => tx[c][r.step] \in {"pending", "ok", "reverted"}
    /\ r.cause = "eventNotFound" => tx[c][1] = "ok" /\ body[c][2] = {}
    /\ r.step = 2 => tx[c][1] = "ok"

OutcomeMatchesChain == \A c \in Calls : \A r \in result[c] : Truthful(c, r)

(* A call that ends in noDid, didDoesNotMatchKey, notReady and the other   *)
(* refusals, not wrapped in a partial error, has sent no request at all.   *)
Refusals == {"notReady", "noDid", "didDoesNotMatchKey", "conflictingKeyMode", "signerError"}

RefusalSendsNothing ==
    \A c \in Calls : \A r \in result[c] :
        r.step = 1 /\ r.cause \in Refusals => \A s \in Steps : body[c][s] = {}

(* The ...Delegated methods never unwrap nil: when a wallet has signed,    *)
(* the delegator has service addresses, a public key and a time stamp.     *)
NeverUnwrapsNil == \A c \in Calls : pc[c] = "sending" => CanSend

(* With one wallet on the delegator and one call at a time, every request  *)
(* carries the address and the time stamp its signature was made for,      *)
(* unless a fetch some call gave up on has replaced the time stamp.        *)
RequestMatchesSignature ==
    \A c \in Calls, s \in Steps : \A b \in body[c][s] :
        /\ b.addr = b.sig.addr /\ b.addr = b.sig.key
        /\ b.ts = b.sig.ts \/ late # {}

(* A call at a time reports transactionUnconfirmed only after polling for  *)
(* that transaction as often as the limit says, whatever the polls of      *)
(* earlier steps and calls left in tryReceiptCount.                        *)
PatientPolling ==
    \A c \in Calls : \A r \in result[c] :
        r.cause = "transactionUnconfirmed" => polls[c] = MaxReceiptTries

(* The check before the first transaction of deleteDID covers the second:  *)
(* with a call at a time the second step always has a DID, and signs away  *)
(* the address of step one from an identity that address had.              *)
EinsOf(k) == {InitialEin[k]} \cup {created[c] : c \in {d \in Calls : \E b \in body[d][1] : b.addr = k}}

DeleteKeepsItsIdentity ==
    \A c \in Calls : kind[c] = "delete" =>
        /\ \A r \in result[c] : ~(r.cause = "noDid" /\ r.step = 2)
        /\ \A b1 \in body[c][1], b2 \in body[c][2] :
              b2.sig.addr = b1.sig.addr /\ b2.sig.ein \in EinsOf(b2.sig.addr) \ {NoEin}

(* partialCreation names the identity this call created, not the DID the   *)
(* wallet had before.                                                      *)
PartialCreationNamesIdentity ==
    \A c \in Calls : \A r \in result[c] :
        kind[c] = "create" /\ r.step = 2 /\ r.cause # "success" =>
            r.did = created[c] /\ r.did # NoDid

(* When a call, one at a time, completes with success, the chain shows it: *)
(* after createDID the wallet's key has the identity of its DID and its    *)
(* public key is registered, after deleteDID the wallet's key does not     *)
(* have the identity it gave away, and has no other.  Two transactions of  *)
(* earlier calls that left their end open may come late: of a deleteDID    *)
(* for that same key, the removal of the public key; of a createDID for    *)
(* it, its identity.                                                       *)
LeftOpen(c) == \E r \in result[c] : r.cause \in {"delegatorError", "transactionUnconfirmed"}

KeyRemovedBy(d, k) == kind[d] = "delete" /\ tx[d][1] = "ok" /\ \E b \in body[d][1] : b.addr = k

ShownOnChain(c, open) ==
    LET k == key[WalletOf[c]] IN
    IF kind[c] = "create"
      THEN /\ einOf[k] = GetDid(WalletOf[c]) /\ einOf[k] # NoEin
           /\ hasPublicKey[k] \/ \E d \in open : KeyRemovedBy(d, k)
      ELSE /\ \A b \in body[c][2] : einOf[k] # b.sig.ein
           /\ einOf[k] = NoEin \/ \E d \in open : created[d] = einOf[k]

SuccessShowsOnChain ==
    [][\A c \in Calls : pc[c] # "done" /\ (\E r \in result'[c] : r.cause = "success") =>
          ShownOnChain(c, {d \in Calls : LeftOpen(d)})]_vars

(* Seen from outside, every call keeps the promise of DidOperation. *)
Phase(c) == IF pc[c] = "idle" THEN "idle" ELSE IF pc[c] = "done" THEN "ended" ELSE "running"

Effects(c) == (IF tx[c][1] = "ok" THEN 1 ELSE 0) + (IF tx[c][2] = "ok" THEN 1 ELSE 0)

Promise == INSTANCE DidOperation WITH
    phase <- [c \in Calls |-> Phase(c)],
    effects <- [c \in Calls |-> Effects(c)],
    report <- [c \in Calls |-> {[cause |-> r.cause, step |-> r.step] : r \in result[c]}]

KeepsPromise == Promise!OpSpec

-----------------------------------------------------------------------------
(* The inductive invariant behind these properties. *)

Unsent == {"deleting", "reading", "preparing", "fetching", "signing", "sending"}

Waiting == {"polling", "sleeping", "counting"}

(* A step's request is sent once, the second after the first took effect.  *)
StepInv(c) ==
    /\ pc[c] \in {"idle", "deleting", "reading"} => step[c] = 1
    /\ pc[c] \in Unsent \cup {"idle"} => body[c][step[c]] = {}
    /\ step[c] = 1 => body[c][2] = {}
    /\ step[c] = 2 => tx[c][1] = "ok"
    /\ \A s \in Steps : body[c][s] = {} => tx[c][s] \in {"none", "refused"}
    /\ pc[c] \in Waiting => tx[c][step[c]] \in {"pending", "ok", "reverted"}

(* A report is about the step the call ended in, and stays true.           *)
ReportInv(c) ==
    /\ pc[c] # "done" => result[c] = {}
    /\ \A r \in result[c] :
        /\ r.step = step[c] /\ Truthful(c, r)
        /\ r.cause \in Refusals =>
              body[c][r.step] = {} \/ (r.cause = "notReady" /\ r.step = 2)
        /\ r.cause = "success" => r.step = 2
        /\ r.cause = "eventNotFound" => r.step = 1

(* Keys and what was read with them do not disappear again while a call    *)
(* runs, and a call is made on an open wallet.                             *)
RunInv ==
    /\ \A w \in Wallets : w \notin opened => key[w] = NoKey
    /\ \A w \in Wallets : key[w] # NoKey => publicKey # NoKey
    /\ \A c \in Calls :
        /\ pc[c] \notin {"idle", "done"} => WalletOf[c] \in opened
        /\ pc[c] \in {"fetching", "signing", "sending"} =>
              registryAddress /\ key[WalletOf[c]] # NoKey
        /\ pc[c] \in {"signing", "sending"} => timeStamp # NoTime

KeyInv == RunInv /\ \A c \in Calls : pc[c] # "idle" => WalletOf[c] \in opened

CallInv == \A c \in Calls : StepInv(c) /\ ReportInv(c)

-----------------------------------------------------------------------------

(* Fairness: URLSession always answers or times out, tasks are resumed,    *)
(* and the wait for a block fetch is bounded.                              *)
FairSpec == Spec /\ \A c \in Calls : WF_vars(Proceed(c))

(* Every call that is made completes. *)
EveryCallCompletes == \A c \in Calls : pc[c] # "idle" ~> pc[c] = "done"

=============================================================================
