----------------------------- MODULE IdentityProofs -----------------------------
(***************************************************************************)
(* Proofs about the identities on the chain and the calls that create and  *)
(* delete them: first of any interleaving of calls, then of calls that are *)
(* made one at a time.                                                     *)
(***************************************************************************)
EXTENDS RefinementProofs

-----------------------------------------------------------------------------
(* The invariants. *)

(* The method of step s of an operation. *)
MethodOf(k, s) ==
    CASE k = "create" /\ s = 1 -> "create_identity"
      [] k = "create" /\ s = 2 -> "add_public_key_delegated"
      [] k = "delete" /\ s = 1 -> "remove_public_key_delegated"
      [] k = "delete" /\ s = 2 -> "remove_associated_address_delegated"

(* A step sends one request, of the method of its operation. *)
RequestInv(c) ==
    /\ \A x, y \in draft[c] : x = y
    /\ pc[c] = "idle" => \A s \in Steps : body[c][s] = {}
    /\ \A s \in Steps :
        /\ \A x, y \in body[c][s] : x = y
        /\ \A b \in body[c][s] : b.method = MethodOf(kind[c], s)

(* EINs are given out in order, to one address each, and a call has one    *)
(* exactly when its create_identity took effect.                           *)
EinInv ==
    /\ LastEin <= lastEin
    /\ \A k \in Keys : einOf[k] <= lastEin
    /\ \A k, l \in Keys : einOf[k] = einOf[l] /\ einOf[k] # NoEin => k = l
    /\ \A k \in Keys : einOf[k] # NoEin => einOf[k] \in EinsOf(k)
    /\ \A c \in Calls : created[c] <= lastEin
    /\ \A c \in Calls : created[c] # NoEin <=> kind[c] = "create" /\ tx[c][1] = "ok"

(* The EIN a removal was about is nobody's any more. *)
RemovedInv(c) ==
    kind[c] = "delete" /\ tx[c][2] = "ok" =>
        \A b \in body[c][2] :
            b.sig.ein \in 1..lastEin /\ \A k \in Keys : einOf[k] # b.sig.ein

RegistryInv == EinInv /\ \A c \in Calls : RequestInv(c) /\ RemovedInv(c)

Running(c) == pc[c] \notin {"idle", "done"}

OneAtATime == \A c, d \in Calls : Running(c) /\ Running(d) => c = d

(* A running call has counted its own polls, and those only. *)
PollInv(c) ==
    LET n == tryReceiptCount[WalletOf[c]] IN
    /\ pc[c] \in {"reading", "preparing", "fetching", "signing", "sending", "requested"} => n = 0
    /\ pc[c] \in Waiting => n <= MaxReceiptTries
    /\ pc[c] = "polling" => polls[c] = n
    /\ pc[c] \in {"sleeping", "counting"} => polls[c] = n + 1 /\ n < MaxReceiptTries
    /\ pc[c] = "counting" => seen[c] = n

(* What a running call signs and has sent is of the key the wallet has.    *)
SignInv(c) ==
    LET k == key[WalletOf[c]] IN
    /\ pc[c] \in {"reading", "fetching", "signing", "sending"} => \A d \in draft[c] : d.addr = k /\ d.key = k
    /\ Running(c) => \A s \in Steps : \A b \in body[c][s] : b.sig.key = k /\ b.sig.addr = k

(* The DID of the wallet of a running call: after create_identity that of  *)
(* the identity created; once it has been checked, that of an identity the *)
(* key had, and the second step of deleteDID is about that one.            *)
Known(w) == GetDid(w) \in EinsOf(key[w]) \ {NoEin}

DidInv(c) ==
    LET w == WalletOf[c] IN
    /\ kind[c] = "create" /\ step[c] = 2 /\ Running(c) => GetDid(w) = created[c]
    /\ pc[c] = "reading" => \A d \in draft[c] : d.ein = GetDid(w) /\ d.ein # NoEin
    /\ kind[c] = "delete" /\ Running(c) /\ pc[c] \notin {"deleting", "reading"} => Known(w)
    /\ kind[c] = "delete" /\ step[c] = 2 /\ Running(c) =>
        /\ pc[c] \in {"fetching", "signing", "sending"} => \A d \in draft[c] : d.ein = GetDid(w)
        /\ \A b \in body[c][2] : b.sig.ein = GetDid(w)

(* A call that has ended without saying what became of its transactions.   *)
OpenEnd(c) == pc[c] = "done" /\ (result[c] = {} \/ LeftOpen(c))

(* Of any other call all transactions are settled when it ends, except the *)
(* last one of deleteDID, which completes also when the answer to it tells *)
(* nothing.                                                                *)
Unsettled(c, s) == body[c][s] # {} /\ tx[c][s] \in {"none", "pending"}

RefusedInv(c) ==
    \A r \in result[c] : r.cause = "notReady" /\ r.step = 2 /\ body[c][2] # {} => kind[c] = "delete"

(* The chain shows what a running call has done.  Nobody removes the       *)
(* identity it created; a late transaction of a call with an open end may  *)
(* remove the public key, or give the address of a removed identity a new  *)
(* one.                                                                    *)
ShownInv(c) ==
    LET k == key[WalletOf[c]] IN
    Running(c) =>
        /\ kind[c] = "create" /\ tx[c][1] = "ok" =>
            /\ einOf[k] = created[c]
            /\ \A d \in Calls : kind[d] = "delete" => \A b \in body[d][2] : b.sig.ein # created[c]
        /\ kind[c] = "create" /\ tx[c][2] = "ok" =>
            hasPublicKey[k] \/ \E d \in Calls : OpenEnd(d) /\ KeyRemovedBy(d, k)
        /\ kind[c] = "delete" /\ tx[c][2] = "ok" =>
            einOf[k] = NoEin \/ \E d \in Calls : OpenEnd(d) /\ created[d] = einOf[k]

(* With one wallet, what the delegator object has is what was signed.      *)
MatchInv ==
    /\ \A w \in Wallets : key[w] # NoKey => publicKey = key[w]
    /\ \A c \in Calls : fetch[c] # {} => c \in late \/ pc[c] = "fetching"
    /\ \A c \in Calls : pc[c] \in {"signing", "sending"} =>
          \A d \in draft[c] : d.ts = timeStamp \/ late # {}

(* The invariant of calls made one at a time. *)
SeqInv ==
    /\ OneAtATime /\ PatientPolling /\ PartialCreationNamesIdentity /\ DeleteKeepsItsIdentity
    /\ \A c \in Calls : PollInv(c) /\ SignInv(c) /\ DidInv(c) /\ RefusedInv(c) /\ ShownInv(c)

-----------------------------------------------------------------------------
(* What a step may do. *)

(* A step of a call leaves the contracts alone, and writes a request only  *)
(* when it sends.                                                          *)
LEMMA OwnChain ==
  ASSUME NEW c \in Calls, Start(c) \/ Proceed(c)
  PROVE  /\ UNCHANGED <<einOf, hasPublicKey, lastEin, created, now>>
         /\ body' = body \/ Send(c)
  BY DEF Start, Proceed, Fetching, Signing, Reply, Receipt, CreateDID, CreateDIDWithSigner,
         RefuseSigner, DeleteDID, CheckDid, ReadEin, Prepare, BlockFetched, BlockMissing,
         FetchTimesOut, Sign, SignerFails, Send, ReplyTxId, ReplyError, ReplyWithoutTxId,
         GiveUpReceipt, NoReceipt, ReceiptFailed, IdentityMined, PublicKeyRemoved, SecondMined,
         ReadCount, WriteCount, chainVars

(* A call keeps its operation once it has begun. *)
LEMMA KindKept ==
  ASSUME CallTypeOK, NEW c \in Calls, Start(c) \/ Proceed(c)
  PROVE  /\ \A d \in Calls \ {c} : kind'[d] = kind[d]
         /\ pc[c] # "idle" => kind'[c] = kind[c]
<1>1. CASE Start(c)
  BY <1>1 DEF Start, CreateDID, CreateDIDWithSigner, RefuseSigner, DeleteDID, StartCreate,
              MayCall, CallTypeOK
<1>2. CASE Proceed(c)
  <2>1. UNCHANGED kind
    BY <1>2 DEF Proceed, Fetching, Signing, Reply, Receipt, CheckDid, ReadEin, Prepare,
         BlockFetched, BlockMissing, FetchTimesOut, Sign, SignerFails, Send, ReplyTxId,
         ReplyError, ReplyWithoutTxId, GiveUpReceipt, NoReceipt, ReceiptFailed, IdentityMined,
         PublicKeyRemoved, SecondMined, ReadCount, WriteCount, callVars
  <2> QED
    BY <2>1
<1> QED
  BY <1>1, <1>2

(* The history and the draft of a call are written by its own steps. *)
LEMMA NotesKept ==
  ASSUME CallTypeOK, NEW c \in Calls, Start(c) \/ Proceed(c)
  PROVE  \A d \in Calls \ {c} : draft'[d] = draft[d] /\ polls'[d] = polls[d] /\ seen'[d] = seen[d]
<1>1. draft' = draft \/ CheckDid(c) \/ Prepare(c) \/ BlockFetched(c) \/ Sign(c)
  BY DEF Start, Proceed, Fetching, Signing, Reply, Receipt, CreateDID, CreateDIDWithSigner,
         RefuseSigner, DeleteDID, ReadEin, BlockMissing,
         FetchTimesOut, SignerFails, Send, ReplyTxId, ReplyError, ReplyWithoutTxId,
         GiveUpReceipt, NoReceipt, ReceiptFailed, IdentityMined, PublicKeyRemoved, SecondMined,
         ReadCount, WriteCount, callVars
<1>2. \A d \in Calls \ {c} : draft'[d] = draft[d]
  BY <1>1 DEF CheckDid, Prepare, BlockFetched, Sign, CallTypeOK
<1>3. UNCHANGED <<polls, seen>> \/ ReplyTxId(c) \/ NoReceipt(c) \/ ReadCount(c)
  BY DEF Start, Proceed, Fetching, Signing, Reply, Receipt, CreateDID, CreateDIDWithSigner,
         RefuseSigner, DeleteDID, CheckDid, ReadEin, Prepare, BlockFetched, BlockMissing,
         FetchTimesOut, Sign, SignerFails, Send, ReplyError, ReplyWithoutTxId,
         GiveUpReceipt, ReceiptFailed, IdentityMined, PublicKeyRemoved, SecondMined,
         WriteCount, callVars
<1>4. \A d \in Calls \ {c} : polls'[d] = polls[d] /\ seen'[d] = seen[d]
  BY <1>3 DEF ReplyTxId, NoReceipt, ReadCount, CallTypeOK, callVars
<1> QED
  BY <1>2, <1>4

(* A call that takes a step has begun then, and can step only while it     *)
(* runs, but for the block fetch it did not wait for.                      *)
LEMMA StepsRun ==
  ASSUME CallTypeOK, NEW c \in Calls, Proceed(c)
  PROVE  \/ Running(c) /\ pc'[c] # "idle"
         \/ UNCHANGED <<chainVars, walletVars, callVars, registryAddress, publicKey, late>>
            /\ (BlockFetched(c) \/ BlockMissing(c)) /\ pc[c] # "fetching"
<1>1. CASE CheckDid(c) \/ ReadEin(c) \/ Prepare(c) \/ FetchTimesOut(c) \/ Signing(c) \/ Send(c)
  BY <1>1 DEF CheckDid, ReadEin, Prepare, FetchTimesOut, Signing, Sign, SignerFails, Send, Fail,
              Goto, Running, CallTypeOK
<1>2. CASE Reply(c) \/ Receipt(c) \/ ReadCount(c) \/ WriteCount(c)
  BY <1>2 DEF Reply, Receipt, ReplyTxId, ReplyError, ReplyWithoutTxId, GiveUpReceipt, NoReceipt,
              ReceiptFailed, IdentityMined, PublicKeyRemoved, SecondMined, ReadCount, WriteCount,
              HasReceipt, MayPoll, Succeed, Fail, Goto, Running, CallTypeOK
<1>3. CASE BlockFetched(c) \/ BlockMissing(c)
  BY <1>3 DEF BlockFetched, BlockMissing, Fail, Goto, Running, CallTypeOK, chainVars, walletVars, callVars
<1> QED
  BY <1>1, <1>2, <1>3 DEF Proceed, Fetching

(* A step leaves the variables of the other calls alone. *)
LEMMA OthersKept ==
  ASSUME TypeOK, NEW c \in Calls, Start(c) \/ Proceed(c), NEW d \in Calls \ {c}
  PROVE  /\ pc'[d] = pc[d] /\ kind'[d] = kind[d] /\ step'[d] = step[d] /\ result'[d] = result[d]
         /\ draft'[d] = draft[d] /\ polls'[d] = polls[d] /\ seen'[d] = seen[d]
         /\ body'[d] = body[d] /\ tx'[d] = tx[d]
  BY OthersSame, KindKept, NotesKept DEF TypeOK

(* A call begins idle, on an open wallet, with nothing sent. *)
LEMMA StartBegins ==
  ASSUME CallTypeOK, NEW c \in Calls, Start(c)
  PROVE  /\ MayCall(c) /\ pc'[c] # "idle"
         /\ UNCHANGED <<chainVars, opened, step, draft, seen, polls, timeStamp, fetch, late, metaID>>
<1>1. CASE CreateDID(c)
  BY <1>1 DEF CreateDID, StartCreate, Goto, CallTypeOK, chainVars
<1>2. CASE CreateDIDWithSigner(c)
  BY <1>2 DEF CreateDIDWithSigner, StartCreate, Goto, CallTypeOK, chainVars
<1>3. CASE RefuseSigner(c)
  BY <1>3 DEF RefuseSigner, Fail, Goto, CallTypeOK, chainVars, delegatorVars
<1>4. CASE DeleteDID(c)
  BY <1>4 DEF DeleteDID, Goto, CallTypeOK, chainVars, delegatorVars, walletVars
<1> QED
  BY <1>1, <1>2, <1>3, <1>4 DEF Start

(* What a step of a call sends is the only request of that step. *)
LEMMA BodyStep ==
  ASSUME TypeOK, CallInv, NEW c \in Calls, Start(c) \/ Proceed(c)
  PROVE  \A d \in Calls, s \in Steps :
            \/ body'[d][s] = body[d][s]
            \/ /\ d = c /\ s = step[c] /\ pc[c] = "sending" /\ body[c][s] = {}
               /\ body'[c][s] = {RequestOf(Method(c), sig) : sig \in draft[c]}
<1>1. CASE body' = body
  BY <1>1
<1>2. CASE Send(c)
  <2>1. pc[c] = "sending" /\ step[c] \in Steps /\ body \in [Calls -> [Steps -> SUBSET Requests]]
    BY <1>2 DEF Send, TypeOK, CallTypeOK, ChainTypeOK
  <2>2. body[c][step[c]] = {}
    BY <2>1 DEF CallInv, StepInv, Unsent
  <2> DEFINE new == {RequestOf(Method(c), sig) : sig \in draft[c]}
  <2>3. body' = [body EXCEPT ![c][step[c]] = new]
    BY <1>2 DEF Send
  <2> HIDE DEF new
  <2>4. \A d \in Calls, s \in Steps : body'[d][s] = IF d = c /\ s = step[c] THEN new ELSE body[d][s]
    BY <2>1, <2>3
  <2> QED
    BY <2>1, <2>2, <2>4 DEF new
<1> QED
  BY <1>1, <1>2, OwnChain

(* A configured wallet and the chain leave the calls alone. *)
LEMMA OpenKeeps ==
  ASSUME NEW w \in Wallets, Open(w)
  PROVE  UNCHANGED <<chainVars, callVars>>
  BY DEF Open, OpenStored, OpenExternal, Configure

-----------------------------------------------------------------------------
(* Identities, for any interleaving of calls. *)

(* At first there are no requests, and the EINs are the initial ones. *)
LEMMA RegistryInit == Init => RegistryInv
<1> SUFFICES ASSUME Init PROVE RegistryInv
  OBVIOUS
<1> USE DEF Init, ChainInit, Steps, NoEin
<1>1. ASSUME NEW c \in Calls PROVE RequestInv(c) /\ RemovedInv(c)
  BY DEF RequestInv, RemovedInv
<1>2. EinInv
  BY RegistryAssumption DEF EinInv, EinsOf
<1> QED
  BY <1>1, <1>2 DEF RegistryInv

(* A draft is one, and stays one. *)
LEMMA DraftStep ==
  ASSUME CallTypeOK, NEW c \in Calls, Start(c) \/ Proceed(c), \A x, y \in draft[c] : x = y
  PROVE  \A x, y \in draft'[c] : x = y
<1>1. draft' = draft \/ CheckDid(c) \/ Prepare(c) \/ BlockFetched(c) \/ Sign(c)
  BY DEF Start, Proceed, Fetching, Signing, Reply, Receipt, CreateDID, CreateDIDWithSigner,
         RefuseSigner, DeleteDID, ReadEin, BlockMissing,
         FetchTimesOut, SignerFails, Send, ReplyTxId, ReplyError, ReplyWithoutTxId,
         GiveUpReceipt, NoReceipt, ReceiptFailed, IdentityMined, PublicKeyRemoved, SecondMined,
         ReadCount, WriteCount, callVars
<1>2. CASE CheckDid(c) \/ Prepare(c)
  <2>1. draft' = draft \/ \E x : draft' = [draft EXCEPT ![c] = {x}]
    BY <1>2 DEF CheckDid, Prepare
  <2> QED
    BY <2>1 DEF CallTypeOK
<1>3. CASE BlockFetched(c)
  <2>1. PICK t : draft' = draft \/ draft' = [draft EXCEPT ![c] = {[d EXCEPT !.ts = t] : d \in @}]
    BY <1>3 DEF BlockFetched
  <2>2. draft' = draft \/ draft'[c] = {[d EXCEPT !.ts = t] : d \in draft[c]}
    BY <2>1 DEF CallTypeOK
  <2> QED
    BY <2>2
<1>4. CASE Sign(c)
  <2>1. draft'[c] = {[d EXCEPT !.key = key[WalletOf[c]]] : d \in draft[c]}
    BY <1>4 DEF Sign, CallTypeOK
  <2> QED
    BY <2>1
<1> QED
  BY <1>1, <1>2, <1>3, <1>4

(* The requests of a call stay one each, of the methods of its operation. *)
LEMMA RequestStep ==
  ASSUME TypeOK, CallInv, NEW c \in Calls, Start(c) \/ Proceed(c), \A d \in Calls : RequestInv(d)
  PROVE  \A d \in Calls : RequestInv(d)'
<1>0. CallTypeOK
  BY DEF TypeOK
<1>1. ASSUME NEW d \in Calls \ {c} PROVE RequestInv(d)'
  BY <1>1, OthersKept DEF RequestInv
<1>2. \A x, y \in draft'[c] : x = y
  BY <1>0, DraftStep DEF RequestInv
<1>3. pc'[c] # "idle" \/ UNCHANGED <<pc, body>>
  BY <1>0, StartBegins, StepsRun DEF chainVars, callVars
<1>4. ASSUME NEW s \in Steps
      PROVE  /\ \A x, y \in body'[c][s] : x = y
             /\ \A b \in body'[c][s] : b.method = MethodOf(kind'[c], s)
  <2>1. CASE body'[c][s] = body[c][s]
    <3>1. pc[c] = "idle" => body[c][s] = {}
      BY DEF RequestInv
    <3>2. pc[c] # "idle" => kind'[c] = kind[c]
      BY <1>0, KindKept
    <3> QED
      BY <2>1, <3>1, <3>2 DEF RequestInv
  <2>2. CASE /\ s = step[c] /\ pc[c] = "sending"
             /\ body'[c][s] = {RequestOf(Method(c), sig) : sig \in draft[c]}
    <3>1. kind'[c] = kind[c]
      BY <1>0, <2>2, KindKept
    <3>2. Method(c) = MethodOf(kind'[c], s)
      BY <2>2, <3>1 DEF Method, MethodOf
    <3>3. \A sig \in draft[c] : RequestOf(Method(c), sig).method = Method(c)
      BY DEF RequestOf
    <3>4. \A x, y \in draft[c] : x = y
      BY DEF RequestInv
    <3> QED
      BY <2>2, <3>2, <3>3, <3>4
  <2> QED
    BY <2>1, <2>2, BodyStep
<1>5. RequestInv(c)'
  BY <1>2, <1>3, <1>4 DEF RequestInv
<1> QED
  BY <1>1, <1>5

(* An address keeps the EINs it was given: requests are never taken back,  *)
(* and created[c] is written once.                                         *)
LEMMA EinsGrow ==
  ASSUME \A c \in Calls : body[c][1] \subseteq body'[c][1],
         \A c \in Calls : created[c] # NoEin => created'[c] = created[c],
         NEW k
  PROVE  EinsOf(k) \ {NoEin} \subseteq EinsOf(k)'
<1> SUFFICES ASSUME NEW e \in EinsOf(k), e # NoEin PROVE e \in EinsOf(k)'
  OBVIOUS
<1>1. CASE e = InitialEin[k]
  BY <1>1 DEF EinsOf
<1>2. CASE e # InitialEin[k]
  <2>1. PICK c \in Calls : e = created[c] /\ \E b \in body[c][1] : b.addr = k
    BY <1>2 DEF EinsOf
  <2>2. created'[c] = e /\ \E b \in body'[c][1] : b.addr = k
    BY <2>1
  <2> QED
    BY <2>2 DEF EinsOf
<1> QED
  BY <1>1, <1>2

(* A call has no EIN and no transaction before it has sent a request. *)
LEMMA NoRequestNoTx ==
  ASSUME CallInv, NEW c \in Calls, NEW s \in Steps, body[c][s] = {}
  PROVE  tx[c][s] \in {"none", "refused"}
  BY DEF CallInv, StepInv

(* A step of a call keeps the registry's part of the invariant. *)
LEMMA OwnRegistry ==
  ASSUME TypeOK, CallInv, RegistryInv, NEW c \in Calls, Start(c) \/ Proceed(c)
  PROVE  EinInv' /\ \A d \in Calls : RemovedInv(d)'
<1>0. CallTypeOK
  BY DEF TypeOK
<1>1. UNCHANGED <<einOf, lastEin, created>>
  BY OwnChain
<1>2. \A d \in Calls, s \in Steps : tx'[d][s] = "ok" <=> tx[d][s] = "ok"
  BY OwnTransactions
<1>3. \A d \in Calls, s \in Steps : tx[d][s] = "ok" => kind'[d] = kind[d] /\ body'[d][s] = body[d][s]
  <2> SUFFICES ASSUME NEW d \in Calls, NEW s \in Steps, tx[d][s] = "ok"
               PROVE  kind'[d] = kind[d] /\ body'[d][s] = body[d][s]
    OBVIOUS
  <2>1. body[d][s] # {}
    BY NoRequestNoTx
  <2>2. pc[d] # "idle"
    BY <2>1 DEF RegistryInv, RequestInv
  <2> QED
    BY <1>0, <2>1, <2>2, KindKept, BodyStep
<1>4. ASSUME NEW d \in Calls
      PROVE  created[d] # NoEin <=> kind'[d] = "create" /\ tx'[d][1] = "ok"
  <2>1. created[d] # NoEin <=> kind[d] = "create" /\ tx[d][1] = "ok"
    BY DEF RegistryInv, EinInv
  <2> QED
    BY <1>2, <1>3, <2>1 DEF Steps
<1>5. \A k \in Keys : einOf[k] # NoEin => einOf[k] \in EinsOf(k)'
  <2>1. \A d \in Calls, s \in Steps : body[d][s] \subseteq body'[d][s]
    BY BodyStep
  <2>2. \A d \in Calls : body[d][1] \subseteq body'[d][1]
    BY <2>1 DEF Steps
  <2>3. \A k \in Keys : einOf[k] # NoEin => einOf[k] \in EinsOf(k)
    BY DEF RegistryInv, EinInv
  <2>4. \A k : EinsOf(k) \ {NoEin} \subseteq EinsOf(k)'
    BY <1>1, <2>2, EinsGrow
  <2> QED
    BY <2>3, <2>4
<1>6. EinInv'
  BY <1>1, <1>4, <1>5 DEF RegistryInv, EinInv
<1>7. \A d \in Calls : RemovedInv(d)'
  BY <1>1, <1>2, <1>3 DEF RegistryInv, RemovedInv, Steps
<1> QED
  BY <1>6, <1>7

(* Of the chain only a mined transaction writes the registry. *)
LEMMA QuietSteps ==
  ASSUME ChainTypeOK, NextBlock \/ \E c \in Calls, s \in Steps : Submit(c, s) \/ MineReverted(c, s)
  PROVE  /\ UNCHANGED <<einOf, hasPublicKey, lastEin, created, body>>
         /\ \A d \in Calls, s \in Steps : tx'[d][s] = "ok" <=> tx[d][s] = "ok"
<1>1. CASE NextBlock
  BY <1>1 DEF NextBlock
<1>2. ASSUME NEW c \in Calls, NEW s \in Steps, Submit(c, s) \/ MineReverted(c, s)
      PROVE  /\ UNCHANGED <<einOf, hasPublicKey, lastEin, created, body>>
             /\ \A d \in Calls, t \in Steps : tx'[d][t] = "ok" <=> tx[d][t] = "ok"
  <2>1. tx[c][s] # "ok" /\ \E l : l # "ok" /\ tx' = [tx EXCEPT ![c][s] = l]
    BY <1>2 DEF Submit, MineReverted
  <2>2. tx \in [Calls -> [Steps -> TxStates]]
    BY DEF ChainTypeOK
  <2>3. \A d \in Calls, t \in Steps : tx'[d][t] = "ok" <=> tx[d][t] = "ok"
    BY <2>1, <2>2
  <2> QED
    BY <1>2, <2>3 DEF Submit, MineReverted
<1> QED
  BY <1>1, <1>2

(* Its other steps keep the invariant. *)
LEMMA QuietChain ==
  ASSUME ChainTypeOK, RegistryInv, OffChain,
         NextBlock \/ \E c \in Calls, s \in Steps : Submit(c, s) \/ MineReverted(c, s)
  PROVE  RegistryInv'
<1>1. /\ UNCHANGED <<einOf, hasPublicKey, lastEin, created, body, pc, kind, step, draft>>
      /\ \A d \in Calls, s \in Steps : tx'[d][s] = "ok" <=> tx[d][s] = "ok"
  BY QuietSteps DEF OffChain, callVars
<1>2. \A k \in Keys : EinsOf(k)' = EinsOf(k)
  BY <1>1 DEF EinsOf
<1>3. \A d \in Calls : tx'[d][1] = "ok" <=> tx[d][1] = "ok"
  BY <1>1 DEF Steps
<1>4. EinInv'
  BY <1>1, <1>2, <1>3 DEF RegistryInv, EinInv
<1>5. \A d \in Calls : tx'[d][2] = "ok" <=> tx[d][2] = "ok"
  BY <1>1 DEF Steps
<1>6. ASSUME NEW d \in Calls PROVE RequestInv(d)' /\ RemovedInv(d)'
  BY <1>1, <1>5 DEF RegistryInv, RequestInv, RemovedInv
<1> QED
  BY <1>4, <1>6 DEF RegistryInv

(* A transaction that takes effect is the one its step sent. *)
LEMMA Mined ==
  ASSUME TypeOK, NEW c \in Calls, RequestInv(c), NEW s \in Steps, MineOk(c, s), OffChain
  PROVE  /\ UNCHANGED <<now, body>> /\ UNCHANGED callVars
         /\ tx[c][s] = "pending"
         /\ \A d \in Calls, t \in Steps : tx'[d][t] = IF d = c /\ t = s THEN "ok" ELSE tx[d][t]
         /\ \E b \in body[c][s] :
               /\ Accepts(b) /\ Apply(c, b)
               /\ b.method = MethodOf(kind[c], s) /\ body[c][s] = {b}
               /\ b.addr \in Keys /\ b.sig.addr = b.addr /\ b.sig.ein \in Nat
<1>1. UNCHANGED <<now, body>> /\ UNCHANGED callVars /\ tx[c][s] = "pending"
  BY DEF MineOk, OffChain
<1>2. tx' = [tx EXCEPT ![c][s] = "ok"] /\ tx \in [Calls -> [Steps -> TxStates]]
  BY DEF MineOk, TypeOK, ChainTypeOK
<1>3. \A d \in Calls, t \in Steps : tx'[d][t] = IF d = c /\ t = s THEN "ok" ELSE tx[d][t]
  BY <1>2
<1>4. PICK b \in body[c][s] : Accepts(b) /\ Apply(c, b)
  BY DEF MineOk
<1>5. b \in Requests
  BY DEF TypeOK, ChainTypeOK
<1>6. b.addr \in Keys /\ b.sig.ein \in Nat
  BY <1>5 DEF Requests, Signed
<1>7. b.sig.addr = b.addr
  BY <1>4 DEF Accepts, Authentic
<1>8. b.method = MethodOf(kind[c], s) /\ body[c][s] = {b}
  BY DEF RequestInv
<1> QED
  BY <1>1, <1>3, <1>4, <1>6, <1>7, <1>8

(* What each kind of transaction does. *)
LEMMA MinedCases ==
  ASSUME TypeOK, NEW c \in Calls, NEW s \in Steps, NEW b, b.addr \in Keys, b.sig.addr = b.addr,
         b.method = MethodOf(kind[c], s), Accepts(b), Apply(c, b)
  PROVE  \/ /\ kind[c] = "create" /\ s = 1 /\ einOf[b.addr] = NoEin
            /\ einOf' = [einOf EXCEPT ![b.addr] = lastEin + 1]
            /\ created' = [created EXCEPT ![c] = lastEin + 1] /\ lastEin' = lastEin + 1
         \/ /\ kind[c] = "create" /\ s = 2 /\ UNCHANGED <<einOf, created, lastEin>>
            /\ einOf[b.addr] # NoEin
            /\ hasPublicKey' = [hasPublicKey EXCEPT ![b.addr] = TRUE]
         \/ /\ kind[c] = "delete" /\ s = 1 /\ UNCHANGED <<einOf, created, lastEin>>
            /\ einOf[b.addr] # NoEin
            /\ hasPublicKey' = [hasPublicKey EXCEPT ![b.addr] = FALSE]
         \/ /\ kind[c] = "delete" /\ s = 2 /\ UNCHANGED <<created, lastEin, hasPublicKey>>
            /\ einOf[b.addr] # NoEin /\ b.sig.ein = einOf[b.addr]
            /\ einOf' = [einOf EXCEPT ![b.addr] = NoEin]
<1>1. kind[c] \in {"create", "delete"} /\ s \in {1, 2}
  BY DEF TypeOK, CallTypeOK, Kinds, Steps
<1>2. CASE kind[c] = "create" /\ s = 1
  BY <1>2 DEF MethodOf, Apply, Accepts
<1>3. CASE kind[c] = "create" /\ s = 2
  <2>1. b.method = "add_public_key_delegated"
    BY <1>3 DEF MethodOf
  <2> QED
    BY <1>3, <2>1 DEF Apply, Accepts
<1>4. CASE kind[c] = "delete" /\ s = 1
  <2>1. b.method = "remove_public_key_delegated"
    BY <1>4 DEF MethodOf
  <2> QED
    BY <1>4, <2>1 DEF Apply, Accepts
<1>5. CASE kind[c] = "delete" /\ s = 2
  <2>1. b.method = "remove_associated_address_delegated"
    BY <1>5 DEF MethodOf
  <2>2. hasPublicKey' = [hasPublicKey EXCEPT ![b.addr] = hasPublicKey[b.addr]]
    <3>1. hasPublicKey[b.addr] \in BOOLEAN
      BY DEF TypeOK, ChainTypeOK
    <3> DEFINE h == hasPublicKey[b.addr]
    <3>2. hasPublicKey' = [hasPublicKey EXCEPT ![b.addr] = FALSE \/ (TRUE /\ h)]
      BY <2>1 DEF Apply
    <3>3. (FALSE \/ (TRUE /\ h)) = h
      BY <3>1
    <3> QED
      BY <3>2, <3>3
  <2>3. UNCHANGED hasPublicKey
    BY <2>2 DEF TypeOK, ChainTypeOK
  <2> QED
    BY <1>5, <2>1, <2>3 DEF Apply, Accepts, Authentic
<1> QED
  BY <1>1, <1>2, <1>3, <1>4, <1>5

(* It keeps the registry's part of the invariant: a new EIN is nobody's,   *)
(* and the EIN of a removed address was that address's only.               *)
LEMMA MinedRegistry ==
  ASSUME TypeOK, RegistryInv, NEW c \in Calls, NEW s \in Steps, MineOk(c, s), OffChain
  PROVE  RegistryInv'
<1>0. RequestInv(c) /\ EinInv
  BY DEF RegistryInv
<1>1. /\ UNCHANGED body /\ UNCHANGED callVars /\ tx[c][s] = "pending"
      /\ \A d \in Calls, t \in Steps : tx'[d][t] = IF d = c /\ t = s THEN "ok" ELSE tx[d][t]
  BY <1>0, Mined
<1>2. PICK b \in body[c][s] :
           /\ Accepts(b) /\ Apply(c, b) /\ b.method = MethodOf(kind[c], s) /\ body[c][s] = {b}
           /\ b.addr \in Keys /\ b.sig.addr = b.addr /\ b.sig.ein \in Nat
  BY <1>0, Mined
<1>3. ASSUME NEW d \in Calls PROVE RequestInv(d)'
  BY <1>1 DEF RegistryInv, RequestInv, callVars
<1>4. /\ einOf \in [Keys -> Nat] /\ created \in [Calls -> Nat] /\ lastEin \in Nat /\ NoEin \in Nat
      /\ LastEin \in Nat
  BY RegistryAssumption DEF TypeOK, ChainTypeOK, NoEin
<1>5. UNCHANGED kind
  BY <1>1 DEF callVars
<1>6. CASE /\ kind[c] = "create" /\ s = 1 /\ einOf[b.addr] = NoEin
           /\ einOf' = [einOf EXCEPT ![b.addr] = lastEin + 1]
           /\ created' = [created EXCEPT ![c] = lastEin + 1] /\ lastEin' = lastEin + 1
  <2>1. created[c] = NoEin
    BY <1>0, <1>1, <1>6 DEF EinInv
  <2>2. /\ LastEin <= lastEin' /\ \A k \in Keys : einOf'[k] <= lastEin'
        /\ \A d \in Calls : created'[d] <= lastEin'
    BY <1>0, <1>4, <1>6 DEF EinInv
  <2>3. \A k, l \in Keys : einOf'[k] = einOf'[l] /\ einOf'[k] # NoEin => k = l
    <3>1. \A k \in Keys : einOf[k] # lastEin + 1
      BY <1>0, <1>4 DEF EinInv
    <3> QED
      BY <1>0, <1>4, <1>6, <3>1 DEF EinInv
  <2>4. \A k \in Keys : einOf'[k] # NoEin => einOf'[k] \in EinsOf(k)'
    <3>1. \A k \in Keys : EinsOf(k) \ {NoEin} \subseteq EinsOf(k)'
      <4>1. \A d \in Calls : body[d][1] \subseteq body'[d][1]
        BY <1>1
      <4>2. \A d \in Calls : created[d] # NoEin => created'[d] = created[d]
        BY <1>4, <1>6, <2>1
      <4> QED
        BY <4>1, <4>2, EinsGrow
    <3>2. created'[c] = lastEin + 1 /\ \E x \in body'[c][1] : x.addr = b.addr
      BY <1>1, <1>2, <1>4, <1>6
    <3>3. lastEin + 1 \in EinsOf(b.addr)'
      BY <3>2 DEF EinsOf
    <3> QED
      BY <1>0, <1>4, <1>6, <3>1, <3>3 DEF EinInv
  <2>5. \A d \in Calls : created'[d] # NoEin <=> kind'[d] = "create" /\ tx'[d][1] = "ok"
    BY <1>0, <1>1, <1>4, <1>5, <1>6 DEF EinInv, Steps, NoEin
  <2>6. ASSUME NEW d \in Calls PROVE RemovedInv(d)'
    <3>1. tx'[d][2] = "ok" /\ kind'[d] = "delete" => tx[d][2] = "ok" /\ kind[d] = "delete"
      BY <1>1, <1>5, <1>6 DEF Steps
    <3>2. body[d][2] \in SUBSET Requests
      BY DEF TypeOK, ChainTypeOK, Steps
    <3>3. \A x \in body[d][2] : x.sig.ein \in Nat
      BY <3>2 DEF Requests, Signed
    <3> QED
      BY <1>1, <1>4, <1>6, <3>1, <3>3 DEF RegistryInv, RemovedInv
  <2> QED
    BY <1>3, <2>2, <2>3, <2>4, <2>5, <2>6 DEF RegistryInv, EinInv
<1>7. CASE UNCHANGED <<einOf, created, lastEin>> /\ ~(kind[c] = "create" /\ s = 1)
           /\ ~(kind[c] = "delete" /\ s = 2)
  <2>1. \A k \in Keys : EinsOf(k)' = EinsOf(k)
    BY <1>1, <1>7 DEF EinsOf
  <2>2. \A d \in Calls : created'[d] # NoEin <=> kind'[d] = "create" /\ tx'[d][1] = "ok"
    BY <1>0, <1>1, <1>5, <1>7 DEF EinInv, Steps
  <2>3. EinInv'
    BY <1>0, <1>7, <2>1, <2>2 DEF EinInv
  <2>4. ASSUME NEW d \in Calls PROVE RemovedInv(d)'
    <3>1. tx'[d][2] = "ok" /\ kind'[d] = "delete" => tx[d][2] = "ok" /\ kind[d] = "delete"
      BY <1>1, <1>5, <1>7 DEF Steps
    <3> QED
      BY <1>1, <1>7, <3>1 DEF RegistryInv, RemovedInv
  <2> QED
    BY <1>3, <2>3, <2>4 DEF RegistryInv
<1>8. CASE /\ kind[c] = "delete" /\ s = 2 /\ UNCHANGED <<created, lastEin>>
           /\ einOf[b.addr] # NoEin /\ b.sig.ein = einOf[b.addr]
           /\ einOf' = [einOf EXCEPT ![b.addr] = NoEin]
  <2>1. \A k \in Keys : EinsOf(k)' = EinsOf(k)
    BY <1>1, <1>8 DEF EinsOf
  <2>2. \A d \in Calls : created'[d] # NoEin <=> kind'[d] = "create" /\ tx'[d][1] = "ok"
    BY <1>0, <1>1, <1>5, <1>8 DEF EinInv, Steps
  <2>3. \A k \in Keys : einOf'[k] = IF k = b.addr THEN NoEin ELSE einOf[k]
    BY <1>4, <1>8
  <2>4. EinInv'
    BY <1>0, <1>4, <1>8, <2>1, <2>2, <2>3 DEF EinInv, NoEin
  <2>5. \A k \in Keys : einOf'[k] # b.sig.ein
    BY <1>0, <1>2, <1>8, <2>3 DEF EinInv
  <2>6. ASSUME NEW d \in Calls, d # c PROVE RemovedInv(d)'
    <3>1. tx'[d][2] = "ok" /\ kind'[d] = "delete" => tx[d][2] = "ok" /\ kind[d] = "delete"
      BY <1>1, <1>5, <2>6 DEF Steps
    <3>2. tx'[d][2] = "ok" /\ kind'[d] = "delete" =>
             \A x \in body[d][2] : x.sig.ein \in 1..lastEin /\ \A k \in Keys : einOf[k] # x.sig.ein
      BY <3>1 DEF RegistryInv, RemovedInv
    <3>3. body'[d][2] = body[d][2] /\ lastEin' = lastEin
      BY <1>1, <1>8
    <3>4. kind'[d] = "delete" /\ tx'[d][2] = "ok" =>
             \A x \in body'[d][2] : x.sig.ein \in 1..lastEin' /\ \A k \in Keys : einOf'[k] # x.sig.ein
      BY <2>3, <3>2, <3>3 DEF NoEin
    <3> QED
      BY <3>4 DEF RemovedInv
  <2>7. RemovedInv(c)'
    <3>1. b.sig.ein \in 1..lastEin
      BY <1>0, <1>2, <1>4, <1>8 DEF EinInv, NoEin
    <3> QED
      BY <1>1, <1>2, <1>8, <2>5, <3>1 DEF RemovedInv
  <2> QED
    BY <1>3, <2>4, <2>6, <2>7 DEF RegistryInv
<1> QED
  BY <1>2, <1>6, <1>7, <1>8, MinedCases

(* It depends on the chain and the calls only. *)
LEMMA RegistryKept == ASSUME RegistryInv, UNCHANGED <<chainVars, callVars>> PROVE RegistryInv'
<1>1. \A k : EinsOf(k)' = EinsOf(k)
  BY DEF EinsOf, chainVars
<1>2. EinInv'
  BY <1>1 DEF RegistryInv, EinInv, chainVars, callVars
<1> QED
  BY <1>2 DEF RegistryInv, RequestInv, RemovedInv, chainVars, callVars

(* Every step of the wallets keeps the registry's invariant. *)
LEMMA RegistryStep ==
  ASSUME TypeOK, CallInv, RegistryInv, [Next]_vars
  PROVE  RegistryInv'
<1>0. ChainTypeOK
  BY DEF TypeOK
<1>1. UNCHANGED <<chainVars, callVars>> => RegistryInv'
  BY RegistryKept
<1>2. ASSUME NEW w \in Wallets, Open(w) PROVE RegistryInv'
  BY <1>1, <1>2, OpenKeeps
<1>3. ASSUME NEW c \in Calls, Start(c) \/ Proceed(c) PROVE RegistryInv'
  <2>1. \A d \in Calls : RequestInv(d)'
    BY <1>0, <1>3, RequestStep DEF RegistryInv
  <2>2. EinInv' /\ \A d \in Calls : RemovedInv(d)'
    BY <1>0, <1>3, OwnRegistry
  <2> QED
    BY <2>1, <2>2 DEF RegistryInv
<1>4. CASE Chain
  <2>1. ASSUME NEW c \in Calls, NEW s \in Steps, MineOk(c, s) PROVE RegistryInv'
    BY <1>0, <1>4, <2>1, MinedRegistry DEF Chain
  <2> QED
    BY <1>0, <1>4, <2>1, QuietChain DEF Chain
<1>5. CASE UNCHANGED vars
  BY <1>1, <1>5 DEF vars
<1> QED
  BY <1>2, <1>3, <1>4, <1>5 DEF Next

(* However calls interleave, and whatever wallets and delegators they      *)
(* share: an EIN is given to one address and never again, an address has   *)
(* an EIN only from a create_identity that named it, a call that asks for  *)
(* a transaction asks for one, and the identity a deleteDID removed stays  *)
(* removed.                                                                *)
THEOREM RegistrySound == Spec => []RegistryInv
<1>1. Init => RegistryInv
  BY RegistryInit
<1>2. IInv /\ RegistryInv /\ [Next]_vars => RegistryInv'
  BY RegistryStep DEF IInv
<1> QED
  BY <1>1, <1>2, Inductive, PTL DEF Spec

-----------------------------------------------------------------------------
(* Calls made one at a time: what the steps do to the wallets. *)

(* Storing what getDid() returns does not change what it returns. *)
LEMMA GetDidKept ==
  ASSUME WalletTypeOK, NEW w \in Wallets, CacheDid(w) \/ UNCHANGED did, UNCHANGED metaID
  PROVE  \A v \in Wallets : GetDid(v)' = GetDid(v)
  BY DEF CacheDid, GetDid, WalletTypeOK

(* A call that proceeds keeps the key, and the DID until it has made one. *)
LEMMA ProceedWallet ==
  ASSUME TypeOK, NEW c \in Calls, Proceed(c)
  PROVE  /\ UNCHANGED <<key, external, opened, publicKey>>
         /\ IdentityMined(c) \/ \A v \in Wallets : GetDid(v)' = GetDid(v)
<1>1. UNCHANGED <<key, external, opened, publicKey>>
  BY DEF Proceed, Fetching, Signing, Reply, Receipt, CheckDid, ReadEin, Prepare, BlockFetched,
         BlockMissing, FetchTimesOut, Sign, SignerFails, Send, ReplyTxId, ReplyError,
         ReplyWithoutTxId, GiveUpReceipt, NoReceipt, ReceiptFailed, IdentityMined,
         PublicKeyRemoved, SecondMined, ReadCount, WriteCount, delegatorVars, walletVars
<1>2. IdentityMined(c) \/ (UNCHANGED metaID /\ (CacheDid(WalletOf[c]) \/ UNCHANGED did))
  BY DEF Proceed, Fetching, Signing, Reply, Receipt, CheckDid, ReadEin, Prepare, BlockFetched,
         BlockMissing, FetchTimesOut, Sign, SignerFails, Send, ReplyTxId, ReplyError,
         ReplyWithoutTxId, GiveUpReceipt, NoReceipt, ReceiptFailed, Fail,
         PublicKeyRemoved, SecondMined, ReadCount, WriteCount, walletVars
<1>3. WalletOf[c] \in Wallets /\ WalletTypeOK
  BY WalletAssumption DEF TypeOK
<1> QED
  BY <1>1, <1>2, <1>3, GetDidKept

(* One that is made may change the key of its wallet only. *)
LEMMA StartWallet ==
  ASSUME TypeOK, NEW c \in Calls, Start(c)
  PROVE  /\ \A v \in Wallets : v # WalletOf[c] => key'[v] = key[v]
         /\ \A v \in Wallets : GetDid(v)' = GetDid(v)
<1>1. key' = key \/ \E k : key' = [key EXCEPT ![WalletOf[c]] = k]
  BY DEF Start, CreateDID, CreateDIDWithSigner, RefuseSigner, DeleteDID, StartCreate, walletVars
<1>2. UNCHANGED metaID /\ (CacheDid(WalletOf[c]) \/ UNCHANGED did)
  BY DEF Start, CreateDID, CreateDIDWithSigner, RefuseSigner, DeleteDID, Fail, walletVars
<1>3. WalletOf[c] \in Wallets /\ WalletTypeOK
  BY WalletAssumption DEF TypeOK
<1>4. \A v \in Wallets : v # WalletOf[c] => key'[v] = key[v]
  BY <1>1, <1>3 DEF WalletTypeOK
<1> QED
  BY <1>2, <1>3, <1>4, GetDidKept

(* The block fetch of a call that has ended completes. *)
LateFetch == UNCHANGED <<chainVars, walletVars, callVars, registryAddress, publicKey, late>>

(* While a call runs no other is made, so a step is that of the only one,  *)
(* or of the fetch of one that has ended.                                  *)
LEMMA Alone ==
  ASSUME Sequential, TypeOK, OneAtATime, NEW c \in Calls, Start(c) \/ Proceed(c)
  PROVE  \/ LateFetch /\ Proceed(c)
         \/ \A d \in Calls : d # c => ~Running(d) /\ ~Running(d)'
<1>0. CallTypeOK
  BY DEF TypeOK
<1>1. CASE Start(c)
  <2>1. \A d \in Calls : ~Running(d)
    BY <1>0, <1>1, StartBegins DEF MayCall, Active, Running
  <2> QED
    BY <2>1, OthersKept DEF Running
<1>2. CASE Proceed(c)
  <2>1. Running(c) \/ LateFetch
    BY <1>0, <1>2, StepsRun DEF LateFetch
  <2> QED
    BY <1>2, <2>1, OthersKept DEF OneAtATime, Running
<1> QED
  BY <1>1, <1>2

(* What a failing call reports. *)
LEMMA FailReport ==
  ASSUME CallTypeOK, NEW c \in Calls, NEW why, Fail(c, why), NEW r \in result'[c]
  PROVE  /\ r.cause = why /\ r.step = step[c]
         /\ r.step = 2 => r.did = GetDid(WalletOf[c])
<1>1. CASE step[c] = 1
  <2>1. r = [cause |-> why, step |-> 1, did |-> NoDid]
    BY <1>1 DEF Fail, CallTypeOK
  <2> QED
    BY <1>1, <2>1
<1>2. CASE step[c] = 2
  <2> DEFINE e == GetDid(WalletOf[c])
  <2>1. r = [cause |-> why, step |-> 2, did |-> e]
    BY <1>2 DEF Fail, CallTypeOK
  <2> HIDE DEF e
  <2>2. r.cause = why /\ r.step = 2 /\ r.did = e
    BY <2>1
  <2> QED
    BY <1>2, <2>2 DEF e
<1> QED
  BY <1>1, <1>2 DEF CallTypeOK, Steps

(* Which action of a call makes which report. *)
OtherErrors ==
    {"conflictingKeyMode", "signerError", "notReady", "delegatorError", "transactionFailed"}

ReportedBy(c, r) ==
    /\ r.cause = "success" => SecondMined(c)
    /\ r.cause = "transactionUnconfirmed" => GiveUpReceipt(c)
    /\ r.cause = "noDid" => (CheckDid(c) /\ r.step = 1) \/ (Prepare(c) /\ Fail(c, "noDid"))
    /\ r.cause = "didDoesNotMatchKey" => ReadEin(c)
    /\ r.cause = "notReady" /\ r.step = 2 => body[c][2] = {} \/ ReplyWithoutTxId(c)
    /\ r.step = 2 /\ r.cause # "success" => step[c] = 2 /\ r.did = GetDid(WalletOf[c])

(* No other action makes it. *)
LEMMA Causes ==
  ASSUME TypeOK, CallInv, NEW c \in Calls, Start(c) \/ Proceed(c), NEW r \in result'[c], r \notin result[c]
  PROVE  ReportedBy(c, r)
<1>0. CallTypeOK
  BY DEF TypeOK
<1>1. ASSUME NEW why \in OtherErrors, Fail(c, why),
             why = "notReady" => pc[c] \in Unsent \/ ReplyWithoutTxId(c) \/ pc[c] = "idle"
      PROVE  ReportedBy(c, r)
  <2>1. r.cause = why /\ r.step = step[c] /\ (r.step = 2 => r.did = GetDid(WalletOf[c]))
    BY <1>0, <1>1, FailReport
  <2>2. pc[c] \in Unsent \cup {"idle"} => body[c][step[c]] = {}
    BY DEF CallInv, StepInv
  <2> QED
    BY <1>1, <2>1, <2>2 DEF ReportedBy, OtherErrors
<1>2. CASE UNCHANGED result
  BY <1>2
<1>3. CASE Start(c)
  <2>1. UNCHANGED result \/ RefuseSigner(c)
    BY <1>3 DEF Start, CreateDID, CreateDIDWithSigner, DeleteDID
  <2>2. CASE RefuseSigner(c)
    <3>1. Fail(c, "conflictingKeyMode") \/ Fail(c, "signerError")
      BY <2>2 DEF RefuseSigner
    <3> QED
      BY <1>1, <3>1 DEF OtherErrors
  <2> QED
    BY <1>2, <2>1, <2>2
<1>4. CASE CheckDid(c)
  <2>1. CASE \E why \in {"noDid", "notReady"} :
                result' = [result EXCEPT ![c] = {[cause |-> why, step |-> 1, did |-> NoDid]}]
    <3>1. PICK why \in {"noDid", "notReady"} :
                result' = [result EXCEPT ![c] = {[cause |-> why, step |-> 1, did |-> NoDid]}]
      BY <2>1
    <3>2. r = [cause |-> why, step |-> 1, did |-> NoDid]
      BY <1>0, <3>1 DEF CallTypeOK
    <3>3. r.cause = why /\ r.step = 1
      BY <3>2
    <3> QED
      BY <1>4, <3>1, <3>3 DEF ReportedBy
  <2> QED
    BY <1>2, <1>4, <2>1 DEF CheckDid
<1>5. \A why : Fail(c, why) => r.cause = why /\ r.step = step[c] /\ (r.step = 2 => r.did = GetDid(WalletOf[c]))
  BY <1>0, FailReport
<1>7. CASE ReadEin(c)
  <2>1. CASE Fail(c, "didDoesNotMatchKey")
    BY <1>5, <1>7, <2>1 DEF ReportedBy
  <2> QED
    BY <1>1, <1>2, <1>7, <2>1 DEF ReadEin, OtherErrors, Unsent
<1>8. CASE Prepare(c)
  <2>1. CASE Fail(c, "noDid")
    BY <1>5, <1>8, <2>1 DEF ReportedBy
  <2>2. pc[c] \in Unsent /\ (UNCHANGED result \/ Fail(c, "notReady") \/ Fail(c, "noDid"))
    BY <1>8 DEF Prepare, Unsent
  <2> QED
    BY <1>1, <1>2, <2>1, <2>2 DEF OtherErrors
<1>9. CASE Fetching(c) \/ Signing(c) \/ Send(c)
  <2>1. UNCHANGED result \/ (pc[c] \in Unsent /\ (Fail(c, "notReady") \/ Fail(c, "signerError")))
    BY <1>9 DEF Fetching, BlockFetched, BlockMissing, FetchTimesOut, Signing, Sign, SignerFails,
                Send, Unsent
  <2> QED
    BY <1>1, <1>2, <2>1 DEF OtherErrors
<1>10. CASE Reply(c)
  <2>1. \/ UNCHANGED result
        \/ Fail(c, "delegatorError") \/ (ReplyWithoutTxId(c) /\ Fail(c, "notReady"))
    BY <1>10 DEF Reply, ReplyTxId, ReplyError, ReplyWithoutTxId
  <2> QED
    BY <1>1, <1>2, <2>1 DEF OtherErrors
<1>11. CASE GiveUpReceipt(c)
  <2>1. Fail(c, "transactionUnconfirmed")
    BY <1>11 DEF GiveUpReceipt
  <2> QED
    BY <1>5, <1>11, <2>1 DEF ReportedBy
<1>12. CASE NoReceipt(c) \/ ReceiptFailed(c) \/ PublicKeyRemoved(c) \/ ReadCount(c) \/ WriteCount(c)
  <2>1. UNCHANGED result \/ Fail(c, "transactionFailed")
    BY <1>12 DEF NoReceipt, ReceiptFailed, PublicKeyRemoved, ReadCount, WriteCount
  <2> QED
    BY <1>1, <1>2, <2>1 DEF OtherErrors
<1>13. CASE IdentityMined(c)
  <2>1. CASE result' = [result EXCEPT ![c] = {[cause |-> "eventNotFound", step |-> 1, did |-> NoDid]}]
    <3>1. r = [cause |-> "eventNotFound", step |-> 1, did |-> NoDid]
      BY <1>0, <2>1 DEF CallTypeOK
    <3>2. r.cause = "eventNotFound" /\ r.step = 1
      BY <3>1
    <3> QED
      BY <3>2 DEF ReportedBy
  <2> QED
    BY <1>2, <1>13, <2>1 DEF IdentityMined
<1>14. CASE SecondMined(c)
  <2>1. r = [cause |-> "success", step |-> 2, did |-> NoDid]
    BY <1>0, <1>14 DEF SecondMined, Succeed, CallTypeOK
  <2>2. r.cause = "success"
    BY <2>1
  <2> QED
    BY <1>14, <2>2 DEF ReportedBy
<1> QED
  BY <1>3, <1>4, <1>7, <1>8, <1>9, <1>10, <1>11, <1>12, <1>13, <1>14 DEF Proceed, Receipt

-----------------------------------------------------------------------------
(* The polls of a call, made one at a time. *)

(* A call's own steps keep its count. *)
LEMMA PollOwn ==
  ASSUME TypeOK, NEW c \in Calls, PollInv(c), Start(c) \/ Proceed(c)
  PROVE  PollInv(c)'
<1> DEFINE w == WalletOf[c]
<1>0. /\ pc \in [Calls -> Pcs] /\ polls \in [Calls -> Nat] /\ seen \in [Calls -> Nat]
      /\ tryReceiptCount \in [Wallets -> Nat] /\ w \in Wallets /\ MaxReceiptTries \in Nat \ {0}
  BY WalletAssumption DEF TypeOK, CallTypeOK, WalletTypeOK
<1>1. ASSUME pc'[c] \in {"deleting", "lost", "done"} PROVE PollInv(c)'
  BY <1>1 DEF PollInv, Waiting
<1>2. ASSUME pc'[c] \in {"reading", "preparing", "fetching", "signing", "sending", "requested"},
             tryReceiptCount'[w] = 0
      PROVE  PollInv(c)'
  BY <1>2 DEF PollInv, Waiting
<1>3. CASE CreateDID(c) \/ CreateDIDWithSigner(c)
  <2>1. pc'[c] = "preparing" /\ tryReceiptCount'[w] = 0
    BY <1>0, <1>3 DEF CreateDID, CreateDIDWithSigner, StartCreate, Goto
  <2> QED
    BY <1>2, <2>1
<1>4. CASE RefuseSigner(c) \/ DeleteDID(c)
  BY <1>0, <1>1, <1>4 DEF RefuseSigner, DeleteDID, Fail, Goto
<1>5. CASE CheckDid(c)
  BY <1>0, <1>1, <1>2, <1>5 DEF CheckDid, Goto
<1>6. CASE ReadEin(c) \/ Prepare(c) \/ Signing(c) \/ Send(c) \/ FetchTimesOut(c)
  <2>1. /\ tryReceiptCount' = tryReceiptCount
        /\ pc[c] \in {"reading", "preparing", "fetching", "signing", "sending"}
        /\ pc'[c] \in {"preparing", "fetching", "signing", "sending", "requested", "done"}
    BY <1>0, <1>6 DEF ReadEin, Prepare, Signing, Sign, SignerFails, Send, FetchTimesOut, Fail, Goto,
                      walletVars
  <2> QED
    BY <1>1, <1>2, <2>1 DEF PollInv
<1>7. CASE BlockFetched(c) \/ BlockMissing(c)
  <2>1. /\ tryReceiptCount' = tryReceiptCount /\ polls' = polls /\ seen' = seen
        /\ pc' = pc \/ (pc[c] = "fetching" /\ pc'[c] \in {"signing", "done"})
    BY <1>0, <1>7 DEF BlockFetched, BlockMissing, Fail, Goto, walletVars
  <2> QED
    BY <1>1, <1>2, <2>1 DEF PollInv
<1>8. CASE Reply(c)
  <2>1. /\ pc[c] = "requested" /\ tryReceiptCount' = tryReceiptCount
        /\ pc'[c] \in {"lost", "done"} \/ (pc'[c] = "polling" /\ polls'[c] = 0)
    BY <1>0, <1>8 DEF Reply, ReplyTxId, ReplyError, ReplyWithoutTxId, Fail, Goto, walletVars
  <2> QED
    BY <1>0, <1>1, <2>1 DEF PollInv, Waiting
<1>9. CASE GiveUpReceipt(c) \/ ReceiptFailed(c) \/ SecondMined(c)
  BY <1>0, <1>1, <1>9 DEF GiveUpReceipt, ReceiptFailed, SecondMined, Succeed, Fail, Goto
<1>10. CASE IdentityMined(c) \/ PublicKeyRemoved(c)
  BY <1>0, <1>1, <1>2, <1>10 DEF IdentityMined, PublicKeyRemoved, HasReceipt, Goto
<1>11. CASE NoReceipt(c)
  <2>1. /\ pc[c] = "polling" /\ pc'[c] = "sleeping" /\ polls'[c] = polls[c] + 1
        /\ tryReceiptCount' = tryReceiptCount /\ tryReceiptCount[w] < MaxReceiptTries
    BY <1>0, <1>11 DEF NoReceipt, MayPoll, Goto, walletVars
  <2> QED
    BY <1>0, <2>1 DEF PollInv, Waiting
<1>12. CASE ReadCount(c)
  <2>1. /\ pc[c] = "sleeping" /\ pc'[c] = "counting" /\ seen'[c] = tryReceiptCount[w]
        /\ tryReceiptCount' = tryReceiptCount /\ polls' = polls
    BY <1>0, <1>12 DEF ReadCount, Goto, walletVars
  <2> QED
    BY <1>0, <2>1 DEF PollInv, Waiting
<1>13. CASE WriteCount(c)
  <2>1. /\ pc[c] = "counting" /\ pc'[c] = "polling" /\ tryReceiptCount'[w] = seen[c] + 1
        /\ polls' = polls
    BY <1>0, <1>13 DEF WriteCount, Goto
  <2> QED
    BY <1>0, <2>1 DEF PollInv, Waiting
<1> QED
  BY <1>3, <1>4, <1>5, <1>6, <1>7, <1>8, <1>9, <1>10, <1>11, <1>12, <1>13
     DEF Start, Proceed, Fetching, Receipt

(* It gives up only when the count is full. *)
LEMMA PatientOwn ==
  ASSUME TypeOK, CallInv, PatientPolling, NEW c \in Calls, PollInv(c), Start(c) \/ Proceed(c)
  PROVE  PatientPolling'
<1> SUFFICES ASSUME NEW d \in Calls, NEW r \in result'[d], r.cause = "transactionUnconfirmed"
             PROVE  polls'[d] = MaxReceiptTries
  BY DEF PatientPolling
<1>1. CASE d # c
  BY <1>1, OthersKept DEF PatientPolling
<1>2. CASE d = c /\ r \in result[c]
  <2>1. pc[c] = "done"
    BY <1>2 DEF CallInv, ReportInv
  <2>2. polls' = polls
    BY <2>1, StepsRun, StartBegins DEF TypeOK, Running, MayCall, callVars
  <2> QED
    BY <1>2, <2>2 DEF PatientPolling
<1>3. CASE d = c /\ r \notin result[c]
  <2>1. GiveUpReceipt(c)
    BY <1>3, Causes DEF ReportedBy
  <2>2. pc[c] = "polling" /\ tryReceiptCount[WalletOf[c]] >= MaxReceiptTries /\ polls' = polls
    BY <2>1 DEF GiveUpReceipt
  <2>3. tryReceiptCount[WalletOf[c]] \in Nat /\ MaxReceiptTries \in Nat
    BY WalletAssumption DEF TypeOK, WalletTypeOK
  <2> QED
    BY <1>3, <2>2, <2>3 DEF PollInv, Waiting
<1> QED
  BY <1>1, <1>2, <1>3

-----------------------------------------------------------------------------
(* What a call signs, made one at a time. *)

(* Where a call has a draft. *)
Drafted == {"reading", "fetching", "signing", "sending"}

(* The draft a step of a call writes. *)
LEMMA DraftOwn ==
  ASSUME TypeOK, NEW c \in Calls, Start(c) \/ Proceed(c)
  PROVE  \/ draft'[c] = draft[c] /\ (pc'[c] \in Drafted => pc'[c] = pc[c])
         \/ /\ CheckDid(c) /\ pc'[c] = "reading"
            /\ \E d : /\ draft'[c] = {d} /\ d.ein = EinFromDid(GetDid(WalletOf[c])) /\ d.ein # NoEin
                      /\ d.addr = key[WalletOf[c]] /\ d.key = key[WalletOf[c]]
         \/ /\ Prepare(c) /\ pc'[c] = "fetching"
            /\ \E d : /\ draft'[c] = {d}
                      /\ d.addr = key[WalletOf[c]] /\ d.key = key[WalletOf[c]]
                      /\ Method(c) = "remove_associated_address_delegated" =>
                            d.ein = EinFromDid(GetDid(WalletOf[c])) /\ d.ein # NoEin
         \/ /\ pc[c] = "fetching" /\ pc'[c] = "signing"
            /\ \E t : timeStamp' = t /\ draft'[c] = {[d EXCEPT !.ts = t] : d \in draft[c]}
         \/ /\ pc[c] = "signing" /\ pc'[c] = "sending" /\ UNCHANGED timeStamp
            /\ draft'[c] = {[d EXCEPT !.key = key[WalletOf[c]]] : d \in draft[c]}
<1>0. pc \in [Calls -> Pcs] /\ draft \in [Calls -> SUBSET Signed]
  BY DEF TypeOK, CallTypeOK
<1>1. \/ draft' = draft /\ (pc'[c] \in Drafted => pc'[c] = pc[c])
      \/ CheckDid(c) \/ Prepare(c) \/ BlockFetched(c) \/ Sign(c)
  <2> DEFINE Kept == draft' = draft /\ (pc'[c] \in Drafted => pc'[c] = pc[c])
  <2>1. ASSUME Start(c) PROVE Kept
    BY <1>0, <2>1 DEF Start, CreateDID, CreateDIDWithSigner, StartCreate, RefuseSigner, DeleteDID,
                      Fail, Goto, Drafted
  <2>2. ASSUME ReadEin(c) \/ BlockMissing(c) \/ FetchTimesOut(c) \/ SignerFails(c) \/ Send(c)
        PROVE  Kept
    BY <1>0, <2>2 DEF ReadEin, BlockMissing, FetchTimesOut, SignerFails, Send, Fail, Goto, Drafted
  <2>3. ASSUME Reply(c) \/ ReadCount(c) \/ WriteCount(c) PROVE Kept
    BY <1>0, <2>3 DEF Reply, ReplyTxId, ReplyError, ReplyWithoutTxId, ReadCount, WriteCount, Fail,
                      Goto, Drafted
  <2>4. ASSUME Receipt(c) PROVE Kept
    BY <1>0, <2>4 DEF Receipt, GiveUpReceipt, NoReceipt, ReceiptFailed, IdentityMined,
                      PublicKeyRemoved, SecondMined, Succeed, Fail, Goto, Drafted
  <2> QED
    BY <2>1, <2>2, <2>3, <2>4 DEF Proceed, Fetching, Signing
<1> DEFINE k == key[WalletOf[c]]
           ein == EinFromDid(GetDid(WalletOf[c]))
<1>2. CASE CheckDid(c)
  <2>1. CASE pc'[c] = "reading"
    <3> DEFINE x == [addr |-> k, ein |-> ein, ts |-> NoTime, key |-> k]
    <3>1. pc'[c] = "reading" /\ draft'[c] = {x} /\ ein # NoEin
      BY <1>0, <1>2, <2>1 DEF CheckDid, Goto
    <3> HIDE DEF k, ein
    <3>2. x.addr = k /\ x.ein = ein /\ x.key = k
      OBVIOUS
    <3> HIDE DEF x
    <3> QED
      BY <1>2, <3>1, <3>2 DEF k, ein
  <2>2. CASE pc'[c] # "reading"
    BY <1>0, <1>2, <2>2 DEF CheckDid, Goto, Drafted
  <2> QED
    BY <2>1, <2>2
<1>3. CASE Prepare(c)
  <2>1. CASE pc'[c] = "fetching"
    <3> DEFINE removes == Method(c) = "remove_associated_address_delegated"
               e == IF removes THEN ein ELSE NoEin
               x == [addr |-> k, ein |-> e, ts |-> NoTime, key |-> k]
    <3>1. pc'[c] = "fetching" /\ draft'[c] = {x} /\ (removes => e # NoEin)
      BY <1>0, <1>3, <2>1 DEF Prepare, Fail, Goto
    <3>2. removes => e = ein
      OBVIOUS
    <3> HIDE DEF k, ein, e
    <3>3. x.addr = k /\ x.ein = e /\ x.key = k
      OBVIOUS
    <3> HIDE DEF x
    <3> QED
      BY <1>3, <3>1, <3>2, <3>3 DEF k, ein
  <2>2. CASE pc'[c] # "fetching"
    BY <1>0, <1>3, <2>2 DEF Prepare, Fail, Goto, Drafted
  <2> QED
    BY <2>1, <2>2
<1>4. CASE BlockFetched(c)
  BY <1>0, <1>4 DEF BlockFetched, StoreTimeStamp, Goto
<1>5. CASE Sign(c)
  BY <1>0, <1>5 DEF Sign, Goto, delegatorVars
<1> QED
  BY <1>1, <1>2, <1>3, <1>4, <1>5

(* What a request carries of its draft. *)
LEMMA SentDraft ==
  ASSUME TypeOK, CallInv, NEW c \in Calls, Start(c) \/ Proceed(c),
         NEW s \in Steps, NEW b \in body'[c][s], b \notin body[c][s]
  PROVE  /\ pc[c] = "sending" /\ s = step[c] /\ body[c][s] = {} /\ Proceed(c)
         /\ \E d \in draft[c] : b = RequestOf(Method(c), d) /\ b.sig = d
                                /\ b.addr = publicKey /\ b.ts = timeStamp
<1>1. /\ s = step[c] /\ pc[c] = "sending" /\ body[c][s] = {}
      /\ body'[c][s] = {RequestOf(Method(c), sig) : sig \in draft[c]}
  BY BodyStep
<1>2. PICK d \in draft[c] : b = RequestOf(Method(c), d)
  BY <1>1
<1>3. b.sig = d /\ b.addr = publicKey /\ b.ts = timeStamp
  BY <1>2 DEF RequestOf
<1>4. ~Start(c)
  BY <1>1 DEF Start, CreateDID, CreateDIDWithSigner, RefuseSigner, DeleteDID, MayCall
<1> QED
  BY <1>1, <1>2, <1>3, <1>4

(* A call's own steps sign with the wallet's key, which stays. *)
LEMMA SignOwn ==
  ASSUME TypeOK, CallInv, NEW c \in Calls, RequestInv(c), SignInv(c), Start(c) \/ Proceed(c)
  PROVE  SignInv(c)'
<1>0. CallTypeOK
  BY DEF TypeOK
<1> DEFINE k == key[WalletOf[c]]
<1>1. CASE Start(c)
  <2>1. pc[c] = "idle" /\ body' = body
    BY <1>0, <1>1, StartBegins DEF MayCall, chainVars
  <2>2. pc'[c] \notin Drafted
    BY <2>1, DraftOwn DEF Drafted, CheckDid, Prepare
  <2> QED
    BY <2>1, <2>2 DEF SignInv, RequestInv, Drafted
<1>2. CASE Proceed(c)
  <2>1. key' = key
    BY <1>2, ProceedWallet
  <2>2. ASSUME pc'[c] \in Drafted, NEW d \in draft'[c] PROVE d.addr = k /\ d.key = k
    <3>1. CASE draft'[c] = draft[c] /\ pc'[c] = pc[c]
      BY <2>2, <3>1 DEF SignInv, Drafted
    <3>2. CASE \E x : draft'[c] = {x} /\ x.addr = k /\ x.key = k
      BY <2>2, <3>2
    <3>3. CASE /\ pc[c] = "fetching"
               /\ \E t : draft'[c] = {[x EXCEPT !.ts = t] : x \in draft[c]}
      <4>0. PICK t : draft'[c] = {[x EXCEPT !.ts = t] : x \in draft[c]}
        BY <3>3
      <4>1. PICK x \in draft[c] : d = [x EXCEPT !.ts = t]
        BY <2>2, <4>0
      <4>2. x \in Signed /\ x.addr = k /\ x.key = k
        BY <1>0, <3>3 DEF CallTypeOK, SignInv
      <4>3. d.addr = x.addr /\ d.key = x.key
        BY <4>1, <4>2 DEF Signed
      <4> QED
        BY <4>2, <4>3
    <3>4. CASE /\ pc[c] = "signing"
               /\ draft'[c] = {[x EXCEPT !.key = k] : x \in draft[c]}
      <4>1. PICK x \in draft[c] : d = [x EXCEPT !.key = k]
        BY <2>2, <3>4
      <4>2. x \in Signed /\ x.addr = k
        BY <1>0, <3>4 DEF CallTypeOK, SignInv
      <4>3. d.addr = x.addr /\ d.key = k
        BY <4>1, <4>2 DEF Signed
      <4> QED
        BY <4>2, <4>3
    <3> QED
      BY <2>2, <3>1, <3>2, <3>3, <3>4, DraftOwn
  <2>3. ASSUME Running(c)', NEW s \in Steps, NEW b \in body'[c][s]
        PROVE  b.sig.key = k /\ b.sig.addr = k
    <3>1. CASE b \in body[c][s]
      <4>1. Running(c)
        BY <1>0, <1>2, <2>3, StepsRun DEF Running, callVars
      <4> QED
        BY <3>1, <4>1 DEF SignInv
    <3>2. CASE b \notin body[c][s]
      BY <2>3, <3>2, SentDraft DEF SignInv
    <3> QED
      BY <3>1, <3>2
  <2> QED
    BY <2>1, <2>2, <2>3 DEF SignInv, Drafted
<1> QED
  BY <1>1, <1>2

(* The check of deleteDID has found the identity of the wallet's key. *)
LEMMA CheckFinds ==
  ASSUME TypeOK, EinInv, NEW c \in Calls, SignInv(c), DidInv(c), ReadEin(c), pc'[c] # "done"
  PROVE  Known(WalletOf[c])
<1>1. PICK d \in draft[c] : einOf[d.addr] = d.ein
  BY DEF ReadEin, Fail, Goto, TypeOK, CallTypeOK
<1>2. pc[c] = "reading" /\ d \in Signed
  BY DEF ReadEin, TypeOK, CallTypeOK
<1>3. d.addr = key[WalletOf[c]] /\ d.ein = GetDid(WalletOf[c]) /\ d.ein # NoEin /\ d.addr \in Keys
  BY <1>1, <1>2 DEF SignInv, DidInv, Signed
<1> QED
  BY <1>1, <1>3 DEF EinInv, Known

(* An EIN is read from every DID of an identity. *)
LEMMA KnownIsEin ==
  ASSUME TypeOK, NEW w \in Wallets, key[w] \in Keys, Known(w)
  PROVE  GetDid(w) \in Nat \ {NoEin} /\ EinFromDid(GetDid(w)) = GetDid(w)
<1>1. InitialEin[key[w]] \in Nat /\ \A c \in Calls : created[c] \in Nat
  BY RegistryAssumption DEF TypeOK, ChainTypeOK
<1>2. EinsOf(key[w]) \subseteq Nat
  BY <1>1 DEF EinsOf
<1> QED
  BY <1>2, WalletAssumption DEF Known, EinFromDid

(* What a wallet knows of its key stays known. *)
LEMMA KnownStays ==
  ASSUME NEW w \in Wallets, Known(w), UNCHANGED key, GetDid(w)' = GetDid(w),
         \A c \in Calls : body[c][1] \subseteq body'[c][1],
         \A c \in Calls : created[c] # NoEin => created'[c] = created[c]
  PROVE  Known(w)'
<1>1. PICK k : k = key[w]
  OBVIOUS
<1>2. EinsOf(k) \ {NoEin} \subseteq EinsOf(k)'
  BY EinsGrow
<1> QED
  BY <1>1, <1>2 DEF Known, EinsOf

(* Where a call is in its operation, before and after a step of its own. *)
LEMMA StepOwn ==
  ASSUME TypeOK, NEW c \in Calls, Proceed(c)
  PROVE  \/ step'[c] = step[c]
         \/ /\ step[c] = 1 /\ step'[c] = 2 /\ pc'[c] = "preparing"
            /\ IdentityMined(c) \/ PublicKeyRemoved(c)
<1>1. UNCHANGED step \/ IdentityMined(c) \/ PublicKeyRemoved(c)
  BY DEF Proceed, Fetching, Signing, Reply, Receipt, CheckDid, ReadEin, Prepare, BlockFetched,
         BlockMissing, FetchTimesOut, Sign, SignerFails, Send, ReplyTxId, ReplyError,
         ReplyWithoutTxId, GiveUpReceipt, NoReceipt, ReceiptFailed, SecondMined, ReadCount,
         WriteCount, callVars
<1>2. pc \in [Calls -> Pcs] /\ step \in [Calls -> Steps]
  BY DEF TypeOK, CallTypeOK
<1>3. CASE IdentityMined(c)
  BY <1>2, <1>3 DEF IdentityMined, Goto
<1>4. CASE PublicKeyRemoved(c)
  BY <1>2, <1>4 DEF PublicKeyRemoved, Goto
<1> QED
  BY <1>1, <1>3, <1>4

(* Where the check of deleteDID leads. *)
LEMMA CheckOwn ==
  ASSUME TypeOK, NEW c \in Calls, Proceed(c)
  PROVE  /\ pc[c] = "deleting" => pc'[c] \in {"deleting", "reading", "done"}
         /\ pc[c] = "reading" => pc'[c] = "reading" \/ ReadEin(c)
<1>0. pc \in [Calls -> Pcs]
  BY DEF TypeOK, CallTypeOK
<1>1. CASE CheckDid(c) \/ ReadEin(c)
  BY <1>0, <1>1 DEF CheckDid, ReadEin, Goto
<1>2. CASE Prepare(c) \/ FetchTimesOut(c) \/ Signing(c) \/ Send(c) \/ ReadCount(c) \/ WriteCount(c)
  BY <1>2 DEF Prepare, FetchTimesOut, Signing, Sign, SignerFails, Send, ReadCount, WriteCount
<1>3. CASE Reply(c) \/ Receipt(c)
  BY <1>3 DEF Reply, ReplyTxId, ReplyError, ReplyWithoutTxId, Receipt, GiveUpReceipt, NoReceipt,
              ReceiptFailed, IdentityMined, PublicKeyRemoved, SecondMined, HasReceipt, MayPoll
<1>4. CASE BlockFetched(c) \/ BlockMissing(c)
  BY <1>4 DEF BlockFetched, BlockMissing
<1> QED
  BY <1>1, <1>2, <1>3, <1>4 DEF Proceed, Fetching

(* A call's own steps keep what it knows of its identity. *)
LEMMA DidOwn ==
  ASSUME TypeOK, CallInv, EinInv, NEW c \in Calls, RequestInv(c), SignInv(c), DidInv(c),
         Start(c) \/ Proceed(c)
  PROVE  DidInv(c)'
<1>0. CallTypeOK /\ WalletTypeOK /\ WalletOf[c] \in Wallets
  BY WalletAssumption DEF TypeOK
<1> DEFINE w == WalletOf[c]
<1>1. CASE Start(c)
  <2>1. pc[c] = "idle" /\ step[c] = 1 /\ step' = step /\ body' = body /\ body[c][2] = {}
    BY <1>0, <1>1, StartBegins DEF MayCall, chainVars, CallInv, StepInv, RequestInv, Steps
  <2>2. pc'[c] \in {"deleting", "done"} \/ (pc'[c] = "preparing" /\ kind'[c] = "create")
    BY <1>0, <1>1 DEF Start, CreateDID, CreateDIDWithSigner, StartCreate, RefuseSigner, DeleteDID,
                      Fail, Goto, CallTypeOK
  <2> QED
    BY <2>1, <2>2 DEF DidInv, Running
<1>2. CASE Proceed(c)
  <2>1. key' = key /\ kind'[c] = kind[c] /\ created' = created
    BY <1>0, <1>2, ProceedWallet, OwnChain, KindKept, StepsRun DEF Running, callVars
  <2>2. Running(c)' => Running(c)
    BY <1>0, <1>2, StepsRun DEF Running, callVars
  <2>3. CASE IdentityMined(c)
    <3>1. kind[c] = "create" /\ (pc'[c] = "done" \/ (pc'[c] = "preparing" /\ GetDid(w)' = created[c]))
      BY <1>0, <2>3 DEF IdentityMined, Goto, GetDid, CallTypeOK, WalletTypeOK
    <3> QED
      BY <2>1, <3>1 DEF DidInv, Running
  <2>4. CASE ~IdentityMined(c)
    <3>1. GetDid(w)' = GetDid(w)
      BY <1>0, <1>2, <2>4, ProceedWallet
    <3>2. step'[c] = 2 /\ step[c] = 1 => PublicKeyRemoved(c) /\ pc'[c] = "preparing"
      BY <1>2, <2>4, StepOwn
    <3>3. kind'[c] = "create" /\ step'[c] = 2 /\ Running(c)' => GetDid(w)' = created'[c]
      BY <1>0, <2>1, <2>2, <3>1, <3>2 DEF DidInv, PublicKeyRemoved, CallTypeOK, Steps
    <3>4. ASSUME pc'[c] = "reading", NEW d \in draft'[c] PROVE d.ein = GetDid(w) /\ d.ein # NoEin
      <4>1. CASE draft'[c] = draft[c] /\ pc'[c] = pc[c]
        BY <3>4, <4>1 DEF DidInv
      <4>2. CASE \E x : draft'[c] = {x} /\ x.ein = EinFromDid(GetDid(w)) /\ x.ein # NoEin
        BY <3>4, <4>2 DEF EinFromDid
      <4> QED
        BY <3>4, <4>1, <4>2, DraftOwn DEF Drafted
    <3>5. \A d \in Calls : body[d][1] \subseteq body'[d][1]
      BY BodyStep DEF Steps
    <3>6. ASSUME kind[c] = "delete", Running(c)', pc'[c] \notin {"deleting", "reading"} PROVE Known(w)'
      <4>1. pc[c] # "deleting" /\ (pc[c] = "reading" => ReadEin(c) /\ pc'[c] # "done")
        BY <1>2, <2>2, <3>6, CheckOwn DEF Running
      <4>2. Known(w)
        BY <2>2, <3>6, <4>1, CheckFinds DEF DidInv
      <4> QED
        BY <1>0, <2>1, <3>1, <3>5, <4>2, KnownStays
    <3>7. ASSUME kind[c] = "delete", step'[c] = 2, Running(c)'
          PROVE  /\ pc'[c] \in {"fetching", "signing", "sending"} => \A d \in draft'[c] : d.ein = GetDid(w)
                 /\ \A b \in body'[c][2] : b.sig.ein = GetDid(w)
      <4>1. CASE step[c] = 1
        <5>1. body'[c][2] = {}
          BY <1>0, <4>1, BodyStep DEF CallInv, StepInv, Steps
        <5> QED
          BY <3>2, <3>7, <4>1, <5>1
      <4>2. CASE step[c] = 2
        <5>1. Method(c) = "remove_associated_address_delegated"
          BY <3>7, <4>2 DEF Method
        <5>2. ASSUME pc'[c] \in {"fetching", "signing", "sending"}, NEW d \in draft'[c]
              PROVE  d.ein = GetDid(w)
          <6>1. CASE draft'[c] = draft[c] /\ pc'[c] = pc[c]
            BY <2>2, <3>7, <4>2, <5>2, <6>1 DEF DidInv
          <6>2. CASE \E x : draft'[c] = {x} /\ x.ein = EinFromDid(GetDid(w)) /\ x.ein # NoEin
            BY <5>2, <6>2 DEF EinFromDid
          <6>3. CASE \E x \in draft[c] : /\ pc[c] \in {"fetching", "signing"} /\ d.ein = x.ein
            BY <2>2, <3>7, <4>2, <6>3 DEF DidInv
          <6>4. CASE /\ pc[c] = "fetching"
                     /\ \E t : draft'[c] = {[x EXCEPT !.ts = t] : x \in draft[c]}
            <7>1. PICK t : draft'[c] = {[x EXCEPT !.ts = t] : x \in draft[c]}
              BY <6>4
            <7>2. PICK x \in draft[c] : d = [x EXCEPT !.ts = t]
              BY <5>2, <7>1
            <7>3. x \in Signed
              BY <1>0 DEF CallTypeOK
            <7> QED
              BY <6>3, <6>4, <7>2, <7>3 DEF Signed
          <6>5. CASE /\ pc[c] = "signing"
                     /\ draft'[c] = {[x EXCEPT !.key = key[w]] : x \in draft[c]}
            <7>1. PICK x \in draft[c] : d = [x EXCEPT !.key = key[w]]
              BY <5>2, <6>5
            <7>2. x \in Signed
              BY <1>0 DEF CallTypeOK
            <7> QED
              BY <6>3, <6>5, <7>1, <7>2 DEF Signed
          <6> QED
            BY <5>1, <5>2, <6>1, <6>2, <6>4, <6>5, DraftOwn DEF Drafted
        <5>3. ASSUME NEW b \in body'[c][2] PROVE b.sig.ein = GetDid(w)
          <6>1. CASE b \in body[c][2]
            BY <2>2, <3>7, <4>2, <6>1 DEF DidInv
          <6>2. CASE b \notin body[c][2]
            BY <2>2, <3>7, <4>2, <5>3, <6>2, SentDraft DEF DidInv, Steps
          <6> QED
            BY <6>1, <6>2
        <5> QED
          BY <5>2, <5>3
      <4> QED
        BY <1>0, <4>1, <4>2 DEF CallTypeOK, Steps
    <3> QED
      BY <2>1, <3>1, <3>3, <3>4, <3>6, <3>7 DEF DidInv
  <2> QED
    BY <2>3, <2>4
<1> QED
  BY <1>1, <1>2

(* Only a running call reports, and what it reported before stays. *)
LEMMA Reporting ==
  ASSUME TypeOK, CallInv, NEW c \in Calls, Start(c) \/ Proceed(c), NEW r \in result'[c]
  PROVE  \/ r \in result[c] /\ pc[c] = "done" /\ kind'[c] = kind[c]
         \/ /\ r \notin result[c] /\ body' = body
            /\ step[c] = 2 => Running(c) /\ Proceed(c) /\ kind'[c] = kind[c]
<1>0. CallTypeOK
  BY DEF TypeOK
<1>1. CASE r \in result[c]
  <2>1. pc[c] = "done"
    BY <1>1 DEF CallInv, ReportInv
  <2> QED
    BY <1>0, <1>1, <2>1, KindKept
<1>2. CASE r \notin result[c]
  <2>1. body' = body
    BY <1>2, OwnChain DEF Send
  <2>2. step[c] = 2 => ~Start(c)
    BY <1>0, StartBegins DEF MayCall, CallInv, StepInv
  <2>3. Proceed(c) => Running(c)
    BY <1>0, <1>2, StepsRun DEF callVars
  <2> QED
    BY <1>0, <1>2, <2>1, <2>2, <2>3, KindKept DEF Running
<1> QED
  BY <1>1, <1>2

(* A call's own steps keep the promise of partialCreation, ... *)
LEMMA PartialOwn ==
  ASSUME TypeOK, CallInv, EinInv, PartialCreationNamesIdentity, NEW c \in Calls, DidInv(c),
         Start(c) \/ Proceed(c)
  PROVE  PartialCreationNamesIdentity'
<1> SUFFICES ASSUME NEW d \in Calls, NEW r \in result'[d], kind'[d] = "create", r.step = 2, r.cause # "success"
             PROVE  r.did = created'[d] /\ r.did # NoDid
  BY DEF PartialCreationNamesIdentity
<1>1. created' = created
  BY OwnChain
<1>2. CASE d # c
  BY <1>1, <1>2, OthersKept DEF PartialCreationNamesIdentity
<1>3. CASE d = c /\ r \in result[c]
  BY <1>1, <1>3, Reporting DEF PartialCreationNamesIdentity
<1>4. CASE d = c /\ r \notin result[c]
  <2>1. step[c] = 2 /\ r.did = GetDid(WalletOf[c])
    BY <1>4, Causes DEF ReportedBy
  <2>2. Running(c) /\ kind[c] = "create"
    BY <1>4, <2>1, Reporting
  <2>3. created[c] # NoEin
    BY <2>1, <2>2 DEF CallInv, StepInv, EinInv
  <2> QED
    BY <1>1, <1>4, <2>1, <2>2, <2>3 DEF DidInv, NoDid
<1> QED
  BY <1>2, <1>3, <1>4

(* ... leave only the last transaction of deleteDID unaccounted for, ... *)
LEMMA RefusedOwn ==
  ASSUME TypeOK, CallInv, NEW c \in Calls, RefusedInv(c), Start(c) \/ Proceed(c)
  PROVE  RefusedInv(c)'
<1> SUFFICES ASSUME NEW r \in result'[c], r.cause = "notReady", r.step = 2, body'[c][2] # {}
             PROVE  kind'[c] = "delete"
  BY DEF RefusedInv
<1>1. CASE r \in result[c]
  <2>1. pc[c] = "done" /\ kind'[c] = kind[c]
    BY <1>1, Reporting
  <2>2. body' = body
    BY <2>1, OwnChain DEF Send
  <2> QED
    BY <1>1, <2>1, <2>2 DEF RefusedInv
<1>2. CASE r \notin result[c]
  <2>1. body' = body /\ step[c] = 2 /\ kind'[c] = kind[c]
    BY <1>2, Causes, Reporting DEF ReportedBy
  <2>2. ReplyWithoutTxId(c)
    BY <1>2, <2>1, Causes DEF ReportedBy
  <2>3. CompletesWithoutTxId(Method(c))
    BY <1>2, <2>2 DEF ReplyWithoutTxId
  <2>4. kind[c] \in {"create", "delete"}
    BY DEF TypeOK, CallTypeOK, Kinds
  <2> QED
    BY <2>1, <2>3, <2>4 DEF CompletesWithoutTxId, Method
<1> QED
  BY <1>1, <1>2

(* ... and keep deleteDID to the identity it has checked. *)
LEMMA DeleteOwn ==
  ASSUME TypeOK, CallInv, EinInv, DeleteKeepsItsIdentity, NEW c \in Calls, SignInv(c), DidInv(c),
         RequestInv(c), Start(c) \/ Proceed(c)
  PROVE  DeleteKeepsItsIdentity'
<1> DEFINE w == WalletOf[c]
<1>0. CallTypeOK /\ w \in Wallets
  BY WalletAssumption DEF TypeOK
<1>1. \A k : EinsOf(k) \ {NoEin} \subseteq EinsOf(k)'
  <2>1. \A d \in Calls : body[d][1] \subseteq body'[d][1]
    BY BodyStep DEF Steps
  <2>2. created' = created
    BY OwnChain
  <2> QED
    BY <2>1, <2>2, EinsGrow
<1>2. ASSUME NEW d \in Calls, d # c, kind'[d] = "delete"
      PROVE  /\ \A r \in result'[d] : ~(r.cause = "noDid" /\ r.step = 2)
             /\ \A b1 \in body'[d][1], b2 \in body'[d][2] :
                    b2.sig.addr = b1.sig.addr /\ b2.sig.ein \in EinsOf(b2.sig.addr)' \ {NoEin}
  <2>1. kind[d] = "delete" /\ result'[d] = result[d] /\ body'[d] = body[d]
    BY <1>2, OthersKept
  <2> QED
    BY <1>1, <2>1 DEF DeleteKeepsItsIdentity
<1>3. ASSUME NEW r \in result'[c], kind'[c] = "delete", r.cause = "noDid", r.step = 2 PROVE FALSE
  <2>1. r \notin result[c]
    BY <1>3, Reporting DEF DeleteKeepsItsIdentity
  <2>2. Prepare(c) /\ step[c] = 2
    BY <1>3, <2>1, Causes DEF ReportedBy
  <2>3. pc[c] = "preparing" /\ kind[c] = "delete"
    BY <1>3, <2>1, <2>2, Reporting DEF Prepare
  <2>4. Known(w)
    BY <2>2, <2>3 DEF DidInv, Running
  <2>5. ~Fail(c, "notReady")
    BY <1>0, <1>3, FailReport
  <2>6. key[w] # NoKey /\ EinFromDid(GetDid(w)) = NoEin
    BY <2>1, <2>2, <2>5 DEF Prepare
  <2>7. key[w] \in Keys
    BY <1>0, <2>6 DEF TypeOK, WalletTypeOK
  <2> QED
    BY <1>0, <2>4, <2>6, <2>7, KnownIsEin
<1>4. ASSUME kind'[c] = "delete", NEW b1 \in body'[c][1], NEW b2 \in body'[c][2]
      PROVE  b2.sig.addr = b1.sig.addr /\ b2.sig.ein \in EinsOf(b2.sig.addr)' \ {NoEin}
  <2>1. step[c] = 2 /\ body'[c][1] = body[c][1]
    <3>1. body[c][2] # {} => step[c] = 2
      BY <1>0 DEF CallInv, StepInv, CallTypeOK, Steps
    <3>2. body'[c][2] # body[c][2] => step[c] = 2
      BY BodyStep DEF Steps
    <3> QED
      BY <1>4, <3>1, <3>2, BodyStep DEF Steps
  <2>2. kind[c] = "delete"
    BY <1>0, <1>4, <2>1, KindKept DEF CallInv, StepInv, RequestInv, Steps
  <2>3. CASE b2 \in body[c][2]
    BY <1>1, <1>4, <2>1, <2>2, <2>3 DEF DeleteKeepsItsIdentity
  <2>4. CASE b2 \notin body[c][2]
    <3>1. pc[c] = "sending" /\ \E d \in draft[c] : b2.sig = d
      BY <1>4, <2>4, SentDraft DEF Steps
    <3>2. b2.sig.addr = key[w] /\ b2.sig.ein = GetDid(w) /\ Known(w)
      BY <2>1, <2>2, <3>1 DEF SignInv, DidInv, Running
    <3>3. b1.sig.addr = key[w]
      BY <2>1, <3>1 DEF SignInv, Running, Steps
    <3> QED
      BY <1>1, <3>2, <3>3 DEF Known
  <2> QED
    BY <2>3, <2>4
<1> QED
  BY <1>2, <1>3, <1>4 DEF DeleteKeepsItsIdentity

-----------------------------------------------------------------------------
(* What the chain shows of a call, made one at a time. *)

(* An end without a word stays one. *)
LEMMA OpenEndKept ==
  ASSUME TypeOK, NEW c \in Calls, Start(c) \/ Proceed(c), NEW d \in Calls, OpenEnd(d)
  PROVE  OpenEnd(d)'
<1>1. CASE d # c
  BY <1>1, OthersKept DEF OpenEnd, LeftOpen
<1>2. CASE d = c
  <2>1. UNCHANGED <<pc, result>>
    BY <1>2, StartBegins, StepsRun DEF OpenEnd, Running, MayCall, TypeOK, callVars
  <2> QED
    BY <2>1 DEF OpenEnd, LeftOpen
<1> QED
  BY <1>1, <1>2

(* A call's own steps change nothing on the chain. *)
LEMMA ShownOwn ==
  ASSUME TypeOK, CallInv, NEW c \in Calls, RequestInv(c), ShownInv(c), Start(c) \/ Proceed(c)
  PROVE  ShownInv(c)'
<1>0. CallTypeOK
  BY DEF TypeOK
<1>1. \A s \in Steps : tx'[c][s] = "ok" <=> tx[c][s] = "ok"
  BY OwnTransactions
<1>2. CASE Start(c)
  <2>1. pc[c] = "idle"
    BY <1>0, <1>2, StartBegins DEF MayCall
  <2>2. \A s \in Steps : tx[c][s] # "ok"
    BY <2>1, NoRequestNoTx DEF RequestInv
  <2> QED
    BY <1>1, <2>2 DEF ShownInv, Steps
<1>3. CASE Proceed(c) /\ ~Running(c)'
  BY <1>3 DEF ShownInv
<1>4. CASE Proceed(c) /\ Running(c)'
  <2>1. Running(c)
    BY <1>0, <1>4, StepsRun DEF Running, callVars
  <2>2. kind'[c] = kind[c] /\ key' = key /\ UNCHANGED <<einOf, hasPublicKey, created>>
    BY <1>0, <1>4, <2>1, KindKept, ProceedWallet, OwnChain DEF Running
  <2>3. ASSUME NEW d \in Calls, OpenEnd(d)
        PROVE  OpenEnd(d)' /\ (KeyRemovedBy(d, key[WalletOf[c]]) => KeyRemovedBy(d, key[WalletOf[c]])')
    <3>1. d # c
      BY <2>1, <2>3 DEF OpenEnd, Running
    <3>2. body'[d] = body[d] /\ kind'[d] = kind[d] /\ (tx'[d][1] = "ok" <=> tx[d][1] = "ok")
      BY <3>1, OthersKept, OwnTransactions DEF Steps
    <3> QED
      BY <2>2, <2>3, <3>2, OpenEndKept DEF KeyRemovedBy
  <2>4. ASSUME kind[c] = "create", tx[c][1] = "ok", NEW d \in Calls, kind'[d] = "delete",
               NEW b \in body'[d][2]
        PROVE  b.sig.ein # created[c]
    <3>1. d # c
      BY <2>2, <2>4
    <3>2. kind'[d] = kind[d] /\ body'[d] = body[d]
      BY <3>1, OthersKept
    <3> QED
      BY <2>1, <2>4, <3>2 DEF ShownInv
  <2> QED
    BY <1>1, <2>1, <2>2, <2>3, <2>4 DEF ShownInv, Steps
<1> QED
  BY <1>2, <1>3, <1>4

(* What a mined transaction does to the public key of an address that has  *)
(* an identity.                                                            *)
LEMMA MinedPublicKey ==
  ASSUME TypeOK, NEW c \in Calls, NEW s \in Steps, NEW b, b.addr \in Keys, b.sig.addr = b.addr,
         b.method = MethodOf(kind[c], s), Accepts(b), Apply(c, b), NEW k \in Keys, einOf[k] # NoEin
  PROVE  \/ hasPublicKey'[k] = hasPublicKey[k]
         \/ b.addr = k /\ kind[c] = "delete" /\ s = 1
         \/ b.addr = k /\ kind[c] = "create" /\ s = 2
<1>1. hasPublicKey \in [Keys -> BOOLEAN]
  BY DEF TypeOK, ChainTypeOK
<1>2. b.addr # k => hasPublicKey'[k] = hasPublicKey[k]
  BY <1>1 DEF Apply
<1> QED
  BY <1>1, <1>2, MinedCases

(* A call that has ended with a word has no other transaction under way    *)
(* than the last one of deleteDID.                                         *)
LEMMA EndsSettled ==
  ASSUME TypeOK, CallInv, NEW c \in Calls, RefusedInv(c), pc[c] = "done", ~OpenEnd(c),
         NEW s \in Steps, Unsettled(c, s)
  PROVE  kind[c] = "delete" /\ s = 2
<1>1. PICK r \in result[c] : r.cause \notin {"delegatorError", "transactionUnconfirmed"}
  BY DEF OpenEnd, LeftOpen
<1>2. /\ r.step = step[c] /\ Truthful(c, r) /\ step[c] \in {1, 2} /\ s \in {1, 2}
      /\ r.cause \in Refusals => body[c][r.step] = {} \/ (r.cause = "notReady" /\ r.step = 2)
      /\ step[c] = 1 => body[c][2] = {}
      /\ step[c] = 2 => tx[c][1] = "ok"
      /\ r.cause = "success" => r.step = 2
      /\ r.cause = "eventNotFound" => r.step = 1
  BY DEF CallInv, StepInv, ReportInv, TypeOK, CallTypeOK, Steps
<1>3. r.cause \in Outcomes
  BY DEF TypeOK, CallTypeOK, Results
<1>4. CASE r.cause \in Refusals
  BY <1>2, <1>4 DEF Unsettled, RefusedInv
<1>5. CASE r.cause \in {"success", "eventNotFound", "transactionFailed"}
  BY <1>2, <1>5 DEF Unsettled, Truthful, Steps
<1> QED
  BY <1>1, <1>3, <1>4, <1>5 DEF Outcomes, Refusals

(* The EIN a deleteDID signs away has been given out. *)
LEMMA SignedEins ==
  ASSUME TypeOK, CallInv, EinInv, DeleteKeepsItsIdentity, NEW d \in Calls, kind[d] = "delete",
         NEW b \in body[d][2]
  PROVE  b.sig.ein \in 1..lastEin
<1>1. body[d][1] # {}
  <2>1. step[d] = 2
    BY DEF CallInv, StepInv, TypeOK, CallTypeOK, Steps
  <2>2. tx[d][1] = "ok"
    BY <2>1 DEF CallInv, StepInv
  <2> QED
    BY <2>2, NoRequestNoTx DEF Steps
<1>2. b \in Requests
  BY DEF TypeOK, ChainTypeOK, Steps
<1>3. b.sig.addr \in Keys /\ b.sig.ein \in Nat
  BY <1>2 DEF Requests, Signed
<1>4. b.sig.ein \in EinsOf(b.sig.addr) \ {NoEin}
  BY <1>1 DEF DeleteKeepsItsIdentity
<1>5. \A e \in EinsOf(b.sig.addr) : e <= lastEin
  <2>1. InitialEin[b.sig.addr] <= lastEin
    BY <1>3, RegistryAssumption DEF EinInv, TypeOK, ChainTypeOK
  <2> QED
    BY <2>1 DEF EinInv, EinsOf
<1>6. lastEin \in Nat
  BY DEF TypeOK, ChainTypeOK
<1> QED
  BY <1>3, <1>4, <1>5, <1>6 DEF NoEin

(* What is mined does not hide what a running call has done: a transaction *)
(* of its own is what it has done, one of a call that ended cannot touch   *)
(* the identity created, and the rest only if that call's end was open.    *)
LEMMA ShownMined ==
  ASSUME TypeOK, CallInv, RegistryInv, SeqInv, OffChain,
         NEW e \in Calls, NEW s \in Steps, MineOk(e, s), NEW c \in Calls
  PROVE  ShownInv(c)'
<1> SUFFICES ASSUME Running(c) PROVE ShownInv(c)'
  BY DEF ShownInv, Running, OffChain, callVars
<1> DEFINE k == key[WalletOf[c]]
<1>0. EinInv /\ RequestInv(e)
  BY DEF RegistryInv
<1>1. /\ UNCHANGED body /\ UNCHANGED callVars /\ tx[e][s] = "pending"
      /\ \A d \in Calls, t \in Steps : tx'[d][t] = IF d = e /\ t = s THEN "ok" ELSE tx[d][t]
  BY <1>0, Mined
<1>2. PICK b \in body[e][s] :
           /\ Accepts(b) /\ Apply(e, b) /\ b.method = MethodOf(kind[e], s) /\ body[e][s] = {b}
           /\ b.addr \in Keys /\ b.sig.addr = b.addr /\ b.sig.ein \in Nat
  BY <1>0, Mined
<1>3. /\ key' = key /\ UNCHANGED <<kind, body>> /\ \A d \in Calls : OpenEnd(d)' = OpenEnd(d)
      /\ \A d \in Calls : KeyRemovedBy(d, k) => KeyRemovedBy(d, k)'
  <2>1. key' = key /\ UNCHANGED <<kind, body, pc, result>>
    BY <1>1 DEF OffChain, walletVars, callVars
  <2> QED
    BY <1>1, <2>1 DEF OpenEnd, LeftOpen, KeyRemovedBy, Steps
<1>4. /\ einOf \in [Keys -> Nat] /\ created \in [Calls -> Nat] /\ lastEin \in Nat
      /\ hasPublicKey \in [Keys -> BOOLEAN] /\ kind[c] \in {"create", "delete"}
      /\ kind[e] \in {"create", "delete"} /\ s \in {1, 2}
  BY DEF TypeOK, ChainTypeOK, CallTypeOK, Kinds, Steps
<1>5. ShownInv(c) /\ SignInv(c) /\ DeleteKeepsItsIdentity
  BY DEF SeqInv
<1>6. tx[c][2] = "ok" => tx[c][1] = "ok"
  <2>1. tx[c][2] = "ok" => body[c][2] # {}
    BY NoRequestNoTx DEF Steps
  <2> QED
    BY <2>1 DEF CallInv, StepInv, TypeOK, CallTypeOK, Steps
<1>7. CASE e = c
  <2>1. b.addr = k
    BY <1>2, <1>5, <1>7 DEF SignInv
  <2>2. CASE kind[c] = "create" /\ s = 1
    <3>1. einOf'[k] = lastEin + 1 /\ created'[c] = lastEin + 1
      BY <1>2, <1>4, <1>7, <2>1, <2>2, MinedCases
    <3>2. \A d \in Calls : kind[d] = "delete" => \A x \in body[d][2] : x.sig.ein # lastEin + 1
      BY <1>0, <1>4, <1>5, SignedEins
    <3>3. tx'[c][2] # "ok"
      BY <1>1, <1>6, <1>7, <2>2 DEF Steps
    <3> QED
      BY <1>1, <1>3, <2>2, <3>1, <3>2, <3>3 DEF ShownInv
  <2>3. CASE kind[c] = "create" /\ s = 2
    <3>1. UNCHANGED <<einOf, created>> /\ hasPublicKey'[k]
      BY <1>2, <1>4, <1>7, <2>1, <2>3, MinedCases
    <3>2. tx'[c][1] = tx[c][1]
      BY <1>1, <2>3 DEF Steps
    <3> QED
      BY <1>1, <1>3, <1>5, <2>3, <3>1, <3>2 DEF ShownInv
  <2>4. CASE kind[c] = "delete" /\ s = 1
    BY <1>1, <1>3, <1>6, <1>7, <2>4 DEF ShownInv, Steps
  <2>5. CASE kind[c] = "delete" /\ s = 2
    <3>1. einOf'[k] = NoEin
      BY <1>2, <1>4, <1>7, <2>1, <2>5, MinedCases
    <3> QED
      BY <1>3, <2>5, <3>1 DEF ShownInv
  <2> QED
    BY <1>4, <2>2, <2>3, <2>4, <2>5
<1>8. CASE e # c
  <2>0. ASSUME NEW t \in Steps, tx[c][t] = "ok" PROVE k \in Keys
    <3>1. PICK x \in body[c][t] : x.sig.addr = k
      BY <1>5, <2>0, NoRequestNoTx DEF SignInv
    <3>2. x \in Requests
      BY DEF TypeOK, ChainTypeOK
    <3> QED
      BY <3>1, <3>2 DEF Requests, Signed
  <2>1. \A t \in Steps : tx'[c][t] = tx[c][t]
    BY <1>1, <1>8
  <2>2. OpenEnd(e) \/ (kind[e] = "delete" /\ s = 2)
    <3>1. ~Running(e) /\ pc[e] # "idle"
      BY <1>0, <1>2, <1>8 DEF SeqInv, OneAtATime, RequestInv
    <3>2. Unsettled(e, s)
      BY <1>1, <1>2 DEF Unsettled
    <3> QED
      BY <3>1, <3>2, EndsSettled DEF SeqInv, Running
  <2>3. ASSUME kind[c] = "create", tx[c][1] = "ok" PROVE einOf'[k] = created'[c] /\ created'[c] = created[c]
    <3>1. einOf[k] = created[c] /\ created[c] # NoEin
      BY <1>0, <1>5, <2>3 DEF ShownInv, EinInv
    <3>2. kind[e] = "delete" /\ s = 2 => b.sig.ein # created[c]
      BY <1>5, <2>3 DEF ShownInv
    <3>3. created'[c] = created[c]
      BY <1>2, <1>4, <1>8, MinedCases
    <3>4. b.addr = k => UNCHANGED einOf
      BY <1>2, <3>1, <3>2, MinedCases
    <3>5. b.addr # k => einOf'[k] = einOf[k]
      BY <1>2, <1>4, <2>0, <2>3, MinedCases DEF Steps
    <3> QED
      BY <3>1, <3>3, <3>4, <3>5
  <2>4. ASSUME kind[c] = "create", tx[c][2] = "ok"
        PROVE  hasPublicKey'[k] \/ \E d \in Calls : OpenEnd(d)' /\ KeyRemovedBy(d, k)'
    <3>1. k \in Keys /\ tx[c][1] = "ok" /\ einOf[k] # NoEin
      BY <1>0, <1>5, <1>6, <2>0, <2>4 DEF ShownInv, EinInv, Steps
    <3>2. hasPublicKey[k] \/ \E d \in Calls : OpenEnd(d) /\ KeyRemovedBy(d, k)
      BY <1>5, <2>4 DEF ShownInv
    <3>3. CASE hasPublicKey'[k] = hasPublicKey[k]
      BY <1>3, <3>2, <3>3
    <3>4. CASE b.addr = k /\ kind[e] = "delete" /\ s = 1
      BY <1>1, <1>2, <1>3, <2>2, <3>4 DEF KeyRemovedBy, Steps
    <3>5. CASE b.addr = k /\ kind[e] = "create" /\ s = 2
      BY <1>2, <1>4, <3>1, <3>5, MinedCases
    <3>6. \/ hasPublicKey'[k] = hasPublicKey[k]
          \/ b.addr = k /\ kind[e] = "delete" /\ s = 1
          \/ b.addr = k /\ kind[e] = "create" /\ s = 2
      BY <1>2, <1>4, <3>1, MinedPublicKey
    <3> QED
      BY <3>3, <3>4, <3>5, <3>6
  <2>5. ASSUME kind[c] = "delete", tx[c][2] = "ok"
        PROVE  einOf'[k] = NoEin \/ \E d \in Calls : OpenEnd(d)' /\ created'[d] = einOf'[k]
    <3>1. k \in Keys /\ (einOf[k] = NoEin \/ \E d \in Calls : OpenEnd(d) /\ created[d] = einOf[k])
      BY <1>5, <2>0, <2>5 DEF ShownInv, Steps
    <3>2. CASE kind[e] = "create" /\ s = 1 /\ b.addr = k
      BY <1>2, <1>3, <1>4, <2>2, <3>1, <3>2, MinedCases
    <3>3. CASE ~(kind[e] = "create" /\ s = 1 /\ b.addr = k)
      <4>1. einOf'[k] \in {NoEin, einOf[k]}
        BY <1>2, <1>4, <3>1, <3>3, MinedCases
      <4>2. \A d \in Calls : created[d] # NoEin => created'[d] = created[d]
        <5>1. created[e] # NoEin => ~(kind[e] = "create" /\ s = 1)
          BY <1>0, <1>1 DEF EinInv
        <5> QED
          BY <1>2, <1>4, <5>1, MinedCases
      <4> QED
        BY <1>3, <3>1, <4>1, <4>2
    <3> QED
      BY <3>2, <3>3
  <2> QED
    BY <1>3, <1>5, <2>1, <2>3, <2>4, <2>5 DEF ShownInv, Steps
<1> QED
  BY <1>7, <1>8

-----------------------------------------------------------------------------
(* The invariant of calls made one at a time, step by step. *)

(* It depends, of the wallets, on what running calls see of theirs. *)
LEMMA SeqKept ==
  ASSUME SeqInv, UNCHANGED <<einOf, hasPublicKey, created, body>>, UNCHANGED callVars,
         \A c \in Calls, s \in Steps : tx'[c][s] = "ok" <=> tx[c][s] = "ok",
         \A c \in Calls : Running(c) =>
            LET w == WalletOf[c] IN
            key'[w] = key[w] /\ GetDid(w)' = GetDid(w) /\ tryReceiptCount'[w] = tryReceiptCount[w]
  PROVE  SeqInv'
<1>1. /\ UNCHANGED <<einOf, hasPublicKey, created, body>>
      /\ \A c \in Calls : (tx'[c][1] = "ok" <=> tx[c][1] = "ok") /\ (tx'[c][2] = "ok" <=> tx[c][2] = "ok")
      /\ UNCHANGED <<pc, kind, step, draft, seen, polls, result>>
  BY DEF callVars, Steps
<1>2. OneAtATime' /\ PatientPolling' /\ PartialCreationNamesIdentity'
  BY <1>1 DEF SeqInv, OneAtATime, Running, PatientPolling, PartialCreationNamesIdentity
<1>3. DeleteKeepsItsIdentity'
  BY <1>1 DEF SeqInv, DeleteKeepsItsIdentity, EinsOf
<1>4. ASSUME NEW c \in Calls PROVE PollInv(c)' /\ SignInv(c)' /\ RefusedInv(c)'
  <2>1. PollInv(c) /\ SignInv(c) /\ RefusedInv(c)
    BY DEF SeqInv
  <2>2. CASE Running(c)
    BY <1>1, <2>1, <2>2 DEF PollInv, SignInv, RefusedInv, Running
  <2>3. CASE ~Running(c)
    BY <1>1, <2>1, <2>3 DEF PollInv, SignInv, RefusedInv, Running, Waiting
  <2> QED
    BY <2>2, <2>3
<1>5. ASSUME NEW c \in Calls PROVE DidInv(c)' /\ ShownInv(c)'
  <2>1. DidInv(c) /\ ShownInv(c)
    BY DEF SeqInv
  <2>2. CASE Running(c)
    <3>1. \A d \in Calls : /\ OpenEnd(d) => OpenEnd(d)'
                          /\ \A k : KeyRemovedBy(d, k) => KeyRemovedBy(d, k)'
      BY <1>1 DEF OpenEnd, LeftOpen, KeyRemovedBy
    <3>2. Known(WalletOf[c]) => Known(WalletOf[c])'
      BY <1>1, <2>2 DEF Known, EinsOf
    <3> QED
      BY <1>1, <2>1, <2>2, <3>1, <3>2 DEF DidInv, ShownInv, Running
  <2>3. CASE ~Running(c)
    BY <1>1, <2>1, <2>3 DEF DidInv, ShownInv, Running
  <2> QED
    BY <2>2, <2>3
<1> QED
  BY <1>2, <1>3, <1>4, <1>5 DEF SeqInv

(* Opening another wallet ... *)
LEMMA SeqConfigure ==
  ASSUME TypeOK, RunInv, SeqInv, NEW w \in Wallets, NEW k, NEW d, NEW ext, Configure(w, k, d, ext)
  PROVE  SeqInv'
<1>1. \A v \in Wallets : v # w => key'[v] = key[v] /\ GetDid(v)' = GetDid(v)
  BY DEF Configure, GetDid, TypeOK, WalletTypeOK
<1>2. \A c \in Calls : Running(c) => WalletOf[c] # w
  BY DEF Configure, RunInv, Running
<1>3. UNCHANGED <<chainVars, callVars, tryReceiptCount>>
  BY DEF Configure
<1> QED
  BY <1>1, <1>2, <1>3, WalletAssumption, SeqKept DEF chainVars

(* ... and storing the DID getDid() returns keep it. *)
LEMMA SeqCached ==
  ASSUME TypeOK, SeqInv, NEW w \in Wallets, CacheDid(w),
         UNCHANGED <<chainVars, callVars, key, metaID, tryReceiptCount>>
  PROVE  SeqInv'
<1>1. \A v \in Wallets : GetDid(v)' = GetDid(v)
  BY GetDidKept DEF TypeOK
<1> QED
  BY <1>1, WalletAssumption, SeqKept DEF chainVars

(* A call's own steps keep it. *)
LEMMA SeqOwn ==
  ASSUME Sequential, TypeOK, CallInv, RegistryInv, SeqInv, NEW c \in Calls, Start(c) \/ Proceed(c)
  PROVE  SeqInv'
<1>1. CASE LateFetch
  BY <1>1, SeqKept DEF LateFetch, chainVars, walletVars, GetDid
<1>2. CASE \A d \in Calls : d # c => ~Running(d) /\ ~Running(d)'
  <2>1. EinInv /\ RequestInv(c)
    BY DEF RegistryInv
  <2>2. PollInv(c) /\ SignInv(c) /\ DidInv(c) /\ RefusedInv(c) /\ ShownInv(c)
    BY DEF SeqInv
  <2>3. OneAtATime'
    BY <1>2 DEF OneAtATime
  <2>4. PatientPolling' /\ PartialCreationNamesIdentity' /\ DeleteKeepsItsIdentity'
    BY <2>1, <2>2, PatientOwn, PartialOwn, DeleteOwn DEF SeqInv
  <2>5. PollInv(c)' /\ SignInv(c)' /\ DidInv(c)' /\ RefusedInv(c)' /\ ShownInv(c)'
    BY <2>1, <2>2, PollOwn, SignOwn, DidOwn, RefusedOwn, ShownOwn
  <2>6. ASSUME NEW d \in Calls, d # c
        PROVE  PollInv(d)' /\ SignInv(d)' /\ DidInv(d)' /\ RefusedInv(d)' /\ ShownInv(d)'
    <3>1. pc'[d] \in {"idle", "done"}
      BY <1>2, <2>6 DEF Running
    <3>2. PollInv(d)' /\ SignInv(d)' /\ DidInv(d)' /\ ShownInv(d)'
      BY <3>1 DEF PollInv, SignInv, DidInv, ShownInv, Running, Waiting
    <3>3. result'[d] = result[d] /\ body'[d] = body[d] /\ kind'[d] = kind[d]
      BY <2>6, OthersKept
    <3> QED
      BY <3>2, <3>3 DEF SeqInv, RefusedInv
  <2> QED
    BY <2>3, <2>4, <2>5, <2>6 DEF SeqInv
<1> QED
  BY <1>1, <1>2, Alone DEF SeqInv

(* So does what happens on the chain. *)
LEMMA SeqMined ==
  ASSUME TypeOK, CallInv, RegistryInv, SeqInv, OffChain, NEW e \in Calls, NEW s \in Steps, MineOk(e, s)
  PROVE  SeqInv'
<1>1. /\ UNCHANGED body /\ UNCHANGED <<pc, kind, step, draft, seen, polls, result>>
      /\ UNCHANGED <<key, did, metaID, tryReceiptCount>> /\ tx[e][s] = "pending"
  BY Mined DEF RegistryInv, OffChain, walletVars, callVars
<1>2. \A d \in Calls : created[d] # NoEin => created'[d] = created[d]
  <2>1. PICK b \in body[e][s] :
           /\ Accepts(b) /\ Apply(e, b) /\ b.method = MethodOf(kind[e], s)
           /\ b.addr \in Keys /\ b.sig.addr = b.addr
    BY Mined DEF RegistryInv
  <2>2. created[e] # NoEin => ~(kind[e] = "create" /\ s = 1)
    BY <1>1 DEF RegistryInv, EinInv
  <2> QED
    BY <2>1, <2>2, MinedCases DEF TypeOK, ChainTypeOK
<1>3. \A k : EinsOf(k) \ {NoEin} \subseteq EinsOf(k)'
  BY <1>1, <1>2, EinsGrow
<1>4. OneAtATime' /\ PatientPolling'
  BY <1>1 DEF SeqInv, OneAtATime, Running, PatientPolling
<1>5. \A c \in Calls : step[c] = 2 => created'[c] = created[c]
  <2> SUFFICES ASSUME NEW c \in Calls, step[c] = 2 PROVE created'[c] = created[c]
    OBVIOUS
  <2>1. tx[c][1] = "ok"
    BY DEF CallInv, StepInv
  <2>2. CASE kind[c] = "create"
    BY <1>2, <2>1, <2>2 DEF RegistryInv, EinInv
  <2>3. CASE kind[c] # "create"
    <3>1. PICK b \in body[e][s] :
             /\ Accepts(b) /\ Apply(e, b) /\ b.method = MethodOf(kind[e], s)
             /\ b.addr \in Keys /\ b.sig.addr = b.addr
      BY Mined DEF RegistryInv
    <3> QED
      BY <2>3, <3>1, MinedCases DEF TypeOK, ChainTypeOK
  <2> QED
    BY <2>2, <2>3
<1>6. PartialCreationNamesIdentity'
  <2>1. \A c \in Calls : \A r \in result[c] : r.step = 2 => step[c] = 2
    BY DEF CallInv, ReportInv
  <2> QED
    BY <1>1, <1>5, <2>1 DEF SeqInv, PartialCreationNamesIdentity
<1>7. DeleteKeepsItsIdentity'
  BY <1>1, <1>3 DEF SeqInv, DeleteKeepsItsIdentity
<1>8. ASSUME NEW c \in Calls PROVE PollInv(c)' /\ SignInv(c)' /\ RefusedInv(c)'
  <2>1. PollInv(c) /\ SignInv(c) /\ RefusedInv(c)
    BY DEF SeqInv
  <2> QED
    BY <1>1, <2>1 DEF PollInv, SignInv, RefusedInv, Running
<1>9. ASSUME NEW c \in Calls PROVE DidInv(c)'
  <2>1. DidInv(c) /\ WalletOf[c] \in Wallets
    BY WalletAssumption DEF SeqInv
  <2>2. GetDid(WalletOf[c])' = GetDid(WalletOf[c])
    BY <1>1 DEF GetDid
  <2>3. Known(WalletOf[c]) => Known(WalletOf[c])'
    BY <1>1, <1>2, <2>1, <2>2, KnownStays
  <2> QED
    BY <1>1, <1>5, <2>1, <2>2, <2>3 DEF DidInv, Running
<1>10. \A c \in Calls : ShownInv(c)'
  BY ShownMined
<1> QED
  BY <1>4, <1>6, <1>7, <1>8, <1>9, <1>10 DEF SeqInv

(* Every step of the wallets keeps it. *)
LEMMA SeqStep ==
  ASSUME Sequential, TypeOK, RunInv, CallInv, RegistryInv, SeqInv, [Next]_vars
  PROVE  SeqInv'
<1>1. ASSUME NEW w \in Wallets, Open(w) PROVE SeqInv'
  BY <1>1, SeqConfigure DEF Open, OpenStored, OpenExternal
<1>2. ASSUME NEW c \in Calls, Start(c) \/ Proceed(c) PROVE SeqInv'
  BY <1>2, SeqOwn
<1>3. CASE Chain
  <2>1. ASSUME NEW c \in Calls, NEW s \in Steps, MineOk(c, s) PROVE SeqInv'
    BY <1>3, <2>1, SeqMined DEF Chain
  <2>2. CASE NextBlock \/ \E c \in Calls, s \in Steps : Submit(c, s) \/ MineReverted(c, s)
    <3>1. UNCHANGED callVars /\ UNCHANGED <<key, did, metaID, tryReceiptCount>>
      BY <1>3 DEF Chain, OffChain, walletVars
    <3> QED
      BY <2>2, <3>1, QuietSteps, SeqKept DEF TypeOK, GetDid
  <2> QED
    BY <1>3, <2>1, <2>2 DEF Chain
<1>4. CASE UNCHANGED vars
  BY <1>4, SeqKept DEF vars, chainVars, walletVars, GetDid
<1> QED
  BY <1>1, <1>2, <1>3, <1>4 DEF Next

(* No call runs at first. *)
LEMMA SeqInit == Init => SeqInv
<1> SUFFICES ASSUME Init PROVE SeqInv
  OBVIOUS
<1>1. \A c \in Calls : pc[c] = "idle" /\ result[c] = {} /\ kind[c] = "create"
  BY DEF Init
<1>2. OneAtATime /\ PatientPolling /\ PartialCreationNamesIdentity /\ DeleteKeepsItsIdentity
  BY <1>1 DEF OneAtATime, Running, PatientPolling, PartialCreationNamesIdentity, DeleteKeepsItsIdentity
<1>3. ASSUME NEW c \in Calls PROVE PollInv(c) /\ SignInv(c) /\ DidInv(c) /\ RefusedInv(c) /\ ShownInv(c)
  BY <1>1 DEF PollInv, SignInv, DidInv, RefusedInv, ShownInv, Running, Waiting
<1> QED
  BY <1>2, <1>3 DEF SeqInv

-----------------------------------------------------------------------------
(* Theorems about calls that are made one at a time. *)

(* The invariant of calls made one at a time. *)
THEOREM OneCallAtATime == ASSUME Sequential PROVE Spec => [](IInv /\ RegistryInv /\ SeqInv)
<1>1. Init => RegistryInv /\ SeqInv
  BY RegistryInit, SeqInit
<1>2. IInv /\ RegistryInv /\ SeqInv /\ [Next]_vars => RegistryInv' /\ SeqInv'
  BY RegistryStep, SeqStep DEF IInv, KeyInv
<1> QED
  BY <1>1, <1>2, Inductive, PTL DEF Spec

(* transactionUnconfirmed is reported only after polling for that          *)
(* transaction as often as the limit says.                                 *)
THEOREM PollsArePatient == ASSUME Sequential PROVE Spec => []PatientPolling
<1>1. SeqInv => PatientPolling
  BY DEF SeqInv
<1> QED
  BY <1>1, OneCallAtATime, PTL

(* partialCreation names the identity that was created. *)
THEOREM PartialCreationIsNamed == ASSUME Sequential PROVE Spec => []PartialCreationNamesIdentity
<1>1. SeqInv => PartialCreationNamesIdentity
  BY DEF SeqInv
<1> QED
  BY <1>1, OneCallAtATime, PTL

(* The second step of deleteDID has a DID, and signs away the address of   *)
(* its first step from an identity that address had.                       *)
THEOREM DeleteStaysOnItsIdentity == ASSUME Sequential PROVE Spec => []DeleteKeepsItsIdentity
<1>1. SeqInv => DeleteKeepsItsIdentity
  BY DEF SeqInv
<1> QED
  BY <1>1, OneCallAtATime, PTL

(* A call that has ended has reported. *)
Reported == \A c \in Calls : pc[c] = "done" => result[c] # {}

(* A step of a call ends it only with a report. *)
LEMMA ReportedStep ==
  ASSUME TypeOK, Reported, [Next]_vars
  PROVE  Reported'
<1>1. CASE UNCHANGED callVars
  BY <1>1 DEF Reported, callVars
<1>2. ASSUME NEW c \in Calls, Start(c) \/ Proceed(c) PROVE Reported'
  <2>1. \A d \in Calls : d # c => pc'[d] = pc[d] /\ result'[d] = result[d]
    BY <1>2, OthersKept
  <2>2. pc'[c] = "done" => result'[c] # {}
    BY <1>2, OwnStep DEF Unseen, Begins, Ends, Reported
  <2> QED
    BY <2>1, <2>2 DEF Reported
<1> QED
  BY <1>1, <1>2, OpenKeeps DEF Next, Chain, OffChain, vars

(* What the chain shows when a call reports success. *)
LEMMA SuccessOwn ==
  ASSUME TypeOK, CallInv, RegistryInv, NEW c \in Calls, SignInv(c), ShownInv(c), DidInv(c),
         Start(c) \/ Proceed(c), pc[c] # "done", NEW r \in result'[c], r.cause = "success"
  PROVE  ShownOnChain(c, {d \in Calls : OpenEnd(d)})
<1>0. /\ StepInv(c) /\ ReportInv(c) /\ kind[c] \in {"create", "delete"}
      /\ created \in [Calls -> Nat]
  BY DEF CallInv, TypeOK, CallTypeOK, ChainTypeOK, Kinds
<1>1. r \notin result[c]
  BY <1>0 DEF ReportInv
<1>2. SecondMined(c)
  BY <1>1, Causes DEF ReportedBy
<1>3. Running(c) /\ step[c] = 2 /\ tx[c][1] = "ok" /\ tx[c][2] = "ok"
  BY <1>0, <1>2 DEF SecondMined, HasReceipt, MayPoll, Running, StepInv
<1>4. kind[c] = "create" => GetDid(WalletOf[c]) = created[c] /\ created[c] # NoEin
  BY <1>3 DEF DidInv, EinInv, RegistryInv
<1>5. kind[c] = "delete" => \A b \in body[c][2] : einOf[key[WalletOf[c]]] # b.sig.ein
  <2>1. \A b \in body[c][2] : b.sig.key = key[WalletOf[c]] /\ b.sig.key \in Keys
    BY <1>3 DEF SignInv, TypeOK, ChainTypeOK, Requests, Signed, Steps
  <2> QED
    BY <1>3, <2>1 DEF RegistryInv, RemovedInv
<1> QED
  BY <1>0, <1>3, <1>4, <1>5 DEF ShownInv, ShownOnChain

(* The more transactions may come late, the less is claimed. *)
LEMMA ShownWider ==
  ASSUME NEW c \in Calls, NEW few, NEW more, few \subseteq more, ShownOnChain(c, few)
  PROVE  ShownOnChain(c, more)
  BY DEF ShownOnChain

(* When a call, one at a time, reports success, the chain shows it, but    *)
(* for the two late transactions of earlier calls that left their end      *)
(* open.                                                                   *)
THEOREM SuccessIsShown == ASSUME Sequential PROVE Spec => SuccessShowsOnChain
<1> DEFINE Step == \A c \in Calls : pc[c] # "done" /\ (\E r \in result'[c] : r.cause = "success") =>
                        ShownOnChain(c, {d \in Calls : LeftOpen(d)})
           Inv == IInv /\ RegistryInv /\ SeqInv
<1>1. Init => Reported
  BY DEF Init, Reported
<1>2. Inv /\ Reported /\ [Next]_vars => Reported'
  BY ReportedStep DEF IInv
<1>3. Inv /\ Reported /\ [Next]_vars => [Step]_vars
  <2> SUFFICES ASSUME Inv, Reported, [Next]_vars, NEW c \in Calls, pc[c] # "done",
                      NEW r \in result'[c], r.cause = "success"
               PROVE  ShownOnChain(c, {d \in Calls : LeftOpen(d)})
    OBVIOUS
  <2>1. ReportInv(c)
    BY DEF IInv, CallInv
  <2>2. r \notin result[c]
    BY <2>1 DEF ReportInv
  <2>3. PICK e \in Calls : Start(e) \/ Proceed(e)
    BY <2>2, OpenKeeps DEF Next, Chain, OffChain, vars, callVars
  <2>4. e = c
    BY <2>2, <2>3, OthersKept DEF IInv
  <2>5. SignInv(c) /\ ShownInv(c) /\ DidInv(c)
    BY DEF SeqInv
  <2>6. ShownOnChain(c, {d \in Calls : OpenEnd(d)})
    BY <2>3, <2>4, <2>5, SuccessOwn DEF IInv
  <2>7. {d \in Calls : OpenEnd(d)} \subseteq {d \in Calls : LeftOpen(d)}
    BY DEF OpenEnd, Reported
  <2> QED
    BY <2>6, <2>7, ShownWider
<1> HIDE DEF Step, Inv
<1>4. Spec => []Inv
  BY OneCallAtATime DEF Inv
<1>5. Spec => [][Step]_vars
  BY <1>1, <1>2, <1>3, <1>4, PTL DEF Spec
<1> QED
  BY <1>5 DEF SuccessShowsOnChain, Step

-----------------------------------------------------------------------------
(* What a wallet has signed and what its delegator puts beside it. *)

OneWallet == \A w, v \in Wallets : w = v

(* What a call's own steps do to the fetches. *)
LEMMA FetchOwn ==
  ASSUME TypeOK, NEW c \in Calls, Start(c) \/ Proceed(c)
  PROVE  /\ late \subseteq late' /\ \A d \in Calls : d # c => fetch'[d] = fetch[d]
         /\ \/ fetch'[c] = fetch[c] /\ timeStamp' = timeStamp
               /\ (pc[c] = "fetching" => pc'[c] = "fetching" \/ c \in late')
            \/ pc'[c] = "fetching" /\ timeStamp' = timeStamp
            \/ fetch[c] # {} /\ fetch'[c] = {} /\ (timeStamp' = timeStamp \/ BlockFetched(c))
<1>0. CallTypeOK /\ DelegatorTypeOK
  BY DEF TypeOK
<1> DEFINE Same == UNCHANGED <<timeStamp, fetch, late>>
<1>1. CASE Start(c)
  BY <1>0, <1>1, StartBegins DEF MayCall
<1>2. CASE Prepare(c)
  BY <1>0, <1>2 DEF Prepare, StartFetch, Goto, CallTypeOK, DelegatorTypeOK
<1>3. CASE BlockFetched(c)
  BY <1>0, <1>3 DEF BlockFetched, FetchedTimes, StoreTimeStamp, DelegatorTypeOK
<1>4. CASE BlockMissing(c)
  BY <1>0, <1>4 DEF BlockMissing, FetchFails, DelegatorTypeOK
<1>5. CASE FetchTimesOut(c)
  BY <1>5 DEF FetchTimesOut
<1>6. CASE CheckDid(c) \/ ReadEin(c) \/ Signing(c) \/ Send(c)
  BY <1>6 DEF CheckDid, ReadEin, Signing, Sign, SignerFails, Send, delegatorVars
<1>7. CASE Reply(c) \/ ReadCount(c) \/ WriteCount(c)
  BY <1>7 DEF Reply, ReplyTxId, ReplyError, ReplyWithoutTxId, ReadCount, WriteCount, delegatorVars
<1>8. CASE Receipt(c)
  BY <1>8 DEF Receipt, GiveUpReceipt, NoReceipt, ReceiptFailed, IdentityMined, PublicKeyRemoved,
              SecondMined, HasReceipt, MayPoll, delegatorVars
<1> QED
  BY <1>1, <1>2, <1>3, <1>4, <1>5, <1>6, <1>7, <1>8 DEF Proceed, Fetching

(* Who publishes a key has it. *)
LEMMA PublishedOwn ==
  ASSUME TypeOK, NEW c \in Calls, Start(c) \/ Proceed(c)
  PROVE  UNCHANGED <<key, publicKey>> \/ publicKey' = key'[WalletOf[c]]
<1>0. WalletTypeOK /\ WalletOf[c] \in Wallets
  BY WalletAssumption DEF TypeOK
<1>1. CASE Start(c)
  BY <1>0, <1>1 DEF Start, CreateDID, CreateDIDWithSigner, RefuseSigner, DeleteDID, StartCreate,
         WalletTypeOK, delegatorVars, walletVars
<1>2. CASE Proceed(c)
  BY <1>2, ProceedWallet
<1> QED
  BY <1>1, <1>2

(* A call's own steps keep the delegator in line with the wallet. *)
LEMMA MatchOwn ==
  ASSUME Sequential, OneWallet, TypeOK, OneAtATime, MatchInv, NEW c \in Calls, Start(c) \/ Proceed(c)
  PROVE  MatchInv'
<1>0. CallTypeOK /\ WalletTypeOK /\ \A d \in Calls : WalletOf[d] \in Wallets
  BY WalletAssumption DEF TypeOK
<1>1. \A w \in Wallets : key'[w] # NoKey => publicKey' = key'[w]
  BY <1>0, PublishedOwn DEF MatchInv, OneWallet
<1>2. ASSUME NEW d \in Calls, fetch'[d] # {} PROVE d \in late' \/ pc'[d] = "fetching"
  <2>1. CASE d = c
    BY <1>2, <2>1, FetchOwn DEF MatchInv
  <2>2. CASE d # c
    BY <1>2, <2>2, FetchOwn, OthersKept DEF MatchInv
  <2> QED
    BY <2>1, <2>2
<1>3. ASSUME NEW d \in Calls, pc'[d] \in {"signing", "sending"}, late' = {}, NEW x \in draft'[d]
      PROVE  x.ts = timeStamp'
  <2>0. late = {} /\ (timeStamp' # timeStamp => fetch[c] # {} /\ BlockFetched(c))
    BY <1>3, FetchOwn
  <2>1. timeStamp' # timeStamp => pc[c] = "fetching" /\ pc'[c] = "signing"
    BY <1>0, <2>0 DEF MatchInv, BlockFetched, Goto, CallTypeOK
  <2>2. CASE d # c
    <3>1. pc[d] = pc'[d] /\ draft'[d] = draft[d]
      BY <2>2, OthersKept
    <3>2. timeStamp' = timeStamp
      BY <1>3, <2>1, <2>2, <3>1 DEF OneAtATime, Running
    <3> QED
      BY <1>3, <2>0, <3>1, <3>2 DEF MatchInv
  <2>3. CASE d = c
    <3>1. CASE draft'[c] = draft[c] /\ pc'[c] = pc[c]
      BY <1>3, <2>0, <2>1, <2>3, <3>1 DEF MatchInv
    <3>2. CASE \E t : timeStamp' = t /\ draft'[c] = {[y EXCEPT !.ts = t] : y \in draft[c]}
      <4>1. PICK y \in draft[c] : x = [y EXCEPT !.ts = timeStamp']
        BY <1>3, <2>3, <3>2
      <4>2. y \in Signed
        BY <1>0 DEF CallTypeOK
      <4> QED
        BY <4>1, <4>2 DEF Signed
    <3>3. CASE /\ pc[c] = "signing" /\ UNCHANGED timeStamp
               /\ draft'[c] = {[y EXCEPT !.key = key[WalletOf[c]]] : y \in draft[c]}
      <4>1. PICK y \in draft[c] : x = [y EXCEPT !.key = key[WalletOf[c]]]
        BY <1>3, <2>3, <3>3
      <4>2. y \in Signed
        BY <1>0 DEF CallTypeOK
      <4>3. x.ts = y.ts /\ y.ts = timeStamp
        BY <2>0, <3>3, <4>1, <4>2 DEF Signed, MatchInv
      <4> QED
        BY <3>3, <4>3
    <3> QED
      BY <1>3, <2>3, <3>1, <3>2, <3>3, DraftOwn DEF Drafted
  <2> QED
    BY <2>2, <2>3
<1> QED
  BY <1>1, <1>2, <1>3 DEF MatchInv

(* Opening the wallet publishes its key. *)
LEMMA MatchConfigure ==
  ASSUME OneWallet, TypeOK, MatchInv, NEW w \in Wallets, NEW k, NEW d, NEW ext, Configure(w, k, d, ext)
  PROVE  MatchInv'
<1>1. \A v \in Wallets : v = w
  BY DEF OneWallet
<1>2. key'[w] = k /\ (k # NoKey => publicKey' = k)
  BY DEF Configure, TypeOK, WalletTypeOK
<1>3. UNCHANGED <<pc, draft, fetch, late, timeStamp>>
  BY DEF Configure, callVars
<1> QED
  BY <1>1, <1>2, <1>3 DEF MatchInv

(* Every step does. *)
LEMMA MatchStep ==
  ASSUME Sequential, OneWallet, TypeOK, OneAtATime, MatchInv, [Next]_vars
  PROVE  MatchInv'
<1>2. ASSUME NEW w \in Wallets, Open(w) PROVE MatchInv'
  BY <1>2, MatchConfigure DEF Open, OpenStored, OpenExternal
<1>3. CASE UNCHANGED <<delegatorVars, walletVars, callVars>>
  BY <1>3 DEF MatchInv, delegatorVars, walletVars, callVars
<1> QED
  BY <1>2, <1>3, MatchOwn DEF Next, Chain, OffChain, vars

(* A request is made of what was signed. *)
LEMMA SentMatches ==
  ASSUME TypeOK, RunInv, CallInv, SeqInv, MatchInv, RequestMatchesSignature, [Next]_vars
  PROVE  RequestMatchesSignature'
<1>1. CASE UNCHANGED <<body, late>>
  BY <1>1 DEF RequestMatchesSignature
<1>2. ASSUME NEW c \in Calls, Start(c) \/ Proceed(c) PROVE RequestMatchesSignature'
  <2> SUFFICES ASSUME NEW d \in Calls, NEW s \in Steps, NEW b \in body'[d][s]
               PROVE  b.addr = b.sig.addr /\ b.addr = b.sig.key /\ (b.ts = b.sig.ts \/ late' # {})
    BY DEF RequestMatchesSignature
  <2>1. late \subseteq late'
    BY <1>2, FetchOwn
  <2>2. CASE b \in body[d][s]
    BY <2>1, <2>2 DEF RequestMatchesSignature
  <2>3. CASE b \notin body[d][s]
    <3>1. d = c
      BY <1>2, <2>3, OthersKept
    <3>2. /\ pc[c] = "sending"
          /\ \E x \in draft[c] : b.sig = x /\ b.addr = publicKey /\ b.ts = timeStamp
      BY <1>2, <2>3, <3>1, SentDraft
    <3>3. key[WalletOf[c]] # NoKey /\ WalletOf[c] \in Wallets
      BY <3>2, WalletAssumption DEF RunInv
    <3> QED
      BY <2>1, <3>2, <3>3 DEF MatchInv, SeqInv, SignInv
  <2> QED
    BY <2>2, <2>3
<1>3. ASSUME NEW w \in Wallets, Open(w) PROVE UNCHANGED <<body, late>>
  BY <1>3 DEF Open, OpenStored, OpenExternal, Configure, chainVars
<1>4. Chain => UNCHANGED <<body, late>>
  BY DEF Chain, OffChain, NextBlock, Submit, MineOk, MineReverted, delegatorVars
<1> QED
  BY <1>1, <1>2, <1>3, <1>4 DEF Next, vars, chainVars, delegatorVars

(* With one wallet on the delegator and one call at a time, every request  *)
(* carries the address and the time stamp its signature was made for.      *)
THEOREM RequestsMatch == ASSUME Sequential, OneWallet PROVE Spec => []RequestMatchesSignature
<1> DEFINE Inv == IInv /\ RegistryInv /\ SeqInv
           Match == MatchInv /\ RequestMatchesSignature
<1>1. Init => Match
  BY DEF Init, ChainInit, DelegatorInit, MatchInv, RequestMatchesSignature
<1>2. Inv /\ Match /\ [Next]_vars => Match'
  BY MatchStep, SentMatches DEF IInv, KeyInv, SeqInv
<1>3. Match => RequestMatchesSignature
  OBVIOUS
<1>4. Spec => []Inv
  BY OneCallAtATime
<1> HIDE DEF Inv, Match
<1> QED
  BY <1>1, <1>2, <1>3, <1>4, PTL DEF Spec

-----------------------------------------------------------------------------
(* What other components rely on when they run beside the calls. *)

(* A step outside the calls that only stores the DID getDid() returns. *)
Cached(w) ==
    /\ CacheDid(w)
    /\ UNCHANGED <<chainVars, delegatorVars, opened, key, external, metaID, tryReceiptCount, callVars>>

(* It keeps every invariant. *)
LEMMA CachedKeeps ==
  ASSUME TypeOK, RunInv, CallInv, RegistryInv, NEW w \in Wallets, Cached(w)
  PROVE  /\ TypeOK' /\ RunInv' /\ CallInv' /\ RegistryInv'
         /\ KeyInv => KeyInv'
         /\ SeqInv => SeqInv'
<1>1. UNCHANGED <<chainVars, delegatorVars, callVars, opened, key, external, metaID, tryReceiptCount>>
  BY DEF Cached
<1>2. WalletTypeOK'
  <2>1. did' \in [Wallets -> Dids]
    BY CacheDidType DEF Cached, TypeOK
  <2> QED
    BY <1>1, <2>1 DEF TypeOK, WalletTypeOK
<1>3. TypeOK'
  BY <1>1, <1>2, ChainKept, DelegatorKept, CallKept DEF TypeOK
<1>4. RunInv' /\ (KeyInv => KeyInv')
  BY <1>1 DEF RunInv, KeyInv, callVars, delegatorVars
<1>5. CallInv'
  BY <1>1 DEF CallInv, StepInv, ReportInv, Truthful, callVars, chainVars
<1>6. RegistryInv'
  BY <1>1, RegistryKept
<1>7. SeqInv => SeqInv'
  BY <1>1, SeqCached DEF Cached
<1> QED
  BY <1>3, <1>4, <1>5, <1>6, <1>7

(* A step begins at most one call, calls that have begun keep their        *)
(* operation, and an open wallet gets another key from a createDID only.   *)
LEMMA BegunStep ==
  ASSUME TypeOK, [Next]_vars
  PROVE  /\ \A c \in Calls : pc[c] # "idle" => pc'[c] # "idle" /\ kind'[c] = kind[c]
         /\ \A c, d \in Calls : pc[c] = "idle" /\ pc'[c] # "idle" /\ pc[d] = "idle" /\ pc'[d] # "idle" => c = d
         /\ \A w \in opened :
               key'[w] = key[w] \/ \E c \in Calls : /\ WalletOf[c] = w /\ kind'[c] = "create"
                                                    /\ pc[c] = "idle" /\ pc'[c] # "idle"
<1>0. CallTypeOK /\ WalletTypeOK
  BY DEF TypeOK
<1>1. CASE UNCHANGED <<callVars, key>>
  BY <1>1 DEF callVars
<1>2. ASSUME NEW w \in Wallets, Open(w)
      PROVE  UNCHANGED callVars /\ \A v \in opened : key'[v] = key[v]
  BY <1>0, <1>2 DEF Open, OpenStored, OpenExternal, Configure, WalletTypeOK
<1>3. ASSUME NEW e \in Calls, Start(e)
      PROVE  /\ pc[e] = "idle" /\ pc'[e] # "idle"
             /\ \A w \in Wallets : key'[w] = key[w] \/ (w = WalletOf[e] /\ kind'[e] = "create")
  <2>1. pc[e] = "idle" /\ pc'[e] # "idle"
    BY <1>0, <1>3, StartBegins DEF MayCall
  <2>2. \A w \in Wallets : w # WalletOf[e] => key'[w] = key[w]
    BY <1>3, StartWallet
  <2>3. UNCHANGED key \/ kind'[e] = "create"
    BY <1>0, <1>3 DEF Start, CreateDID, CreateDIDWithSigner, RefuseSigner, DeleteDID, StartCreate,
                      CallTypeOK, walletVars
  <2> QED
    BY <2>1, <2>2, <2>3
<1>4. ASSUME NEW e \in Calls, Proceed(e)
      PROVE  (pc'[e] = "idle" <=> pc[e] = "idle") /\ UNCHANGED key
  BY <1>0, <1>4, StepsRun, ProceedWallet DEF Running, callVars
<1>5. ASSUME NEW e \in Calls, Start(e) \/ Proceed(e)
      PROVE  /\ \A d \in Calls : d # e => pc'[d] = pc[d] /\ kind'[d] = kind[d]
             /\ pc[e] # "idle" => kind'[e] = kind[e]
  BY <1>0, <1>5, OthersKept, KindKept
<1>6. CASE \E e \in Calls : Start(e)
  BY <1>0, <1>3, <1>5, <1>6 DEF WalletTypeOK
<1>7. CASE \E e \in Calls : Proceed(e)
  BY <1>4, <1>5, <1>7
<1>8. CASE \E w \in Wallets : Open(w)
  BY <1>2, <1>8 DEF callVars
<1> QED
  BY <1>1, <1>6, <1>7, <1>8 DEF Next, Chain, OffChain, vars, walletVars

(* A step of the wallets mines a transaction that takes effect, or changes *)
(* nothing on the chain but what is waiting there.                         *)
LEMMA NextOnChain ==
  ASSUME TypeOK, [Next]_vars
  PROVE  \/ OffChain /\ \E c \in Calls, s \in Steps : MineOk(c, s)
         \/ /\ UNCHANGED <<einOf, hasPublicKey, lastEin, created>>
            /\ \A c \in Calls, s \in Steps : tx'[c][s] = "ok" <=> tx[c][s] = "ok"
<1>1. ASSUME NEW c \in Calls, Start(c) \/ Proceed(c)
      PROVE  /\ UNCHANGED <<einOf, hasPublicKey, lastEin, created>>
             /\ \A d \in Calls, s \in Steps : tx'[d][s] = "ok" <=> tx[d][s] = "ok"
  BY <1>1, OwnChain, OwnTransactions
<1>2. CASE UNCHANGED chainVars
  BY <1>2 DEF chainVars
<1>3. CASE Chain
  BY <1>3, QuietSteps DEF Chain, TypeOK
<1> QED
  BY <1>1, <1>2, <1>3, OpenKeeps DEF Next, vars

(* What has been sent stays so, ... *)
LEMMA BodyGrows ==
  ASSUME TypeOK, CallInv, [Next]_vars
  PROVE  \A c \in Calls, s \in Steps : body'[c][s] = body[c][s] \/ body[c][s] = {}
<1>1. CASE UNCHANGED body
  BY <1>1
<1>2. CASE \E c \in Calls : Start(c) \/ Proceed(c)
  BY <1>2, BodyStep
<1>3. Chain => UNCHANGED body
  BY DEF Chain, NextBlock, Submit, MineOk, MineReverted
<1> QED
  BY <1>1, <1>2, <1>3, OpenKeeps DEF Next, vars, chainVars

(* ... and what has taken effect. *)
LEMMA OkStays ==
  ASSUME TypeOK, CallInv, RegistryInv, [Next]_vars, NEW c \in Calls, NEW s \in Steps, tx[c][s] = "ok"
  PROVE  /\ tx'[c][s] = "ok" /\ body'[c][s] = body[c][s] /\ kind'[c] = kind[c]
         /\ created[c] # NoEin => created'[c] = created[c]
<1>1. body[c][s] # {}
  BY NoRequestNoTx
<1>2. body'[c][s] = body[c][s]
  BY <1>1, BodyGrows
<1>3. pc[c] # "idle"
  BY <1>1 DEF RegistryInv, RequestInv
<1>4. kind'[c] = kind[c]
  BY <1>3, BegunStep
<1>5. ASSUME OffChain, NEW e \in Calls, NEW t \in Steps, MineOk(e, t)
      PROVE  tx'[c][s] = "ok" /\ (created[c] # NoEin => created'[c] = created[c])
  <2>1. /\ tx[e][t] = "pending"
        /\ \A d \in Calls, u \in Steps : tx'[d][u] = IF d = e /\ u = t THEN "ok" ELSE tx[d][u]
        /\ \E b \in body[e][t] : /\ Accepts(b) /\ Apply(e, b) /\ b.method = MethodOf(kind[e], t)
                                 /\ b.addr \in Keys /\ b.sig.addr = b.addr
    BY <1>5, Mined DEF RegistryInv
  <2>2. created[e] # NoEin => ~(kind[e] = "create" /\ t = 1)
    BY <2>1 DEF RegistryInv, EinInv
  <2> QED
    BY <2>1, <2>2, MinedCases DEF TypeOK, ChainTypeOK
<1> QED
  BY <1>2, <1>4, <1>5, NextOnChain

(* A call that has ended stays as it is. *)
LEMMA DoneStays ==
  ASSUME TypeOK, [Next]_vars, NEW c \in Calls, pc[c] = "done"
  PROVE  pc'[c] = "done" /\ result'[c] = result[c]
<1>1. ASSUME NEW e \in Calls, Start(e) \/ Proceed(e) PROVE pc'[c] = "done" /\ result'[c] = result[c]
  BY <1>1, OwnStep, OthersKept DEF Unseen, Begins, Ends
<1>2. UNCHANGED callVars => pc'[c] = "done" /\ result'[c] = result[c]
  BY DEF callVars
<1> QED
  BY <1>1, <1>2, OpenKeeps DEF Next, Chain, OffChain, vars

===============================================================================
