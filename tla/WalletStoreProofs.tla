--------------------------- MODULE WalletStoreProofs ---------------------------
(***************************************************************************)
(* Proofs about saving and restoring wallets while the process may end at  *)
(* any moment: the invariants of IdentityProofs hold across its end, a     *)
(* success is on the chain, and what was saved in time can be restored.    *)
(***************************************************************************)
EXTENDS WalletStore, IdentityProofs

-----------------------------------------------------------------------------
(* The invariants. *)

(* What holds of any interleaving. *)
BaseInv == TypeOK /\ RunInv /\ CallInv /\ RegistryInv /\ StoreTypeOK

(* A call that has ended has reported, or was cut off. *)
EndsInv == \A c \in Calls : pc[c] = "done" => result[c] # {} \/ c \in cut

(* The key k has the identity of the DID d until its removal is asked for. *)
Restorable(k, d) == k \in Keys /\ ((einOf[k] = d /\ d # NoEin) \/ RemovalAsked(k))

(* So it is of saved JSON and of wallets, while their key and DID came     *)
(* together; they do not while createDID is in its first step.             *)
SavedInv == \A w \in Wallets : \A j \in saved[w] : j.sound => Restorable(j.key, j.did)

CoherentInv ==
    /\ \A w \in Wallets : coherent[w] => Restorable(key[w], GetDid(w))
    /\ \A c \in Calls : Running(c) /\ kind[c] = "create" /\ step[c] = 1 => ~coherent[WalletOf[c]]

StoreInv == BaseInv /\ SeqInv /\ EndsInv /\ SavedInv /\ CoherentInv

-----------------------------------------------------------------------------
(* The wallets' invariants across saving, restoring and the end of the     *)
(* process.                                                                *)

(* What a step does to the wallets. *)
LEMMA StoreSteps ==
  ASSUME [StoreNext]_storeAllVars
  PROVE  \/ Operate /\ Next
         \/ \E w \in Wallets : OpenSaved(w)
         \/ \E w \in Wallets : ReadKeyForJson(w)
         \/ \E w \in Wallets : FinishJson(w) /\ Cached(w)
         \/ Crash
         \/ UNCHANGED storeAllVars
<1>1. Operate => Next
  BY DEF Operate, Next, Open
<1>2. \A w \in Wallets : FinishJson(w) => Cached(w)
  BY DEF FinishJson, Cached
<1> QED
  BY <1>1, <1>2 DEF StoreNext

(* When the process ends no wallet is left and no call runs. *)
LEMMA CrashKeeps ==
  ASSUME TypeOK, RunInv, CallInv, RegistryInv, Crash
  PROVE  /\ TypeOK' /\ RunInv' /\ CallInv' /\ RegistryInv'
         /\ SeqInv => SeqInv'
<1>0. /\ pc \in [Calls -> Pcs]
      /\ \A c \in Calls : pc'[c] \in {"idle", "done"} /\ (pc'[c] = "idle" <=> pc[c] = "idle")
                          /\ (pc[c] = "done" => pc'[c] = "done")
      /\ UNCHANGED <<einOf, hasPublicKey, lastEin, created, now, body, tx>>
      /\ UNCHANGED <<kind, step, draft, seen, polls, result>>
  BY DEF TypeOK, CallTypeOK, Crash, Active, chainVars
<1>1. TypeOK'
  <2>1. ChainTypeOK'
    BY <1>0 DEF TypeOK, ChainTypeOK
  <2>2. DelegatorTypeOK'
    BY DEF Crash, TypeOK, DelegatorTypeOK, NoTime
  <2>3. WalletTypeOK'
    BY DEF Crash, TypeOK, WalletTypeOK, NoDid, NoEin, Dids
  <2>4. CallTypeOK'
    BY <1>0 DEF Crash, TypeOK, CallTypeOK, Pcs
  <2> QED
    BY <2>1, <2>2, <2>3, <2>4 DEF TypeOK
<1>2. RunInv'
  BY <1>0 DEF Crash, RunInv
<1>3. CallInv'
  BY <1>0 DEF CallInv, StepInv, ReportInv, Truthful, Unsent, Waiting
<1>4. RegistryInv'
  BY <1>0 DEF RegistryInv, EinInv, EinsOf, RequestInv, RemovedInv
<1>5. SeqInv => SeqInv'
  <2> SUFFICES ASSUME SeqInv PROVE SeqInv'
    OBVIOUS
  <2>1. OneAtATime' /\ PatientPolling' /\ PartialCreationNamesIdentity'
    BY <1>0 DEF SeqInv, OneAtATime, Running, PatientPolling, PartialCreationNamesIdentity
  <2>2. DeleteKeepsItsIdentity'
    BY <1>0 DEF SeqInv, DeleteKeepsItsIdentity, EinsOf
  <2>3. ASSUME NEW c \in Calls
        PROVE  PollInv(c)' /\ SignInv(c)' /\ DidInv(c)' /\ RefusedInv(c)' /\ ShownInv(c)'
    BY <1>0 DEF SeqInv, PollInv, SignInv, DidInv, RefusedInv, ShownInv, Running, Waiting
  <2> QED
    BY <2>1, <2>2, <2>3 DEF SeqInv
<1> QED
  BY <1>1, <1>2, <1>3, <1>4, <1>5

(* A wallet made of saved JSON is one more wallet. *)
LEMMA OpenSavedKeeps ==
  ASSUME BaseInv, NEW w \in Wallets, OpenSaved(w)
  PROVE  /\ TypeOK' /\ RunInv' /\ CallInv' /\ RegistryInv'
         /\ SeqInv => SeqInv'
<1>1. PICK j \in saved[w] : Configure(w, j.key, j.did, FALSE)
  BY DEF OpenSaved
<1>2. j.key \in Keys \cup {NoKey} /\ j.did \in Dids
  BY DEF BaseInv, StoreTypeOK, Jsons
<1>3. UNCHANGED <<chainVars, callVars>>
  BY <1>1 DEF Configure
<1>4. TypeOK' /\ RunInv'
  BY <1>1, <1>2, ConfigureTypes, ConfigureRuns DEF BaseInv
<1>5. CallInv' /\ RegistryInv'
  <2>1. UNCHANGED <<pc, step, body, tx, result>>
    BY <1>3 DEF callVars, chainVars
  <2> QED
    BY <1>3, <2>1, CallUntouched, RegistryKept DEF BaseInv, CallInv
<1> QED
  BY <1>1, <1>4, <1>5, SeqConfigure DEF BaseInv

(* Every step keeps the wallets' invariants. *)
LEMMA StoreKeeps ==
  ASSUME BaseInv, [StoreNext]_storeAllVars
  PROVE  /\ TypeOK' /\ RunInv' /\ CallInv' /\ RegistryInv'
         /\ Sequential /\ SeqInv => SeqInv'
<1> USE DEF BaseInv
<1>1. CASE [Next]_vars
  BY <1>1, TypeStep, RunStep, CallStep, RegistryStep, SeqStep
<1>2. CASE \E w \in Wallets : OpenSaved(w)
  BY <1>2, OpenSavedKeeps
<1>3. CASE \E w \in Wallets : Cached(w)
  BY <1>3, CachedKeeps
<1>4. CASE Crash
  BY <1>4, CrashKeeps
<1> QED
  BY <1>1, <1>2, <1>3, <1>4, StoreSteps DEF ReadKeyForJson, storeAllVars


-----------------------------------------------------------------------------
(* The types of what is saved. *)

(* A running call is of an open wallet. *)
LEMMA StoreTypes ==
  ASSUME BaseInv, [StoreNext]_storeAllVars
  PROVE  StoreTypeOK'
<1>0. /\ StoreTypeOK /\ key \in [Wallets -> Keys \cup {NoKey}] /\ opened \subseteq Wallets
      /\ MaxCrashes \in Nat
  BY StoreAssumption DEF BaseInv, TypeOK, WalletTypeOK
<1>1. CASE Operate /\ Next
  <2>1. UNCHANGED <<saved, saving, crashes, cut>> /\ coherent' \in [Wallets -> BOOLEAN]
    BY <1>1 DEF Operate, NoteCoherence
  <2>2. opened \subseteq opened'
    BY <1>1, OpenedStays
  <2>3. ASSUME NEW w \in Wallets, coherent'[w] PROVE w \in opened
    <3>1. coherent[w] \/ \E c \in Calls : WalletOf[c] = w /\ step[c] = 1 /\ step'[c] = 2
      BY <1>1, <2>3 DEF Operate, NoteCoherence
    <3>2. ASSUME NEW c \in Calls, WalletOf[c] = w, step[c] = 1, step'[c] = 2 PROVE w \in opened
      <4>1. PICK d \in Calls : Start(d) \/ Proceed(d)
        BY <1>1, <3>2, OpenKeeps DEF Next, Chain, OffChain, callVars
      <4>2. d = c
        BY <3>2, <4>1, OthersKept DEF BaseInv
      <4>3. ~Start(c)
        BY <3>2, StartBegins DEF BaseInv, TypeOK
      <4>4. Running(c)
        BY <3>2, <4>1, <4>2, <4>3, StepsRun DEF BaseInv, TypeOK, callVars
      <4> QED
        BY <3>2, <4>4 DEF BaseInv, RunInv, Running
    <3> QED
      BY <1>0, <3>1, <3>2 DEF StoreTypeOK
  <2> QED
    BY <1>0, <2>1, <2>2, <2>3 DEF StoreTypeOK
<1>2. ASSUME NEW w \in Wallets, OpenSaved(w) PROVE StoreTypeOK'
  <2>1. PICK j \in saved[w] : opened' = opened \cup {w} /\ coherent' = [coherent EXCEPT ![w] = j.sound]
    BY <1>2 DEF OpenSaved, Configure
  <2>2. j.sound \in BOOLEAN
    BY <1>0 DEF StoreTypeOK, Jsons
  <2> QED
    BY <1>0, <1>2, <2>1, <2>2 DEF OpenSaved, StoreTypeOK
<1>3. ASSUME NEW w \in Wallets, ReadKeyForJson(w) PROVE StoreTypeOK'
  <2>1. {key[w]} \subseteq Keys
    BY <1>0, <1>3 DEF ReadKeyForJson
  <2>2. saving' \in [Wallets -> SUBSET Keys]
    BY <1>0, <1>3, <2>1 DEF ReadKeyForJson, StoreTypeOK
  <2> QED
    BY <1>0, <1>3, <2>2 DEF ReadKeyForJson, StoreTypeOK, vars, walletVars
<1>4. ASSUME NEW w \in Wallets, FinishJson(w) PROVE StoreTypeOK'
  <2>1. PICK k \in saving[w] :
           saved' = [saved EXCEPT ![w] =
               {[key |-> k, did |-> GetDid(w), sound |-> coherent[w] /\ key[w] = k]}]
    BY <1>4 DEF FinishJson
  <2>2. GetDid(w) \in Dids /\ k \in Keys /\ (coherent[w] /\ key[w] = k) \in BOOLEAN
    BY <1>0, GetDidType DEF StoreTypeOK, BaseInv, TypeOK
  <2>3. {[key |-> k, did |-> GetDid(w), sound |-> coherent[w] /\ key[w] = k]} \subseteq Jsons
    BY <2>2 DEF Jsons
  <2>4. saved' \in [Wallets -> SUBSET Jsons]
    BY <1>0, <2>1, <2>3 DEF StoreTypeOK
  <2> QED
    BY <1>0, <1>4, <2>4 DEF FinishJson, StoreTypeOK
<1>5. CASE Crash
  BY <1>0, <1>5 DEF Crash, StoreTypeOK, Active
<1>6. CASE UNCHANGED storeAllVars
  BY <1>0, <1>6 DEF storeAllVars, storeVars, vars, walletVars, StoreTypeOK
<1> QED
  BY <1>1, <1>2, <1>3, <1>4, <1>5, <1>6, StoreSteps

(* At first nothing is open, running or being saved. *)
LEMMA BaseInit == StoreInit => BaseInv
<1> SUFFICES ASSUME StoreInit PROVE BaseInv
  OBVIOUS
<1>1. TypeOK /\ RunInv /\ CallInv /\ RegistryInv
  BY TypeInit, RunInit, CallInit, RegistryInit DEF StoreInit
<1>2. saved \in [Wallets -> SUBSET Jsons]
  <2> DEFINE Json(j) == [key |-> j.key, did |-> j.did,
                         sound |-> j.key # NoKey /\ j.did # NoDid /\ InitialEin[j.key] = j.did]
  <2>1. \A j \in StoredWallets : {Json(j)} \in SUBSET Jsons
    BY WalletAssumption DEF Jsons
  <2>2. saved \in [Wallets -> {{Json(j)} : j \in StoredWallets}]
    BY DEF StoreInit
  <2> HIDE DEF Json
  <2> QED
    BY <2>1, <2>2
<1> QED
  BY <1>1, <1>2, StoreAssumption DEF StoreInit, BaseInv, StoreTypeOK

(* Every step keeps it. *)
LEMMA BaseStep == BaseInv /\ [StoreNext]_storeAllVars => BaseInv'
  BY StoreKeeps, StoreTypes DEF BaseInv

(* What was saved keeps its types, and a key being saved is never nil. *)
THEOREM StoreTyped == StoreSpec => []StoreTypeOK
<1>1. BaseInv => StoreTypeOK
  BY DEF BaseInv
<1> QED
  BY <1>1, BaseInit, BaseStep, PTL DEF StoreSpec


-----------------------------------------------------------------------------
(* What was saved in time can be restored. *)

(* A removal that has been asked for stays so. *)
LEMMA RemovalLasts ==
  ASSUME TypeOK, CallInv, [Next]_vars, NEW k, RemovalAsked(k)
  PROVE  RemovalAsked(k)'
<1>1. PICK c \in Calls : \E b \in body[c][2] :
          b.method = "remove_associated_address_delegated" /\ b.addr = k
  BY DEF RemovalAsked
<1>2. body'[c][2] = body[c][2]
  BY <1>1, BodyGrows DEF Steps
<1> QED
  BY <1>1, <1>2 DEF RemovalAsked

(* Until then the registry keeps the identity of an address. *)
LEMMA RestorableStays ==
  ASSUME BaseInv, [Next]_vars, NEW k, NEW d, Restorable(k, d)
  PROVE  Restorable(k, d)'
<1>0. TypeOK /\ CallInv /\ RegistryInv /\ einOf \in [Keys -> Nat]
  BY DEF BaseInv, TypeOK, ChainTypeOK
<1>1. CASE RemovalAsked(k)
  BY <1>0, <1>1, RemovalLasts DEF Restorable
<1>2. CASE k \in Keys /\ einOf[k] = d /\ d # NoEin /\ ~RemovalAsked(k)
  <2>1. ASSUME NEW c \in Calls, NEW s \in Steps, MineOk(c, s), OffChain PROVE einOf'[k] = einOf[k]
    <3>1. PICK b \in body[c][s] :
             /\ Accepts(b) /\ Apply(c, b) /\ b.method = MethodOf(kind[c], s)
             /\ b.addr \in Keys /\ b.sig.addr = b.addr
      BY <1>0, <2>1, Mined DEF RegistryInv
    <3>2. CASE kind[c] = "delete" /\ s = 2
      <4>1. b.method = "remove_associated_address_delegated"
        BY <3>1, <3>2 DEF MethodOf
      <4>2. b.addr # k
        BY <1>2, <3>1, <3>2, <4>1 DEF RemovalAsked
      <4> QED
        BY <1>0, <1>2, <3>1, <3>2, <4>2, MinedCases
    <3>3. CASE ~(kind[c] = "delete" /\ s = 2)
      BY <1>0, <1>2, <3>1, <3>3, MinedCases
    <3> QED
      BY <3>2, <3>3
  <2>2. einOf'[k] = einOf[k]
    BY <1>0, <2>1, NextOnChain
  <2> QED
    BY <1>2, <2>2 DEF Restorable
<1> QED
  BY <1>1, <1>2 DEF Restorable

(* So it is of a key and a DID that change together or not at all. *)
LEMMA RestorableKept ==
  ASSUME BaseInv, [Next]_vars, NEW w \in Wallets, Restorable(key[w], GetDid(w)),
         key'[w] = key[w], GetDid(w)' = GetDid(w)
  PROVE  Restorable(key[w], GetDid(w))'
<1>1. PICK k : k = key[w]
  OBVIOUS
<1>2. PICK d : d = GetDid(w)
  OBVIOUS
<1>3. Restorable(k, d)'
  BY <1>1, <1>2, RestorableStays
<1> QED
  BY <1>1, <1>2, <1>3 DEF Restorable

(* When a key and a DID are said to have come together. *)
LEMMA Noted ==
  ASSUME NoteCoherence, NEW w \in Wallets, coherent'[w]
  PROVE  /\ coherent[w] \/ \E c \in Calls : WalletOf[c] = w /\ kind'[c] = "create" /\ step[c] = 1 /\ step'[c] = 2
         /\ \A c \in Calls : WalletOf[c] = w /\ kind'[c] = "create" => ~(pc[c] = "idle" /\ pc'[c] = "preparing")
  BY DEF NoteCoherence

(* createDID starts with another key; otherwise a call starts with the key *)
(* the wallet has.                                                         *)
LEMMA StartsWithKey ==
  ASSUME TypeOK, NEW c \in Calls, Start(c)
  PROVE  /\ pc[c] = "idle" /\ step'[c] = step[c]
         /\ \/ kind'[c] = "create" /\ pc'[c] = "preparing"
            \/ kind'[c] = "create" /\ pc'[c] = "done" /\ UNCHANGED key
            \/ kind'[c] = "delete" /\ UNCHANGED key
<1> USE DEF TypeOK, CallTypeOK, MayCall, StartCreate, Goto, Fail
<1>1. CASE CreateDID(c)
  BY <1>1 DEF CreateDID
<1>2. CASE CreateDIDWithSigner(c)
  BY <1>2 DEF CreateDIDWithSigner
<1>3. CASE RefuseSigner(c)
  BY <1>3 DEF RefuseSigner
<1>4. CASE DeleteDID(c)
  BY <1>4 DEF DeleteDID, walletVars
<1> QED
  BY <1>1, <1>2, <1>3, <1>4 DEF Start

(* When createDID reaches its second step, the wallet's key has the        *)
(* identity of the wallet's DID.                                           *)
LEMMA MinedTogether ==
  ASSUME BaseInv, SeqInv, NEW c \in Calls, IdentityMined(c), step'[c] = 2
  PROVE  Restorable(key[WalletOf[c]], GetDid(WalletOf[c]))'
<1> DEFINE w == WalletOf[c]
<1>0. /\ TypeOK /\ CallInv /\ EinInv /\ w \in Wallets /\ SignInv(c) /\ ShownInv(c)
      /\ did \in [Wallets -> Dids] /\ metaID \in [Wallets -> Nat] /\ step \in [Calls -> Steps]
  BY WalletAssumption DEF BaseInv, SeqInv, RegistryInv, TypeOK, WalletTypeOK, CallTypeOK
<1>1. Running(c) /\ kind[c] = "create" /\ step[c] = 1 /\ tx[c][1] = "ok"
  BY DEF IdentityMined, HasReceipt, MayPoll, Running
<1>2. GetDid(w)' = created[c] /\ UNCHANGED <<key, einOf>>
  BY <1>0, <1>1 DEF IdentityMined, GetDid, chainVars
<1>3. einOf[key[w]] = created[c] /\ created[c] # NoEin
  BY <1>0, <1>1 DEF ShownInv, EinInv
<1>4. key[w] \in Keys
  <2>1. PICK b \in body[c][1] : b.sig.key = key[w]
    BY <1>0, <1>1, NoRequestNoTx DEF SignInv, Steps
  <2> QED
    BY <1>0, <2>1 DEF TypeOK, ChainTypeOK, Requests, Signed, Steps
<1> QED
  BY <1>2, <1>3, <1>4 DEF Restorable

(* Steps of the calls keep key and DID together. *)
LEMMA CoherentOwn ==
  ASSUME Sequential, BaseInv, SeqInv, CoherentInv, NoteCoherence, Next,
         NEW c \in Calls, Start(c) \/ Proceed(c)
  PROVE  CoherentInv'
<1>0. /\ TypeOK /\ CallTypeOK /\ RunInv /\ OneAtATime /\ WalletOf \in [Calls -> Wallets]
      /\ did \in [Wallets -> Dids] /\ metaID \in [Wallets -> Nat]
  BY WalletAssumption DEF BaseInv, SeqInv, TypeOK, WalletTypeOK
<1>1. ASSUME NEW d \in Calls, kind'[d] = "create", step[d] = 1, step'[d] = 2
      PROVE  d = c /\ IdentityMined(c)
  <2>1. d = c
    BY <1>0, <1>1, OthersKept
  <2>2. Proceed(c)
    BY <1>0, <1>1, <2>1, StartsWithKey
  <2>3. ~PublicKeyRemoved(c)
    BY <1>1, <2>1 DEF PublicKeyRemoved
  <2> QED
    BY <1>0, <1>1, <2>1, <2>2, <2>3, StepOwn
<1>2. ASSUME NEW w \in Wallets, coherent'[w] PROVE Restorable(key[w], GetDid(w))'
  <2>1. CASE IdentityMined(c) /\ WalletOf[c] = w
    <3>1. ~coherent[w]
      BY <2>1 DEF CoherentInv, IdentityMined, HasReceipt, MayPoll, Running
    <3>2. step'[c] = 2
      BY <1>1, <1>2, <3>1, Noted
    <3> QED
      BY <2>1, <3>2, MinedTogether
  <2>2. CASE ~(IdentityMined(c) /\ WalletOf[c] = w)
    <3>1. coherent[w]
      BY <1>1, <1>2, <2>2, Noted
    <3>2. key'[w] = key[w]
      BY <1>0, <1>2, Noted, StartsWithKey, StartWallet, ProceedWallet
    <3>3. GetDid(w)' = GetDid(w)
      <4>1. CASE IdentityMined(c)
        BY <1>0, <2>2, <4>1 DEF IdentityMined, GetDid
      <4> QED
        BY <1>0, <4>1, StartWallet, ProceedWallet
    <3> QED
      BY <3>1, <3>2, <3>3, RestorableKept DEF CoherentInv
  <2> QED
    BY <2>1, <2>2
<1>3. ASSUME NEW d \in Calls, Running(d)', kind'[d] = "create", step'[d] = 1, coherent'[WalletOf[d]]
      PROVE  FALSE
  <2> DEFINE w == WalletOf[d]
  <2>1. CASE UNCHANGED callVars
    <3>1. coherent[w] /\ Running(d) /\ kind[d] = "create" /\ step[d] = 1
      BY <1>0, <1>3, <2>1, Noted DEF callVars, Running
    <3> QED
      BY <3>1 DEF CoherentInv
  <2>2. CASE d = c /\ Start(c)
    BY <1>0, <1>3, <2>2, Noted, StartsWithKey DEF Running
  <2>3. CASE d = c /\ Proceed(c) /\ ~UNCHANGED callVars
    <3>1. Running(c)
      BY <1>0, <2>3, StepsRun
    <3>2. kind[c] = "create"
      BY <1>0, <1>3, <2>3, <3>1, KindKept DEF Running
    <3>3. step[c] = 1
      BY <1>0, <1>3, <2>3, StepOwn
    <3>4. coherent[w]
      BY <1>0, <1>1, <1>3, <2>3, Noted
    <3> QED
      BY <2>3, <3>1, <3>2, <3>3, <3>4 DEF CoherentInv
  <2>4. CASE d # c /\ ~UNCHANGED callVars
    BY <1>0, <1>3, <2>4, Alone DEF LateFetch
  <2> QED
    BY <2>1, <2>2, <2>3, <2>4
<1> QED
  BY <1>2, <1>3 DEF CoherentInv


(* Every step keeps saved and running wallets restorable. *)
LEMMA CoherentStep ==
  ASSUME Sequential, BaseInv, SeqInv, SavedInv, CoherentInv, [StoreNext]_storeAllVars
  PROVE  SavedInv' /\ CoherentInv'
<1>0. /\ TypeOK /\ RunInv /\ StoreTypeOK /\ WalletOf \in [Calls -> Wallets]
      /\ key \in [Wallets -> Keys \cup {NoKey}] /\ did \in [Wallets -> Dids]
      /\ saved \in [Wallets -> SUBSET Jsons] /\ coherent \in [Wallets -> BOOLEAN]
  BY WalletAssumption DEF BaseInv, TypeOK, WalletTypeOK, StoreTypeOK
<1>1. CASE Operate /\ Next
  <2>1. SavedInv'
    <3> SUFFICES ASSUME NEW w \in Wallets, NEW j \in saved[w], j.sound PROVE Restorable(j.key, j.did)'
      BY <1>1 DEF Operate, SavedInv
    <3>1. PICK k, d : k = j.key /\ d = j.did
      OBVIOUS
    <3>2. Restorable(k, d)'
      BY <1>1, <3>1, RestorableStays DEF SavedInv
    <3> QED
      BY <3>1, <3>2 DEF Restorable
  <2>2. CASE \E c \in Calls : Start(c) \/ Proceed(c)
    BY <1>1, <2>1, <2>2, CoherentOwn DEF Operate
  <2>3. CASE Chain \/ \E v \in Wallets : OpenExternal(v)
    <3>1. UNCHANGED callVars /\ \A w \in opened : key'[w] = key[w] /\ GetDid(w)' = GetDid(w)
      <4>1. CASE Chain
        BY <4>1 DEF Chain, OffChain, walletVars, GetDid
      <4>2. ASSUME NEW v \in Wallets, OpenExternal(v)
            PROVE  UNCHANGED callVars /\ \A w \in opened : key'[w] = key[w] /\ GetDid(w)' = GetDid(w)
        BY <1>0, <4>2 DEF OpenExternal, Configure, GetDid
      <4> QED
        BY <2>3, <4>1, <4>2
    <3>2. ASSUME NEW w \in Wallets, coherent'[w] PROVE coherent[w]
      BY <1>1, <3>1, <3>2, Noted DEF Operate, callVars
    <3>3. ASSUME NEW w \in Wallets, coherent'[w] PROVE Restorable(key[w], GetDid(w))'
      BY <1>0, <1>1, <3>1, <3>2, <3>3, RestorableKept DEF CoherentInv, StoreTypeOK
    <3> QED
      BY <1>0, <2>1, <3>1, <3>2, <3>3 DEF CoherentInv, callVars, Running
  <2> QED
    BY <1>1, <2>1, <2>2, <2>3 DEF Operate
<1>2. ASSUME UNCHANGED <<chainVars, callVars>>
      PROVE  /\ \A k, d : Restorable(k, d) => Restorable(k, d)'
             /\ \A c \in Calls : (Running(c) /\ kind[c] = "create" /\ step[c] = 1)' =>
                   Running(c) /\ kind[c] = "create" /\ step[c] = 1
  BY <1>2 DEF chainVars, callVars, Restorable, RemovalAsked, Running
<1>3. ASSUME NEW w \in Wallets, OpenSaved(w) PROVE SavedInv' /\ CoherentInv'
  <2>1. PICK j \in saved[w] : Configure(w, j.key, j.did, FALSE) /\ coherent' = [coherent EXCEPT ![w] = j.sound]
    BY <1>3 DEF OpenSaved
  <2>2. /\ UNCHANGED <<chainVars, callVars>> /\ saved' = saved /\ w \notin opened
        /\ key' = [key EXCEPT ![w] = j.key] /\ did' = [did EXCEPT ![w] = j.did] /\ metaID' = metaID
    BY <1>3, <2>1 DEF OpenSaved, Configure
  <2>3. SavedInv'
    BY <1>2, <2>2 DEF SavedInv, Restorable
  <2>4. j.sound => Restorable(key[w], GetDid(w))'
    <3>1. j.sound => Restorable(j.key, j.did)
      BY DEF SavedInv
    <3>2. key'[w] = j.key /\ did'[w] = j.did
      BY <1>0, <2>2
    <3>3. UNCHANGED <<einOf, body>>
      BY <2>2 DEF chainVars
    <3>4. j.did # NoEin => GetDid(w)' = j.did
      BY <3>2 DEF GetDid, NoDid
    <3>5. RemovalAsked(j.key) => RemovalAsked(key[w])'
      BY <3>2, <3>3 DEF RemovalAsked
    <3> QED
      BY <3>1, <3>2, <3>3, <3>4, <3>5 DEF Restorable
  <2>5. ASSUME NEW v \in Wallets, coherent'[v] PROVE Restorable(key[v], GetDid(v))'
    <3>1. CASE v = w
      BY <1>0, <2>1, <2>4, <2>5, <3>1
    <3>2. CASE v # w
      <4>1. coherent[v] /\ key'[v] = key[v] /\ GetDid(v)' = GetDid(v)
        BY <1>0, <2>1, <2>2, <2>5, <3>2 DEF GetDid
      <4>2. UNCHANGED <<einOf, body>>
        BY <2>2 DEF chainVars
      <4>3. Restorable(key[v], GetDid(v))
        BY <4>1 DEF CoherentInv
      <4>4. RemovalAsked(key[v]) => RemovalAsked(key[v])'
        BY <4>1, <4>2 DEF RemovalAsked
      <4> QED
        BY <4>1, <4>2, <4>3, <4>4 DEF Restorable
    <3> QED
      BY <3>1, <3>2
  <2>6. ASSUME NEW c \in Calls, (Running(c) /\ kind[c] = "create" /\ step[c] = 1)' PROVE ~coherent'[WalletOf[c]]
    <3>1. Running(c) /\ kind[c] = "create" /\ step[c] = 1
      BY <1>2, <2>2, <2>6
    <3>2. WalletOf[c] # w
      BY <1>0, <2>2, <3>1 DEF RunInv, Running
    <3> QED
      BY <1>0, <2>1, <3>1, <3>2 DEF CoherentInv
  <2> QED
    BY <2>3, <2>5, <2>6 DEF CoherentInv
<1>4. ASSUME NEW w \in Wallets, FinishJson(w), Cached(w) PROVE SavedInv' /\ CoherentInv'
  <2>1. /\ UNCHANGED <<chainVars, callVars, key>> /\ coherent' = coherent
        /\ \A v \in Wallets : GetDid(v)' = GetDid(v)
    BY <1>0, <1>4, GetDidKept DEF FinishJson, Cached, TypeOK
  <2>2. UNCHANGED <<einOf, body>>
    BY <2>1 DEF chainVars
  <2>3. CoherentInv'
    BY <1>2, <2>1, <2>2 DEF CoherentInv, Restorable, RemovalAsked
  <2>4. PICK k \in saving[w] :
           saved' = [saved EXCEPT ![w] =
               {[key |-> k, did |-> GetDid(w), sound |-> coherent[w] /\ key[w] = k]}]
    BY <1>4 DEF FinishJson
  <2>5. ASSUME NEW v \in Wallets, NEW j \in saved'[v], j.sound PROVE Restorable(j.key, j.did)
    <3>1. CASE v = w
      <4>1. j = [key |-> k, did |-> GetDid(w), sound |-> coherent[w] /\ key[w] = k]
        BY <1>0, <2>4, <2>5, <3>1
      <4>2. coherent[w] /\ j.key = key[w] /\ j.did = GetDid(w)
        BY <2>5, <4>1
      <4> QED
        BY <4>2 DEF CoherentInv
    <3>2. CASE v # w
      BY <1>0, <2>4, <2>5, <3>2 DEF SavedInv
    <3> QED
      BY <3>1, <3>2
  <2> QED
    BY <2>2, <2>3, <2>5 DEF SavedInv, Restorable, RemovalAsked
<1>5. CASE UNCHANGED vars /\ UNCHANGED <<saved, coherent>>
  BY <1>5 DEF vars, chainVars, walletVars, callVars, SavedInv, CoherentInv, Restorable, RemovalAsked,
              GetDid, Running
<1>6. CASE Crash
  <2>1. UNCHANGED <<einOf, body, saved>> /\ \A w \in Wallets : ~coherent'[w]
    BY <1>6 DEF Crash, chainVars
  <2> QED
    BY <1>0, <2>1 DEF SavedInv, CoherentInv, Restorable, RemovalAsked
<1> QED
  BY <1>1, <1>3, <1>4, <1>5, <1>6, StoreSteps DEF ReadKeyForJson, storeAllVars, storeVars


(* A call that has ended was cut off, or has reported. *)
LEMMA EndsStep ==
  ASSUME BaseInv, EndsInv, [StoreNext]_storeAllVars
  PROVE  EndsInv'
<1>0. TypeOK /\ pc \in [Calls -> Pcs]
  BY DEF BaseInv, TypeOK, CallTypeOK
<1>1. CASE Operate /\ Next
  <2>1. ASSUME NEW c \in Calls, pc[c] # "done", pc'[c] = "done" PROVE result'[c] # {}
    <3>1. PICK d \in Calls : Start(d) \/ Proceed(d)
      BY <1>1, <2>1, OpenKeeps DEF Next, Chain, OffChain, callVars
    <3>2. d = c
      BY <1>0, <2>1, <3>1, OthersKept
    <3> QED
      BY <1>0, <2>1, <3>1, <3>2, OwnStep DEF Unseen, Begins, Ends
  <2>2. \A c \in Calls : pc[c] = "done" => pc'[c] = "done" /\ result'[c] = result[c]
    BY <1>0, <1>1, DoneStays
  <2>3. cut' = cut
    BY <1>1 DEF Operate
  <2> QED
    BY <2>1, <2>2, <2>3 DEF EndsInv
<1>2. CASE UNCHANGED callVars /\ cut' = cut
  BY <1>2 DEF callVars, EndsInv
<1>3. CASE Crash
  BY <1>0, <1>3 DEF Crash, EndsInv, Active
<1> QED
  BY <1>1, <1>2, <1>3, StoreSteps DEF OpenSaved, Configure, ReadKeyForJson, FinishJson, storeAllVars,
                                      storeVars, vars

(* At first everything that is saved came together. *)
LEMMA StoreInvInit == StoreInit => StoreInv
<1> SUFFICES ASSUME StoreInit PROVE StoreInv
  OBVIOUS
<1>1. BaseInv /\ SeqInv
  BY BaseInit, SeqInit DEF StoreInit
<1>2. EndsInv
  BY DEF StoreInit, Init, EndsInv
<1>3. CoherentInv
  BY DEF StoreInit, Init, CoherentInv, Running
<1>4. ASSUME NEW w \in Wallets, NEW j \in saved[w], j.sound PROVE Restorable(j.key, j.did)
  <2> DEFINE Json(i) == [key |-> i.key, did |-> i.did,
                         sound |-> i.key # NoKey /\ i.did # NoDid /\ InitialEin[i.key] = i.did]
  <2>1. saved \in [Wallets -> {{Json(i)} : i \in StoredWallets}]
    BY DEF StoreInit
  <2>2. \A i \in StoredWallets :
           Json(i).sound => Json(i).key \in Keys /\ Json(i).did # NoDid /\ InitialEin[Json(i).key] = Json(i).did
    BY WalletAssumption
  <2> HIDE DEF Json
  <2>3. PICK i \in StoredWallets : j = Json(i)
    BY <1>4, <2>1
  <2>4. j.key \in Keys /\ j.did # NoDid /\ InitialEin[j.key] = j.did
    BY <1>4, <2>2, <2>3
  <2> QED
    BY <2>4 DEF StoreInit, Init, ChainInit, Restorable, NoDid
<1> QED
  BY <1>1, <1>2, <1>3, <1>4 DEF StoreInv, SavedInv

(* Every step keeps the invariant. *)
LEMMA StoreInvStep == ASSUME Sequential, StoreInv, [StoreNext]_storeAllVars PROVE StoreInv'
<1>1. BaseInv'
  BY BaseStep DEF StoreInv
<1>2. SeqInv'
  BY StoreKeeps DEF StoreInv
<1>3. EndsInv'
  BY EndsStep DEF StoreInv
<1>4. SavedInv' /\ CoherentInv'
  BY CoherentStep DEF StoreInv
<1> QED
  BY <1>1, <1>2, <1>3, <1>4 DEF StoreInv

(* What calls made one at a time, with the process ending between any two  *)
(* steps of theirs, leave behind.                                          *)
THEOREM StoreInductive == ASSUME Sequential PROVE StoreSpec => []StoreInv
<1>1. StoreInv /\ [StoreNext]_storeAllVars => StoreInv'
  BY StoreInvStep
<1> QED
  BY <1>1, StoreInvInit, PTL DEF StoreSpec

(* JSON saved while key and DID belonged together names the identity the   *)
(* registry has, whatever happens to the process, until removal is asked   *)
(* for.                                                                    *)
THEOREM SavedCanBeRestored == ASSUME Sequential PROVE StoreSpec => []SavedIsRestorable
<1>1. StoreInv => SavedIsRestorable
  BY DEF StoreInv, SavedInv, Restorable, SavedIsRestorable
<1> QED
  BY <1>1, StoreInductive, PTL

(* What a report says of the step that made it. *)
LEMMA NewReport ==
  ASSUME BaseInv, [StoreNext]_storeAllVars, NEW c \in Calls, pc[c] # "done", NEW r \in result'[c]
  PROVE  Next /\ (Start(c) \/ Proceed(c)) /\ r \notin result[c]
<1>1. result[c] = {} /\ TypeOK
  BY DEF BaseInv, CallInv, ReportInv
<1>2. Operate /\ Next
  BY <1>1, StoreSteps DEF OpenSaved, Configure, ReadKeyForJson, FinishJson, Crash, storeAllVars, vars, callVars
<1>3. PICK d \in Calls : Start(d) \/ Proceed(d)
  BY <1>1, <1>2, OpenKeeps DEF Next, Chain, OffChain, callVars
<1>4. d = c
  BY <1>1, <1>3, OthersKept
<1> QED
  BY <1>1, <1>2, <1>3, <1>4

(* deleteDID on a wallet whose key and DID belong together is not refused  *)
(* because of its DID.                                                     *)
THEOREM RestoredMayDelete == ASSUME Sequential PROVE StoreSpec => RestoredCanDelete
<1> DEFINE Step == \A c \in Calls : pc[c] # "done" =>
                      \A r \in result'[c] :
                          r.cause \in {"noDid", "didDoesNotMatchKey"} /\ r.step = 1 =>
                              ~coherent[WalletOf[c]] \/ RemovalAsked(key[WalletOf[c]])
<1>1. StoreInv /\ [StoreNext]_storeAllVars => [Step]_storeAllVars
  <2> SUFFICES ASSUME StoreInv, [StoreNext]_storeAllVars, NEW c \in Calls, pc[c] # "done", NEW r \in result'[c],
                      r.cause \in {"noDid", "didDoesNotMatchKey"}, r.step = 1,
                      coherent[WalletOf[c]], ~RemovalAsked(key[WalletOf[c]])
               PROVE  FALSE
    OBVIOUS
  <2> DEFINE w == WalletOf[c]
  <2>0. /\ BaseInv /\ TypeOK /\ CallTypeOK /\ CallInv /\ w \in Wallets /\ SignInv(c) /\ DidInv(c)
        /\ einOf \in [Keys -> Nat] /\ step \in [Calls -> Steps] /\ kind \in [Calls -> Kinds]
    BY WalletAssumption DEF StoreInv, BaseInv, SeqInv, TypeOK, CallTypeOK, ChainTypeOK
  <2>1. /\ Start(c) \/ Proceed(c)
        /\ r \notin result[c]
    BY <2>0, NewReport
  <2>2. ReportedBy(c, r)
    BY <2>0, <2>1, Causes
  <2>3. key[w] \in Keys /\ einOf[key[w]] = GetDid(w) /\ GetDid(w) # NoEin
    BY <2>0 DEF StoreInv, CoherentInv, Restorable
  <2>4. EinFromDid(GetDid(w)) # NoEin
    BY <2>0, <2>3, WalletAssumption DEF EinFromDid
  <2>5. CASE CheckDid(c)
    <3>1. r.cause = "notReady"
      BY <2>0, <2>1, <2>4, <2>5 DEF CheckDid, CallTypeOK
    <3> QED
      BY <3>1
  <2>6. CASE Prepare(c) /\ Fail(c, "noDid")
    <3>1. step[c] = 1
      BY <2>0, <2>6, FailReport
    <3>2. Method(c) # "remove_associated_address_delegated"
      BY <2>0, <3>1 DEF Method, Kinds
    <3>3. Fail(c, "notReady") \/ UNCHANGED result
      BY <2>6, <3>2 DEF Prepare
    <3>4. r.cause = "notReady"
      BY <2>0, <2>1, <3>3, FailReport
    <3> QED
      BY <3>4
  <2>7. CASE ReadEin(c)
    <3>1. PICK d \in draft[c] :
             \/ UNCHANGED result
             \/ einOf[d.addr] \notin {NoEin, d.ein} /\ Fail(c, "didDoesNotMatchKey")
             \/ Fail(c, "notReady")
      BY <2>7 DEF ReadEin
    <3>2. d.addr = key[w] /\ d.ein = GetDid(w)
      BY <2>0, <2>7 DEF ReadEin, SignInv, DidInv
    <3>3. Fail(c, "notReady")
      BY <2>1, <2>3, <3>1, <3>2
    <3> QED
      BY <2>0, <3>3, FailReport
  <2> QED
    BY <2>2, <2>5, <2>6, <2>7 DEF ReportedBy
<1> HIDE DEF Step
<1>2. StoreSpec => [][Step]_storeAllVars
  BY <1>1, StoreInductive, PTL DEF StoreSpec
<1> QED
  BY <1>2 DEF RestoredCanDelete, Step

(* Once the process has ended in a call, the success of a later one shows  *)
(* on the chain, but for the two late transactions of calls that were cut  *)
(* off or left their end open.                                             *)
THEOREM SuccessOutlivesCrash == ASSUME Sequential PROVE StoreSpec => SuccessSurvivesCrash
<1> DEFINE Late == {d \in Calls : LeftOpen(d)} \cup cut
           Step == \A c \in Calls :
                      cut # {} /\ pc[c] # "done" /\ (\E r \in result'[c] : r.cause = "success") =>
                          ShownOnChain(c, Late)
<1>1. StoreInv /\ [StoreNext]_storeAllVars => [Step]_storeAllVars
  <2> SUFFICES ASSUME StoreInv, [StoreNext]_storeAllVars, NEW c \in Calls, pc[c] # "done",
                      NEW r \in result'[c], r.cause = "success"
               PROVE  ShownOnChain(c, Late)
    OBVIOUS
  <2>0. /\ BaseInv /\ TypeOK /\ CallInv /\ RegistryInv /\ EndsInv
        /\ SignInv(c) /\ ShownInv(c) /\ DidInv(c)
    BY DEF StoreInv, BaseInv, SeqInv
  <2>1. Start(c) \/ Proceed(c)
    BY <2>0, NewReport
  <2>2. ShownOnChain(c, {d \in Calls : OpenEnd(d)})
    BY <2>0, <2>1, SuccessOwn
  <2>3. {d \in Calls : OpenEnd(d)} \subseteq Late
    BY <2>0 DEF OpenEnd, EndsInv
  <2> QED
    BY <2>2, <2>3, ShownWider
<1> HIDE DEF Step
<1>2. StoreSpec => [][Step]_storeAllVars
  BY <1>1, StoreInductive, PTL DEF StoreSpec
<1> QED
  BY <1>2 DEF SuccessSurvivesCrash, Step


(* The delegator object of the new process starts with nothing. *)
LEMMA MatchStore ==
  ASSUME Sequential, OneWallet, StoreInv, MatchInv, RequestMatchesSignature, [StoreNext]_storeAllVars
  PROVE  MatchInv' /\ RequestMatchesSignature'
<1>0. TypeOK /\ RunInv /\ CallInv /\ OneAtATime /\ SeqInv
  BY DEF StoreInv, BaseInv, SeqInv
<1>1. CASE Operate /\ Next
  BY <1>0, <1>1, MatchStep, SentMatches
<1>2. ASSUME NEW w \in Wallets, OpenSaved(w) PROVE MatchInv' /\ RequestMatchesSignature'
  <2>1. PICK j \in saved[w] : Configure(w, j.key, j.did, FALSE)
    BY <1>2 DEF OpenSaved
  <2>2. UNCHANGED <<body, late>>
    BY <2>1 DEF Configure, chainVars
  <2> QED
    BY <1>0, <2>1, <2>2, MatchConfigure DEF RequestMatchesSignature
<1>3. CASE UNCHANGED <<chainVars, delegatorVars, key, callVars>>
  BY <1>3 DEF chainVars, delegatorVars, callVars, MatchInv, RequestMatchesSignature
<1>4. CASE Crash
  <2>1. /\ UNCHANGED <<body, late>> /\ fetch' = [c \in Calls |-> {}]
        /\ \A c \in Calls : pc'[c] \in {"idle", "done"}
        /\ \A w \in Wallets : key'[w] = NoKey
    BY <1>4 DEF Crash, chainVars, Active
  <2> QED
    BY <2>1 DEF MatchInv, RequestMatchesSignature
<1> QED
  BY <1>1, <1>2, <1>3, <1>4, StoreSteps DEF ReadKeyForJson, Cached, storeAllVars, vars, walletVars

(* With one wallet on the delegator and one call at a time, every request  *)
(* carries what was signed, in whichever process it was signed.            *)
THEOREM RestartsMatch == ASSUME Sequential, OneWallet PROVE StoreSpec => []RequestMatchesSignature
<1> DEFINE Match == MatchInv /\ RequestMatchesSignature
<1>1. StoreInit => Match
  BY DEF StoreInit, Init, ChainInit, DelegatorInit, MatchInv, RequestMatchesSignature
<1>2. StoreInv /\ Match /\ [StoreNext]_storeAllVars => Match'
  BY MatchStore
<1>3. Match => RequestMatchesSignature
  OBVIOUS
<1> HIDE DEF Match
<1> QED
  BY <1>1, <1>2, <1>3, StoreInductive, PTL DEF StoreSpec

===============================================================================
