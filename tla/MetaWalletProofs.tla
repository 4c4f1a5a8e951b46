--------------------------- MODULE MetaWalletProofs ---------------------------
(***************************************************************************)
(* Proofs about MetaWallet, for any number of wallets, calls and keys.     *)
(***************************************************************************)
EXTENDS MetaWallet, TLAPS

-----------------------------------------------------------------------------
(* Type correctness.  A step leaves most of the four groups of variables   *)
(* alone.                                                                  *)

(* A step that changes no variable of a group keeps the group's types. *)
LEMMA ChainKept == ASSUME ChainTypeOK, UNCHANGED chainVars PROVE ChainTypeOK'
  BY DEF ChainTypeOK, chainVars

(* The same for the delegator, ... *)
LEMMA DelegatorKept == ASSUME DelegatorTypeOK, UNCHANGED delegatorVars PROVE DelegatorTypeOK'
  BY DEF DelegatorTypeOK, delegatorVars

(* ... the wallets ... *)
LEMMA WalletKept == ASSUME WalletTypeOK, UNCHANGED walletVars PROVE WalletTypeOK'
  BY DEF WalletTypeOK, walletVars

(* ... and the calls. *)
LEMMA CallKept == ASSUME CallTypeOK, UNCHANGED callVars PROVE CallTypeOK'
  BY DEF CallTypeOK, callVars

(* The initial states have the types. *)
LEMMA TypeInit == Init => TypeOK
<1> USE DEF Init, ChainInit, DelegatorInit, NoEin, NoDid, NoTime
<1>1. Init => ChainTypeOK
  BY RegistryAssumption DEF ChainTypeOK, Steps, TxStates
<1>2. Init => DelegatorTypeOK
  BY DEF DelegatorTypeOK
<1>3. Init => WalletTypeOK
  BY DEF WalletTypeOK, Dids
<1>4. Init => CallTypeOK
  BY DEF CallTypeOK, Pcs, Kinds, Steps
<1> QED
  BY <1>1, <1>2, <1>3, <1>4 DEF TypeOK

(* getDid() gives a DID. *)
LEMMA GetDidType ==
  ASSUME WalletTypeOK, NEW w \in Wallets
  PROVE  GetDid(w) \in Dids
  BY DEF WalletTypeOK, GetDid, Dids

(* ... so caching it keeps the type of did. *)
LEMMA CacheDidType ==
  ASSUME WalletTypeOK, NEW w \in Wallets, CacheDid(w)
  PROVE  did' \in [Wallets -> Dids]
  BY GetDidType DEF WalletTypeOK, CacheDid

(* What a failing call changes keeps its type. *)
LEMMA FailTypes ==
  ASSUME WalletTypeOK, CallTypeOK, NEW c \in Calls, NEW why \in Outcomes, Fail(c, why)
  PROVE  /\ pc' \in [Calls -> Pcs]
         /\ result' \in [Calls -> SUBSET Results]
         /\ did' \in [Wallets -> Dids]
<1>1. WalletOf[c] \in Wallets /\ GetDid(WalletOf[c]) \in Dids /\ NoDid \in Dids
  BY GetDidType, WalletAssumption DEF Dids, NoDid, NoEin
<1>2. pc' \in [Calls -> Pcs]
  BY DEF Fail, Goto, CallTypeOK, Pcs
<1>3. /\ [cause |-> why, step |-> 1, did |-> NoDid] \in Results
      /\ [cause |-> why, step |-> 2, did |-> GetDid(WalletOf[c])] \in Results
  BY <1>1 DEF Results, Steps
<1>4. result' \in [Calls -> SUBSET Results]
  BY <1>3 DEF Fail, CallTypeOK
<1>5. did' \in [Wallets -> Dids]
  BY <1>1, CacheDidType DEF Fail, WalletTypeOK
<1> QED
  BY <1>2, <1>4, <1>5

(* The drafts the signing functions start from. *)
LEMMA DraftType ==
  ASSUME NEW k \in Keys, NEW e \in Nat
  PROVE  [addr |-> k, ein |-> e, ts |-> NoTime, key |-> k] \in Signed
  BY DEF Signed, NoTime

(* Opening a wallet keeps the types. *)
LEMMA ConfigureTypes ==
  ASSUME TypeOK, NEW w \in Wallets, NEW k \in Keys \cup {NoKey}, NEW d \in Dids, NEW ext \in BOOLEAN,
         Configure(w, k, d, ext)
  PROVE  TypeOK'
<1> USE DEF TypeOK
<1>1. ChainTypeOK'
  BY ChainKept DEF Configure
<1>2. DelegatorTypeOK'
  BY DEF Configure, FetchRegistry, DelegatorTypeOK
<1>3. WalletTypeOK'
  BY DEF Configure, WalletTypeOK
<1>4. CallTypeOK'
  BY CallKept DEF Configure
<1> QED
  BY <1>1, <1>2, <1>3, <1>4

(* Every step of Next keeps the types, action by action. *)
LEMMA TypeStep ==
  ASSUME TypeOK, RunInv, [Next]_vars
  PROVE  TypeOK'
<1> USE DEF TypeOK
<1>1. ASSUME NEW w \in Wallets, Open(w) PROVE TypeOK'
  <2>1. PICK k \in Keys \cup {NoKey}, d \in Dids, ext \in BOOLEAN : Configure(w, k, d, ext)
    <3>1. CASE OpenStored(w)
      BY <3>1, WalletAssumption DEF OpenStored
    <3>2. CASE OpenExternal(w)
      <4>1. PICK k \in SignerKeys, d \in {NoDid} \cup {InitialEin[l] : l \in Keys} :
                Configure(w, k, d, TRUE)
        BY <3>2 DEF OpenExternal
      <4>2. k \in Keys
        BY WalletAssumption
      <4>3. d \in Dids
        BY RegistryAssumption DEF Dids, NoDid, NoEin
      <4> QED
        BY <4>1, <4>2, <4>3
    <3> QED
      BY <1>1, <3>1, <3>2 DEF Open
  <2> QED
    BY <2>1, ConfigureTypes
<1>2. ASSUME NEW c \in Calls, CreateDID(c) PROVE TypeOK'
  <2>1. ChainTypeOK'
    BY <1>2, ChainKept DEF CreateDID, chainVars
  <2>2. DelegatorTypeOK'
    BY <1>2, WalletAssumption DEF CreateDID, DelegatorTypeOK, StartCreate
  <2>3. WalletTypeOK'
    BY <1>2, WalletAssumption DEF CreateDID, WalletTypeOK, StartCreate
  <2>4. CallTypeOK'
    BY <1>2 DEF CreateDID, CallTypeOK, StartCreate, Goto, Pcs, Kinds
  <2> QED
    BY <2>1, <2>2, <2>3, <2>4
<1>3. ASSUME NEW c \in Calls, CreateDIDWithSigner(c) PROVE TypeOK'
  <2>1. ChainTypeOK'
    BY <1>3, ChainKept DEF CreateDIDWithSigner, chainVars
  <2>2. DelegatorTypeOK'
    BY <1>3, WalletAssumption DEF CreateDIDWithSigner, DelegatorTypeOK, StartCreate
  <2>3. WalletTypeOK'
    BY <1>3, WalletAssumption DEF CreateDIDWithSigner, WalletTypeOK, StartCreate
  <2>4. CallTypeOK'
    BY <1>3 DEF CreateDIDWithSigner, CallTypeOK, StartCreate, Goto, Pcs, Kinds
  <2> QED
    BY <2>1, <2>2, <2>3, <2>4
<1>4. ASSUME NEW c \in Calls, RefuseSigner(c) PROVE TypeOK'
  <2>1. ChainTypeOK'
    BY <1>4, ChainKept DEF RefuseSigner, chainVars
  <2>2. DelegatorTypeOK'
    BY <1>4, DelegatorKept DEF RefuseSigner, delegatorVars
  <2>3. WalletTypeOK'
    BY <1>4, FailTypes DEF RefuseSigner, WalletTypeOK, Outcomes
  <2>4. CallTypeOK'
    BY <1>4, FailTypes DEF RefuseSigner, CallTypeOK, Outcomes, Kinds
  <2> QED
    BY <2>1, <2>2, <2>3, <2>4
<1>5. ASSUME NEW c \in Calls, DeleteDID(c) PROVE TypeOK'
  <2>1. ChainTypeOK'
    BY <1>5, ChainKept DEF DeleteDID, chainVars
  <2>2. DelegatorTypeOK'
    BY <1>5, DelegatorKept DEF DeleteDID, delegatorVars
  <2>3. WalletTypeOK'
    BY <1>5, WalletKept DEF DeleteDID, walletVars
  <2>4. CallTypeOK'
    BY <1>5 DEF DeleteDID, CallTypeOK, Goto, Pcs, Kinds
  <2> QED
    BY <2>1, <2>2, <2>3, <2>4
<1>6. ASSUME NEW c \in Calls, CheckDid(c) PROVE TypeOK'
  <2> DEFINE w == WalletOf[c]
             ein == EinFromDid(GetDid(w))
  <2>1. w \in Wallets /\ GetDid(w) \in Dids
    BY GetDidType, WalletAssumption
  <2>2. ein \in Nat
    BY <2>1 DEF EinFromDid, Dids, NoEin
  <2>3. ChainTypeOK' /\ DelegatorTypeOK'
    BY <1>6, ChainKept, DelegatorKept DEF CheckDid
  <2>4. did' \in [Wallets -> Dids]
    BY <1>6, <2>1, CacheDidType DEF CheckDid
  <2>5. WalletTypeOK'
    BY <1>6, <2>4 DEF CheckDid, WalletTypeOK
  <2>6. draft' \in [Calls -> SUBSET Signed]
    <3>1. CASE UNCHANGED draft
      BY <3>1 DEF CallTypeOK
    <3>2. CASE key[w] # NoKey /\ draft' = [draft EXCEPT ![c] =
                   {[addr |-> key[w], ein |-> ein, ts |-> NoTime, key |-> key[w]]}]
      <4>1. key[w] \in Keys
        BY <3>2, <2>1 DEF WalletTypeOK
      <4>2. [addr |-> key[w], ein |-> ein, ts |-> NoTime, key |-> key[w]] \in Signed
        BY <4>1, <2>2, DraftType
      <4> QED
        BY <3>2, <4>2 DEF CallTypeOK
    <3> QED
      BY <1>6, <3>1, <3>2 DEF CheckDid
  <2>7. pc' \in [Calls -> Pcs]
    BY <1>6 DEF CheckDid, Goto, CallTypeOK, Pcs
  <2>8. result' \in [Calls -> SUBSET Results]
    BY <1>6 DEF CheckDid, CallTypeOK, Results, Outcomes, Steps, Dids, NoDid, NoEin
  <2>9. CallTypeOK'
    BY <1>6, <2>6, <2>7, <2>8 DEF CheckDid, CallTypeOK
  <2> QED
    BY <2>3, <2>5, <2>9
<1>7. ASSUME NEW c \in Calls, ReadEin(c) PROVE TypeOK'
  <2>1. ChainTypeOK'
    BY <1>7, ChainKept DEF ReadEin, chainVars
  <2>2. DelegatorTypeOK'
    BY <1>7, DelegatorKept DEF ReadEin, delegatorVars
  <2>3. WalletTypeOK'
    BY <1>7, FailTypes DEF ReadEin, WalletTypeOK, Outcomes
  <2>4. CallTypeOK'
    BY <1>7, FailTypes DEF ReadEin, CallTypeOK, Outcomes, Goto, Pcs
  <2> QED
    BY <2>1, <2>2, <2>3, <2>4
<1>8. ASSUME NEW c \in Calls, Prepare(c) PROVE TypeOK'
  <2> DEFINE w == WalletOf[c]
             removes == Method(c) = "remove_associated_address_delegated"
             ein == IF removes THEN EinFromDid(GetDid(w)) ELSE NoEin
  <2>1. w \in Wallets /\ GetDid(w) \in Dids
    BY GetDidType, WalletAssumption
  <2>2. ein \in Nat
    BY <2>1 DEF EinFromDid, Dids, NoEin
  <2>3. ChainTypeOK'
    BY <1>8, ChainKept DEF Prepare
  <2>4. DelegatorTypeOK'
    BY <1>8 DEF Prepare, DelegatorTypeOK, ChainTypeOK, StartFetch
  <2>5. pc' \in [Calls -> Pcs] /\ result' \in [Calls -> SUBSET Results]
        /\ did' \in [Wallets -> Dids]
    <3>1. CASE Fail(c, "notReady")
      BY <3>1, FailTypes DEF Outcomes
    <3>2. CASE Fail(c, "noDid")
      BY <3>2, FailTypes DEF Outcomes
    <3>3. CASE Goto(c, "fetching") /\ UNCHANGED result /\ (CacheDid(w) \/ UNCHANGED did)
      BY <3>3, <2>1, CacheDidType DEF Goto, CallTypeOK, Pcs, WalletTypeOK
    <3> QED
      BY <1>8, <3>1, <3>2, <3>3 DEF Prepare
  <2>6. WalletTypeOK'
    BY <1>8, <2>5 DEF Prepare, WalletTypeOK
  <2>7. draft' \in [Calls -> SUBSET Signed]
    <3>1. CASE UNCHANGED draft
      BY <3>1 DEF CallTypeOK
    <3>2. CASE key[w] # NoKey /\ draft' = [draft EXCEPT ![c] =
                   {[addr |-> key[w], ein |-> ein, ts |-> NoTime, key |-> key[w]]}]
      <4>1. key[w] \in Keys
        BY <3>2, <2>1 DEF WalletTypeOK
      <4>2. [addr |-> key[w], ein |-> ein, ts |-> NoTime, key |-> key[w]] \in Signed
        BY <4>1, <2>2, DraftType
      <4> QED
        BY <3>2, <4>2 DEF CallTypeOK
    <3> QED
      BY <1>8, <3>1, <3>2 DEF Prepare
  <2>8. CallTypeOK'
    BY <1>8, <2>5, <2>7 DEF Prepare, CallTypeOK
  <2> QED
    BY <2>3, <2>4, <2>6, <2>8
<1>9. ASSUME NEW c \in Calls, BlockFetched(c) PROVE TypeOK'
  <2>1. PICK t \in FetchedTimes(c) :
            /\ StoreTimeStamp(c, t)
            /\ IF pc[c] = "fetching"
                 THEN /\ Goto(c, "signing")
                      /\ draft' = [draft EXCEPT ![c] = {[d EXCEPT !.ts = t] : d \in @}]
                 ELSE UNCHANGED <<pc, draft>>
    BY <1>9 DEF BlockFetched
  <2>2. t \in Nat
    BY DEF FetchedTimes
  <2>3. ChainTypeOK' /\ WalletTypeOK'
    BY <1>9, ChainKept, WalletKept DEF BlockFetched
  <2>4. DelegatorTypeOK'
    BY <1>9, <2>1, <2>2 DEF BlockFetched, StoreTimeStamp, DelegatorTypeOK
  <2>5. pc' \in [Calls -> Pcs]
    BY <2>1 DEF Goto, CallTypeOK, Pcs
  <2>6. draft' \in [Calls -> SUBSET Signed]
    <3>1. {[d EXCEPT !.ts = t] : d \in draft[c]} \subseteq Signed
      BY <2>2 DEF CallTypeOK, Signed
    <3> QED
      BY <2>1, <3>1 DEF CallTypeOK
  <2>7. CallTypeOK'
    BY <1>9, <2>5, <2>6 DEF BlockFetched, CallTypeOK
  <2> QED
    BY <2>3, <2>4, <2>7
<1>10. ASSUME NEW c \in Calls, BlockMissing(c) PROVE TypeOK'
  <2>1. ChainTypeOK'
    BY <1>10, ChainKept DEF BlockMissing, chainVars
  <2>2. DelegatorTypeOK'
    BY <1>10 DEF BlockMissing, DelegatorTypeOK, FetchFails
  <2>3. WalletTypeOK'
    BY <1>10, FailTypes DEF BlockMissing, WalletTypeOK, Outcomes
  <2>4. CallTypeOK'
    BY <1>10, FailTypes DEF BlockMissing, CallTypeOK, Outcomes
  <2> QED
    BY <2>1, <2>2, <2>3, <2>4
<1>11. ASSUME NEW c \in Calls, FetchTimesOut(c) PROVE TypeOK'
  <2>1. ChainTypeOK'
    BY <1>11, ChainKept DEF FetchTimesOut, chainVars
  <2>2. DelegatorTypeOK'
    BY <1>11 DEF FetchTimesOut, DelegatorTypeOK
  <2>3. WalletTypeOK'
    BY <1>11, FailTypes DEF FetchTimesOut, WalletTypeOK, Outcomes
  <2>4. CallTypeOK'
    BY <1>11, FailTypes DEF FetchTimesOut, CallTypeOK, Outcomes
  <2> QED
    BY <2>1, <2>2, <2>3, <2>4
<1>12. ASSUME NEW c \in Calls, Sign(c) PROVE TypeOK'
  <2>1. key[WalletOf[c]] \in Keys
    BY <1>12, WalletAssumption DEF Sign, RunInv, WalletTypeOK
  <2>2. {[d EXCEPT !.key = key[WalletOf[c]]] : d \in draft[c]} \subseteq Signed
    BY <2>1 DEF CallTypeOK, Signed
  <2>3. draft' \in [Calls -> SUBSET Signed]
    BY <1>12, <2>2 DEF Sign, CallTypeOK
  <2>4. CallTypeOK'
    BY <1>12, <2>3 DEF Sign, Goto, CallTypeOK, Pcs
  <2> QED
    BY <1>12, <2>4, ChainKept, DelegatorKept, WalletKept DEF Sign
<1>13. ASSUME NEW c \in Calls, SignerFails(c) PROVE TypeOK'
  <2>1. ChainTypeOK'
    BY <1>13, ChainKept DEF SignerFails, chainVars
  <2>2. DelegatorTypeOK'
    BY <1>13, DelegatorKept DEF SignerFails, delegatorVars
  <2>3. WalletTypeOK'
    BY <1>13, FailTypes DEF SignerFails, WalletTypeOK, Outcomes
  <2>4. CallTypeOK'
    BY <1>13, FailTypes DEF SignerFails, CallTypeOK, Outcomes
  <2> QED
    BY <2>1, <2>2, <2>3, <2>4
<1>14. ASSUME NEW c \in Calls, Send(c) PROVE TypeOK'
  <2>1. publicKey \in Keys
    BY <1>14 DEF Send, CanSend, DelegatorTypeOK
  <2>2. Method(c) \in Methods
    BY DEF Method, Methods, CallTypeOK, Kinds, Steps
  <2>3. {RequestOf(Method(c), sig) : sig \in draft[c]} \subseteq Requests
    BY <2>1, <2>2 DEF RequestOf, Requests, CallTypeOK, DelegatorTypeOK
  <2>4. body' \in [Calls -> [Steps -> SUBSET Requests]]
    BY <1>14, <2>3 DEF Send, ChainTypeOK, CallTypeOK
  <2>5. ChainTypeOK'
    BY <1>14, <2>4 DEF Send, ChainTypeOK
  <2>6. CallTypeOK'
    BY <1>14 DEF Send, Goto, CallTypeOK, Pcs
  <2> QED
    BY <1>14, <2>5, <2>6, DelegatorKept, WalletKept DEF Send
<1>15. ASSUME NEW c \in Calls, ReplyTxId(c) PROVE TypeOK'
  <2>1. ChainTypeOK'
    BY <1>15, ChainKept DEF ReplyTxId, chainVars
  <2>2. DelegatorTypeOK'
    BY <1>15, DelegatorKept DEF ReplyTxId, delegatorVars
  <2>3. WalletTypeOK'
    BY <1>15, WalletKept DEF ReplyTxId, walletVars
  <2>4. CallTypeOK'
    BY <1>15 DEF ReplyTxId, CallTypeOK, Goto, Pcs
  <2> QED
    BY <2>1, <2>2, <2>3, <2>4
<1>16. ASSUME NEW c \in Calls, ReplyError(c) PROVE TypeOK'
  <2>1. ChainTypeOK'
    BY <1>16, ChainKept DEF ReplyError, chainVars
  <2>2. DelegatorTypeOK'
    BY <1>16, DelegatorKept DEF ReplyError, delegatorVars
  <2>3. WalletTypeOK'
    BY <1>16, FailTypes DEF ReplyError, WalletTypeOK, Outcomes
  <2>4. CallTypeOK'
    BY <1>16, FailTypes DEF ReplyError, CallTypeOK, Outcomes
  <2> QED
    BY <2>1, <2>2, <2>3, <2>4
<1>17. ASSUME NEW c \in Calls, ReplyWithoutTxId(c) PROVE TypeOK'
  <2>1. ChainTypeOK'
    <3>1. CASE UNCHANGED tx
      BY <1>17, <3>1 DEF ReplyWithoutTxId, ChainTypeOK
    <3>2. CASE tx' = [tx EXCEPT ![c][step[c]] = "refused"]
      BY <1>17, <3>2 DEF ReplyWithoutTxId, ChainTypeOK, CallTypeOK, TypeOK, TxStates
    <3> QED
      BY <1>17, <3>1, <3>2 DEF ReplyWithoutTxId
  <2>2. DelegatorTypeOK'
    BY <1>17, DelegatorKept DEF ReplyWithoutTxId, delegatorVars
  <2>3. WalletTypeOK'
    BY <1>17, FailTypes DEF ReplyWithoutTxId, WalletTypeOK, Outcomes
  <2>4. CallTypeOK'
    BY <1>17, FailTypes DEF ReplyWithoutTxId, CallTypeOK, Outcomes, Goto, Pcs
  <2> QED
    BY <2>1, <2>2, <2>3, <2>4
<1>18. ASSUME NEW c \in Calls, GiveUpReceipt(c) PROVE TypeOK'
  <2>1. ChainTypeOK'
    BY <1>18, ChainKept DEF GiveUpReceipt, chainVars
  <2>2. DelegatorTypeOK'
    BY <1>18, DelegatorKept DEF GiveUpReceipt, delegatorVars
  <2>3. WalletTypeOK'
    BY <1>18, FailTypes DEF GiveUpReceipt, WalletTypeOK, Outcomes
  <2>4. CallTypeOK'
    BY <1>18, FailTypes DEF GiveUpReceipt, CallTypeOK, Outcomes
  <2> QED
    BY <2>1, <2>2, <2>3, <2>4
<1>19. ASSUME NEW c \in Calls, NoReceipt(c) PROVE TypeOK'
  <2>1. ChainTypeOK'
    BY <1>19, ChainKept DEF NoReceipt, chainVars
  <2>2. DelegatorTypeOK'
    BY <1>19, DelegatorKept DEF NoReceipt, delegatorVars
  <2>3. WalletTypeOK'
    BY <1>19, WalletKept DEF NoReceipt, walletVars
  <2>4. CallTypeOK'
    BY <1>19 DEF NoReceipt, CallTypeOK, Goto, Pcs
  <2> QED
    BY <2>1, <2>2, <2>3, <2>4
<1>20. ASSUME NEW c \in Calls, ReceiptFailed(c) PROVE TypeOK'
  <2>1. ChainTypeOK'
    BY <1>20, ChainKept DEF ReceiptFailed, chainVars
  <2>2. DelegatorTypeOK'
    BY <1>20, DelegatorKept DEF ReceiptFailed, delegatorVars
  <2>3. WalletTypeOK'
    BY <1>20, FailTypes DEF ReceiptFailed, WalletTypeOK, Outcomes, HasReceipt
  <2>4. CallTypeOK'
    BY <1>20, FailTypes DEF ReceiptFailed, CallTypeOK, Outcomes
  <2> QED
    BY <2>1, <2>2, <2>3, <2>4
<1>21. ASSUME NEW c \in Calls, IdentityMined(c) PROVE TypeOK'
  <2>1. ChainTypeOK' /\ DelegatorTypeOK'
    BY <1>21, ChainKept, DelegatorKept DEF IdentityMined
  <2>2. did' \in [Wallets -> Dids]
    BY <1>21 DEF IdentityMined, WalletTypeOK, Dids, NoDid, NoEin
  <2>3. metaID' \in [Wallets -> Nat]
    BY <1>21 DEF IdentityMined, WalletTypeOK, ChainTypeOK, NoEin
  <2>4. WalletTypeOK'
    BY <1>21, <2>2, <2>3 DEF IdentityMined, HasReceipt, WalletTypeOK
  <2>5. result' \in [Calls -> SUBSET Results]
    BY <1>21 DEF IdentityMined, CallTypeOK, Results, Outcomes, Steps, Dids, NoDid, NoEin
  <2>6. pc' \in [Calls -> Pcs] /\ step' \in [Calls -> Steps]
    BY <1>21 DEF IdentityMined, Goto, CallTypeOK, Pcs, Steps
  <2>7. CallTypeOK'
    BY <1>21, <2>5, <2>6 DEF IdentityMined, CallTypeOK
  <2> QED
    BY <2>1, <2>4, <2>7
<1>22. ASSUME NEW c \in Calls, PublicKeyRemoved(c) PROVE TypeOK'
  <2>1. ChainTypeOK'
    BY <1>22, ChainKept DEF PublicKeyRemoved, chainVars
  <2>2. DelegatorTypeOK'
    BY <1>22, DelegatorKept DEF PublicKeyRemoved, delegatorVars
  <2>3. WalletTypeOK'
    BY <1>22 DEF PublicKeyRemoved, WalletTypeOK, HasReceipt
  <2>4. CallTypeOK'
    BY <1>22 DEF PublicKeyRemoved, CallTypeOK, Goto, Pcs, Steps
  <2> QED
    BY <2>1, <2>2, <2>3, <2>4
<1>23. ASSUME NEW c \in Calls, SecondMined(c) PROVE TypeOK'
  <2>1. ChainTypeOK'
    BY <1>23, ChainKept DEF SecondMined, chainVars
  <2>2. DelegatorTypeOK'
    BY <1>23, DelegatorKept DEF SecondMined, delegatorVars
  <2>3. WalletTypeOK'
    BY <1>23 DEF SecondMined, WalletTypeOK, HasReceipt
  <2>4. CallTypeOK'
    BY <1>23 DEF SecondMined, CallTypeOK, Succeed, Goto, Pcs, Steps, Results, Outcomes, Dids, NoDid, NoEin
  <2> QED
    BY <2>1, <2>2, <2>3, <2>4
<1>24. ASSUME NEW c \in Calls, ReadCount(c) PROVE TypeOK'
  <2>1. ChainTypeOK'
    BY <1>24, ChainKept DEF ReadCount, chainVars
  <2>2. DelegatorTypeOK'
    BY <1>24, DelegatorKept DEF ReadCount, delegatorVars
  <2>3. WalletTypeOK'
    BY <1>24, WalletKept DEF ReadCount, walletVars
  <2>4. CallTypeOK'
    BY <1>24, WalletAssumption DEF ReadCount, CallTypeOK, Goto, Pcs, WalletTypeOK
  <2> QED
    BY <2>1, <2>2, <2>3, <2>4
<1>25. ASSUME NEW c \in Calls, WriteCount(c) PROVE TypeOK'
  <2>1. seen[c] + 1 \in Nat
    BY DEF CallTypeOK
  <2>2. tryReceiptCount' \in [Wallets -> Nat]
    BY <1>25, <2>1 DEF WriteCount, WalletTypeOK
  <2>3. WalletTypeOK'
    BY <1>25, <2>2 DEF WriteCount, WalletTypeOK
  <2>4. CallTypeOK'
    BY <1>25 DEF WriteCount, CallTypeOK, Goto, Pcs
  <2> QED
    BY <1>25, <2>3, <2>4, ChainKept, DelegatorKept DEF WriteCount
<1>26. ASSUME Chain PROVE TypeOK'
  <2>1. DelegatorTypeOK' /\ WalletTypeOK' /\ CallTypeOK'
    BY <1>26, DelegatorKept, WalletKept, CallKept DEF Chain, OffChain
  <2>2. CASE NextBlock
    BY <2>1, <2>2 DEF NextBlock, ChainTypeOK
  <2>3. ASSUME NEW c \in Calls, NEW s \in Steps, Submit(c, s) PROVE ChainTypeOK'
    BY <2>3 DEF Submit, ChainTypeOK, TxStates
  <2>4. ASSUME NEW c \in Calls, NEW s \in Steps, MineOk(c, s) PROVE ChainTypeOK'
    <3>1. PICK b \in Requests : b \in body[c][s] /\ Apply(c, b)
      BY <2>4 DEF MineOk, ChainTypeOK
    <3>2. b.addr \in Keys
      BY DEF Requests
    <3>3. einOf' \in [Keys -> Nat] /\ lastEin' \in Nat /\ created' \in [Calls -> Nat]
      <4>1. lastEin + 1 \in Nat /\ NoEin \in Nat
        BY DEF ChainTypeOK, NoEin
      <4>2. CASE b.method = "create_identity"
        BY <3>1, <4>1, <4>2 DEF Apply, ChainTypeOK
      <4>3. CASE b.method # "create_identity"
        BY <3>1, <4>1, <4>3 DEF Apply, ChainTypeOK
      <4> QED
        BY <4>2, <4>3
    <3>4. hasPublicKey' \in [Keys -> BOOLEAN]
      BY <3>1, <3>2 DEF Apply, ChainTypeOK
    <3>5. tx' \in [Calls -> [Steps -> TxStates]]
      BY <2>4 DEF MineOk, ChainTypeOK, TxStates
    <3> QED
      BY <2>4, <3>3, <3>4, <3>5 DEF MineOk, ChainTypeOK
  <2>5. ASSUME NEW c \in Calls, NEW s \in Steps, MineReverted(c, s) PROVE ChainTypeOK'
    BY <2>5 DEF MineReverted, ChainTypeOK, TxStates
  <2> QED
    BY <1>26, <2>1, <2>2, <2>3, <2>4, <2>5 DEF Chain
<1>27. ASSUME UNCHANGED vars PROVE TypeOK'
  BY <1>27, ChainKept, DelegatorKept, WalletKept, CallKept DEF vars
<1> QED
  BY <1>1, <1>2, <1>3, <1>4, <1>5, <1>6, <1>7, <1>8, <1>9, <1>10, <1>11, <1>12, <1>13, <1>14, <1>15, <1>16, <1>17, <1>18, <1>19, <1>20, <1>21, <1>22, <1>23, <1>24, <1>25, <1>26, <1>27 DEF Next, Start, Proceed, Fetching, Signing, Reply, Receipt



-----------------------------------------------------------------------------
(* Keys, and what was read with them, do not disappear again. *)

(* No wallet is opened and no call has begun. *)
LEMMA RunInit == Init => RunInv
  BY DEF Init, DelegatorInit, RunInv

(* Opening a wallet disturbs no call. *)
LEMMA ConfigureRuns ==
  ASSUME TypeOK, RunInv, NEW w \in Wallets, NEW k, NEW d, NEW ext, Configure(w, k, d, ext)
  PROVE  RunInv'
<1>0. key \in [Wallets -> Keys \cup {NoKey}] /\ WalletOf \in [Calls -> Wallets]
  BY WalletAssumption DEF TypeOK, WalletTypeOK
<1>1. ASSUME NEW v \in Wallets, v \notin opened' PROVE key'[v] = NoKey
  BY <1>0, <1>1 DEF Configure, RunInv
<1>2. ASSUME NEW v \in Wallets, key'[v] # NoKey PROVE publicKey' # NoKey
  BY <1>0, <1>2 DEF Configure, RunInv
<1>3. ASSUME NEW c \in Calls, pc[c] \notin {"idle", "done"}
      PROVE  WalletOf[c] \in opened /\ WalletOf[c] # w /\ key'[WalletOf[c]] = key[WalletOf[c]]
  BY <1>0, <1>3 DEF Configure, RunInv
<1>4. registryAddress => registryAddress'
  BY DEF Configure, FetchRegistry
<1>5. pc' = pc /\ timeStamp' = timeStamp /\ opened \subseteq opened'
  BY DEF Configure, callVars
<1> QED
  BY <1>1, <1>2, <1>3, <1>4, <1>5 DEF RunInv

(* Every step keeps the keys, the service addresses and the time stamp. *)
LEMMA RunStep ==
  ASSUME TypeOK, RunInv, [Next]_vars
  PROVE  RunInv'
<1>0. pc \in [Calls -> Pcs] /\ key \in [Wallets -> Keys \cup {NoKey}] /\ WalletOf \in [Calls -> Wallets]
  BY WalletAssumption DEF TypeOK, CallTypeOK, WalletTypeOK
<1>1. ASSUME NEW w \in Wallets, Open(w) PROVE RunInv'
  <2>1. PICK k, d, ext : Configure(w, k, d, ext)
    BY <1>1 DEF Open, OpenStored, OpenExternal
  <2> QED
    BY <2>1, ConfigureRuns
<1>2. ASSUME NEW c \in Calls, CreateDID(c) PROVE RunInv'
  <2>1. CASE publicKey' = NewKey[c] /\ key' = [key EXCEPT ![WalletOf[c]] = NewKey[c]]
    <3>1. NewKey[c] # NoKey
      BY WalletAssumption, DelegatorAssumption
    <3> QED
      BY <1>0, <1>2, <2>1, <3>1 DEF CreateDID, StartCreate, MayCall, Goto, RunInv
  <2>2. CASE publicKey' = publicKey /\ key' = key
    BY <1>0, <1>2, <2>2 DEF CreateDID, StartCreate, MayCall, Goto, RunInv
  <2> QED
    BY <1>0, <1>2, <2>1, <2>2 DEF CreateDID, StartCreate
<1>3. ASSUME NEW c \in Calls, CreateDIDWithSigner(c) PROVE RunInv'
  BY <1>0, <1>3, WalletAssumption, DelegatorAssumption DEF CreateDIDWithSigner, StartCreate, MayCall, Goto, RunInv
<1>4. ASSUME NEW c \in Calls, RefuseSigner(c) PROVE RunInv'
  BY <1>0, <1>4 DEF RefuseSigner, MayCall, Fail, Goto, RunInv, delegatorVars, walletVars
<1>5. ASSUME NEW c \in Calls, DeleteDID(c) PROVE RunInv'
  BY <1>0, <1>5 DEF DeleteDID, MayCall, Goto, RunInv, delegatorVars, walletVars
<1>6. ASSUME NEW c \in Calls, CheckDid(c) PROVE RunInv'
  BY <1>0, <1>6 DEF CheckDid, Goto, RunInv, delegatorVars, walletVars
<1>7. ASSUME NEW c \in Calls, ReadEin(c) PROVE RunInv'
  BY <1>0, <1>7 DEF ReadEin, Fail, Goto, RunInv, delegatorVars, walletVars
<1>8. ASSUME NEW c \in Calls, Prepare(c) PROVE RunInv'
  BY <1>0, <1>8 DEF Prepare, Fail, Goto, RunInv, delegatorVars, walletVars
<1>9. ASSUME NEW c \in Calls, BlockFetched(c) PROVE RunInv'
  <2>1. timeStamp' # NoTime
    BY <1>9 DEF BlockFetched, StoreTimeStamp, FetchedTimes, NoTime
  <2> QED
    BY <1>0, <1>9, <2>1 DEF BlockFetched, Goto, RunInv, walletVars
<1>10. ASSUME NEW c \in Calls, BlockMissing(c) PROVE RunInv'
  BY <1>0, <1>10 DEF BlockMissing, FetchFails, Fail, Goto, RunInv, delegatorVars, walletVars
<1>11. ASSUME NEW c \in Calls, FetchTimesOut(c) PROVE RunInv'
  BY <1>0, <1>11 DEF FetchTimesOut, Fail, Goto, RunInv, delegatorVars, walletVars
<1>12. ASSUME NEW c \in Calls, Sign(c) PROVE RunInv'
  BY <1>0, <1>12 DEF Sign, Goto, RunInv, delegatorVars, walletVars
<1>13. ASSUME NEW c \in Calls, SignerFails(c) PROVE RunInv'
  BY <1>0, <1>13 DEF SignerFails, Fail, Goto, RunInv, delegatorVars, walletVars
<1>14. ASSUME NEW c \in Calls, Send(c) PROVE RunInv'
  BY <1>0, <1>14 DEF Send, Goto, RunInv, delegatorVars, walletVars
<1>15. ASSUME NEW c \in Calls, ReplyTxId(c) PROVE RunInv'
  BY <1>0, <1>15 DEF ReplyTxId, Goto, RunInv, delegatorVars, walletVars
<1>16. ASSUME NEW c \in Calls, ReplyError(c) PROVE RunInv'
  BY <1>0, <1>16 DEF ReplyError, Fail, Goto, RunInv, delegatorVars, walletVars
<1>17. ASSUME NEW c \in Calls, ReplyWithoutTxId(c) PROVE RunInv'
  BY <1>0, <1>17 DEF ReplyWithoutTxId, Fail, Goto, RunInv, delegatorVars, walletVars
<1>18. ASSUME NEW c \in Calls, GiveUpReceipt(c) PROVE RunInv'
  BY <1>0, <1>18 DEF GiveUpReceipt, Fail, Goto, RunInv, delegatorVars, walletVars
<1>19. ASSUME NEW c \in Calls, NoReceipt(c) PROVE RunInv'
  BY <1>0, <1>19 DEF NoReceipt, MayPoll, Goto, RunInv, delegatorVars, walletVars
<1>20. ASSUME NEW c \in Calls, ReceiptFailed(c) PROVE RunInv'
  BY <1>0, <1>20 DEF ReceiptFailed, HasReceipt, MayPoll, Fail, Goto, RunInv, delegatorVars, walletVars
<1>21. ASSUME NEW c \in Calls, IdentityMined(c) PROVE RunInv'
  BY <1>0, <1>21 DEF IdentityMined, HasReceipt, MayPoll, Goto, RunInv, delegatorVars, walletVars
<1>22. ASSUME NEW c \in Calls, PublicKeyRemoved(c) PROVE RunInv'
  BY <1>0, <1>22 DEF PublicKeyRemoved, HasReceipt, MayPoll, Goto, RunInv, delegatorVars, walletVars
<1>23. ASSUME NEW c \in Calls, SecondMined(c) PROVE RunInv'
  BY <1>0, <1>23 DEF SecondMined, HasReceipt, MayPoll, Succeed, Goto, RunInv, delegatorVars, walletVars
<1>24. ASSUME NEW c \in Calls, ReadCount(c) PROVE RunInv'
  BY <1>0, <1>24 DEF ReadCount, Goto, RunInv, delegatorVars, walletVars
<1>25. ASSUME NEW c \in Calls, WriteCount(c) PROVE RunInv'
  BY <1>0, <1>25 DEF WriteCount, Goto, RunInv, delegatorVars, walletVars
<1>26. ASSUME Chain PROVE RunInv'
  BY <1>26 DEF Chain, OffChain, RunInv, delegatorVars, walletVars, callVars
<1>27. ASSUME UNCHANGED vars PROVE RunInv'
  BY <1>27 DEF vars, RunInv, delegatorVars, walletVars, callVars
<1> QED
  BY <1>1, <1>2, <1>3, <1>4, <1>5, <1>6, <1>7, <1>8, <1>9, <1>10, <1>11, <1>12, <1>13, <1>14, <1>15, <1>16, <1>17, <1>18, <1>19, <1>20, <1>21, <1>22, <1>23, <1>24, <1>25, <1>26, <1>27
     DEF Next, Start, Proceed, Fetching, Signing, Reply, Receipt

(* Every variable keeps its type, for any number of wallets and calls. *)
THEOREM TypeCorrect == Spec => []TypeOK
<1>1. Init => TypeOK /\ RunInv
  BY TypeInit, RunInit
<1>2. TypeOK /\ RunInv /\ [Next]_vars => TypeOK' /\ RunInv'
  BY TypeStep, RunStep
<1> QED
  BY <1>1, <1>2, PTL DEF Spec

(* The ...Delegated methods never unwrap nil after a wallet has signed. *)
THEOREM UnwrapSafety == Spec => []NeverUnwrapsNil
<1>1. Init => TypeOK /\ RunInv
  BY TypeInit, RunInit
<1>2. TypeOK /\ RunInv /\ [Next]_vars => TypeOK' /\ RunInv'
  BY TypeStep, RunStep
<1>3. TypeOK /\ RunInv => NeverUnwrapsNil
  BY WalletAssumption DEF TypeOK, DelegatorTypeOK, RunInv, NeverUnwrapsNil, CanSend
<1> QED
  BY <1>1, <1>2, <1>3, PTL DEF Spec

-----------------------------------------------------------------------------
(* What calls report is true of their transactions. *)

(* No call has sent or reported anything. *)
LEMMA CallInit == Init => CallInv
<1> SUFFICES ASSUME Init, NEW c \in Calls PROVE StepInv(c) /\ ReportInv(c)
  BY DEF CallInv
<1>1. /\ pc[c] = "idle" /\ step[c] = 1 /\ result[c] = {}
      /\ \A s \in Steps : body[c][s] = {} /\ tx[c][s] = "none"
  BY DEF Init, ChainInit
<1> QED
  BY <1>1 DEF StepInv, ReportInv, Unsent, Waiting, Steps

(* The invariant of a call depends on the call's own variables only. *)
LEMMA CallUntouched ==
  ASSUME NEW d \in Calls, StepInv(d), ReportInv(d),
         pc'[d] = pc[d], step'[d] = step[d], body'[d] = body[d], tx'[d] = tx[d],
         result'[d] = result[d]
  PROVE  StepInv(d)' /\ ReportInv(d)'
  BY DEF StepInv, ReportInv, Truthful

(* A call that goes to l and sends nothing. *)
LEMMA MoveKeeps ==
  ASSUME NEW c \in Calls, CallTypeOK, StepInv(c), ReportInv(c), pc[c] # "done",
         NEW l \in Pcs, l # "done",
         l \in {"idle", "deleting", "reading"} => step[c] = 1,
         l \in Unsent \cup {"idle"} => body[c][step[c]] = {},
         l \in Waiting => tx[c][step[c]] \in {"pending", "ok", "reverted"},
         Goto(c, l), UNCHANGED <<body, tx, step, result>>
  PROVE  StepInv(c)' /\ ReportInv(c)'
  BY DEF CallTypeOK, StepInv, ReportInv, Goto

(* A call that fails in its step, with an error that is true of it. *)
LEMMA FailKeeps ==
  ASSUME NEW c \in Calls, CallTypeOK, StepInv(c), ReportInv(c),
         NEW why \in Outcomes \ {"success", "eventNotFound"},
         why = "transactionFailed" => tx[c][step[c]] = "reverted",
         why = "transactionUnconfirmed" => tx[c][step[c]] \in {"pending", "ok", "reverted"},
         why \in Refusals => body[c][step[c]] = {},
         Fail(c, why), UNCHANGED <<body, tx, step>>
  PROVE  StepInv(c)' /\ ReportInv(c)'
<1>1. pc'[c] = "done"
  BY DEF Fail, Goto, CallTypeOK
<1>2. \A r \in result'[c] : r.cause = why /\ r.step = step[c]
  BY DEF Fail, CallTypeOK, Steps
<1>3. StepInv(c)'
  BY <1>1 DEF StepInv, Unsent, Waiting
<1>4. \A r \in result'[c] : Truthful(c, r)'
  BY <1>2 DEF Truthful, StepInv
<1> QED
  BY <1>1, <1>2, <1>3, <1>4 DEF ReportInv

(* A step of one call leaves the variables of the others alone ...         *)
LEMMA OthersSame ==
  ASSUME TypeOK, NEW c \in Calls, Start(c) \/ Proceed(c), NEW d \in Calls \ {c}
  PROVE  /\ pc'[d] = pc[d] /\ step'[d] = step[d] /\ body'[d] = body[d]
         /\ tx'[d] = tx[d] /\ result'[d] = result[d]
<1> DEFINE Same == /\ pc'[d] = pc[d] /\ step'[d] = step[d] /\ body'[d] = body[d]
                   /\ tx'[d] = tx[d] /\ result'[d] = result[d]
<1>0. CallTypeOK /\ ChainTypeOK
  BY DEF TypeOK
<1>1. ASSUME CreateDID(c) \/ CreateDIDWithSigner(c) \/ RefuseSigner(c) \/ DeleteDID(c) PROVE Same
  <2>1. CASE CreateDID(c)
    BY <1>0, <2>1 DEF CallTypeOK, ChainTypeOK, CreateDID, StartCreate, MayCall, Goto, chainVars, callVars
  <2>2. CASE CreateDIDWithSigner(c)
    BY <1>0, <2>2 DEF CallTypeOK, ChainTypeOK, CreateDIDWithSigner, StartCreate, MayCall, Goto, chainVars, callVars
  <2>3. CASE RefuseSigner(c)
    BY <1>0, <2>3 DEF CallTypeOK, ChainTypeOK, RefuseSigner, MayCall, Fail, Goto, chainVars, callVars
  <2>4. CASE DeleteDID(c)
    BY <1>0, <2>4 DEF CallTypeOK, ChainTypeOK, DeleteDID, MayCall, Goto, chainVars, callVars
  <2> QED
    BY <1>1, <2>1, <2>2, <2>3, <2>4
<1>2. ASSUME CheckDid(c) \/ ReadEin(c) \/ Prepare(c) \/ Send(c) \/ ReadCount(c) \/ WriteCount(c) PROVE Same
  <2>1. CASE CheckDid(c)
    BY <1>0, <2>1 DEF CallTypeOK, ChainTypeOK, CheckDid, Goto, chainVars, callVars
  <2>2. CASE ReadEin(c)
    BY <1>0, <2>2 DEF CallTypeOK, ChainTypeOK, ReadEin, Fail, Goto, chainVars, callVars
  <2>3. CASE Prepare(c)
    BY <1>0, <2>3 DEF CallTypeOK, ChainTypeOK, Prepare, Fail, Goto, chainVars, callVars
  <2>4. CASE Send(c)
    BY <1>0, <2>4 DEF CallTypeOK, ChainTypeOK, Send, Goto, chainVars, callVars
  <2>5. CASE ReadCount(c)
    BY <1>0, <2>5 DEF CallTypeOK, ChainTypeOK, ReadCount, Goto, chainVars, callVars
  <2>6. CASE WriteCount(c)
    BY <1>0, <2>6 DEF CallTypeOK, ChainTypeOK, WriteCount, Goto, chainVars, callVars
  <2> QED
    BY <1>2, <2>1, <2>2, <2>3, <2>4, <2>5, <2>6
<1>3. ASSUME BlockFetched(c) \/ BlockMissing(c) \/ FetchTimesOut(c) PROVE Same
  <2>1. CASE BlockFetched(c)
    BY <1>0, <2>1 DEF CallTypeOK, ChainTypeOK, BlockFetched, StoreTimeStamp, Goto, chainVars, callVars
  <2>2. CASE BlockMissing(c)
    BY <1>0, <2>2 DEF CallTypeOK, ChainTypeOK, BlockMissing, FetchFails, Fail, Goto, chainVars, callVars
  <2>3. CASE FetchTimesOut(c)
    BY <1>0, <2>3 DEF CallTypeOK, ChainTypeOK, FetchTimesOut, Fail, Goto, chainVars, callVars
  <2> QED
    BY <1>3, <2>1, <2>2, <2>3
<1>4. ASSUME Sign(c) \/ SignerFails(c) PROVE Same
  <2>1. CASE Sign(c)
    BY <1>0, <2>1 DEF CallTypeOK, ChainTypeOK, Sign, Goto, chainVars, callVars
  <2>2. CASE SignerFails(c)
    BY <1>0, <2>2 DEF CallTypeOK, ChainTypeOK, SignerFails, Fail, Goto, chainVars, callVars
  <2> QED
    BY <1>4, <2>1, <2>2
<1>5. ASSUME ReplyTxId(c) \/ ReplyError(c) \/ ReplyWithoutTxId(c) PROVE Same
  <2>1. CASE ReplyTxId(c)
    BY <1>0, <2>1 DEF CallTypeOK, ChainTypeOK, ReplyTxId, Goto, chainVars, callVars
  <2>2. CASE ReplyError(c)
    BY <1>0, <2>2 DEF CallTypeOK, ChainTypeOK, ReplyError, Fail, Goto, chainVars, callVars
  <2>3. CASE ReplyWithoutTxId(c)
    BY <1>0, <2>3 DEF CallTypeOK, ChainTypeOK, ReplyWithoutTxId, Fail, Goto, chainVars, callVars
  <2> QED
    BY <1>5, <2>1, <2>2, <2>3
<1>6. ASSUME GiveUpReceipt(c) \/ NoReceipt(c) \/ ReceiptFailed(c) \/ IdentityMined(c) \/ PublicKeyRemoved(c) \/ SecondMined(c) PROVE Same
  <2>1. CASE GiveUpReceipt(c)
    BY <1>0, <2>1 DEF CallTypeOK, ChainTypeOK, GiveUpReceipt, Fail, Goto, chainVars, callVars
  <2>2. CASE NoReceipt(c)
    BY <1>0, <2>2 DEF CallTypeOK, ChainTypeOK, NoReceipt, MayPoll, Goto, chainVars, callVars
  <2>3. CASE ReceiptFailed(c)
    BY <1>0, <2>3 DEF CallTypeOK, ChainTypeOK, ReceiptFailed, HasReceipt, MayPoll, Fail, Goto, chainVars, callVars
  <2>4. CASE IdentityMined(c)
    BY <1>0, <2>4 DEF CallTypeOK, ChainTypeOK, IdentityMined, HasReceipt, MayPoll, Goto, chainVars, callVars
  <2>5. CASE PublicKeyRemoved(c)
    BY <1>0, <2>5 DEF CallTypeOK, ChainTypeOK, PublicKeyRemoved, HasReceipt, MayPoll, Goto, chainVars, callVars
  <2>6. CASE SecondMined(c)
    BY <1>0, <2>6 DEF CallTypeOK, ChainTypeOK, SecondMined, HasReceipt, MayPoll, Succeed, Goto, chainVars, callVars
  <2> QED
    BY <1>6, <2>1, <2>2, <2>3, <2>4, <2>5, <2>6
<1> QED
  BY <1>1, <1>2, <1>3, <1>4, <1>5, <1>6 DEF Start, Proceed, Fetching, Signing, Reply, Receipt

(* ... and so what is true of them. *)
LEMMA OtherCalls ==
  ASSUME TypeOK, \A d \in Calls : StepInv(d) /\ ReportInv(d),
         NEW c \in Calls, Start(c) \/ Proceed(c)
  PROVE  \A d \in Calls \ {c} : StepInv(d)' /\ ReportInv(d)'
  BY OthersSame, CallUntouched

(* Every step keeps the invariant of every call. *)
LEMMA CallStep ==
  ASSUME TypeOK, CallInv, [Next]_vars
  PROVE  CallInv'
<1>0. /\ CallTypeOK /\ ChainTypeOK
      /\ \A d \in Calls : StepInv(d) /\ ReportInv(d)
      /\ pc \in [Calls -> Pcs] /\ step \in [Calls -> Steps]
      /\ body \in [Calls -> [Steps -> SUBSET Requests]] /\ tx \in [Calls -> [Steps -> TxStates]]
      /\ result \in [Calls -> SUBSET Results]
  BY DEF TypeOK, CallTypeOK, ChainTypeOK, CallInv
<1>1. ASSUME NEW w \in Wallets, Open(w) PROVE CallInv'
  <2>1. UNCHANGED <<chainVars, callVars>>
    BY <1>1 DEF Open, OpenStored, OpenExternal, Configure
  <2> QED
    BY <1>0, <2>1, CallUntouched DEF CallInv, chainVars, callVars
<1>2. ASSUME NEW c \in Calls, CreateDID(c) PROVE CallInv'
  <2> SUFFICES StepInv(c)' /\ ReportInv(c)'
    BY <1>0, <1>2, OtherCalls DEF Start, CallInv
  <2>1. StepInv(c) /\ ReportInv(c) /\ CallTypeOK /\ "preparing" \in Pcs
    BY <1>0 DEF Pcs
  <2>2. /\ pc[c] # "done" /\ Goto(c, "preparing") /\ UNCHANGED <<body, tx, step, result>>
    BY <1>2 DEF CreateDID, MayCall, StartCreate, chainVars, callVars
  <2>3. /\ "preparing" \in {"idle", "deleting", "reading"} => step[c] = 1
        /\ "preparing" \in Unsent \cup {"idle"} => body[c][step[c]] = {}
        /\ "preparing" \in Waiting => tx[c][step[c]] \in {"pending", "ok", "reverted"}
    BY <1>0, <1>2 DEF CreateDID, MayCall, StartCreate, StepInv, Unsent, Waiting, Steps, TxStates
  <2> QED
    BY <2>1, <2>2, <2>3, MoveKeeps
<1>3. ASSUME NEW c \in Calls, CreateDIDWithSigner(c) PROVE CallInv'
  <2> SUFFICES StepInv(c)' /\ ReportInv(c)'
    BY <1>0, <1>3, OtherCalls DEF Start, CallInv
  <2>1. StepInv(c) /\ ReportInv(c) /\ CallTypeOK /\ "preparing" \in Pcs
    BY <1>0 DEF Pcs
  <2>2. /\ pc[c] # "done" /\ Goto(c, "preparing") /\ UNCHANGED <<body, tx, step, result>>
    BY <1>3 DEF CreateDIDWithSigner, MayCall, StartCreate, chainVars, callVars
  <2>3. /\ "preparing" \in {"idle", "deleting", "reading"} => step[c] = 1
        /\ "preparing" \in Unsent \cup {"idle"} => body[c][step[c]] = {}
        /\ "preparing" \in Waiting => tx[c][step[c]] \in {"pending", "ok", "reverted"}
    BY <1>0, <1>3 DEF CreateDIDWithSigner, MayCall, StartCreate, StepInv, Unsent, Waiting, Steps, TxStates
  <2> QED
    BY <2>1, <2>2, <2>3, MoveKeeps
<1>4. ASSUME NEW c \in Calls, RefuseSigner(c) PROVE CallInv'
  <2> SUFFICES StepInv(c)' /\ ReportInv(c)'
    BY <1>0, <1>4, OtherCalls DEF Start, CallInv
  <2> DEFINE why == IF ~external[WalletOf[c]] /\ key[WalletOf[c]] # NoKey THEN "conflictingKeyMode" ELSE "signerError"
  <2>1. StepInv(c) /\ ReportInv(c) /\ CallTypeOK /\ why \in Outcomes \ {"success", "eventNotFound"}
    BY <1>0 DEF Outcomes
  <2>2. Fail(c, why) /\ UNCHANGED <<body, tx, step>>
    BY <1>4 DEF RefuseSigner, chainVars
  <2>3. /\ why = "transactionFailed" => tx[c][step[c]] = "reverted"
        /\ why = "transactionUnconfirmed" => tx[c][step[c]] \in {"pending", "ok", "reverted"}
        /\ why \in Refusals => body[c][step[c]] = {}
    BY <1>0, <1>4 DEF RefuseSigner, MayCall, StepInv, Unsent, Waiting, Refusals
  <2> HIDE DEF why
  <2> QED
    BY <2>1, <2>2, <2>3, FailKeeps
<1>5. ASSUME NEW c \in Calls, DeleteDID(c) PROVE CallInv'
  <2> SUFFICES StepInv(c)' /\ ReportInv(c)'
    BY <1>0, <1>5, OtherCalls DEF Start, CallInv
  <2>1. StepInv(c) /\ ReportInv(c) /\ CallTypeOK /\ "deleting" \in Pcs
    BY <1>0 DEF Pcs
  <2>2. /\ pc[c] # "done" /\ Goto(c, "deleting") /\ UNCHANGED <<body, tx, step, result>>
    BY <1>5 DEF DeleteDID, MayCall, chainVars, callVars
  <2>3. /\ "deleting" \in {"idle", "deleting", "reading"} => step[c] = 1
        /\ "deleting" \in Unsent \cup {"idle"} => body[c][step[c]] = {}
        /\ "deleting" \in Waiting => tx[c][step[c]] \in {"pending", "ok", "reverted"}
    BY <1>0, <1>5 DEF DeleteDID, MayCall, StepInv, Unsent, Waiting, Steps, TxStates
  <2> QED
    BY <2>1, <2>2, <2>3, MoveKeeps
<1>6. ASSUME NEW c \in Calls, CheckDid(c) PROVE CallInv'
  <2> SUFFICES StepInv(c)' /\ ReportInv(c)'
    BY <1>0, <1>6, OtherCalls DEF Proceed, CallInv
  <2>1. StepInv(c) /\ ReportInv(c) /\ CallTypeOK /\ "reading" \in Pcs /\ step[c] = 1
        /\ body[c][1] = {} /\ UNCHANGED <<body, tx, step>>
    BY <1>0, <1>6 DEF CheckDid, Pcs, StepInv, Unsent, chainVars
  <2>2. CASE Goto(c, "reading") /\ UNCHANGED result
    <3>1. pc[c] # "done"
      BY <1>6 DEF CheckDid
    <3> QED
      BY <2>1, <2>2, <3>1, MoveKeeps DEF Waiting
  <2>3. CASE Goto(c, "done") /\ \E why \in {"noDid", "notReady"} :
               result' = [result EXCEPT ![c] = {[cause |-> why, step |-> 1, did |-> NoDid]}]
    <3>1. pc'[c] = "done" /\ \A r \in result'[c] : r.cause \in Refusals /\ r.step = 1
      BY <1>0, <2>3 DEF Goto, Refusals
    <3>2. StepInv(c)'
      BY <2>1, <3>1 DEF StepInv, Unsent, Waiting
    <3> QED
      BY <2>1, <3>1, <3>2 DEF ReportInv, Truthful, Refusals
  <2> QED
    BY <1>6, <2>2, <2>3 DEF CheckDid
<1>7. ASSUME NEW c \in Calls, ReadEin(c) PROVE CallInv'
  <2> SUFFICES StepInv(c)' /\ ReportInv(c)'
    BY <1>0, <1>7, OtherCalls DEF Proceed, CallInv
  <2>1. /\ StepInv(c) /\ ReportInv(c) /\ CallTypeOK /\ step[c] = 1 /\ body[c][step[c]] = {}
        /\ pc[c] # "done" /\ UNCHANGED <<body, tx, step>>
    BY <1>0, <1>7 DEF ReadEin, StepInv, Unsent, chainVars
  <2>2. CASE Goto(c, "preparing") /\ UNCHANGED result
    <3>1. "preparing" \in Pcs
      BY DEF Pcs
    <3> QED
      BY <2>1, <2>2, <3>1, MoveKeeps DEF Waiting
  <2>3. CASE Fail(c, "didDoesNotMatchKey")
    BY <2>1, <2>3, FailKeeps DEF Outcomes
  <2>4. CASE Fail(c, "notReady")
    BY <2>1, <2>4, FailKeeps DEF Outcomes
  <2> QED
    BY <1>7, <2>2, <2>3, <2>4 DEF ReadEin
<1>8. ASSUME NEW c \in Calls, Prepare(c) PROVE CallInv'
  <2> SUFFICES StepInv(c)' /\ ReportInv(c)'
    BY <1>0, <1>8, OtherCalls DEF Proceed, CallInv
  <2>1. /\ StepInv(c) /\ ReportInv(c) /\ CallTypeOK /\ body[c][step[c]] = {}
        /\ pc[c] # "done" /\ UNCHANGED <<body, tx, step>>
    BY <1>0, <1>8 DEF Prepare, StepInv, Unsent, chainVars
  <2>2. CASE Goto(c, "fetching") /\ UNCHANGED result
    <3>1. "fetching" \in Pcs
      BY DEF Pcs
    <3> QED
      BY <2>1, <2>2, <3>1, MoveKeeps DEF Waiting
  <2>3. CASE Fail(c, "noDid")
    BY <2>1, <2>3, FailKeeps DEF Outcomes
  <2>4. CASE Fail(c, "notReady")
    BY <2>1, <2>4, FailKeeps DEF Outcomes
  <2> QED
    BY <1>8, <2>2, <2>3, <2>4 DEF Prepare
<1>9. ASSUME NEW c \in Calls, BlockFetched(c) PROVE CallInv'
  <2> SUFFICES StepInv(c)' /\ ReportInv(c)'
    BY <1>0, <1>9, OtherCalls DEF Fetching, Proceed, CallInv
  <2>1. /\ StepInv(c) /\ ReportInv(c) /\ CallTypeOK /\ UNCHANGED <<body, tx, step, result>>
    BY <1>0, <1>9 DEF BlockFetched, chainVars
  <2>2. CASE pc[c] = "fetching" /\ Goto(c, "signing")
    <3>1. "signing" \in Pcs /\ body[c][step[c]] = {}
      BY <2>1, <2>2 DEF Pcs, StepInv, Unsent
    <3> QED
      BY <2>1, <2>2, <3>1, MoveKeeps DEF Waiting
  <2>3. CASE UNCHANGED pc
    BY <2>1, <2>3, CallUntouched
  <2> QED
    BY <1>9, <2>2, <2>3 DEF BlockFetched
<1>10. ASSUME NEW c \in Calls, BlockMissing(c) PROVE CallInv'
  <2> SUFFICES StepInv(c)' /\ ReportInv(c)'
    BY <1>0, <1>10, OtherCalls DEF Fetching, Proceed, CallInv
  <2>1. /\ StepInv(c) /\ ReportInv(c) /\ CallTypeOK /\ UNCHANGED <<body, tx, step>>
    BY <1>0, <1>10 DEF BlockMissing, chainVars
  <2>2. CASE pc[c] = "fetching" /\ Fail(c, "notReady")
    <3>1. body[c][step[c]] = {}
      BY <2>1, <2>2 DEF StepInv, Unsent
    <3> QED
      BY <2>1, <2>2, <3>1, FailKeeps DEF Outcomes
  <2>3. CASE UNCHANGED <<pc, result>>
    BY <2>1, <2>3, CallUntouched
  <2> QED
    BY <1>10, <2>2, <2>3 DEF BlockMissing
<1>11. ASSUME NEW c \in Calls, FetchTimesOut(c) PROVE CallInv'
  <2> SUFFICES StepInv(c)' /\ ReportInv(c)'
    BY <1>0, <1>11, OtherCalls DEF Fetching, Proceed, CallInv
  <2> DEFINE why == "notReady"
  <2>1. StepInv(c) /\ ReportInv(c) /\ CallTypeOK /\ why \in Outcomes \ {"success", "eventNotFound"}
    BY <1>0 DEF Outcomes
  <2>2. Fail(c, why) /\ UNCHANGED <<body, tx, step>>
    BY <1>11 DEF FetchTimesOut, chainVars
  <2>3. /\ why = "transactionFailed" => tx[c][step[c]] = "reverted"
        /\ why = "transactionUnconfirmed" => tx[c][step[c]] \in {"pending", "ok", "reverted"}
        /\ why \in Refusals => body[c][step[c]] = {}
    BY <1>0, <1>11 DEF FetchTimesOut, StepInv, Unsent, Waiting, Refusals
  <2> HIDE DEF why
  <2> QED
    BY <2>1, <2>2, <2>3, FailKeeps
<1>12. ASSUME NEW c \in Calls, Sign(c) PROVE CallInv'
  <2> SUFFICES StepInv(c)' /\ ReportInv(c)'
    BY <1>0, <1>12, OtherCalls DEF Signing, Proceed, CallInv
  <2>1. StepInv(c) /\ ReportInv(c) /\ CallTypeOK /\ "sending" \in Pcs
    BY <1>0 DEF Pcs
  <2>2. /\ pc[c] # "done" /\ Goto(c, "sending") /\ UNCHANGED <<body, tx, step, result>>
    BY <1>12 DEF Sign, chainVars, callVars
  <2>3. /\ "sending" \in {"idle", "deleting", "reading"} => step[c] = 1
        /\ "sending" \in Unsent \cup {"idle"} => body[c][step[c]] = {}
        /\ "sending" \in Waiting => tx[c][step[c]] \in {"pending", "ok", "reverted"}
    BY <1>0, <1>12 DEF Sign, StepInv, Unsent, Waiting, Steps, TxStates
  <2> QED
    BY <2>1, <2>2, <2>3, MoveKeeps
<1>13. ASSUME NEW c \in Calls, SignerFails(c) PROVE CallInv'
  <2> SUFFICES StepInv(c)' /\ ReportInv(c)'
    BY <1>0, <1>13, OtherCalls DEF Signing, Proceed, CallInv
  <2> DEFINE why == "signerError"
  <2>1. StepInv(c) /\ ReportInv(c) /\ CallTypeOK /\ why \in Outcomes \ {"success", "eventNotFound"}
    BY <1>0 DEF Outcomes
  <2>2. Fail(c, why) /\ UNCHANGED <<body, tx, step>>
    BY <1>13 DEF SignerFails, chainVars
  <2>3. /\ why = "transactionFailed" => tx[c][step[c]] = "reverted"
        /\ why = "transactionUnconfirmed" => tx[c][step[c]] \in {"pending", "ok", "reverted"}
        /\ why \in Refusals => body[c][step[c]] = {}
    BY <1>0, <1>13 DEF SignerFails, StepInv, Unsent, Waiting, Refusals
  <2> HIDE DEF why
  <2> QED
    BY <2>1, <2>2, <2>3, FailKeeps
<1>14. ASSUME NEW c \in Calls, Send(c) PROVE CallInv'
  <2> SUFFICES StepInv(c)' /\ ReportInv(c)'
    BY <1>0, <1>14, OtherCalls DEF Proceed, CallInv
  <2>1. /\ pc[c] = "sending" /\ pc'[c] = "requested" /\ UNCHANGED <<tx, step, result>>
        /\ body'[c][step[c]] = {RequestOf(Method(c), sig) : sig \in draft[c]}
        /\ \A s \in Steps : s # step[c] => body'[c][s] = body[c][s]
    BY <1>0, <1>14 DEF Send, Goto
  <2>2. StepInv(c) /\ ReportInv(c) /\ step[c] \in {1, 2} /\ body[c][step[c]] = {}
    BY <1>0, <2>1 DEF StepInv, Unsent, Steps
  <2>3. /\ tx[c][step[c]] \in {"none", "refused"}
        /\ step[c] = 1 => body'[c][2] = {}
    BY <2>1, <2>2 DEF StepInv, Steps
  <2>4. StepInv(c)'
    BY <2>1, <2>2, <2>3 DEF StepInv, Unsent, Waiting, Steps
  <2>5. ReportInv(c)'
    BY <2>1, <2>2 DEF ReportInv
  <2> QED
    BY <2>4, <2>5
<1>15. ASSUME NEW c \in Calls, ReplyTxId(c) PROVE CallInv'
  <2> SUFFICES StepInv(c)' /\ ReportInv(c)'
    BY <1>0, <1>15, OtherCalls DEF Reply, Proceed, CallInv
  <2>1. StepInv(c) /\ ReportInv(c) /\ CallTypeOK /\ "polling" \in Pcs
    BY <1>0 DEF Pcs
  <2>2. /\ pc[c] # "done" /\ Goto(c, "polling") /\ UNCHANGED <<body, tx, step, result>>
    BY <1>15 DEF ReplyTxId, chainVars, callVars
  <2>3. /\ "polling" \in {"idle", "deleting", "reading"} => step[c] = 1
        /\ "polling" \in Unsent \cup {"idle"} => body[c][step[c]] = {}
        /\ "polling" \in Waiting => tx[c][step[c]] \in {"pending", "ok", "reverted"}
    BY <1>0, <1>15 DEF ReplyTxId, StepInv, Unsent, Waiting, Steps, TxStates
  <2> QED
    BY <2>1, <2>2, <2>3, MoveKeeps
<1>16. ASSUME NEW c \in Calls, ReplyError(c) PROVE CallInv'
  <2> SUFFICES StepInv(c)' /\ ReportInv(c)'
    BY <1>0, <1>16, OtherCalls DEF Reply, Proceed, CallInv
  <2> DEFINE why == "delegatorError"
  <2>1. StepInv(c) /\ ReportInv(c) /\ CallTypeOK /\ why \in Outcomes \ {"success", "eventNotFound"}
    BY <1>0 DEF Outcomes
  <2>2. Fail(c, why) /\ UNCHANGED <<body, tx, step>>
    BY <1>16 DEF ReplyError, chainVars
  <2>3. /\ why = "transactionFailed" => tx[c][step[c]] = "reverted"
        /\ why = "transactionUnconfirmed" => tx[c][step[c]] \in {"pending", "ok", "reverted"}
        /\ why \in Refusals => body[c][step[c]] = {}
    BY <1>0, <1>16 DEF ReplyError, StepInv, Unsent, Waiting, Refusals
  <2> HIDE DEF why
  <2> QED
    BY <2>1, <2>2, <2>3, FailKeeps
<1>17. ASSUME NEW c \in Calls, ReplyWithoutTxId(c) PROVE CallInv'
  <2> SUFFICES StepInv(c)' /\ ReportInv(c)'
    BY <1>0, <1>17, OtherCalls DEF Reply, Proceed, CallInv
  <2>1. /\ pc[c] = "requested" /\ step[c] \in {1, 2} /\ UNCHANGED <<body, step>>
        /\ \A s \in Steps : \/ tx'[c][s] = tx[c][s]
                            \/ s = step[c] /\ tx[c][s] = "none" /\ tx'[c][s] = "refused"
    BY <1>0, <1>17 DEF ReplyWithoutTxId, Steps
  <2>2. StepInv(c) /\ ReportInv(c) /\ CallTypeOK /\ result[c] = {}
    BY <1>0, <2>1 DEF ReportInv
  <2>3. CASE CompletesWithoutTxId(Method(c)) /\ Fail(c, "notReady")
    <3>1. step[c] = 2
      BY <1>0, <2>3 DEF CompletesWithoutTxId, Method, CallTypeOK, Kinds, Steps
    <3>2. pc'[c] = "done" /\ \A r \in result'[c] : r.cause = "notReady" /\ r.step = 2
      BY <1>0, <2>3, <3>1 DEF Fail, Goto
    <3>3. StepInv(c)'
      BY <2>1, <2>2, <3>1, <3>2 DEF StepInv, Unsent, Waiting, Steps
    <3> QED
      BY <2>1, <2>2, <3>1, <3>2, <3>3 DEF ReportInv, Truthful, StepInv, Steps
  <2>4. CASE Goto(c, "lost") /\ UNCHANGED result
    BY <1>0, <2>1, <2>2, <2>4 DEF Goto, StepInv, ReportInv, Unsent, Waiting, Steps
  <2> QED
    BY <1>17, <2>3, <2>4 DEF ReplyWithoutTxId
<1>18. ASSUME NEW c \in Calls, GiveUpReceipt(c) PROVE CallInv'
  <2> SUFFICES StepInv(c)' /\ ReportInv(c)'
    BY <1>0, <1>18, OtherCalls DEF Receipt, Proceed, CallInv
  <2> DEFINE why == "transactionUnconfirmed"
  <2>1. StepInv(c) /\ ReportInv(c) /\ CallTypeOK /\ why \in Outcomes \ {"success", "eventNotFound"}
    BY <1>0 DEF Outcomes
  <2>2. Fail(c, why) /\ UNCHANGED <<body, tx, step>>
    BY <1>18 DEF GiveUpReceipt, chainVars
  <2>3. /\ why = "transactionFailed" => tx[c][step[c]] = "reverted"
        /\ why = "transactionUnconfirmed" => tx[c][step[c]] \in {"pending", "ok", "reverted"}
        /\ why \in Refusals => body[c][step[c]] = {}
    BY <1>0, <1>18 DEF GiveUpReceipt, StepInv, Unsent, Waiting, Refusals
  <2> HIDE DEF why
  <2> QED
    BY <2>1, <2>2, <2>3, FailKeeps
<1>19. ASSUME NEW c \in Calls, NoReceipt(c) PROVE CallInv'
  <2> SUFFICES StepInv(c)' /\ ReportInv(c)'
    BY <1>0, <1>19, OtherCalls DEF Receipt, Proceed, CallInv
  <2>1. StepInv(c) /\ ReportInv(c) /\ CallTypeOK /\ "sleeping" \in Pcs
    BY <1>0 DEF Pcs
  <2>2. /\ pc[c] # "done" /\ Goto(c, "sleeping") /\ UNCHANGED <<body, tx, step, result>>
    BY <1>19 DEF NoReceipt, MayPoll, chainVars, callVars
  <2>3. /\ "sleeping" \in {"idle", "deleting", "reading"} => step[c] = 1
        /\ "sleeping" \in Unsent \cup {"idle"} => body[c][step[c]] = {}
        /\ "sleeping" \in Waiting => tx[c][step[c]] \in {"pending", "ok", "reverted"}
    BY <1>0, <1>19 DEF NoReceipt, MayPoll, StepInv, Unsent, Waiting, Steps, TxStates
  <2> QED
    BY <2>1, <2>2, <2>3, MoveKeeps
<1>20. ASSUME NEW c \in Calls, ReceiptFailed(c) PROVE CallInv'
  <2> SUFFICES StepInv(c)' /\ ReportInv(c)'
    BY <1>0, <1>20, OtherCalls DEF Receipt, Proceed, CallInv
  <2> DEFINE why == "transactionFailed"
  <2>1. StepInv(c) /\ ReportInv(c) /\ CallTypeOK /\ why \in Outcomes \ {"success", "eventNotFound"}
    BY <1>0 DEF Outcomes
  <2>2. Fail(c, why) /\ UNCHANGED <<body, tx, step>>
    BY <1>20 DEF ReceiptFailed, chainVars
  <2>3. /\ why = "transactionFailed" => tx[c][step[c]] = "reverted"
        /\ why = "transactionUnconfirmed" => tx[c][step[c]] \in {"pending", "ok", "reverted"}
        /\ why \in Refusals => body[c][step[c]] = {}
    BY <1>0, <1>20 DEF ReceiptFailed, HasReceipt, MayPoll, StepInv, Unsent, Waiting, Refusals
  <2> HIDE DEF why
  <2> QED
    BY <2>1, <2>2, <2>3, FailKeeps
<1>21. ASSUME NEW c \in Calls, IdentityMined(c) PROVE CallInv'
  <2> SUFFICES StepInv(c)' /\ ReportInv(c)'
    BY <1>0, <1>21, OtherCalls DEF Receipt, Proceed, CallInv
  <2>1. /\ pc[c] = "polling" /\ step[c] = 1 /\ tx[c][1] = "ok" /\ UNCHANGED <<body, tx>>
    BY <1>21 DEF IdentityMined, HasReceipt, MayPoll, chainVars
  <2>2. StepInv(c) /\ ReportInv(c) /\ body[c][2] = {} /\ result[c] = {}
    BY <1>0, <2>1 DEF StepInv, ReportInv
  <2>3. CASE step'[c] = 2 /\ pc'[c] = "preparing" /\ UNCHANGED result
    BY <2>1, <2>2, <2>3 DEF StepInv, ReportInv, Waiting, Steps
  <2>4. CASE /\ UNCHANGED step /\ pc'[c] = "done"
             /\ \A r \in result'[c] : r.cause = "eventNotFound" /\ r.step = 1
    BY <2>1, <2>2, <2>4 DEF StepInv, ReportInv, Truthful, Unsent, Waiting, Refusals
  <2>5. \/ step'[c] = 2 /\ pc'[c] = "preparing" /\ UNCHANGED result
        \/ /\ UNCHANGED step /\ pc'[c] = "done"
           /\ \A r \in result'[c] : r.cause = "eventNotFound" /\ r.step = 1
    BY <1>0, <1>21 DEF IdentityMined, Goto
  <2> QED
    BY <2>3, <2>4, <2>5
<1>22. ASSUME NEW c \in Calls, PublicKeyRemoved(c) PROVE CallInv'
  <2> SUFFICES StepInv(c)' /\ ReportInv(c)'
    BY <1>0, <1>22, OtherCalls DEF Receipt, Proceed, CallInv
  <2>1. /\ pc[c] = "polling" /\ step[c] = 1 /\ tx[c][1] = "ok" /\ UNCHANGED <<body, tx, result>>
        /\ step'[c] = 2 /\ pc'[c] = "preparing"
    BY <1>0, <1>22 DEF PublicKeyRemoved, HasReceipt, MayPoll, Goto, chainVars
  <2>2. StepInv(c) /\ ReportInv(c) /\ body[c][2] = {} /\ result[c] = {}
    BY <1>0, <2>1 DEF StepInv, ReportInv
  <2>3. StepInv(c)' /\ ReportInv(c)'
    BY <2>1, <2>2 DEF StepInv, ReportInv, Waiting, Steps
  <2> QED
    BY <2>3
<1>23. ASSUME NEW c \in Calls, SecondMined(c) PROVE CallInv'
  <2> SUFFICES StepInv(c)' /\ ReportInv(c)'
    BY <1>0, <1>23, OtherCalls DEF Receipt, Proceed, CallInv
  <2>1. /\ pc[c] = "polling" /\ step[c] = 2 /\ tx[c][2] = "ok" /\ UNCHANGED <<body, tx, step>>
        /\ pc'[c] = "done" /\ \A r \in result'[c] : r.cause = "success" /\ r.step = 2
    BY <1>0, <1>23 DEF SecondMined, HasReceipt, MayPoll, Succeed, Goto, chainVars
  <2>2. StepInv(c) /\ ReportInv(c) /\ tx[c][1] = "ok"
    BY <1>0, <2>1 DEF StepInv
  <2>3. StepInv(c)' /\ ReportInv(c)'
    BY <2>1, <2>2 DEF StepInv, ReportInv, Truthful, Unsent, Waiting, Refusals, Steps
  <2> QED
    BY <2>3
<1>24. ASSUME NEW c \in Calls, ReadCount(c) PROVE CallInv'
  <2> SUFFICES StepInv(c)' /\ ReportInv(c)'
    BY <1>0, <1>24, OtherCalls DEF Proceed, CallInv
  <2>1. StepInv(c) /\ ReportInv(c) /\ CallTypeOK /\ "counting" \in Pcs
    BY <1>0 DEF Pcs
  <2>2. /\ pc[c] # "done" /\ Goto(c, "counting") /\ UNCHANGED <<body, tx, step, result>>
    BY <1>24 DEF ReadCount, chainVars, callVars
  <2>3. /\ "counting" \in {"idle", "deleting", "reading"} => step[c] = 1
        /\ "counting" \in Unsent \cup {"idle"} => body[c][step[c]] = {}
        /\ "counting" \in Waiting => tx[c][step[c]] \in {"pending", "ok", "reverted"}
    BY <1>0, <1>24 DEF ReadCount, StepInv, Unsent, Waiting, Steps, TxStates
  <2> QED
    BY <2>1, <2>2, <2>3, MoveKeeps
<1>25. ASSUME NEW c \in Calls, WriteCount(c) PROVE CallInv'
  <2> SUFFICES StepInv(c)' /\ ReportInv(c)'
    BY <1>0, <1>25, OtherCalls DEF Proceed, CallInv
  <2>1. StepInv(c) /\ ReportInv(c) /\ CallTypeOK /\ "polling" \in Pcs
    BY <1>0 DEF Pcs
  <2>2. /\ pc[c] # "done" /\ Goto(c, "polling") /\ UNCHANGED <<body, tx, step, result>>
    BY <1>25 DEF WriteCount, chainVars, callVars
  <2>3. /\ "polling" \in {"idle", "deleting", "reading"} => step[c] = 1
        /\ "polling" \in Unsent \cup {"idle"} => body[c][step[c]] = {}
        /\ "polling" \in Waiting => tx[c][step[c]] \in {"pending", "ok", "reverted"}
    BY <1>0, <1>25 DEF WriteCount, StepInv, Unsent, Waiting, Steps, TxStates
  <2> QED
    BY <2>1, <2>2, <2>3, MoveKeeps
<1>26. ASSUME Chain PROVE CallInv'
  <2>1. UNCHANGED <<pc, step, result>>
    BY <1>26 DEF Chain, OffChain, callVars
  <2>2. CASE NextBlock
    BY <1>0, <2>1, <2>2, CallUntouched DEF NextBlock, CallInv
  <2>3. ASSUME NEW c \in Calls, NEW s \in Steps, NEW to \in {"pending", "ok", "reverted"},
               body' = body, tx' = [tx EXCEPT ![c][s] = to],
               tx[c][s] = "pending" \/ (tx[c][s] = "none" /\ body[c][s] # {})
        PROVE  CallInv'
    <3>1. \A d \in Calls \ {c} : StepInv(d)' /\ ReportInv(d)'
      BY <1>0, <2>1, <2>3, CallUntouched
    <3>2. StepInv(c) /\ ReportInv(c) /\ step[c] \in Steps
      BY <1>0
    <3>3. /\ tx'[c][s] = to
          /\ \A q \in Steps : q # s => tx'[c][q] = tx[c][q]
      BY <1>0, <2>3
    <3>4. StepInv(c)'
      BY <2>1, <2>3, <3>2, <3>3 DEF StepInv, Steps
    <3>5. ReportInv(c)'
      BY <1>0, <2>1, <2>3, <3>2, <3>3 DEF ReportInv, StepInv, Truthful, Steps, Results
    <3> QED
      BY <3>1, <3>4, <3>5 DEF CallInv
  <2>4. ASSUME NEW c \in Calls, NEW s \in Steps,
               Submit(c, s) \/ MineOk(c, s) \/ MineReverted(c, s)
        PROVE  CallInv'
    <3>1. CASE Submit(c, s)
      BY <2>3, <3>1 DEF Submit
    <3>2. CASE MineOk(c, s)
      BY <2>3, <3>2 DEF MineOk
    <3>3. CASE MineReverted(c, s)
      BY <2>3, <3>3 DEF MineReverted
    <3> QED
      BY <2>4, <3>1, <3>2, <3>3
  <2> QED
    BY <1>26, <2>2, <2>4 DEF Chain
<1>27. ASSUME UNCHANGED vars PROVE CallInv'
  BY <1>0, <1>27, CallUntouched DEF vars, chainVars, callVars, CallInv
<1> QED
  BY <1>1, <1>2, <1>3, <1>4, <1>5, <1>6, <1>7, <1>8, <1>9, <1>10, <1>11, <1>12, <1>13, <1>14, <1>15, <1>16, <1>17, <1>18, <1>19, <1>20, <1>21, <1>22, <1>23, <1>24, <1>25, <1>26, <1>27
     DEF Next, Start, Proceed, Fetching, Signing, Reply, Receipt

(* A wallet that is open stays open while the process runs. *)
LEMMA OpenedStays == ASSUME [Next]_vars PROVE opened \subseteq opened'
  BY DEF Next, Open, OpenStored, OpenExternal, Configure, Start, Proceed, Fetching, Signing, Reply,
         Receipt, CreateDID, CreateDIDWithSigner, RefuseSigner, DeleteDID, CheckDid, ReadEin, Prepare,
         BlockFetched, BlockMissing, FetchTimesOut, Sign, SignerFails, Send, ReplyTxId, ReplyError,
         ReplyWithoutTxId, GiveUpReceipt, NoReceipt, ReceiptFailed, IdentityMined, PublicKeyRemoved,
         SecondMined, ReadCount, WriteCount, Chain, OffChain, walletVars, vars

(* A wallet stays open. *)
LEMMA KeyStep ==
  ASSUME TypeOK, KeyInv, [Next]_vars
  PROVE  KeyInv'
<1>1. RunInv'
  BY RunStep DEF KeyInv
<1>2. opened \subseteq opened'
  BY OpenedStays
<1>3. ASSUME NEW c \in Calls, pc'[c] # "idle", pc[c] = "idle" PROVE WalletOf[c] \in opened
  <2>1. ASSUME NEW d \in Calls, Start(d) \/ Proceed(d) PROVE WalletOf[c] \in opened
    <3>1. d = c
      BY <1>3, <2>1, OthersSame
    <3>2. ~Proceed(c)
      BY <1>3 DEF Proceed, CheckDid, ReadEin, Prepare, Fetching, BlockFetched, BlockMissing,
                  FetchTimesOut, Signing, Sign, SignerFails, Send, Reply, ReplyTxId, ReplyError,
                  ReplyWithoutTxId, Receipt, GiveUpReceipt, NoReceipt, ReceiptFailed, IdentityMined,
                  PublicKeyRemoved, SecondMined, ReadCount, WriteCount, MayPoll, HasReceipt
    <3> QED
      BY <2>1, <3>1, <3>2 DEF Start, CreateDID, CreateDIDWithSigner, RefuseSigner, DeleteDID, MayCall
  <2>2. UNCHANGED pc \/ \E d \in Calls : Start(d) \/ Proceed(d)
    BY DEF Next, Open, OpenStored, OpenExternal, Configure, Chain, OffChain, callVars, vars
  <2> QED
    BY <1>3, <2>1, <2>2
<1> QED
  BY <1>1, <1>2, <1>3 DEF KeyInv

(* No wallet is opened and no call has begun. *)
LEMMA KeyInit == Init => KeyInv
  BY RunInit DEF Init, KeyInv

(* The inductive invariant. *)
IInv == TypeOK /\ KeyInv /\ CallInv

(* It holds of every behaviour of the wallets. *)
THEOREM Inductive == Spec => []IInv
<1>1. Init => IInv
  BY TypeInit, KeyInit, CallInit DEF IInv
<1>2. IInv /\ [Next]_vars => IInv'
  BY TypeStep, KeyStep, CallStep DEF IInv, KeyInv
<1> QED
  BY <1>1, <1>2, PTL DEF Spec

(* The parts of it that the runs check as invariants: keys and service     *)
(* addresses do not disappear under a call that has read them, ...         *)
THEOREM KeysStay == Spec => []KeyInv
  BY Inductive, PTL DEF IInv

(* ... and no call sends a request twice, or its second before the first   *)
(* took effect.                                                            *)
THEOREM RequestsInOrder == Spec => []CallInv
  BY Inductive, PTL DEF IInv

(* Whatever completion reports is true of the call's own transactions,     *)
(* however calls interleave.                                               *)
THEOREM TruthfulReports == Spec => []OutcomeMatchesChain
<1>1. IInv => OutcomeMatchesChain
  BY DEF IInv, CallInv, ReportInv, OutcomeMatchesChain
<1> QED
  BY <1>1, Inductive, PTL

(* A call refused before its first request has sent nothing. *)
THEOREM RefusalsAreSilent == Spec => []RefusalSendsNothing
<1>1. IInv => RefusalSendsNothing
  <2> SUFFICES ASSUME IInv, NEW c \in Calls, NEW r \in result[c], r.step = 1, r.cause \in Refusals
               PROVE  \A s \in Steps : body[c][s] = {}
    BY DEF RefusalSendsNothing
  <2>1. StepInv(c) /\ ReportInv(c)
    BY DEF IInv, CallInv
  <2>2. step[c] = 1 /\ body[c][1] = {}
    BY <2>1 DEF ReportInv
  <2> QED
    BY <2>1, <2>2 DEF StepInv, Steps
<1> QED
  BY <1>1, Inductive, PTL


=============================================================================
