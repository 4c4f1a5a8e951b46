------------------------------ MODULE WalletStore ------------------------------
(***************************************************************************)
(* Wallets that an application saves with toJson() and makes again with    *)
(* init(delegator:jsonStr:), and the end of the process at any moment.     *)
(* Nothing else of the SDK outlives the process: a call that was running   *)
(* reports nothing, and what it has sent may still be submitted and mined. *)
(***************************************************************************)
EXTENDS MetaWallet

CONSTANTS MaxCrashes   \* bound on how often the process ends

ASSUME StoreAssumption == MaxCrashes \in Nat

VARIABLES
    saved,     \* saved[w]: {the JSON the application keeps for the wallet}
    saving,    \* saving[w]: {the key toJson has read}
    crashes,   \* how often the process has ended
    cut,       \* calls that were running when it did (history)
    coherent   \* coherent[w]: the key and the DID of the wallet came together (history)

storeVars == <<saved, saving, crashes, cut, coherent>>

(* The DID, the key, and whether the two came together (history). *)
Jsons == [key : Keys \cup {NoKey}, did : Dids, sound : BOOLEAN]

StoreInit ==
    /\ Init
    /\ saved \in [Wallets -> {{[key |-> j.key, did |-> j.did,
                                sound |-> /\ j.key # NoKey /\ j.did # NoDid
                                          /\ InitialEin[j.key] = j.did]} :
                                 j \in StoredWallets}]
    /\ saving = [w \in Wallets |-> {}]
    /\ crashes = 0 /\ cut = {}
    /\ coherent = [w \in Wallets |-> FALSE]

-----------------------------------------------------------------------------

(* Mutant: the DID in the JSON is not looked at. *)
OpenWithoutSavedDid(w) ==
    /\ \E j \in saved[w] :
        /\ Configure(w, j.key, NoDid, FALSE)
        /\ coherent' = [coherent EXCEPT ![w] = j.sound]
    /\ UNCHANGED <<saved, saving, crashes, cut>>

(* init(delegator:jsonStr:) with the JSON that was saved. *)
OpenSaved(w) ==
    /\ \E j \in saved[w] :
        /\ Configure(w, j.key, j.did, FALSE)
        /\ coherent' = [coherent EXCEPT ![w] = j.sound]
    /\ UNCHANGED <<saved, saving, crashes, cut>>

(* Mutant: the private key is not looked for. *)
ReadAnyKeyForJson(w) ==
    /\ w \in opened /\ saving[w] = {}
    /\ saving' = [saving EXCEPT ![w] = {key[w]}]
    /\ UNCHANGED <<vars, saved, crashes, cut, coherent>>

(* toJson() reads the private key first, and has none of a signer's ... *)
ReadKeyForJson(w) ==
    /\ w \in opened /\ ~external[w] /\ key[w] # NoKey
    /\ saving[w] = {}
    /\ saving' = [saving EXCEPT ![w] = {key[w]}]
    /\ UNCHANGED <<vars, saved, crashes, cut, coherent>>

(* Mutant: the DID is taken as it is stored, not from getDid(). *)
FinishJsonWithStoredDid(w) ==
    /\ \E k \in saving[w] :
        saved' = [saved EXCEPT ![w] =
            {[key |-> k, did |-> did[w], sound |-> coherent[w] /\ key[w] = k]}]
    /\ saving' = [saving EXCEPT ![w] = {}]
    /\ UNCHANGED <<vars, crashes, cut, coherent>>

(* ... and then the DID, which getDid() may store in the wallet.           *)
FinishJson(w) ==
    /\ \E k \in saving[w] :
        saved' = [saved EXCEPT ![w] =
            {[key |-> k, did |-> GetDid(w), sound |-> coherent[w] /\ key[w] = k]}]
    /\ saving' = [saving EXCEPT ![w] = {}]
    /\ CacheDid(w)
    /\ UNCHANGED <<chainVars, delegatorVars, opened, key, external, metaID, tryReceiptCount,
                   callVars, crashes, cut, coherent>>

(* The process ends and is started again with a new delegator object. *)
Crash ==
    /\ crashes < MaxCrashes /\ opened # {}
    /\ crashes' = crashes + 1
    /\ cut' = cut \cup Active
    /\ pc' = [c \in Calls |-> IF c \in Active THEN "done" ELSE pc[c]]
    /\ opened' = {}
    /\ key' = [w \in Wallets |-> NoKey]
    /\ external' = [w \in Wallets |-> FALSE]
    /\ did' = [w \in Wallets |-> NoDid]
    /\ metaID' = [w \in Wallets |-> NoEin]
    /\ tryReceiptCount' = [w \in Wallets |-> 0]
    /\ registryAddress' \in BOOLEAN
    /\ publicKey' = NoKey /\ timeStamp' = NoTime
    /\ fetch' = [c \in Calls |-> {}]
    /\ saving' = [w \in Wallets |-> {}]
    /\ coherent' = [w \in Wallets |-> FALSE]
    /\ UNCHANGED <<chainVars, late, kind, step, draft, seen, polls, result, saved>>

(* createDID gives the wallet another key at once and the DID of that key  *)
(* only when it reaches its second step.                                   *)
NoteCoherence ==
    coherent' = [w \in Wallets |->
        LET own == {c \in Calls : WalletOf[c] = w /\ kind'[c] = "create"} IN
        IF \E c \in own : pc[c] = "idle" /\ pc'[c] = "preparing" THEN FALSE
        ELSE coherent[w] \/ \E c \in own : step[c] = 1 /\ step'[c] = 2]

Operate ==
    /\ \/ \E c \in Calls : Start(c) \/ Proceed(c)
       \/ \E w \in Wallets : OpenExternal(w)
       \/ Chain
    /\ NoteCoherence
    /\ UNCHANGED <<saved, saving, crashes, cut>>

StoreNext ==
    \/ Operate
    \/ \E w \in Wallets : OpenSaved(w) \/ ReadKeyForJson(w) \/ FinishJson(w)
    \/ Crash

storeAllVars == <<vars, storeVars>>

StoreSpec == StoreInit /\ [][StoreNext]_storeAllVars

-----------------------------------------------------------------------------
(* Properties, of wallets whose calls are made one at a time. *)

(* The store keeps its types, and a key being saved is never nil. *)
StoreTypeOK ==
    /\ saved \in [Wallets -> SUBSET Jsons] /\ saving \in [Wallets -> SUBSET Keys]
    /\ crashes \in 0..MaxCrashes /\ cut \subseteq Calls /\ coherent \in [Wallets -> BOOLEAN]
    /\ \A w \in Wallets : coherent[w] => w \in opened

(* The removal of the address of k from its identity has been asked for. *)
RemovalAsked(k) ==
    \E c \in Calls : \E b \in body[c][2] :
        b.method = "remove_associated_address_delegated" /\ b.addr = k

(* JSON saved while no createDID was in its first step, or had failed      *)
(* there, names for its key the identity the registry has, whatever        *)
(* happens to the process: until removal is asked for, it can be restored. *)
SavedIsRestorable ==
    \A w \in Wallets : \A j \in saved[w] :
        j.sound => j.did = einOf[j.key] \/ RemovalAsked(j.key)

(* deleteDID on such a wallet, restored or not, also one whose earlier     *)
(* deletion was cut off between its transactions, is never refused because *)
(* of its DID.                                                             *)
RestoredCanDelete ==
    [][\A c \in Calls : pc[c] # "done" =>
          \A r \in result'[c] :
              r.cause \in {"noDid", "didDoesNotMatchKey"} /\ r.step = 1 =>
                  ~coherent[WalletOf[c]] \/ RemovalAsked(key[WalletOf[c]])]_storeAllVars

(* Once the process has ended in a call, neither what that call had sent   *)
(* nor what the application restored makes a later one report what is not  *)
(* so: its success shows on the chain.  Only the two transactions named    *)
(* above ShownOnChain, of a call cut off or left open, may come after it.  *)
SuccessSurvivesCrash ==
    [][\A c \in Calls : cut # {} /\ pc[c] # "done" /\ (\E r \in result'[c] : r.cause = "success") =>
          ShownOnChain(c, {d \in Calls : LeftOpen(d)} \cup cut)]_storeAllVars

=============================================================================
