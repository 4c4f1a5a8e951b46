----------------------------- MODULE MetaDelegator -----------------------------
(***************************************************************************)
(* The delegator object (MetaDelegator.swift): the state that every wallet *)
(* built on it shares, the block time stamp fetch, and the request it      *)
(* makes of its own state and a wallet's signature.                        *)
(***************************************************************************)
EXTENDS IdentityRegistry

CONSTANTS NoKey   \* nil, where the code keeps an optional key

ASSUME DelegatorAssumption == NoKey \notin Keys

VARIABLES
    registryAddress,  \* the service addresses have been fetched
    publicKey,        \* public key of the wallet configured last, NoKey if none
    timeStamp,        \* time stamp of the last block fetched, NoTime if none
    fetch,            \* fetch[c]: {time the block fetch of call c began}, or {}
    late              \* calls that stopped waiting for their fetch (history)

delegatorVars == <<registryAddress, publicKey, timeStamp, fetch, late>>

NoTime == 0

DelegatorInit ==
    /\ registryAddress \in BOOLEAN
    /\ publicKey = NoKey
    /\ timeStamp = NoTime
    /\ fetch = [c \in Calls |-> {}]
    /\ late = {}

(* getAllServiceAddress(): asks the service unless the addresses are known *)
(* and waits; an error leaves them unknown.                                *)
FetchRegistry == registryAddress' \in IF registryAddress THEN {TRUE} ELSE BOOLEAN

(* fetchLastBlockTimeStamp(completion:): the task is started, ...          *)
StartFetch(c) == fetch' = [fetch EXCEPT ![c] = {now}]

(* ... the node answers with a block that was the latest at some time      *)
(* since, and the shared time stamp is set whoever waits, ...              *)
FetchedTimes(c) == {t \in 1..now : \E from \in fetch[c] : from <= t}

StoreTimeStamp(c, t) ==
    /\ t \in FetchedTimes(c)
    /\ timeStamp' = t
    /\ fetch' = [fetch EXCEPT ![c] = {}]

(* ... or the node fails and nothing is stored.                            *)
FetchFails(c) ==
    /\ fetch[c] # {}
    /\ fetch' = [fetch EXCEPT ![c] = {}]
    /\ UNCHANGED timeStamp

(* The ...Delegated methods put the delegator's own public key and time    *)
(* stamp beside the wallet's signature; both are unwrapped by force.       *)
CanSend == registryAddress /\ publicKey # NoKey /\ timeStamp # NoTime

RequestOf(method, sig) ==
    [method |-> method, addr |-> publicKey, ts |-> timeStamp, sig |-> sig]

(* Mutant: every ...Delegated method completes with nothing. *)
AlwaysCompletes(method) == TRUE

(* Only removeAssociatedAddressDelegated completes when the answer holds   *)
(* neither an error nor a transaction id.                                  *)
CompletesWithoutTxId(method) == method = "remove_associated_address_delegated"

DelegatorTypeOK ==
    /\ registryAddress \in BOOLEAN /\ publicKey \in Keys \cup {NoKey}
    /\ timeStamp \in Nat /\ fetch \in [Calls -> SUBSET Nat] /\ late \subseteq Calls

=============================================================================
