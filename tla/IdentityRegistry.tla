--------------------------- MODULE IdentityRegistry ---------------------------
(***************************************************************************)
(* The part of the Metadium chain the SDK relies on: the IdentityRegistry  *)
(* and PublicKeyResolver contracts and the transactions the delegator      *)
(* submits to them.  None of this code is in the repository.  It is        *)
(* modelled from how the SDK uses it: the data each transaction's          *)
(* signature covers (MetaWallet.createKeySignature and its siblings), the  *)
(* receipts it polls, the IdentityCreated event and the getEIN call.       *)
(*                                                                         *)
(* A key stands for the key pair and for the address derived from it.  A   *)
(* DID is "did:meta:" followed by the EIN of an identity, so an EIN stands *)
(* for the DID too.                                                        *)
(***************************************************************************)
EXTENDS Integers

CONSTANTS
    Calls,       \* calls of createDID and deleteDID the applications make
    Keys,        \* secp256k1 key pairs, with their addresses
    InitialEin,  \* the EIN each key is associated with at the start, or NoEin
    LastEin,     \* the last EIN the registry had given out at the start
    MaxTime      \* bound on the block time stamps explored

NoEin == 0

Steps == {1, 2}   \* createDID and deleteDID send up to two transactions

Methods == {"create_identity", "add_public_key_delegated",
            "remove_public_key_delegated", "remove_associated_address_delegated"}

ASSUME RegistryAssumption ==
    /\ LastEin \in Nat
    /\ InitialEin \in [Keys -> 0..LastEin]
    /\ MaxTime \in Nat \ {0}
    /\ \A k, l \in Keys : InitialEin[k] = InitialEin[l] /\ InitialEin[k] # NoEin => k = l

VARIABLES
    einOf,         \* einOf[k]: the EIN the address of k is associated with
    hasPublicKey,  \* hasPublicKey[k]: the resolver holds the public key of k
    lastEin,       \* the last EIN given out
    created,       \* created[c]: the EIN in the IdentityCreated event of call c
    now,           \* time stamp of the latest block
    body,          \* body[c][s]: the request call c sent in step s
    tx             \* tx[c][s]: what became of that request on the chain

chainVars == <<einOf, hasPublicKey, lastEin, created, now, body, tx>>

(* "refused": the delegator answered that it submits nothing. *)
TxStates == {"none", "refused", "pending", "ok", "reverted"}

(* What a request's signature covers, and the key that made it. *)
Signed == [addr : Keys, ein : Nat, ts : Nat, key : Keys]

Requests == [method : Methods, addr : Keys, ts : Nat, sig : Signed]

ChainInit ==
    /\ einOf = InitialEin
    /\ hasPublicKey = [k \in Keys |-> InitialEin[k] # NoEin]
    /\ lastEin = LastEin
    /\ created = [c \in Calls |-> NoEin]
    /\ now = 1
    /\ body = [c \in Calls |-> [s \in Steps |-> {}]]
    /\ tx = [c \in Calls |-> [s \in Steps |-> "none"]]

(* The contracts recover the signer from the data of the request and       *)
(* accept it only when that is the address the request is about.           *)
Authentic(b) ==
    /\ b.sig.key = b.addr
    /\ b.sig.addr = b.addr
    /\ b.sig.ts = b.ts
    /\ b.method = "remove_associated_address_delegated" => b.sig.ein = einOf[b.addr]

(* Mutant: an address that has an identity may be given another one.       *)
AcceptsAgain(b) ==
    /\ Authentic(b)
    /\ b.method # "create_identity" => einOf[b.addr] # NoEin

(* create_identity needs an address without identity, the others one with. *)
Accepts(b) ==
    /\ Authentic(b)
    /\ (b.method = "create_identity") <=> (einOf[b.addr] = NoEin)

-----------------------------------------------------------------------------

(* The delegator submits the transaction of a request it received, perhaps *)
(* after the client has given up waiting for the answer.                   *)
Submit(c, s) ==
    /\ body[c][s] # {} /\ tx[c][s] = "none"
    /\ tx' = [tx EXCEPT ![c][s] = "pending"]
    /\ UNCHANGED <<einOf, hasPublicKey, lastEin, created, now, body>>

(* What an accepted request does to the registry and the resolver. *)
Apply(c, b) ==
    /\ IF b.method = "create_identity"
         THEN /\ einOf' = [einOf EXCEPT ![b.addr] = lastEin + 1]
              /\ created' = [created EXCEPT ![c] = lastEin + 1]
              /\ lastEin' = lastEin + 1
         ELSE /\ einOf' = IF b.method = "remove_associated_address_delegated"
                            THEN [einOf EXCEPT ![b.addr] = NoEin] ELSE einOf
              /\ UNCHANGED <<created, lastEin>>
    /\ hasPublicKey' = [hasPublicKey EXCEPT ![b.addr] =
           (b.method = "add_public_key_delegated") \/
           (b.method = "remove_associated_address_delegated" /\ @)]

(* A transaction is mined and takes effect. *)
MineOk(c, s) ==
    /\ tx[c][s] = "pending"
    /\ \E b \in body[c][s] : Accepts(b) /\ Apply(c, b)
    /\ tx' = [tx EXCEPT ![c][s] = "ok"]
    /\ UNCHANGED <<now, body>>

(* A transaction is mined and reverts; the chain keeps its state. *)
MineReverted(c, s) ==
    /\ tx[c][s] = "pending"
    /\ tx' = [tx EXCEPT ![c][s] = "reverted"]
    /\ UNCHANGED <<einOf, hasPublicKey, lastEin, created, now, body>>

(* A block with a later time stamp. *)
NextBlock ==
    /\ now < MaxTime
    /\ now' = now + 1
    /\ UNCHANGED <<einOf, hasPublicKey, lastEin, created, body, tx>>

ChainTypeOK ==
    /\ einOf \in [Keys -> Nat] /\ hasPublicKey \in [Keys -> BOOLEAN]
    /\ lastEin \in Nat /\ created \in [Calls -> Nat] /\ now \in Nat \ {0}
    /\ body \in [Calls -> [Steps -> SUBSET Requests]]
    /\ tx \in [Calls -> [Steps -> TxStates]]

=============================================================================
