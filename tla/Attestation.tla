----------------------------- MODULE Attestation -----------------------------
(***************************************************************************)
(* Issuing and verifying tokens while DIDs are created and deleted.  The   *)
(* functions that issue (MetaWallet.sign and its callers) run on a thread  *)
(* of the application and read the wallet's fields one after the other, so *)
(* steps of createDID and deleteDID come between.  verify asks the         *)
(* resolver for the DID document a token's kid names.  What a credential   *)
(* says is in Credential; here a token is its kid, author and signature.   *)
(***************************************************************************)
EXTENDS MetaWallet, FiniteSets

CONSTANTS
    Issues,     \* calls of issueCredential, issuePresentation and sign
    IssuerOf,   \* IssuerOf[i]: the wallet issue i is made on
    GivenKeys,  \* keys of the JWS signers applications hand to these functions
    Checks      \* calls of verify

ASSUME AttestationAssumption ==
    /\ IssuerOf \in [Issues -> Wallets]
    /\ GivenKeys \subseteq Keys

VARIABLES
    at,        \* at[i]: where issue i is
    signKey,   \* signKey[i]: key of the signer it took
    source,    \* source[i]: whose that key is
    kid,       \* kid[i]: {the DID and address its header names}, {} before
    token,     \* token[i]: {the signed token}
    met,       \* met[i]: calls of the wallet begun before, then during i (history)
    sound,     \* sound[i]: nothing but a successful createDID came before (history)
    checkAt,   \* checkAt[v]: idle, asking, hung or done
    about,     \* about[v]: {the issue whose token is verified}
    verdict,   \* verdict[v]: what verify returned or threw
    why        \* why[v]: what the verdict rests on (history)

issueVars == <<at, signKey, source, kid, token, met, sound>>

checkVars == <<checkAt, about, verdict, why>>

attestationVars == <<vars, issueVars, checkVars>>

AttestationInit ==
    /\ Init
    /\ at = [i \in Issues |-> "idle"]
    /\ signKey = [i \in Issues |-> NoKey]
    /\ source = [i \in Issues |-> "private"]
    /\ kid = [i \in Issues |-> {}]
    /\ token = [i \in Issues |-> {}]
    /\ met = [i \in Issues |-> {}]
    /\ sound = [i \in Issues |-> FALSE]
    /\ checkAt = [v \in Checks |-> "idle"]
    /\ about = [v \in Checks |-> {}]
    /\ verdict = [v \in Checks |-> "none"]
    /\ why = [v \in Checks |-> "none"]

Begun(w) == {c \in Calls : WalletOf[c] = w /\ pc[c] # "idle"}

(* Every call made on the wallet so far is a createDID that succeeded. *)
Settled(w) ==
    /\ Begun(w) # {}
    /\ \A c \in Begun(w) : kind[c] = "create" /\ \E r \in result[c] : r.cause = "success"

-----------------------------------------------------------------------------
(* sign(verifiable:nonce:claim:) and sign(...jwsSigner:). *)

Sources == {"private", "signer", "given"}

Take(i, k, from) ==
    /\ at' = [at EXCEPT ![i] = "guarding"]
    /\ signKey' = [signKey EXCEPT ![i] = k]
    /\ source' = [source EXCEPT ![i] = from]
    /\ met' = [met EXCEPT ![i] = Begun(IssuerOf[i])]
    /\ sound' = [sound EXCEPT ![i] = Settled(IssuerOf[i])]
    /\ UNCHANGED <<vars, kid, token, checkVars>>

(* A signer that was handed over or that the wallet has is checked after   *)
(* it has signed, the wallet's private key is not.  Without any the        *)
(* function returns nil.                                                   *)
TakeSigner(i) ==
    LET w == IssuerOf[i] IN
    /\ at[i] = "idle" /\ w \in opened
    /\ \/ \E k \in GivenKeys : Take(i, k, "given")
       \/ key[w] # NoKey /\ Take(i, key[w], IF external[w] THEN "signer" ELSE "private")

Leave(i) ==
    /\ at' = [at EXCEPT ![i] = "done"]
    /\ met' = [met EXCEPT ![i] = Begun(IssuerOf[i]) \ @]
    /\ sound' = [sound EXCEPT ![i] = @ /\ Begun(IssuerOf[i]) \subseteq met[i]]

(* The guard of signWithSigner: noDid is thrown if the wallet has no DID.  *)
RequireDid(i) ==
    LET w == IssuerOf[i] IN
    /\ at[i] = "guarding"
    /\ IF GetDid(w) = NoDid
         THEN Leave(i) /\ UNCHANGED did
         ELSE /\ at' = [at EXCEPT ![i] = "naming"]
              /\ CacheDid(w)
              /\ UNCHANGED <<met, sound>>
    /\ UNCHANGED <<chainVars, delegatorVars, opened, key, external, metaID, tryReceiptCount,
                   callVars, signKey, source, kid, token, checkVars>>

(* getKid reads the DID again, and goes on also if there is none now.      *)
NameDid(i) ==
    LET w == IssuerOf[i] IN
    /\ at[i] = "naming"
    /\ at' = [at EXCEPT ![i] = "addressing"]
    /\ kid' = [kid EXCEPT ![i] = {[did |-> GetDid(w), addr |-> NoKey]}]
    /\ CacheDid(w)
    /\ UNCHANGED <<chainVars, delegatorVars, opened, key, external, metaID, tryReceiptCount,
                   callVars, signKey, source, token, met, sound, checkVars>>

(* Mutant: a wallet without key is not noticed. *)
NameAddressUnchecked(i) ==
    /\ at[i] = "addressing"
    /\ at' = [at EXCEPT ![i] = "signing"]
    /\ kid' = [kid EXCEPT ![i] = {[n EXCEPT !.addr = key[IssuerOf[i]]] : n \in @}]
    /\ UNCHANGED <<vars, signKey, source, met, sound, token, checkVars>>

(* The kid gets the address: noDid is thrown if the wallet has no key.     *)
(* Without a DID the kid is the empty string, which is not refused.        *)
Unnamed == [did |-> NoDid, addr |-> NoKey]

NameAddress(i) ==
    LET k == key[IssuerOf[i]] IN
    /\ at[i] = "addressing"
    /\ IF k = NoKey
         THEN Leave(i) /\ UNCHANGED kid
         ELSE /\ at' = [at EXCEPT ![i] = "signing"]
              /\ kid' = [kid EXCEPT ![i] =
                     {IF n.did = NoDid THEN Unnamed ELSE [n EXCEPT !.addr = k] : n \in @}]
              /\ UNCHANGED <<met, sound>>
    /\ UNCHANGED <<vars, signKey, source, token, checkVars>>

(* issuer or holder is set to the DID read once more, and the signer signs *)
(* or, being outside the process, fails.                                   *)
SignToken(i) ==
    LET w == IssuerOf[i] IN
    /\ at[i] = "signing"
    /\ CacheDid(w)
    /\ \/ /\ token' = [token EXCEPT ![i] =
                {[did |-> n.did, addr |-> n.addr, author |-> GetDid(w), key |-> signKey[i]]
                    : n \in kid[i]}]
          /\ IF source[i] # "private"
               THEN at' = [at EXCEPT ![i] = "checking"] /\ UNCHANGED <<met, sound>>
               ELSE Leave(i)
       \/ source[i] # "private" /\ Leave(i) /\ UNCHANGED token
    /\ UNCHANGED <<chainVars, delegatorVars, opened, key, external, metaID, tryReceiptCount,
                   callVars, signKey, source, kid, checkVars>>

(* Mutant: the signature is not checked with the wallet's key. *)
CheckNothing(i) ==
    /\ at[i] = "checking"
    /\ Leave(i)
    /\ UNCHANGED <<vars, signKey, source, kid, token, checkVars>>

(* The signature is verified with the public key the wallet has now;       *)
(* signerMismatch is thrown instead of returning the token.                *)
CheckSigner(i) ==
    /\ at[i] = "checking"
    /\ Leave(i)
    /\ token' = [token EXCEPT ![i] = {t \in @ : t.key = key[IssuerOf[i]]}]
    /\ UNCHANGED <<vars, signKey, source, kid, checkVars>>

-----------------------------------------------------------------------------
(* verify(jwt:resolverUrl:) *)

BeginVerify(v) ==
    /\ checkAt[v] = "idle"
    /\ \E i \in Issues : at[i] = "done" /\ token[i] # {} /\ about' = [about EXCEPT ![v] = {i}]
    /\ checkAt' = [checkAt EXCEPT ![v] = "asking"]
    /\ UNCHANGED <<vars, issueVars, verdict, why>>

Answer(v, outcome, reason) ==
    /\ checkAt' = [checkAt EXCEPT ![v] = "done"]
    /\ verdict' = [verdict EXCEPT ![v] = outcome]
    /\ why' = [why EXCEPT ![v] = reason]
    /\ UNCHANGED <<vars, issueVars, about>>

(* The resolver's document of a DID has the keys associated with its EIN,  *)
(* with publicKeyHex if the public key is registered; verify looks at the  *)
(* first.  The empty DID of an empty kid has no document.  No document     *)
(* makes verify return false.                                              *)
ResolverAnswers(v) ==
    /\ checkAt[v] = "asking"
    /\ \E t \in UNION {token[i] : i \in about[v]} :
        LET holders == {k \in Keys : t.did # NoDid /\ einOf[k] = t.did} IN
        \/ holders = {} /\ Answer(v, "false", "noDocument")
        \/ \E k \in holders :
              \/ ~hasPublicKey[k] /\ Answer(v, "nonePublicKey", "document")
              \/ hasPublicKey[k] /\ Answer(v, IF k = t.key THEN "true" ELSE "false", "document")

(* The resolver cannot be reached: getDiDDocument gives nil for any error. *)
ResolverFails(v) == checkAt[v] = "asking" /\ Answer(v, "false", "noAnswer")

(* An answer that is no JSON object: nobody signals the semaphore on which *)
(* getDiDDocument waits, and verify never returns.                         *)
ResolverBabbles(v) ==
    /\ checkAt[v] = "asking"
    /\ checkAt' = [checkAt EXCEPT ![v] = "hung"]
    /\ UNCHANGED <<vars, issueVars, about, verdict, why>>

-----------------------------------------------------------------------------

Issuing(i) ==
    TakeSigner(i) \/ RequireDid(i) \/ NameDid(i) \/ NameAddress(i) \/ SignToken(i) \/ CheckSigner(i)

Verifying(v) == BeginVerify(v) \/ ResolverAnswers(v) \/ ResolverFails(v) \/ ResolverBabbles(v)

AttestationNext ==
    \/ Next /\ UNCHANGED <<issueVars, checkVars>>
    \/ \E i \in Issues : Issuing(i)
    \/ \E v \in Checks : Verifying(v)

AttestationSpec == AttestationInit /\ [][AttestationNext]_attestationVars

-----------------------------------------------------------------------------
(* Properties. *)

(* A kid names a DID and an address, or is empty.                          *)
Tokens ==
    {t \in [did : Dids, addr : Keys \cup {NoKey}, author : Dids, key : Keys] :
        t.did = NoDid <=> t.addr = NoKey}

(* Every variable keeps its type; the kid of a token names both a DID and  *)
(* an address or nothing.                                                  *)
AttestationTypeOK ==
    /\ TypeOK
    /\ at \in [Issues -> {"idle", "guarding", "naming", "addressing", "signing", "checking", "done"}]
    /\ signKey \in [Issues -> Keys \cup {NoKey}] /\ source \in [Issues -> Sources]
    /\ kid \in [Issues -> SUBSET [did : Dids, addr : Keys \cup {NoKey}]]
    /\ token \in [Issues -> SUBSET Tokens] /\ met \in [Issues -> SUBSET Calls]
    /\ sound \in [Issues -> BOOLEAN] /\ checkAt \in [Checks -> {"idle", "asking", "hung", "done"}]
    /\ about \in [Checks -> SUBSET Issues]
    /\ verdict \in [Checks -> {"none", "true", "false", "nonePublicKey"}]
    /\ why \in [Checks -> {"none", "document", "noDocument", "noAnswer"}]

(* The address in a token's kid is that of the key that signed it, when no *)
(* createDID changes the wallet's key in between.  The check after signing *)
(* makes this hold for the wallet's own signer even when one does; two may *)
(* change the key back, and one may change it to that of the signer handed *)
(* over.  A private key is not checked again.  A kid is empty only after a *)
(* createDID of the wallet has made an identity and forgotten the DID.     *)
KeyChanges(i) == Cardinality({c \in met[i] : kind[c] = "create"})

HasCreated(w) == \E c \in Calls : WalletOf[c] = w /\ created[c] # NoEin

KidNamesSigner ==
    \A i \in Issues : \A t \in token[i] :
        IF t.did = NoDid
          THEN HasCreated(IssuerOf[i])
          ELSE at[i] = "done" /\ KeyChanges(i) <= (IF source[i] = "signer" THEN 1 ELSE 0)
                  => t.addr = t.key

(* Once every createDID of a wallet has succeeded, what the wallet issues  *)
(* verifies whenever the resolver answers, also while later createDIDs     *)
(* replace its key, until a deleteDID has asked for the key's removal.     *)
RemovalAsked(k) ==
    \E c \in Calls : kind[c] = "delete" /\ \E b \in body[c][1] : b.addr = k

IssuedVerifies ==
    \A v \in Checks : \A i \in about[v] :
        verdict[v] \in {"false", "nonePublicKey"} /\ why[v] # "noAnswer" /\ sound[i]
        => \E t \in token[i] : RemovalAsked(t.key)

(* When a deleteDID has reported success, no answer of the resolver from   *)
(* then on makes a token of that DID verify.                               *)
DeletedDids ==
    {b.sig.ein : b \in UNION {body[c][2] : c \in
        {d \in Calls : kind[d] = "delete" /\ \E r \in result[d] : r.cause = "success"}}}

DeletedNeverVerifies ==
    [][\A v \in Checks : verdict[v] = "none" /\ verdict'[v] = "true" =>
          \A i \in about[v] : \A t \in token[i] : t.did \notin DeletedDids]_attestationVars

(* A token that is issued has a kid that names the DID of its issuer:      *)
(* without a DID issuing ends in noDid.                                    *)
TokensAreNamed == \A i \in Issues : at[i] = "done" => \A t \in token[i] : t.did # NoDid

(* verify returns false when the signature is not by the key of the DID;   *)
(* a DID without document is an error of its own.                          *)
FalseMeansForged == \A v \in Checks : verdict[v] = "false" => why[v] = "document"

=============================================================================
