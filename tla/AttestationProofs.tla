--------------------------- MODULE AttestationProofs ---------------------------
(***************************************************************************)
(* Proofs about issuing and verifying: first of any interleaving with      *)
(* createDID and deleteDID, then of calls that are made one at a time.     *)
(***************************************************************************)
EXTENDS Attestation, IdentityProofs, FiniteSetTheorems

-----------------------------------------------------------------------------
(* The invariants. *)

(* Where an issue has taken its signer and not left. *)
AtWork == {"guarding", "naming", "addressing", "signing", "checking"}

(* An issue builds one kid and one token, with the key it has taken.       *)
IssueInv(i) ==
    /\ at[i] \in AtWork => signKey[i] \in Keys /\ IssuerOf[i] \in opened
    /\ at[i] \in {"idle", "guarding", "naming", "addressing", "signing"} => token[i] = {}
    /\ at[i] \in {"idle", "guarding", "naming"} => kid[i] = {}
    /\ at[i] = "signing" => \A n \in kid[i] : n.did = NoDid <=> n.addr = NoKey
    /\ \A m, n \in kid[i] : m = n
    /\ \A t, u \in token[i] : t = u
    /\ at[i] = "checking" => source[i] # "private" /\ \A t \in token[i] : t.key = signKey[i]
    /\ \A c \in met[i] : pc[c] # "idle"

(* verify is given one finished token. *)
CheckInv(v) ==
    /\ \A i, j \in about[v] : i = j
    /\ \A i \in about[v] : at[i] = "done"
    /\ checkAt[v] = "idle" => about[v] = {}
    /\ checkAt[v] # "done" => verdict[v] = "none"

(* The calls of createDID made since issue i took its signer. *)
During(i) == {c \in Begun(IssuerOf[i]) \ met[i] : kind[c] = "create"}

(* The address a is the one of the wallet's key, or one createDID ago was. *)
Named(i, a) ==
    /\ During(i) = {} => a = key[IssuerOf[i]]
    /\ source[i] = "signer" /\ (\A c, d \in During(i) : c = d) => a \in {signKey[i], key[IssuerOf[i]]}

KidInv(i) ==
    at[i] \in AtWork =>
        /\ source[i] # "given" /\ During(i) = {} => signKey[i] = key[IssuerOf[i]]
        /\ at[i] = "signing" => \A n \in kid[i] : n.did = NoDid \/ Named(i, n.addr)
        /\ at[i] = "checking" => \A t \in token[i] : t.did = NoDid \/ Named(i, t.addr)

(* Only a createDID that has made an identity takes the DID from an issue  *)
(* that has passed the guard.                                              *)
EmptyInv(i) ==
    LET w == IssuerOf[i] IN
    /\ at[i] = "naming" /\ GetDid(w) = NoDid => HasCreated(w)
    /\ \A n \in kid[i] : n.did = NoDid => HasCreated(w)
    /\ \A t \in token[i] : t.did = NoDid => HasCreated(w)

(* Only so many calls have been made that they can be counted. *)
FinitelyBegun == IsFiniteSet({c \in Calls : pc[c] # "idle"})

(* What createDID has done for an address lasts until a removal is asked.  *)
ClaimInv(c) ==
    /\ \A s \in Steps : tx[c][s] = "ok" => \A b \in body[c][s] : b.addr = b.sig.addr /\ b.addr = b.sig.key
    /\ kind[c] = "create" /\ tx[c][1] = "ok" =>
          \A b \in body[c][1] : einOf[b.addr] = created[c] \/ RemovalAsked(b.addr)
    /\ kind[c] = "create" /\ tx[c][2] = "ok" =>
          \A b \in body[c][2] : hasPublicKey[b.addr] \/ RemovalAsked(b.addr)

(* An address has a public key only beside an identity.                    *)
ClaimsInv ==
    /\ \A c \in Calls : ClaimInv(c)
    /\ \A k \in Keys : hasPublicKey[k] => einOf[k] # NoEin \/ RemovalAsked(k)

(* A signature by k verifies with the document of the DID of e. *)
Good(k, e) == (einOf[k] = e /\ e # NoEin /\ hasPublicKey[k]) \/ RemovalAsked(k)

(* So it does for a wallet all whose calls were successful createDIDs, ... *)
SettledInv(w) == Settled(w) => key[w] \in Keys /\ Good(key[w], GetDid(w))

(* ... and for what it issues. *)
SoundInv(i) ==
    LET w == IssuerOf[i] IN
    /\ at[i] \in AtWork /\ sound[i] /\ Begun(w) \subseteq met[i] =>
        /\ Settled(w)
        /\ \A n \in kid[i] : n.did = GetDid(w)
        /\ \A t \in token[i] : t.did = GetDid(w)
    /\ at[i] = "done" /\ sound[i] => \A t \in token[i] : Good(t.key, t.did)

(* The invariant of any interleaving. *)
AnyInv ==
    /\ AttestationTypeOK /\ KeyInv /\ CallInv /\ RegistryInv /\ FinitelyBegun /\ KidNamesSigner
    /\ \A i \in Issues : IssueInv(i) /\ KidInv(i) /\ EmptyInv(i)
    /\ \A v \in Checks : CheckInv(v)

(* The invariant of calls made one at a time. *)
HonestInv ==
    /\ IssuedVerifies
    /\ ClaimsInv
    /\ \A w \in Wallets : SettledInv(w)
    /\ \A i \in Issues : SoundInv(i)

-----------------------------------------------------------------------------
(* What a step may do. *)

(* A step is one of the wallets, which may store a DID for an issue, or    *)
(* one of verify.                                                          *)
LEMMA StepOf ==
  ASSUME [AttestationNext]_attestationVars
  PROVE  \/ [Next]_vars /\ UNCHANGED <<issueVars, checkVars>>
         \/ \E i \in Issues : Issuing(i) /\ UNCHANGED checkVars /\ (UNCHANGED vars \/ Cached(IssuerOf[i]))
         \/ \E v \in Checks : Verifying(v) /\ UNCHANGED <<vars, issueVars>>
<1>1. ASSUME NEW i \in Issues, Issuing(i)
      PROVE  UNCHANGED checkVars /\ (UNCHANGED vars \/ Cached(IssuerOf[i]))
  <2>1. CASE TakeSigner(i) \/ NameAddress(i) \/ CheckSigner(i)
    BY <2>1 DEF TakeSigner, Take, NameAddress, CheckSigner
  <2>2. CASE RequireDid(i) \/ NameDid(i)
    BY <2>2 DEF RequireDid, NameDid, Cached, vars, walletVars
  <2>3. CASE SignToken(i)
    BY <2>3 DEF SignToken, Cached
  <2> QED
    BY <1>1, <2>1, <2>2, <2>3 DEF Issuing
<1>2. ASSUME NEW v \in Checks, Verifying(v) PROVE UNCHANGED <<vars, issueVars>>
  BY <1>2 DEF Verifying, BeginVerify, ResolverAnswers, ResolverFails, ResolverBabbles, Answer
<1> QED
  BY <1>1, <1>2 DEF AttestationNext, attestationVars

(* The wallets keep their invariants. *)
LEMMA WalletsKeep ==
  ASSUME TypeOK, KeyInv, CallInv, RegistryInv, [AttestationNext]_attestationVars
  PROVE  /\ TypeOK' /\ KeyInv' /\ CallInv' /\ RegistryInv'
         /\ Sequential /\ SeqInv => SeqInv'
<1>1. CASE [Next]_vars
  BY <1>1, TypeStep, KeyStep, CallStep, RegistryStep, SeqStep DEF KeyInv
<1>2. CASE \E i \in Issues : Cached(IssuerOf[i])
  BY <1>2, CachedKeeps, AttestationAssumption DEF KeyInv
<1> QED
  BY <1>1, <1>2, StepOf

(* The parts of the type invariant. *)
IssueTypeOK ==
    /\ at \in [Issues -> {"idle", "guarding", "naming", "addressing", "signing", "checking", "done"}]
    /\ signKey \in [Issues -> Keys \cup {NoKey}] /\ source \in [Issues -> Sources]
    /\ kid \in [Issues -> SUBSET [did : Dids, addr : Keys \cup {NoKey}]]
    /\ token \in [Issues -> SUBSET Tokens] /\ met \in [Issues -> SUBSET Calls]
    /\ sound \in [Issues -> BOOLEAN]

CheckTypeOK ==
    /\ checkAt \in [Checks -> {"idle", "asking", "hung", "done"}]
    /\ about \in [Checks -> SUBSET Issues]
    /\ verdict \in [Checks -> {"none", "true", "false", "nonePublicKey"}]
    /\ why \in [Checks -> {"none", "document", "noDocument", "noAnswer"}]

(* A finished issue is left with its token. *)
LEMMA LeaveTypes ==
  ASSUME IssueTypeOK, NEW i \in Issues, Leave(i)
  PROVE  /\ at' \in [Issues -> {"idle", "guarding", "naming", "addressing", "signing", "checking", "done"}]
         /\ met' \in [Issues -> SUBSET Calls] /\ sound' \in [Issues -> BOOLEAN]
  BY DEF Leave, IssueTypeOK, Begun

(* A kid that names an address beside a DID is one of a token. *)
LEMMA TokenType ==
  ASSUME NEW n \in [did : Dids, addr : Keys \cup {NoKey}], n.did = NoDid <=> n.addr = NoKey, NEW d \in Dids, NEW k \in Keys
  PROVE  [did |-> n.did, addr |-> n.addr, author |-> d, key |-> k] \in Tokens
  BY DEF Tokens

(* Issuing keeps the types, ... *)
LEMMA IssueTypes ==
  ASSUME TypeOK, KeyInv, IssueTypeOK, NEW i \in Issues, IssueInv(i), Issuing(i)
  PROVE  IssueTypeOK'
<1> DEFINE w == IssuerOf[i]
<1>0. /\ w \in Wallets /\ key[w] \in Keys \cup {NoKey} /\ GetDid(w) \in Dids
      /\ Begun(w) \subseteq Calls /\ Settled(w) \in BOOLEAN
  BY AttestationAssumption, GetDidType DEF TypeOK, WalletTypeOK, Begun, Settled
<1>1. CASE TakeSigner(i)
  <2>1. PICK k \in Keys \cup {NoKey}, from \in Sources : Take(i, k, from)
    BY <1>0, <1>1, AttestationAssumption DEF TakeSigner, Sources
  <2> QED
    BY <1>0, <2>1 DEF Take, IssueTypeOK
<1>6. CASE RequireDid(i)
  BY <1>6, LeaveTypes DEF RequireDid, IssueTypeOK
<1>2. CASE NameDid(i)
  <2>1. {[did |-> GetDid(w), addr |-> NoKey]} \subseteq [did : Dids, addr : Keys \cup {NoKey}]
    BY <1>0
  <2>2. kid' \in [Issues -> SUBSET [did : Dids, addr : Keys \cup {NoKey}]]
    BY <1>2, <2>1 DEF NameDid, IssueTypeOK
  <2> QED
    BY <1>2, <2>2 DEF NameDid, IssueTypeOK
<1>3. CASE NameAddress(i)
  <2>1. CASE Leave(i) /\ UNCHANGED kid
    BY <1>3, <2>1, LeaveTypes DEF NameAddress, IssueTypeOK
  <2>2. CASE UNCHANGED <<met, sound>> /\ at' = [at EXCEPT ![i] = "signing"]
             /\ kid' = [kid EXCEPT ![i] = {IF n.did = NoDid THEN Unnamed ELSE [n EXCEPT !.addr = key[w]] : n \in @}]
    <3>1. {IF n.did = NoDid THEN Unnamed ELSE [n EXCEPT !.addr = key[w]] : n \in kid[i]}
            \subseteq [did : Dids, addr : Keys \cup {NoKey}]
      BY <1>0 DEF IssueTypeOK, Unnamed, Dids, NoDid, NoEin
    <3>2. kid' \in [Issues -> SUBSET [did : Dids, addr : Keys \cup {NoKey}]]
      BY <2>2, <3>1 DEF IssueTypeOK
    <3> QED
      BY <1>3, <2>2, <3>2 DEF NameAddress, IssueTypeOK
  <2> QED
    BY <1>3, <2>1, <2>2 DEF NameAddress
<1>4. CASE SignToken(i)
  <2> DEFINE made == {[did |-> n.did, addr |-> n.addr, author |-> GetDid(w), key |-> signKey[i]] : n \in kid[i]}
  <2>1. made \subseteq Tokens
    <3>1. /\ signKey[i] \in Keys
          /\ \A n \in kid[i] : (n.did = NoDid <=> n.addr = NoKey) /\ n \in [did : Dids, addr : Keys \cup {NoKey}]
      BY <1>4 DEF SignToken, IssueInv, AtWork, IssueTypeOK
    <3> QED
      BY <1>0, <3>1, TokenType
  <2>2. token' = [token EXCEPT ![i] = made] \/ UNCHANGED token
    BY <1>4 DEF SignToken
  <2> HIDE DEF made
  <2>3. token' \in [Issues -> SUBSET Tokens]
    BY <2>1, <2>2 DEF IssueTypeOK
  <2>4. /\ at' \in [Issues -> {"idle", "guarding", "naming", "addressing", "signing", "checking", "done"}]
        /\ met' \in [Issues -> SUBSET Calls] /\ sound' \in [Issues -> BOOLEAN]
    BY <1>4, LeaveTypes DEF SignToken, IssueTypeOK
  <2> QED
    BY <1>4, <2>3, <2>4 DEF SignToken, IssueTypeOK
<1>5. CASE CheckSigner(i)
  <2>1. token' \in [Issues -> SUBSET Tokens]
    BY <1>5 DEF CheckSigner, IssueTypeOK
  <2> QED
    BY <1>5, <2>1, LeaveTypes DEF CheckSigner, IssueTypeOK
<1> QED
  BY <1>1, <1>2, <1>3, <1>4, <1>5, <1>6 DEF Issuing

(* ... and so does verify. *)
LEMMA CheckTypes ==
  ASSUME CheckTypeOK, NEW v \in Checks, Verifying(v)
  PROVE  CheckTypeOK'
<1>1. CASE BeginVerify(v)
  BY <1>1 DEF BeginVerify, CheckTypeOK
<1>2. CASE ResolverAnswers(v)
  <2>1. \E o \in {"true", "false", "nonePublicKey"}, r \in {"document", "noDocument"} : Answer(v, o, r)
    BY <1>2 DEF ResolverAnswers
  <2> QED
    BY <2>1 DEF Answer, CheckTypeOK
<1>3. CASE ResolverFails(v)
  BY <1>3 DEF ResolverFails, Answer, CheckTypeOK
<1>4. CASE ResolverBabbles(v)
  BY <1>4 DEF ResolverBabbles, CheckTypeOK
<1> QED
  BY <1>1, <1>2, <1>3, <1>4 DEF Verifying

(* Every step keeps the types. *)
LEMMA AttestationTypes ==
  ASSUME AttestationTypeOK, KeyInv, CallInv, RegistryInv, \A i \in Issues : IssueInv(i),
         [AttestationNext]_attestationVars
  PROVE  AttestationTypeOK'
<1>1. TypeOK /\ IssueTypeOK /\ CheckTypeOK
  BY DEF AttestationTypeOK, IssueTypeOK, CheckTypeOK
<1>2. TypeOK'
  BY <1>1, WalletsKeep
<1>3. UNCHANGED issueVars => IssueTypeOK'
  BY <1>1 DEF IssueTypeOK, issueVars
<1>4. UNCHANGED checkVars => CheckTypeOK'
  BY <1>1 DEF CheckTypeOK, checkVars
<1>5. IssueTypeOK' /\ CheckTypeOK'
  BY <1>1, <1>3, <1>4, StepOf, IssueTypes, CheckTypes
<1> QED
  BY <1>2, <1>5 DEF AttestationTypeOK, IssueTypeOK, CheckTypeOK

(* An issue is left alone by the others. *)
LEMMA OtherIssues ==
  ASSUME IssueTypeOK, NEW i \in Issues, Issuing(i), NEW j \in Issues \ {i}
  PROVE  /\ at'[j] = at[j] /\ signKey'[j] = signKey[j] /\ source'[j] = source[j] /\ kid'[j] = kid[j]
         /\ token'[j] = token[j] /\ met'[j] = met[j] /\ sound'[j] = sound[j]
<1> USE DEF IssueTypeOK, Leave
<1>1. CASE TakeSigner(i)
  BY <1>1 DEF TakeSigner, Take
<1>2. CASE RequireDid(i) \/ NameDid(i)
  BY <1>2 DEF RequireDid, NameDid
<1>3. CASE NameAddress(i)
  BY <1>3 DEF NameAddress
<1>4. CASE SignToken(i)
  <2>1. token'[j] = token[j] /\ at'[j] = at[j] /\ met'[j] = met[j] /\ sound'[j] = sound[j]
    BY <1>4 DEF SignToken
  <2> QED
    BY <1>4, <2>1 DEF SignToken
<1>5. CASE CheckSigner(i)
  BY <1>5 DEF CheckSigner
<1> QED
  BY <1>1, <1>2, <1>3, <1>4, <1>5 DEF Issuing

(* What leaving records. *)
LEMMA Left ==
  ASSUME IssueTypeOK, NEW i \in Issues, Leave(i)
  PROVE  /\ at'[i] = "done" /\ met'[i] = Begun(IssuerOf[i]) \ met[i]
         /\ sound'[i] <=> sound[i] /\ Begun(IssuerOf[i]) \subseteq met[i]
  BY DEF Leave, IssueTypeOK

(* What a step of an issue does to it, action by action. *)
LEMMA IssueOwn ==
  ASSUME TypeOK, IssueTypeOK, NEW i \in Issues, IssueInv(i), Issuing(i)
  PROVE  LET w == IssuerOf[i] IN
         \/ /\ TakeSigner(i) /\ at[i] = "idle" /\ at'[i] = "guarding" /\ w \in opened
            /\ met'[i] = Begun(w) /\ sound'[i] = Settled(w) /\ signKey'[i] \in Keys
            /\ source'[i] # "given" => signKey'[i] = key[w]
            /\ kid'[i] = kid[i] /\ token'[i] = token[i]
         \/ /\ at[i] \in AtWork /\ signKey'[i] = signKey[i] /\ source'[i] = source[i]
            /\ \/ /\ at[i] = "guarding" /\ at'[i] = "naming" /\ met'[i] = met[i] /\ sound'[i] = sound[i]
                  /\ GetDid(w) # NoDid /\ kid'[i] = kid[i] /\ token'[i] = token[i]
               \/ /\ at[i] = "naming" /\ at'[i] = "addressing" /\ met'[i] = met[i] /\ sound'[i] = sound[i]
                  /\ \E n : kid'[i] = {n} /\ n.did = GetDid(w)
                  /\ token'[i] = token[i]
               \/ /\ at[i] = "addressing" /\ at'[i] = "signing" /\ met'[i] = met[i] /\ sound'[i] = sound[i]
                  /\ \A m \in kid'[i] :
                        /\ \E n \in kid[i] : m.did = n.did
                        /\ m.addr = IF m.did = NoDid THEN NoKey ELSE key[w]
                  /\ key[w] \in Keys
                  /\ \A m, n \in kid'[i] : m = n
                  /\ token'[i] = token[i]
               \/ /\ at[i] = "signing" /\ at'[i] = "checking" /\ met'[i] = met[i] /\ sound'[i] = sound[i]
                  /\ source[i] # "private" /\ kid'[i] = kid[i]
                  /\ \A t, u \in token'[i] : t = u
                  /\ \A t \in token'[i] : t.key = signKey[i] /\ \E n \in kid[i] : t.addr = n.addr /\ t.did = n.did
               \/ /\ Leave(i) /\ kid'[i] = kid[i] /\ at[i] # "checking"
                  /\ \/ token'[i] = token[i]
                     \/ /\ at[i] = "signing" /\ source[i] = "private" /\ \A t, u \in token'[i] : t = u
                        /\ \A t \in token'[i] : t.key = signKey[i] /\ \E n \in kid[i] : t.addr = n.addr /\ t.did = n.did
               \/ /\ Leave(i) /\ kid'[i] = kid[i] /\ at[i] = "checking"
                  /\ token'[i] = {t \in token[i] : t.key = key[w]}
<1> DEFINE w == IssuerOf[i]
<1>0. w \in Wallets /\ key[w] \in Keys \cup {NoKey}
  BY AttestationAssumption DEF TypeOK, WalletTypeOK
<1>1. CASE TakeSigner(i)
  <2>1. PICK k \in Keys, from \in Sources : Take(i, k, from) /\ (from # "given" => k = key[w])
    BY <1>0, <1>1, AttestationAssumption DEF TakeSigner, Sources
  <2> QED
    BY <1>1, <2>1 DEF Take, IssueTypeOK, TakeSigner
<1>2. CASE NameDid(i)
  <2> DEFINE n == [did |-> GetDid(w), addr |-> NoKey]
  <2>1. n.did = GetDid(w)
    OBVIOUS
  <2>2. at' = [at EXCEPT ![i] = "addressing"] /\ kid' = [kid EXCEPT ![i] = {n}] /\ UNCHANGED <<met, sound>>
    BY <1>2 DEF NameDid
  <2> HIDE DEF n
  <2> QED
    BY <1>2, <2>1, <2>2 DEF NameDid, IssueTypeOK, AtWork
<1>6. CASE RequireDid(i)
  BY <1>6 DEF RequireDid, IssueTypeOK, AtWork
<1>3. CASE NameAddress(i)
  <2>1. CASE Leave(i) /\ UNCHANGED kid
    BY <1>3, <2>1 DEF NameAddress, AtWork
  <2>2. CASE /\ key[w] # NoKey /\ at' = [at EXCEPT ![i] = "signing"] /\ UNCHANGED <<met, sound>>
             /\ kid' = [kid EXCEPT ![i] = {IF n.did = NoDid THEN Unnamed ELSE [n EXCEPT !.addr = key[w]] : n \in @}]
    <3>1. kid'[i] = {IF n.did = NoDid THEN Unnamed ELSE [n EXCEPT !.addr = key[w]] : n \in kid[i]}
          /\ \A n \in kid[i] : n \in [did : Dids, addr : Keys \cup {NoKey}]
      BY <2>2 DEF IssueTypeOK
    <3>2. \A m \in kid'[i] : /\ \E n \in kid[i] : m.did = n.did
                             /\ m.addr = IF m.did = NoDid THEN NoKey ELSE key[w]
      BY <3>1 DEF Unnamed
    <3>3. \A m, n \in kid'[i] : m = n
      BY <3>1 DEF IssueInv
    <3> QED
      BY <1>0, <1>3, <2>2, <3>2, <3>3 DEF NameAddress, IssueTypeOK, AtWork
  <2> QED
    BY <1>3, <2>1, <2>2 DEF NameAddress
<1>4. CASE SignToken(i)
  <2> DEFINE Made(n) == [did |-> n.did, addr |-> n.addr, author |-> GetDid(w), key |-> signKey[i]]
             made == {Made(n) : n \in kid[i]}
  <2>1. /\ \A t, u \in made : t = u
        /\ \A t \in made : t.key = signKey[i] /\ \E n \in kid[i] : t.addr = n.addr /\ t.did = n.did
    BY DEF IssueInv
  <2>2. token' = [token EXCEPT ![i] = made] \/ (UNCHANGED token /\ Leave(i))
    BY <1>4 DEF SignToken
  <2> HIDE DEF made
  <2>3. CASE UNCHANGED token /\ Leave(i)
    BY <1>4, <2>3 DEF SignToken, AtWork
  <2>4. CASE token' = [token EXCEPT ![i] = made]
    <3>1. token'[i] = made
      BY <2>4 DEF IssueTypeOK
    <3>2. CASE source[i] = "private"
      <4>1. Leave(i) /\ at[i] = "signing" /\ UNCHANGED <<kid, signKey, source>>
        BY <1>4, <3>2 DEF SignToken
      <4> QED
        BY <2>1, <3>1, <3>2, <4>1 DEF AtWork
    <3>3. CASE source[i] # "private" /\ ~Leave(i)
      <4>1. /\ at[i] = "signing" /\ UNCHANGED <<kid, signKey, source, met, sound>>
            /\ at' = [at EXCEPT ![i] = "checking"]
        BY <1>4, <3>3 DEF SignToken
      <4> QED
        BY <2>1, <3>1, <3>3, <4>1 DEF AtWork, IssueTypeOK
    <3>4. CASE source[i] # "private" /\ Leave(i)
      <4>1. UNCHANGED token
        BY <1>4, <3>4, Left DEF SignToken, IssueTypeOK
      <4> QED
        BY <1>4, <3>4, <4>1 DEF SignToken, AtWork
    <3> QED
      BY <3>2, <3>3, <3>4
  <2> QED
    BY <2>2, <2>3, <2>4
<1>5. CASE CheckSigner(i)
  BY <1>5 DEF CheckSigner, IssueTypeOK, AtWork
<1> QED
  BY <1>1, <1>2, <1>3, <1>4, <1>5, <1>6 DEF Issuing

-----------------------------------------------------------------------------
(* The invariant of any interleaving. *)

(* Every step keeps what an issue builds. *)
LEMMA IssueStep ==
  ASSUME TypeOK, IssueTypeOK, \A i \in Issues : IssueInv(i), [AttestationNext]_attestationVars, NEW j \in Issues
  PROVE  IssueInv(j)'
<1>1. \A c \in Calls : pc[c] # "idle" => pc'[c] # "idle"
  BY BegunStep, StepOf DEF vars, Cached, callVars
<1>2. opened \subseteq opened'
  BY OpenedStays, StepOf DEF vars, walletVars, Cached
<1>3. met[j] \subseteq Calls /\ IssueInv(j)
  BY DEF IssueTypeOK
<1>4. CASE /\ at'[j] = at[j] /\ signKey'[j] = signKey[j] /\ source'[j] = source[j] /\ kid'[j] = kid[j]
           /\ token'[j] = token[j] /\ met'[j] = met[j]
  BY <1>1, <1>2, <1>3, <1>4 DEF IssueInv
<1>5. CASE Issuing(j)
  <2>0. \A c \in Begun(IssuerOf[j]) : pc[c] # "idle"
    BY DEF Begun
  <2>1. CASE TakeSigner(j) /\ at'[j] = "guarding"
    <3>1. at[j] = "idle"
      BY <2>1 DEF TakeSigner
    <3>2. /\ IssuerOf[j] \in opened /\ met'[j] = Begun(IssuerOf[j]) /\ signKey'[j] \in Keys
          /\ kid'[j] = {} /\ token'[j] = {}
      BY <1>3, <1>5, <3>1, IssueOwn DEF IssueInv, AtWork
    <3> QED
      BY <1>1, <1>2, <2>0, <2>1, <3>2 DEF IssueInv, AtWork, Begun
  <2>2. CASE at[j] \in AtWork /\ at'[j] # "done"
    <3>1. signKey'[j] = signKey[j] /\ source'[j] = source[j] /\ met'[j] = met[j]
      BY <1>3, <1>5, <2>2, IssueOwn, Left DEF AtWork
    <3>2. signKey'[j] \in Keys /\ IssuerOf[j] \in opened' /\ \A c \in met'[j] : pc'[c] # "idle"
      BY <1>1, <1>2, <1>3, <2>2, <3>1 DEF IssueInv
    <3>3. CASE at[j] \in {"guarding", "naming", "addressing"}
      <4>1. token[j] = {}
        BY <1>3, <3>3 DEF IssueInv
      <4>4. CASE at[j] = "guarding"
        <5>1. at'[j] = "naming" /\ token'[j] = token[j] /\ kid'[j] = kid[j]
          BY <1>3, <1>5, <2>2, <4>4, IssueOwn, Left DEF AtWork
        <5> QED
          BY <1>3, <3>1, <3>2, <4>1, <4>4, <5>1 DEF IssueInv
      <4>2. CASE at[j] = "naming"
        <5>1. at'[j] = "addressing" /\ token'[j] = token[j] /\ \E n : kid'[j] = {n}
          BY <1>3, <1>5, <2>2, <4>2, IssueOwn, Left DEF AtWork
        <5> QED
          BY <3>1, <3>2, <4>1, <5>1 DEF IssueInv
      <4>3. CASE at[j] = "addressing"
        <5>1. /\ at'[j] = "signing" /\ token'[j] = token[j] /\ \A m, n \in kid'[j] : m = n
              /\ \A n \in kid'[j] : n.did = NoDid <=> n.addr = NoKey
          BY <1>3, <1>5, <2>2, <4>3, IssueOwn, Left, DelegatorAssumption DEF AtWork
        <5> QED
          BY <3>1, <3>2, <4>1, <5>1 DEF IssueInv
      <4> QED
        BY <3>3, <4>2, <4>3, <4>4
    <3>4. CASE at[j] = "signing" \/ at[j] = "checking"
      <4>1. /\ at'[j] = "checking" /\ source[j] # "private" /\ kid'[j] = kid[j]
            /\ \A t, u \in token'[j] : t = u
            /\ \A t \in token'[j] : t.key = signKey[j]
        BY <1>3, <1>5, <2>2, <3>4, IssueOwn, Left DEF AtWork
      <4> QED
        BY <1>3, <3>1, <3>2, <4>1 DEF IssueInv
    <3> QED
      BY <2>2, <3>3, <3>4 DEF AtWork
  <2>3. CASE at'[j] = "done"
    <3>1. /\ Leave(j) /\ kid'[j] = kid[j] /\ \A t, u \in token'[j] : t = u
      BY <1>3, <1>5, <2>3, IssueOwn DEF IssueInv
    <3>2. \A c \in met'[j] : pc'[c] # "idle"
      BY <1>1, <2>0, <3>1, Left DEF Begun
    <3> QED
      BY <1>3, <2>3, <3>1, <3>2 DEF IssueInv, AtWork
  <2> QED
    BY <1>5, <2>1, <2>2, <2>3, IssueOwn
<1> QED
  BY <1>4, <1>5, StepOf, OtherIssues DEF issueVars

(* Every step keeps what verify is about. *)
LEMMA CheckStep ==
  ASSUME IssueTypeOK, CheckTypeOK, TypeOK, \A i \in Issues : IssueInv(i), NEW v \in Checks, CheckInv(v),
         [AttestationNext]_attestationVars
  PROVE  CheckInv(v)'
<1>1. \A i \in Issues : at[i] = "done" => at'[i] = "done"
  <2>1. CASE UNCHANGED issueVars
    BY <2>1 DEF issueVars
  <2>2. ASSUME NEW i \in Issues, Issuing(i) PROVE at[i] # "done"
    BY <2>2, IssueOwn DEF AtWork
  <2> QED
    BY <2>1, <2>2, StepOf, OtherIssues
<1>2. about[v] \subseteq Issues
  BY DEF CheckTypeOK
<1>3. CASE checkAt'[v] = checkAt[v] /\ about'[v] = about[v] /\ verdict'[v] = verdict[v]
  BY <1>1, <1>2, <1>3 DEF CheckInv
<1>4. ASSUME NEW u \in Checks, Verifying(u) PROVE CheckInv(v)'
  <2>1. CASE u # v
    <3>1. checkAt'[v] = checkAt[v] /\ about'[v] = about[v] /\ verdict'[v] = verdict[v]
      BY <1>4, <2>1 DEF Verifying, BeginVerify, ResolverAnswers, ResolverFails, ResolverBabbles, Answer, CheckTypeOK
    <3> QED
      BY <1>3, <3>1
  <2>2. CASE u = v /\ BeginVerify(v)
    BY <1>1, <2>2 DEF BeginVerify, CheckInv, CheckTypeOK
  <2>3. CASE u = v /\ checkAt'[v] = "done" /\ about' = about
    BY <1>1, <1>2, <2>3 DEF CheckInv
  <2>4. CASE u = v /\ checkAt'[v] = "hung" /\ about' = about /\ verdict' = verdict /\ checkAt[v] = "asking"
    BY <1>1, <1>2, <2>4 DEF CheckInv
  <2> QED
    BY <1>4, <2>1, <2>2, <2>3, <2>4 DEF Verifying, ResolverAnswers, ResolverFails, ResolverBabbles, Answer, CheckTypeOK
<1> QED
  BY <1>3, <1>4, StepOf DEF checkVars

(* A step begins at most one call. *)
LEMMA FiniteStep ==
  ASSUME TypeOK, FinitelyBegun, [AttestationNext]_attestationVars
  PROVE  FinitelyBegun'
<1> DEFINE Old == {c \in Calls : pc[c] # "idle"}
           New == {c \in Calls : pc'[c] # "idle"}
<1>1. CASE UNCHANGED pc
  BY <1>1 DEF FinitelyBegun
<1>2. CASE [Next]_vars
  <2>1. CASE New \subseteq Old
    BY <2>1, FS_Subset DEF FinitelyBegun
  <2>2. CASE ~(New \subseteq Old)
    <3>1. PICK c \in New : c \notin Old
      BY <2>2
    <3>2. New \subseteq Old \cup {c}
      BY <1>2, <3>1, BegunStep
    <3>3. IsFiniteSet(Old \cup {c})
      BY FS_AddElement DEF FinitelyBegun
    <3> QED
      BY <3>2, <3>3, FS_Subset DEF FinitelyBegun
  <2> QED
    BY <2>1, <2>2
<1> QED
  BY <1>1, <1>2, StepOf DEF vars, callVars, Cached

(* Of calls that can be counted, ... *)
LEMMA Counted ==
  ASSUME NEW S, IsFiniteSet(S), NEW n \in {0, 1}, Cardinality(S) <= n
  PROVE  /\ n = 0 => S = {}
         /\ \A c, d \in S : c = d
<1>1. Cardinality(S) \in Nat
  BY FS_CardinalityType
<1>2. Cardinality(S) = 0 \/ Cardinality(S) = 1
  BY <1>1
<1>3. Cardinality(S) = 0 => S = {}
  BY FS_EmptySet
<1>4. Cardinality(S) = 1 => \E x : S = {x}
  BY FS_Singleton
<1> QED
  BY <1>2, <1>3, <1>4

(* ... those made during an issue. *)
LEMMA DuringFinite == ASSUME FinitelyBegun, NEW i PROVE IsFiniteSet(During(i))
<1>1. During(i) \subseteq {c \in Calls : pc[c] # "idle"}
  BY DEF During, Begun
<1> QED
  BY <1>1, FS_Subset DEF FinitelyBegun

(* What the wallets do during an issue. *)
LEMMA KeysDuring ==
  ASSUME TypeOK, IssueTypeOK, NEW i \in Issues, IssueInv(i), KidInv(i), at[i] \in AtWork,
         [Next]_vars, UNCHANGED issueVars
  PROVE  KidInv(i)'
<1> DEFINE w == IssuerOf[i]
<1>0. UNCHANGED <<at, signKey, source, kid, token, met>> /\ w \in opened /\ \A c \in met[i] : pc[c] # "idle"
  BY DEF issueVars, IssueInv
<1>1. During(i) \subseteq During(i)'
  <2>1. \A c \in Calls : pc[c] # "idle" => pc'[c] # "idle" /\ kind'[c] = kind[c]
    BY BegunStep
  <2> QED
    BY <1>0, <2>1 DEF During, Begun
<1>2. \/ key'[w] = key[w]
      \/ \E c \in During(i)' : pc[c] = "idle"
  BY <1>0, BegunStep DEF During, Begun
<1>3. \A c \in During(i) : pc[c] # "idle"
  BY DEF During, Begun
<1>4. source[i] # "given" /\ During(i)' = {} => signKey[i] = key'[w]
  BY <1>1, <1>2 DEF KidInv
<1>5. ASSUME NEW a, Named(i, a) PROVE Named(i, a)'
  <2>1. During(i)' = {} => a = key'[w]
    BY <1>1, <1>2, <1>5 DEF Named
  <2>2. ASSUME source[i] = "signer", \A c, d \in During(i)' : c = d PROVE a \in {signKey[i], key'[w]}
    <3>1. CASE key'[w] = key[w]
      BY <1>1, <1>5, <2>2, <3>1 DEF Named
    <3>2. CASE \E c \in During(i)' : pc[c] = "idle"
      <4>1. During(i) = {}
        BY <1>1, <1>3, <2>2, <3>2
      <4> QED
        BY <1>5, <2>2, <4>1 DEF Named, KidInv
    <3> QED
      BY <1>2, <3>1, <3>2
  <2> QED
    BY <1>0, <2>1, <2>2 DEF Named
<1> QED
  BY <1>0, <1>4, <1>5 DEF KidInv

(* Every step keeps what a kid may name, ... *)
LEMMA KidStep ==
  ASSUME TypeOK, IssueTypeOK, \A i \in Issues : IssueInv(i) /\ KidInv(i),
         [AttestationNext]_attestationVars, NEW j \in Issues
  PROVE  KidInv(j)'
<1>1. CASE [Next]_vars /\ UNCHANGED issueVars
  BY <1>1, KeysDuring DEF KidInv, issueVars
<1>2. CASE /\ UNCHANGED <<pc, kind, key>> /\ met'[j] = met[j]
           /\ at'[j] = at[j] /\ signKey'[j] = signKey[j] /\ source'[j] = source[j] /\ kid'[j] = kid[j]
           /\ token'[j] = token[j]
  <2>1. During(j)' = During(j)
    BY <1>2 DEF During, Begun
  <2> QED
    BY <1>2, <2>1 DEF KidInv, Named
<1>3. CASE Issuing(j) /\ UNCHANGED <<pc, kind, key>>
  <2>0. IssueInv(j) /\ KidInv(j)
    OBVIOUS
  <2>1. CASE at[j] = "idle"
    <3>1. at'[j] = "guarding" /\ met'[j] = Begun(IssuerOf[j])
          /\ (source'[j] # "given" => signKey'[j] = key[IssuerOf[j]])
      BY <1>3, <2>0, <2>1, IssueOwn DEF AtWork
    <3> QED
      BY <1>3, <3>1 DEF KidInv
  <2>2. CASE at'[j] = "done"
    BY <2>2 DEF KidInv, AtWork
  <2>3. CASE at[j] \in AtWork /\ at'[j] # "done"
    <3>1. met'[j] = met[j] /\ signKey'[j] = signKey[j] /\ source'[j] = source[j]
      BY <1>3, <2>0, <2>3, IssueOwn, Left DEF AtWork
    <3>2. During(j)' = During(j)
      BY <1>3, <3>1 DEF During, Begun
    <3>3. \A a : Named(j, a)' <=> Named(j, a)
      BY <1>3, <3>1, <3>2 DEF Named
    <3>4. Named(j, key[IssuerOf[j]])
      BY DEF Named
    <3>5. at'[j] = "signing" => \A n \in kid'[j] : n.did = NoDid \/ n.addr = key[IssuerOf[j]]
      BY <1>3, <2>0, <2>3, IssueOwn, Left DEF AtWork
    <3>6. at'[j] = "checking" => at[j] = "signing" /\ \A t \in token'[j] : \E n \in kid[j] : t.addr = n.addr /\ t.did = n.did
      BY <1>3, <2>0, <2>3, IssueOwn, Left DEF AtWork
    <3> QED
      BY <1>3, <2>0, <2>3, <3>1, <3>2, <3>3, <3>4, <3>5, <3>6 DEF KidInv
  <2> QED
    BY <1>3, <2>0, <2>1, <2>2, <2>3, IssueOwn
<1> QED
  BY <1>1, <1>2, <1>3, StepOf, OtherIssues DEF issueVars, vars, walletVars, callVars, Cached

(* A call that has made an identity has made it for good. *)
LEMMA CreatedStays ==
  ASSUME TypeOK, CallInv, RegistryInv, [AttestationNext]_attestationVars, NEW w, HasCreated(w)
  PROVE  HasCreated(w)'
<1>1. PICK c \in Calls : WalletOf[c] = w /\ created[c] # NoEin
  BY DEF HasCreated
<1>2. tx[c][1] = "ok" /\ 1 \in Steps
  BY <1>1 DEF RegistryInv, EinInv, Steps
<1>3. created'[c] = created[c]
  BY <1>1, <1>2, StepOf, OkStays DEF vars, chainVars, Cached
<1> QED
  BY <1>1, <1>3 DEF HasCreated

(* Only the receipt of create_identity takes the DID from an open wallet. *)
LEMMA DidLost ==
  ASSUME TypeOK, RegistryInv, [AttestationNext]_attestationVars, NEW w \in opened, GetDid(w) # NoDid
  PROVE  GetDid(w)' # NoDid \/ HasCreated(w)
<1>0. WalletTypeOK /\ opened \subseteq Wallets /\ w \in Wallets
  BY DEF TypeOK, WalletTypeOK
<1>1. ASSUME NEW c \in Calls, IdentityMined(c) PROVE GetDid(w)' # NoDid \/ HasCreated(w)
  <2>1. created[c] # NoEin
    BY <1>1 DEF IdentityMined, HasReceipt, RegistryInv, EinInv
  <2>2. WalletOf[c] # w => did'[w] = did[w] /\ metaID'[w] = metaID[w]
    BY <1>0, <1>1 DEF IdentityMined, WalletTypeOK
  <2> QED
    BY <2>1, <2>2 DEF HasCreated, GetDid
<1>2. ASSUME NEW v \in Wallets, Open(v) PROVE GetDid(w)' = GetDid(w)
  BY <1>0, <1>2 DEF Open, OpenStored, OpenExternal, Configure, WalletTypeOK, GetDid
<1>3. CASE [Next]_vars
  BY <1>0, <1>1, <1>2, <1>3, StartWallet, ProceedWallet DEF Next, Chain, OffChain, vars, walletVars, GetDid
<1>4. CASE \E i \in Issues : Cached(IssuerOf[i])
  BY <1>0, <1>4, GetDidKept, AttestationAssumption DEF Cached
<1> QED
  BY <1>3, <1>4, StepOf

(* So every step keeps the reason for an empty kid, ... *)
LEMMA EmptyStep ==
  ASSUME TypeOK, IssueTypeOK, CallInv, RegistryInv, \A i \in Issues : IssueInv(i) /\ EmptyInv(i),
         [AttestationNext]_attestationVars, NEW j \in Issues
  PROVE  EmptyInv(j)'
<1> DEFINE w == IssuerOf[j]
<1>0. IssueInv(j) /\ EmptyInv(j) /\ w \in Wallets /\ WalletTypeOK
  BY AttestationAssumption DEF TypeOK
<1>1. HasCreated(w) => HasCreated(w)'
  BY CreatedStays
<1>2. at[j] = "naming" => GetDid(w)' # NoDid \/ HasCreated(w)
  BY <1>0, DidLost DEF IssueInv, EmptyInv, AtWork
<1>3. CASE at'[j] = at[j] /\ kid'[j] = kid[j] /\ token'[j] = token[j]
  BY <1>0, <1>1, <1>2, <1>3 DEF EmptyInv
<1>4. CASE Issuing(j) /\ (UNCHANGED vars \/ Cached(w))
  <2>1. GetDid(w)' = GetDid(w)
    BY <1>0, <1>4, GetDidKept DEF Cached, vars, walletVars
  <2>2. at'[j] = "naming" => GetDid(w) # NoDid
    BY <1>0, <1>4, IssueOwn, Left DEF AtWork
  <2>3. \A m \in kid'[j] : m.did = NoDid => HasCreated(w)
    <3>1. CASE at[j] = "naming"
      <4>1. \A m \in kid'[j] : m.did = GetDid(w)
        BY <1>0, <1>4, <3>1, IssueOwn DEF IssueInv, AtWork
      <4> QED
        BY <1>0, <3>1, <4>1 DEF EmptyInv
    <3>2. CASE at[j] # "naming"
      <4>1. \A m \in kid'[j] : \E n \in kid[j] : m.did = n.did
        BY <1>0, <1>4, <3>2, IssueOwn DEF AtWork
      <4> QED
        BY <1>0, <4>1 DEF EmptyInv
    <3> QED
      BY <3>1, <3>2
  <2>4. \A t \in token'[j] : t.did = NoDid => HasCreated(w)
    <3>1. \A t \in token'[j] : t \in token[j] \/ \E n \in kid[j] : t.did = n.did
      BY <1>0, <1>4, IssueOwn DEF AtWork
    <3> QED
      BY <1>0, <3>1 DEF EmptyInv
  <2> QED
    BY <1>1, <2>1, <2>2, <2>3, <2>4 DEF EmptyInv
<1> QED
  BY <1>3, <1>4, StepOf, OtherIssues DEF issueVars

(* ... and that finished kids name the key that signed. *)
LEMMA KidNamesStep ==
  ASSUME TypeOK, IssueTypeOK, FinitelyBegun, \A i \in Issues : IssueInv(i) /\ KidInv(i), KidNamesSigner,
         [AttestationNext]_attestationVars, \A i \in Issues : EmptyInv(i)'
  PROVE  KidNamesSigner'
<1> SUFFICES ASSUME NEW j \in Issues, NEW t \in token'[j], at'[j] = "done", t.did # NoDid,
                    KeyChanges(j)' <= (IF source'[j] = "signer" THEN 1 ELSE 0)
             PROVE  t.addr = t.key
  BY DEF KidNamesSigner, EmptyInv
<1>0. IssueInv(j) /\ KidInv(j) /\ met[j] \subseteq Calls
  BY DEF IssueTypeOK
<1>1. CASE /\ at'[j] = at[j] /\ source'[j] = source[j] /\ token'[j] = token[j] /\ met'[j] = met[j]
           /\ \A c \in Calls : pc[c] # "idle" => kind'[c] = kind[c]
  <2>1. {c \in met'[j] : kind'[c] = "create"} = {c \in met[j] : kind[c] = "create"}
    BY <1>0, <1>1 DEF IssueInv
  <2>2. KeyChanges(j)' = KeyChanges(j)
    BY <2>1 DEF KeyChanges
  <2> QED
    BY <1>1, <2>2 DEF KidNamesSigner
<1>2. CASE Issuing(j) /\ UNCHANGED <<pc, kind, key>>
  <2> DEFINE k == key[IssuerOf[j]]
  <2>1. Leave(j) /\ at[j] \in AtWork /\ source'[j] = source[j]
    BY <1>0, <1>2, IssueOwn
  <2>2. During(j) = {c \in met'[j] : kind'[c] = "create"}
    BY <1>2, <2>1, Left DEF During
  <2>3. Cardinality(During(j)) <= (IF source[j] = "signer" THEN 1 ELSE 0)
    BY <2>1, <2>2 DEF KeyChanges
  <2>4. /\ \A c, d \in During(j) : c = d
        /\ source[j] # "signer" => During(j) = {}
    BY <2>3, Counted, DuringFinite
  <2>5. \A a : Named(j, a) => IF source[j] = "signer" THEN a \in {signKey[j], k} ELSE a = k
    BY <2>4 DEF Named
  <2>6. CASE at[j] = "checking"
    <3>1. t \in token[j] /\ t.key = k /\ t.key = signKey[j] /\ Named(j, t.addr)
      BY <1>0, <1>2, <2>6, IssueOwn DEF IssueInv, KidInv, AtWork
    <3> QED
      BY <2>5, <3>1
  <2>7. CASE at[j] # "checking"
    <3>1. /\ at[j] = "signing" /\ source[j] = "private" /\ t.key = signKey[j]
          /\ \E n \in kid[j] : t.addr = n.addr /\ t.did = n.did
      <4>1. token[j] = {}
        BY <1>0, <2>1, <2>7 DEF IssueInv, AtWork
      <4> QED
        BY <1>0, <1>2, <2>7, <4>1, IssueOwn
    <3>2. Named(j, t.addr) /\ signKey[j] = k
      BY <1>0, <2>4, <3>1 DEF KidInv, AtWork
    <3> QED
      BY <2>5, <3>1, <3>2
  <2> QED
    BY <2>6, <2>7
<1> QED
  <2>1. CASE [Next]_vars /\ UNCHANGED issueVars
    <3>1. \A c \in Calls : pc[c] # "idle" => kind'[c] = kind[c]
      BY <2>1, BegunStep
    <3> QED
      BY <1>1, <2>1, <3>1 DEF issueVars
  <2>2. CASE UNCHANGED <<pc, kind, key>>
    BY <1>1, <1>2, <2>2, StepOf, OtherIssues DEF issueVars
  <2> QED
    BY <2>1, <2>2, StepOf DEF vars, walletVars, callVars, Cached

(* At first no issue is made and no token verified. *)
LEMMA AnyInit == AttestationInit => AnyInv
<1> SUFFICES ASSUME AttestationInit PROVE AnyInv
  OBVIOUS
<1>1. TypeOK /\ KeyInv /\ CallInv /\ RegistryInv
  BY TypeInit, KeyInit, CallInit, RegistryInit DEF AttestationInit
<1>2. AttestationTypeOK
  BY <1>1 DEF AttestationInit, AttestationTypeOK, Sources
<1>3. FinitelyBegun
  <2>1. {c \in Calls : pc[c] # "idle"} = {}
    BY DEF AttestationInit, Init
  <2> QED
    BY <2>1, FS_EmptySet DEF FinitelyBegun
<1>4. KidNamesSigner
  BY DEF AttestationInit, KidNamesSigner
<1>5. ASSUME NEW i \in Issues PROVE IssueInv(i) /\ KidInv(i) /\ EmptyInv(i)
  BY DEF AttestationInit, IssueInv, KidInv, EmptyInv, AtWork
<1>6. ASSUME NEW v \in Checks PROVE CheckInv(v)
  BY DEF AttestationInit, CheckInv
<1> QED
  BY <1>1, <1>2, <1>3, <1>4, <1>5, <1>6 DEF AnyInv

(* Every step keeps the invariant. *)
LEMMA AnyStep == AnyInv /\ [AttestationNext]_attestationVars => AnyInv'
<1> SUFFICES ASSUME AnyInv, [AttestationNext]_attestationVars PROVE AnyInv'
  OBVIOUS
<1>0. /\ TypeOK /\ IssueTypeOK /\ CheckTypeOK /\ KeyInv /\ CallInv /\ RegistryInv /\ FinitelyBegun
      /\ AttestationTypeOK /\ KidNamesSigner
      /\ \A i \in Issues : IssueInv(i) /\ KidInv(i) /\ EmptyInv(i)
      /\ \A v \in Checks : CheckInv(v)
  BY DEF AnyInv, AttestationTypeOK, IssueTypeOK, CheckTypeOK
<1>1. KeyInv' /\ CallInv' /\ RegistryInv'
  BY <1>0, WalletsKeep
<1>5. \A i \in Issues : EmptyInv(i)'
  BY <1>0, EmptyStep
<1>2. AttestationTypeOK' /\ FinitelyBegun' /\ KidNamesSigner'
  BY <1>0, <1>5, AttestationTypes, FiniteStep, KidNamesStep
<1>3. \A i \in Issues : IssueInv(i)' /\ KidInv(i)'
  BY <1>0, IssueStep, KidStep
<1>4. \A v \in Checks : CheckInv(v)'
  BY <1>0, CheckStep
<1> QED
  BY <1>1, <1>2, <1>3, <1>4, <1>5 DEF AnyInv

(* What issuing and verifying rely on, whatever the calls do meanwhile. *)
THEOREM AttestationInductive == AttestationSpec => []AnyInv
  BY AnyInit, AnyStep, PTL DEF AttestationSpec

(* Every variable keeps its type, and a token's kid that names a DID names *)
(* an address with it.                                                     *)
THEOREM AttestationTyped == AttestationSpec => []AttestationTypeOK
<1>1. AnyInv => AttestationTypeOK
  BY DEF AnyInv
<1> QED
  BY <1>1, AttestationInductive, PTL

(* However createDID and deleteDID interleave with it, an issue puts the   *)
(* address of the key that signed into the kid, unless a createDID was     *)
(* made meanwhile - or two, with the wallet's own signer - and leaves the  *)
(* kid empty only when a createDID of the wallet has made an identity.     *)
THEOREM KidsNameSigners == AttestationSpec => []KidNamesSigner
<1>1. AnyInv => KidNamesSigner
  BY DEF AnyInv
<1> QED
  BY <1>1, AttestationInductive, PTL

(* When a deleteDID has reported success, no answer of the resolver makes  *)
(* a token of that DID verify any more.                                    *)
THEOREM DeletedStaysUnverified == AttestationSpec => DeletedNeverVerifies
<1> DEFINE Step == \A v \in Checks : verdict[v] = "none" /\ verdict'[v] = "true" =>
                      \A i \in about[v] : \A t \in token[i] : t.did \notin DeletedDids
<1>1. AnyInv /\ [AttestationNext]_attestationVars => [Step]_attestationVars
  <2> SUFFICES ASSUME AnyInv, [AttestationNext]_attestationVars,
                      NEW v \in Checks, verdict[v] = "none", verdict'[v] = "true",
                      NEW i \in about[v], NEW t \in token[i], t.did \in DeletedDids
               PROVE  FALSE
    OBVIOUS
  <2>1. about[v] \subseteq Issues /\ CheckInv(v) /\ IssueInv(i) /\ CallInv /\ RegistryInv
    BY DEF AnyInv, AttestationTypeOK
  <2>2. ResolverAnswers(v)
    <3>1. PICK u \in Checks : Verifying(u)
      BY StepOf DEF checkVars
    <3>2. verdict' = verdict \/ \E o, r : Answer(u, o, r)
      BY <3>1 DEF Verifying, BeginVerify, ResolverAnswers, ResolverFails, ResolverBabbles
    <3>3. verdict \in [Checks -> {"none", "true", "false", "nonePublicKey"}]
      BY DEF AnyInv, AttestationTypeOK
    <3>4. u = v
      BY <3>2, <3>3 DEF Answer
    <3>5. ~ResolverFails(v)
      BY <3>3 DEF ResolverFails, Answer
    <3> QED
      BY <3>1, <3>4, <3>5 DEF Verifying, BeginVerify, ResolverBabbles
  <2>3. PICK u \in UNION {token[j] : j \in about[v]} :
            LET holders == {k \in Keys : u.did # NoDid /\ einOf[k] = u.did} IN
            \/ holders = {} /\ Answer(v, "false", "noDocument")
            \/ \E k \in holders :
                  \/ ~hasPublicKey[k] /\ Answer(v, "nonePublicKey", "document")
                  \/ hasPublicKey[k] /\ Answer(v, IF k = u.key THEN "true" ELSE "false", "document")
    BY <2>2 DEF ResolverAnswers
  <2>4. u = t
    BY <2>1 DEF CheckInv, IssueInv
  <2>5. \E k \in Keys : einOf[k] = t.did
    <3>1. verdict \in [Checks -> {"none", "true", "false", "nonePublicKey"}]
      BY DEF AnyInv, AttestationTypeOK
    <3>2. ~Answer(v, "false", "noDocument")
      BY <3>1 DEF Answer
    <3> QED
      BY <2>3, <2>4, <3>2
  <2>6. PICK c \in Calls : /\ kind[c] = "delete" /\ \E r \in result[c] : r.cause = "success"
                           /\ \E b \in body[c][2] : b.sig.ein = t.did
    BY DEF DeletedDids
  <2>7. tx[c][2] = "ok"
    BY <2>1, <2>6 DEF CallInv, ReportInv, Truthful, Steps
  <2> QED
    BY <2>1, <2>5, <2>6, <2>7 DEF RegistryInv, RemovedInv
<1> HIDE DEF Step
<1>2. AttestationSpec => [][Step]_attestationVars
  BY <1>1, AttestationInductive, PTL DEF AttestationSpec
<1> QED
  BY <1>2 DEF DeletedNeverVerifies, Step

-----------------------------------------------------------------------------
(* Calls made one at a time: what createDID has done lasts. *)

OneByOne == TypeOK /\ KeyInv /\ CallInv /\ RegistryInv /\ SeqInv

(* A removal that has been asked for stays so. *)
LEMMA RemovalStays ==
  ASSUME TypeOK, CallInv, RegistryInv, [Next]_vars, NEW k, RemovalAsked(k)
  PROVE  RemovalAsked(k)'
<1>1. PICK c \in Calls : kind[c] = "delete" /\ \E b \in body[c][1] : b.addr = k
  BY DEF RemovalAsked
<1>2. body'[c][1] = body[c][1]
  BY <1>1, BodyGrows DEF Steps
<1>3. pc[c] # "idle"
  BY <1>1 DEF RegistryInv, RequestInv, Steps
<1>4. kind'[c] = "delete"
  BY <1>1, <1>3, BegunStep
<1> QED
  BY <1>1, <1>2, <1>4 DEF RemovalAsked

(* Nothing but a removal that was asked for takes an identity or a public  *)
(* key from an address.                                                    *)
LEMMA TakenIfAsked ==
  ASSUME OneByOne, ClaimsInv, [Next]_vars, NEW k \in Keys
  PROVE  /\ einOf[k] # NoEin => einOf'[k] = einOf[k] \/ RemovalAsked(k)
         /\ hasPublicKey[k] => hasPublicKey'[k] \/ RemovalAsked(k)
<1>0. TypeOK /\ CallInv /\ RegistryInv /\ DeleteKeepsItsIdentity
  BY DEF OneByOne, SeqInv
<1>1. ASSUME OffChain, NEW c \in Calls, NEW s \in Steps, MineOk(c, s)
      PROVE  /\ einOf[k] # NoEin => einOf'[k] = einOf[k] \/ RemovalAsked(k)
             /\ hasPublicKey[k] => hasPublicKey'[k] \/ RemovalAsked(k)
  <2>1. PICK b \in body[c][s] :
           /\ Accepts(b) /\ Apply(c, b) /\ b.method = MethodOf(kind[c], s)
           /\ b.addr \in Keys /\ b.sig.addr = b.addr
    BY <1>0, <1>1, Mined DEF RegistryInv
  <2>2. einOf \in [Keys -> Nat] /\ hasPublicKey \in [Keys -> BOOLEAN]
    BY <1>0 DEF TypeOK, ChainTypeOK
  <2>3. CASE kind[c] = "create"
    <3>1. einOf[b.addr] = NoEin /\ hasPublicKey[b.addr] => RemovalAsked(b.addr)
      BY <2>1 DEF ClaimsInv
    <3>2. k # b.addr => hasPublicKey'[k] = hasPublicKey[k]
      BY <2>1, <2>2 DEF Apply
    <3>3. CASE s = 1
      <4>1. einOf[b.addr] = NoEin /\ einOf' = [einOf EXCEPT ![b.addr] = lastEin + 1]
        BY <1>0, <2>1, <2>3, <3>3, MinedCases
      <4> QED
        BY <2>2, <3>1, <3>2, <4>1
    <3>4. CASE s = 2
      <4>1. UNCHANGED einOf /\ hasPublicKey' = [hasPublicKey EXCEPT ![b.addr] = TRUE]
        BY <1>0, <2>1, <2>3, <3>4, MinedCases
      <4> QED
        BY <2>2, <4>1
    <3> QED
      BY <3>3, <3>4 DEF Steps
  <2>4. CASE kind[c] = "delete" /\ s = 1
    <3>1. RemovalAsked(b.addr)
      BY <2>1, <2>4 DEF RemovalAsked
    <3> QED
      BY <1>0, <2>1, <2>2, <2>4, <3>1, MinedCases
  <2>5. CASE kind[c] = "delete" /\ s = 2
    <3>1. tx[c][1] = "ok"
      <4>1. body[c][2] # {} /\ step[c] \in {1, 2}
        BY <1>0, <2>1, <2>5 DEF TypeOK, CallTypeOK, Steps
      <4> QED
        BY <1>0, <4>1 DEF CallInv, StepInv
    <3>2. PICK x \in body[c][1] : x.addr = x.sig.addr
      BY <1>0, <3>1, NoRequestNoTx DEF ClaimsInv, ClaimInv, Steps
    <3>3. b.sig.addr = x.sig.addr
      BY <1>0, <2>1, <2>5, <3>2 DEF DeleteKeepsItsIdentity
    <3>4. RemovalAsked(b.addr)
      BY <2>1, <2>5, <3>2, <3>3 DEF RemovalAsked
    <3> QED
      BY <1>0, <2>1, <2>2, <2>5, <3>4, MinedCases
  <2> QED
    BY <1>0, <2>1, <2>3, <2>4, <2>5, MinedCases
<1> QED
  BY <1>0, <1>1, NextOnChain

(* So what verifies goes on verifying until then. *)
LEMMA GoodStays ==
  ASSUME OneByOne, ClaimsInv, [Next]_vars, NEW k \in Keys, NEW e, Good(k, e)
  PROVE  Good(k, e)'
  BY TakenIfAsked, RemovalStays DEF Good, OneByOne

(* What a transaction of createDID has done is there, or its removal has   *)
(* been asked for.                                                         *)
LEMMA ClaimStep ==
  ASSUME OneByOne, ClaimsInv, [Next]_vars, NEW c \in Calls
  PROVE  ClaimInv(c)'
<1>0. /\ TypeOK /\ CallInv /\ RegistryInv /\ EinInv /\ ClaimInv(c)
      /\ einOf \in [Keys -> Nat] /\ hasPublicKey \in [Keys -> BOOLEAN] /\ created \in [Calls -> Nat]
      /\ lastEin \in Nat /\ 1 \in Steps /\ 2 \in Steps
  BY DEF OneByOne, RegistryInv, TypeOK, ChainTypeOK, Steps, ClaimsInv
<1>1. \A k : RemovalAsked(k) => RemovalAsked(k)'
  BY <1>0, RemovalStays
<1>2. ASSUME NEW s \in Steps, NEW b \in body[c][s], tx[c][s] = "ok" PROVE b.addr \in Keys
  BY <1>0, <1>2 DEF TypeOK, ChainTypeOK, Requests, ClaimInv, Signed
<1>3. ASSUME NEW s \in Steps, tx[c][s] = "ok"
      PROVE  /\ body'[c][s] = body[c][s] /\ kind'[c] = kind[c]
             /\ created[c] # NoEin => created'[c] = created[c]
  BY <1>0, <1>3, OkStays
<1>4. ASSUME NEW s \in Steps, tx'[c][s] = "ok", tx[c][s] # "ok"
      PROVE  /\ UNCHANGED <<body, kind>>
             /\ \E b : /\ body[c][s] = {b} /\ b.addr \in Keys /\ b.addr = b.sig.addr /\ b.addr = b.sig.key
                       /\ kind[c] = "create" /\ s = 1 => einOf'[b.addr] = created'[c]
                       /\ kind[c] = "create" /\ s = 2 => hasPublicKey'[b.addr]
  <2>1. PICK e \in Calls, t \in Steps : MineOk(e, t) /\ OffChain
    BY <1>0, <1>4, NextOnChain
  <2>2. e = c /\ t = s
    BY <1>0, <1>4, <2>1, Mined DEF RegistryInv
  <2>3. PICK b \in body[c][s] :
           /\ Accepts(b) /\ Apply(c, b) /\ b.method = MethodOf(kind[c], s) /\ body[c][s] = {b}
           /\ b.addr \in Keys /\ b.sig.addr = b.addr
    BY <1>0, <2>1, <2>2, Mined DEF RegistryInv
  <2>4. b.addr = b.sig.key
    BY <2>3 DEF Accepts, Authentic
  <2>5. UNCHANGED <<body, kind>>
    BY <2>1 DEF MineOk, OffChain, callVars
  <2>6. kind[c] = "create" /\ s = 1 => einOf'[b.addr] = created'[c]
    BY <1>0, <2>3, MinedCases
  <2>7. kind[c] = "create" /\ s = 2 => hasPublicKey'[b.addr]
    BY <1>0, <2>3, MinedCases
  <2> QED
    BY <2>3, <2>4, <2>5, <2>6, <2>7
<1>5. ASSUME NEW s \in Steps, tx'[c][s] = "ok", NEW b \in body'[c][s]
      PROVE  b.addr = b.sig.addr /\ b.addr = b.sig.key
  BY <1>0, <1>3, <1>4, <1>5 DEF ClaimInv
<1>6. ASSUME kind'[c] = "create", tx'[c][1] = "ok", NEW b \in body'[c][1]
      PROVE  einOf'[b.addr] = created'[c] \/ RemovalAsked(b.addr)'
  <2>1. CASE tx[c][1] = "ok"
    <3>1. kind[c] = "create" /\ b \in body[c][1] /\ created[c] # NoEin /\ created'[c] = created[c]
      BY <1>0, <1>3, <1>6, <2>1 DEF EinInv
    <3> QED
      BY <1>0, <1>1, <1>2, <2>1, <3>1, TakenIfAsked DEF ClaimInv
  <2>2. CASE tx[c][1] # "ok"
    BY <1>0, <1>4, <1>6, <2>2
  <2> QED
    BY <2>1, <2>2
<1>7. ASSUME kind'[c] = "create", tx'[c][2] = "ok", NEW b \in body'[c][2]
      PROVE  hasPublicKey'[b.addr] \/ RemovalAsked(b.addr)'
  <2>1. CASE tx[c][2] = "ok"
    <3>1. kind[c] = "create" /\ b \in body[c][2]
      BY <1>0, <1>3, <1>7, <2>1
    <3> QED
      BY <1>0, <1>1, <1>2, <2>1, <3>1, TakenIfAsked DEF ClaimInv
  <2>2. CASE tx[c][2] # "ok"
    BY <1>0, <1>4, <1>7, <2>2
  <2> QED
    BY <2>1, <2>2
<1> QED
  BY <1>5, <1>6, <1>7 DEF ClaimInv

(* A public key is registered only for an address with an identity, and    *)
(* stays behind only where its removal has been asked for.                 *)
LEMMA RegisteredStep ==
  ASSUME OneByOne, ClaimsInv, [Next]_vars, NEW k \in Keys, hasPublicKey'[k]
  PROVE  einOf'[k] # NoEin \/ RemovalAsked(k)'
<1>0. TypeOK /\ CallInv /\ RegistryInv /\ einOf \in [Keys -> Nat] /\ hasPublicKey \in [Keys -> BOOLEAN]
  BY DEF OneByOne, TypeOK, ChainTypeOK
<1>1. CASE hasPublicKey[k]
  BY <1>0, <1>1, TakenIfAsked, RemovalStays DEF ClaimsInv
<1>2. CASE ~hasPublicKey[k]
  <2>1. PICK c \in Calls, s \in Steps : MineOk(c, s) /\ OffChain
    BY <1>0, <1>2, NextOnChain
  <2>2. PICK b \in body[c][s] :
           /\ Accepts(b) /\ Apply(c, b) /\ b.method = MethodOf(kind[c], s)
           /\ b.addr \in Keys /\ b.sig.addr = b.addr
    BY <1>0, <2>1, Mined DEF RegistryInv
  <2>3. b.addr = k /\ b.method = "add_public_key_delegated"
    BY <1>0, <1>2, <2>2 DEF Apply
  <2>4. einOf'[k] = einOf[k] /\ einOf[k] # NoEin
    BY <2>2, <2>3 DEF Apply, Accepts
  <2> QED
    BY <2>4
<1> QED
  BY <1>1, <1>2

-----------------------------------------------------------------------------
(* Calls made one at a time: what a settled wallet issues. *)

(* Only the receipt of the second transaction makes a call succeed. *)
LEMMA Succeeds ==
  ASSUME TypeOK, CallInv, [Next]_vars, NEW c \in Calls, NEW r \in result'[c],
         r.cause = "success", r \notin result[c]
  PROVE  SecondMined(c)
<1>1. PICK d \in Calls : Start(d) \/ Proceed(d)
  BY OpenKeeps DEF Next, Chain, OffChain, vars, callVars
<1>2. d = c
  BY <1>1, OthersKept
<1> QED
  BY <1>1, <1>2, Causes DEF ReportedBy

(* A wallet is settled because it was so and is left alone, or because a   *)
(* createDID just has succeeded.                                           *)
LEMMA SettledCases ==
  ASSUME TypeOK, KeyInv, CallInv, [Next]_vars, NEW w \in Wallets, Settled(w)'
  PROVE  \/ Settled(w) /\ key'[w] = key[w] /\ GetDid(w)' = GetDid(w)
         \/ \E c \in Calls : WalletOf[c] = w /\ kind[c] = "create" /\ SecondMined(c)
<1> SUFFICES ASSUME ~\E c \in Calls : WalletOf[c] = w /\ kind[c] = "create" /\ SecondMined(c)
             PROVE  Settled(w) /\ key'[w] = key[w] /\ GetDid(w)' = GetDid(w)
  OBVIOUS
<1>1. ASSUME NEW c \in Calls, WalletOf[c] = w, pc'[c] # "idle"
      PROVE  pc[c] = "done" /\ kind[c] = "create" /\ \E r \in result[c] : r.cause = "success"
  <2>1. kind'[c] = "create" /\ \E r \in result'[c] : r.cause = "success"
    BY <1>1 DEF Settled, Begun
  <2>2. PICK r \in result'[c] : r.cause = "success"
    BY <2>1
  <2>3. SecondMined(c) => kind[c] = "create"
    BY <2>1 DEF SecondMined
  <2>4. r \in result[c]
    BY <1>1, <2>2, <2>3, Succeeds
  <2>5. pc[c] = "done"
    BY <2>4 DEF CallInv, ReportInv
  <2> QED
    BY <2>1, <2>2, <2>4, <2>5, BegunStep
<1>2. Begun(w) \subseteq Begun(w)' /\ Begun(w)' \subseteq Begun(w)
  BY <1>1, BegunStep DEF Begun
<1>3. Settled(w)
  BY <1>1, <1>2 DEF Settled, Begun
<1>4. w \in opened
  BY <1>3 DEF Settled, Begun, KeyInv
<1>5. key'[w] = key[w]
  BY <1>1, <1>4, BegunStep
<1>6. GetDid(w)' = GetDid(w)
  <2>0. did \in [Wallets -> Dids]
    BY DEF TypeOK, WalletTypeOK
  <2>1. ASSUME NEW v \in Wallets, Open(v) PROVE did'[w] = did[w] /\ metaID' = metaID
    BY <1>4, <2>0, <2>1 DEF Open, OpenStored, OpenExternal, Configure
  <2>2. ASSUME NEW c \in Calls, IdentityMined(c) PROVE did'[w] = did[w] /\ metaID'[w] = metaID[w]
    <3>1. WalletOf[c] # w /\ metaID \in [Wallets -> Nat]
      BY <1>1, <2>2, BegunStep DEF IdentityMined, HasReceipt, MayPoll, TypeOK, WalletTypeOK
    <3> QED
      BY <2>0, <2>2, <3>1 DEF IdentityMined
  <2> QED
    BY <2>1, <2>2, StartWallet, ProceedWallet DEF Next, Chain, OffChain, vars, walletVars, GetDid
<1> QED
  BY <1>3, <1>5, <1>6

(* When a createDID succeeds, the wallet's key verifies. *)
LEMMA SucceedsGood ==
  ASSUME OneByOne, ClaimsInv, NEW c \in Calls, kind[c] = "create", SecondMined(c)
  PROVE  key[WalletOf[c]] \in Keys /\ Good(key[WalletOf[c]], GetDid(WalletOf[c]))
<1> DEFINE w == WalletOf[c]
           k == key[w]
<1>0. /\ TypeOK /\ CallInv /\ EinInv /\ StepInv(c) /\ SignInv(c) /\ DidInv(c) /\ ClaimInv(c)
      /\ 1 \in Steps /\ 2 \in Steps
  BY DEF OneByOne, SeqInv, RegistryInv, CallInv, ClaimsInv, Steps
<1>1. step[c] = 2 /\ Running(c) /\ tx[c][2] = "ok"
  BY DEF SecondMined, HasReceipt, MayPoll, Running
<1>2. tx[c][1] = "ok"
  BY <1>0, <1>1 DEF StepInv
<1>3. PICK x \in body[c][1], y \in body[c][2] : x.addr = k /\ y.addr = k /\ k = y.sig.key
  BY <1>0, <1>1, <1>2, NoRequestNoTx DEF ClaimInv, SignInv
<1>4. k \in Keys
  BY <1>0, <1>3 DEF TypeOK, ChainTypeOK, Requests, Signed
<1>5. GetDid(w) = created[c] /\ created[c] # NoEin
  BY <1>0, <1>1, <1>2 DEF DidInv, EinInv
<1>6. (einOf[k] = created[c] /\ hasPublicKey[k]) \/ RemovalAsked(k)
  BY <1>0, <1>1, <1>2, <1>3 DEF ClaimInv
<1> QED
  BY <1>4, <1>5, <1>6 DEF Good

(* So the key of a settled wallet verifies. *)
LEMMA SettledStep ==
  ASSUME OneByOne, ClaimsInv, [Next]_vars, NEW w \in Wallets, SettledInv(w)
  PROVE  SettledInv(w)'
<1> SUFFICES ASSUME Settled(w)' PROVE (key[w] \in Keys /\ Good(key[w], GetDid(w)))'
  BY DEF SettledInv
<1>1. /\ key'[w] = key[w] /\ GetDid(w)' = GetDid(w)
      /\ key[w] \in Keys /\ Good(key[w], GetDid(w))
  <2>1. CASE Settled(w) /\ key'[w] = key[w] /\ GetDid(w)' = GetDid(w)
    BY <2>1 DEF SettledInv
  <2>2. ASSUME NEW c \in Calls, WalletOf[c] = w, kind[c] = "create", SecondMined(c)
        PROVE  key' = key /\ GetDid(w)' = GetDid(w) /\ key[w] \in Keys /\ Good(key[w], GetDid(w))
    BY <2>2, SucceedsGood DEF SecondMined, GetDid
  <2> QED
    BY <2>1, <2>2, SettledCases DEF OneByOne
<1>2. PICK k \in Keys : k = key[w]
  BY <1>1
<1>3. PICK e : e = GetDid(w)
  OBVIOUS
<1>4. Good(k, e)'
  BY <1>1, <1>2, <1>3, GoodStays
<1> QED
  BY <1>1, <1>2, <1>3, <1>4 DEF Good


(* Storing the DID of a settled wallet for an issue changes nothing. *)
LEMMA CachedSettled ==
  ASSUME TypeOK, NEW v \in Wallets, UNCHANGED vars \/ Cached(v)
  PROVE  /\ UNCHANGED <<chainVars, callVars, key>>
         /\ \A w \in Wallets : GetDid(w)' = GetDid(w)
  BY GetDidKept DEF TypeOK, Cached, vars, walletVars, GetDid

(* Steps of the wallets keep what is true of sound issues. *)
LEMMA SoundNext ==
  ASSUME OneByOne, ClaimsInv, AttestationTypeOK, [Next]_vars, UNCHANGED issueVars,
         NEW i \in Issues, IssueInv(i), SoundInv(i)
  PROVE  SoundInv(i)'
<1> DEFINE w == IssuerOf[i]
<1>0. /\ w \in Wallets /\ TypeOK /\ KeyInv /\ CallInv
      /\ at'[i] = at[i] /\ sound'[i] = sound[i] /\ met'[i] = met[i] /\ kid'[i] = kid[i] /\ token'[i] = token[i]
      /\ token[i] \subseteq Tokens
  BY AttestationAssumption DEF OneByOne, issueVars, AttestationTypeOK
<1>1. ASSUME at[i] \in AtWork, sound[i], Begun(w)' \subseteq met[i]
      PROVE  Settled(w)' /\ GetDid(w)' = GetDid(w) /\ Begun(w) \subseteq met[i]
  <2>1. Begun(w) \subseteq Begun(w)' /\ Begun(w)' \subseteq Begun(w)
    BY <1>0, <1>1, BegunStep DEF Begun, IssueInv
  <2>2. Settled(w)
    BY <1>1, <2>1 DEF SoundInv
  <2>3. \A c \in Begun(w) : pc[c] = "done"
    BY <1>0, <2>2 DEF Settled, Begun, CallInv, ReportInv
  <2>4. Settled(w)'
    BY <1>0, <2>1, <2>2, <2>3, DoneStays, BegunStep DEF Settled, Begun
  <2>5. \A c \in Calls : WalletOf[c] = w => ~SecondMined(c)
    BY <2>3 DEF SecondMined, HasReceipt, MayPoll, Begun
  <2> QED
    BY <1>0, <1>1, <2>1, <2>4, <2>5, SettledCases
<1>2. ASSUME NEW t \in token[i], Good(t.key, t.did) PROVE Good(t.key, t.did)'
  <2>1. PICK k \in Keys : k = t.key
    BY <1>0 DEF Tokens
  <2>2. PICK e : e = t.did
    OBVIOUS
  <2>3. Good(k, e)'
    BY <1>2, <2>1, <2>2, GoodStays
  <2> QED
    BY <2>1, <2>2, <2>3 DEF Good
<1>3. at[i] \in AtWork /\ sound[i] /\ Begun(w)' \subseteq met[i] =>
        /\ Settled(w)'
        /\ \A n \in kid[i] : n.did = GetDid(w)'
        /\ \A t \in token[i] : t.did = GetDid(w)'
  BY <1>1 DEF SoundInv
<1>4. at[i] = "done" /\ sound[i] => \A t \in token[i] : Good(t.key, t.did)'
  BY <1>2 DEF SoundInv
<1> QED
  BY <1>0, <1>3, <1>4 DEF SoundInv

(* What an issue names and signs is the DID and the key of the wallet. *)
LEMMA SoundOwn ==
  ASSUME OneByOne, AttestationTypeOK, NEW i \in Issues, Issuing(i), UNCHANGED vars \/ Cached(IssuerOf[i]),
         IssueInv(i), KidInv(i), SoundInv(i), SettledInv(IssuerOf[i])
  PROVE  SoundInv(i)'
<1> DEFINE w == IssuerOf[i]
<1>0. /\ w \in Wallets /\ TypeOK /\ IssueTypeOK
  BY AttestationAssumption DEF OneByOne, AttestationTypeOK, IssueTypeOK
<1>1. /\ UNCHANGED <<chainVars, callVars, key>> /\ GetDid(w)' = GetDid(w)
      /\ Begun(w)' = Begun(w) /\ Settled(w)' = Settled(w)
      /\ \A k, e : Good(k, e)' <=> Good(k, e)
  <2>1. UNCHANGED <<chainVars, callVars, key>> /\ GetDid(w)' = GetDid(w)
    BY <1>0, CachedSettled
  <2> QED
    BY <2>1 DEF chainVars, callVars, Begun, Settled, Good, RemovalAsked
<1>2. CASE at[i] = "idle"
  <2>1. /\ at'[i] = "guarding" /\ sound'[i] = Settled(w) /\ kid'[i] = {} /\ token'[i] = {}
    BY <1>0, <1>2, IssueOwn, Left DEF AtWork, IssueInv
  <2> QED
    BY <1>1, <2>1 DEF SoundInv, AtWork
<1>3. CASE at[i] \in AtWork /\ at'[i] # "done"
  <2>1. met'[i] = met[i] /\ sound'[i] = sound[i]
    BY <1>0, <1>3, IssueOwn, Left DEF AtWork
  <2>2. \/ kid'[i] = kid[i]
        \/ \A m \in kid'[i] : m.did = GetDid(w) \/ \E n \in kid[i] : m.did = n.did
    BY <1>0, <1>3, IssueOwn, Left DEF AtWork
  <2>3. \/ token'[i] = token[i]
        \/ \A t \in token'[i] : \E n \in kid[i] : t.did = n.did
    BY <1>0, <1>3, IssueOwn, Left DEF AtWork
  <2>4. sound[i] /\ Begun(w) \subseteq met[i] =>
          /\ Settled(w)
          /\ \A n \in kid'[i] : n.did = GetDid(w)
          /\ \A t \in token'[i] : t.did = GetDid(w)
    BY <1>3, <2>2, <2>3 DEF SoundInv
  <2> QED
    BY <1>1, <1>3, <2>1, <2>4 DEF SoundInv
<1>4. CASE at[i] \in AtWork /\ at'[i] = "done"
  <2> SUFFICES ASSUME sound'[i], NEW t \in token'[i] PROVE Good(t.key, t.did)'
    BY <1>4 DEF SoundInv, AtWork
  <2>1. Leave(i) /\ source'[i] = source[i]
    BY <1>0, <1>4, IssueOwn DEF AtWork
  <2>2. sound[i] /\ Begun(w) \subseteq met[i]
    BY <1>0, <2>1, Left
  <2>3. /\ Settled(w) /\ \A n \in kid[i] : n.did = GetDid(w)
        /\ \A u \in token[i] : u.did = GetDid(w)
    BY <1>4, <2>2 DEF SoundInv
  <2>4. t.key = key[w] /\ t.did = GetDid(w)
    <3>1. CASE at[i] = "checking"
      BY <1>0, <2>3, <3>1, IssueOwn DEF AtWork
    <3>2. CASE at[i] # "checking"
      <4>1. token[i] = {}
        BY <1>4, <3>2 DEF IssueInv, AtWork
      <4>2. source[i] = "private" /\ t.key = signKey[i] /\ \E n \in kid[i] : t.did = n.did
        BY <1>0, <1>4, <3>2, <4>1, IssueOwn DEF AtWork
      <4>3. During(i) = {}
        BY <2>2 DEF During
      <4> QED
        BY <1>4, <2>3, <4>2, <4>3 DEF KidInv
    <3> QED
      BY <3>1, <3>2
  <2>5. Good(t.key, t.did)
    BY <2>3, <2>4 DEF SettledInv
  <2> QED
    BY <1>1, <2>5
<1> QED
  BY <1>0, <1>2, <1>3, <1>4, IssueOwn


(* The resolver answers a token that is good with the key that signed it.  *)
LEMMA GoodVerifies ==
  ASSUME EinInv, TypeOK, AttestationTypeOK, NEW v \in Checks, ResolverAnswers(v), CheckInv(v),
         NEW i \in about[v], IssueInv(i), NEW t \in token[i], Good(t.key, t.did)
  PROVE  verdict'[v] = "true" \/ RemovalAsked(t.key)
<1> SUFFICES ASSUME ~RemovalAsked(t.key) PROVE verdict'[v] = "true"
  OBVIOUS
<1>0. about[v] \subseteq Issues /\ verdict \in [Checks -> {"none", "true", "false", "nonePublicKey"}]
  BY DEF AttestationTypeOK
<1>1. PICK u \in UNION {token[j] : j \in about[v]} :
          LET holders == {k \in Keys : u.did # NoDid /\ einOf[k] = u.did} IN
          \/ holders = {} /\ Answer(v, "false", "noDocument")
          \/ \E k \in holders :
                \/ ~hasPublicKey[k] /\ Answer(v, "nonePublicKey", "document")
                \/ hasPublicKey[k] /\ Answer(v, IF k = u.key THEN "true" ELSE "false", "document")
  BY DEF ResolverAnswers
<1>2. u = t
  BY <1>0, <1>1 DEF CheckInv, IssueInv
<1>3. t.key \in Keys /\ einOf[t.key] = t.did /\ t.did # NoEin /\ hasPublicKey[t.key]
  BY <1>0 DEF Good, AttestationTypeOK, Tokens
<1>4. \A k \in Keys : einOf[k] = t.did <=> k = t.key
  BY <1>3 DEF EinInv
<1>5. Answer(v, "true", "document")
  BY <1>1, <1>2, <1>3, <1>4 DEF NoDid
<1> QED
  BY <1>0, <1>5 DEF Answer

(* Steps of verify report no forgery of a sound token. *)
LEMMA VerifiesOwn ==
  ASSUME AnyInv, IssuedVerifies, \A i \in Issues : SoundInv(i), NEW u \in Checks, Verifying(u),
         UNCHANGED <<vars, issueVars>>
  PROVE  IssuedVerifies'
<1> SUFFICES ASSUME NEW v \in Checks, NEW i \in about'[v], verdict'[v] \in {"false", "nonePublicKey"},
                    why'[v] # "noAnswer", sound'[i]
             PROVE  \E t \in token'[i] : RemovalAsked(t.key)'
  BY DEF IssuedVerifies
<1>0. /\ TypeOK /\ AttestationTypeOK /\ EinInv /\ CheckInv(v)
      /\ \A j \in Issues : IssueInv(j)
  BY DEF AnyInv, RegistryInv, AttestationTypeOK
<1>1. /\ UNCHANGED <<sound, token>>
      /\ \A k : RemovalAsked(k)' <=> RemovalAsked(k)
  BY DEF vars, issueVars, chainVars, callVars, RemovalAsked
<1>2. CASE about'[v] = about[v] /\ verdict'[v] = verdict[v] /\ why'[v] = why[v]
  BY <1>1, <1>2 DEF IssuedVerifies
<1>3. CASE u = v /\ BeginVerify(v)
  BY <1>0, <1>3 DEF BeginVerify, CheckInv
<1>4. CASE u = v /\ ResolverFails(v)
  BY <1>0, <1>4 DEF ResolverFails, Answer, AttestationTypeOK
<1>5. CASE u = v /\ ResolverAnswers(v)
  <2>1. i \in about[v] /\ i \in Issues /\ sound[i]
    BY <1>0, <1>1, <1>5 DEF ResolverAnswers, Answer, AttestationTypeOK
  <2>2. token[i] # {} /\ at[i] = "done"
    BY <1>0, <1>5, <2>1 DEF ResolverAnswers, CheckInv
  <2>3. PICK t \in token[i] : Good(t.key, t.did)
    BY <2>1, <2>2 DEF SoundInv
  <2>4. verdict'[v] = "true" \/ RemovalAsked(t.key)
    BY <1>0, <1>5, <2>1, <2>3, GoodVerifies
  <2> QED
    BY <1>1, <2>4
<1>6. CASE u = v /\ ResolverBabbles(v)
  BY <1>2, <1>6 DEF ResolverBabbles
<1>7. CASE u # v
  BY <1>0, <1>2, <1>7 DEF Verifying, BeginVerify, ResolverAnswers, ResolverFails, ResolverBabbles, Answer,
                          AttestationTypeOK
<1> QED
  BY <1>3, <1>4, <1>5, <1>6, <1>7 DEF Verifying


(* Nothing but verify says that a token is forged. *)
LEMMA VerifiesStep ==
  ASSUME AnyInv, IssuedVerifies, \A i \in Issues : SoundInv(i), [AttestationNext]_attestationVars
  PROVE  IssuedVerifies'
<1> DEFINE Asked == \A k : RemovalAsked(k) => RemovalAsked(k)'
<1>0. /\ TypeOK /\ CallInv /\ RegistryInv /\ IssueTypeOK /\ about \in [Checks -> SUBSET Issues]
      /\ \A v \in Checks : CheckInv(v)
      /\ \A i \in Issues : IssueInv(i)
  BY DEF AnyInv, AttestationTypeOK, IssueTypeOK
<1>1. ASSUME UNCHANGED checkVars, Asked,
             \A v \in Checks : \A i \in about[v] : sound'[i] = sound[i] /\ token'[i] = token[i]
      PROVE  IssuedVerifies'
  BY <1>1 DEF IssuedVerifies, checkVars
<1>2. CASE [Next]_vars /\ UNCHANGED <<issueVars, checkVars>>
  <2>1. Asked
    BY <1>0, <1>2, RemovalStays
  <2> QED
    BY <1>1, <1>2, <2>1 DEF issueVars
<1>3. ASSUME NEW i \in Issues, Issuing(i), UNCHANGED checkVars, UNCHANGED vars \/ Cached(IssuerOf[i])
      PROVE  IssuedVerifies'
  <2>1. Asked
    BY <1>3 DEF RemovalAsked, Cached, vars, chainVars, callVars
  <2>2. at[i] # "done"
    BY <1>0, <1>3, IssueOwn DEF AtWork
  <2>3. \A v \in Checks : \A j \in about[v] : j \in Issues /\ j # i
    BY <1>0, <2>2 DEF CheckInv
  <2> QED
    BY <1>0, <1>1, <1>3, <2>1, <2>3, OtherIssues
<1>4. ASSUME NEW v \in Checks, Verifying(v), UNCHANGED <<vars, issueVars>>
      PROVE  IssuedVerifies'
  BY <1>4, VerifiesOwn
<1> QED
  BY <1>2, <1>3, <1>4, StepOf

(* At first nothing has been done, asked or issued. *)
LEMMA HonestInit == AttestationInit => HonestInv
<1> SUFFICES ASSUME AttestationInit PROVE HonestInv
  OBVIOUS
<1>1. IssuedVerifies
  BY DEF AttestationInit, IssuedVerifies
<1>2. ClaimsInv
  BY DEF AttestationInit, Init, ChainInit, ClaimsInv, ClaimInv, Steps
<1>3. \A w \in Wallets : SettledInv(w)
  BY DEF AttestationInit, Init, SettledInv, Settled, Begun
<1>4. \A i \in Issues : SoundInv(i)
  BY DEF AttestationInit, SoundInv, AtWork
<1> QED
  BY <1>1, <1>2, <1>3, <1>4 DEF HonestInv

(* Every step keeps what issuers and the registry say of each other. *)
LEMMA HonestStep ==
  ASSUME AnyInv, SeqInv, HonestInv, [AttestationNext]_attestationVars
  PROVE  HonestInv'
<1>0. /\ AttestationTypeOK /\ OneByOne /\ TypeOK /\ ClaimsInv
      /\ \A i \in Issues : IssueInv(i) /\ KidInv(i) /\ SoundInv(i) /\ IssuerOf[i] \in Wallets
      /\ \A w \in Wallets : SettledInv(w)
  BY AttestationAssumption DEF AnyInv, AttestationTypeOK, OneByOne, HonestInv
<1>1. IssuedVerifies'
  BY VerifiesStep DEF HonestInv
<1>2. CASE [Next]_vars /\ UNCHANGED issueVars
  <2>1. ClaimsInv'
    BY <1>0, <1>2, ClaimStep, RegisteredStep DEF ClaimsInv
  <2>2. \A w \in Wallets : SettledInv(w)'
    BY <1>0, <1>2, SettledStep
  <2>3. \A i \in Issues : SoundInv(i)'
    BY <1>0, <1>2, SoundNext
  <2> QED
    BY <1>1, <2>1, <2>2, <2>3 DEF HonestInv
<1>3. ASSUME NEW i \in Issues, Issuing(i), UNCHANGED vars \/ Cached(IssuerOf[i])
      PROVE  HonestInv'
  <2>1. UNCHANGED <<chainVars, callVars, key>> /\ \A w \in Wallets : GetDid(w)' = GetDid(w)
    BY <1>0, <1>3, CachedSettled
  <2>2. /\ \A w \in Wallets : Settled(w)' = Settled(w) /\ Begun(w)' = Begun(w)
        /\ \A k, e : Good(k, e)' <=> Good(k, e)
        /\ ClaimsInv'
    BY <1>0, <2>1 DEF chainVars, callVars, Begun, Settled, Good, RemovalAsked, ClaimsInv, ClaimInv
  <2>3. \A w \in Wallets : SettledInv(w)'
    BY <1>0, <2>1, <2>2 DEF SettledInv
  <2>4. ASSUME NEW j \in Issues PROVE SoundInv(j)'
    <3>1. CASE j = i
      BY <1>0, <1>3, <3>1, SoundOwn
    <3>2. CASE j # i
      <4>1. /\ at'[j] = at[j] /\ sound'[j] = sound[j] /\ met'[j] = met[j] /\ kid'[j] = kid[j]
            /\ token'[j] = token[j]
        BY <1>0, <1>3, <3>2, OtherIssues DEF AttestationTypeOK, IssueTypeOK
      <4> QED
        BY <1>0, <2>1, <2>2, <4>1 DEF SoundInv
    <3> QED
      BY <3>1, <3>2
  <2> QED
    BY <1>1, <2>2, <2>3, <2>4 DEF HonestInv
<1> QED
  BY <1>2, <1>3, StepOf DEF vars

(* Once every createDID of a wallet has succeeded, what the wallet issues  *)
(* verifies whenever the resolver answers, until a deleteDID has asked for *)
(* the removal of its key: with calls made one at a time.                  *)
THEOREM IssuedTokensVerify == ASSUME Sequential PROVE AttestationSpec => []IssuedVerifies
<1> DEFINE Inv == AnyInv /\ SeqInv /\ HonestInv
<1>1. AttestationInit => Inv
  BY AnyInit, SeqInit, HonestInit DEF AttestationInit
<1>2. Inv /\ [AttestationNext]_attestationVars => Inv'
  BY AnyStep, HonestStep, WalletsKeep DEF AnyInv, AttestationTypeOK
<1>3. Inv => IssuedVerifies
  BY DEF HonestInv
<1> HIDE DEF Inv
<1> QED
  BY <1>1, <1>2, <1>3, PTL DEF AttestationSpec

===============================================================================
