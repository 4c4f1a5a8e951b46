--------------------------- MODULE ExternalSignature ---------------------------
(***************************************************************************)
(* Signing with a key service (MetaKeySigner.swift): what the SDK takes    *)
(* from the bytes the service answers with, and whether it finds them to   *)
(* be a signature of the wallet's key.  Bytes are numbers below Base, r    *)
(* and s numbers below Order; 256, 32 bytes and the order of secp256k1 in  *)
(* the code.                                                               *)
(*                                                                         *)
(* The curve is external: a signature recovers to the key it was made      *)
(* with, with the parity it was made with, or the other parity when s is   *)
(* replaced by Order - s; anything else recovers to no key in use.         *)
(***************************************************************************)
EXTENDS Integers, SequencesExt

CONSTANTS
    Base, Width,         \* values of a byte; bytes of r and of s
    Order,               \* order of the curve
    SequenceTag, IntegerTag, HighBit,  \* 0x30, 0x02, 0x80
    Keys,                \* keys of the service
    NoKey,               \* no public key
    Scalars,             \* values of r and s explored
    Bytes                \* bytes that take the place of damaged ones

ASSUME SignatureAssumption ==
    /\ Base \in Nat \ {0} /\ Width \in Nat \ {0}
    /\ Order \in Nat /\ Order % 2 = 1
    /\ SequenceTag \in Nat /\ IntegerTag \in Nat /\ NoKey \notin Keys
    /\ HighBit \in Nat /\ 2 * (Width + 3) < HighBit  \* DER in short form
    /\ Scalars \subseteq 1..(Order - 1)

VARIABLES
    held,     \* the key behind the signer now
    kept,     \* the public key the wallet took when it was made, or NoKey
    pc,       \* where the signing is
    how,      \* sign65 for requests, jws for tokens
    shown,    \* the public key the signing has read, NoKey before
    made,     \* {the signature the service made}
    raw,      \* {the bytes it answered with}
    out,      \* {what the signing returned or threw}
    intact,   \* the form the answer was sent in, "damaged" if none (history)
    changed   \* the service has shown another key since the wallet was made (history)

vars == <<held, kept, pc, how, shown, made, raw, out, intact, changed>>

-----------------------------------------------------------------------------
(* Numbers and bytes, most significant byte first. *)

(* BigUInt(Data) *)
Number(bytes) == FoldLeft(LAMBDA n, b : n * Base + b, 0, bytes)

Digits(n) == CHOOSE l \in 0..(Width + 1) : n < Base ^ l /\ (l > 0 => n >= Base ^ (l - 1))

(* BigUInt.serialize(): as few bytes as will do. *)
Serialize(n) == [i \in 1..Digits(n) |-> (n \div Base ^ (Digits(n) - i)) % Base]

Zeros(n) == [i \in 1..n |-> 0]

(* pad32(_:) *)
Pad(n) == Zeros(IF Digits(n) < Width THEN Width - Digits(n) ELSE 0) \o Serialize(n)

-----------------------------------------------------------------------------
(* What a key service sends (external). *)

Forms == {"raw", "rawV", "der"}

(* A zero goes before a first byte that would read as a sign.              *)
SignedBytes(n) == (IF Serialize(n)[1] >= HighBit THEN <<0>> ELSE <<>>) \o Serialize(n)

DerInteger(n) == <<IntegerTag, Len(SignedBytes(n))>> \o SignedBytes(n)

DerOf(r, s) ==
    LET content == DerInteger(r) \o DerInteger(s)
    IN  <<SequenceTag, Len(content)>> \o content

Encoded(sig, form, v) ==
    CASE form = "raw" -> Pad(sig.r) \o Pad(sig.s)
      [] form = "rawV" -> Pad(sig.r) \o Pad(sig.s) \o <<v>>
      [] form = "der" -> DerOf(sig.r, sig.s)

(* One byte lost, one too many, or one changed. *)
Damaged(bytes) ==
    {Front(bytes), Append(bytes, 0)} \cup
    {ReplaceAt(bytes, i, b) : i \in 1..Len(bytes), b \in Bytes}

-----------------------------------------------------------------------------
(* ExternalSignatureUtils.  {} stands for a thrown invalidSignature. *)

(* Mutant: the length of an INTEGER may be that of the number itself only. *)
IntegerAtWithoutSign(der, at) ==
    IF at + 1 > Len(der) \/ der[at] # IntegerTag THEN {}
    ELSE LET first == at + 2
             last == at + 1 + der[at + 1]
         IN  IF der[at + 1] = 0 \/ der[at + 1] > Width \/ last > Len(der) THEN {}
             ELSE {[value |-> Number(SubSeq(der, first, last)), next |-> last + 1]}

(* One round of the loop of derRS(_:), at byte at. *)
IntegerAt(der, at) ==
    IF at + 1 > Len(der) \/ der[at] # IntegerTag THEN {}
    ELSE LET first == at + 2
             last == at + 1 + der[at + 1]
         IN  IF der[at + 1] = 0 \/ der[at + 1] > Width + 1 \/ last > Len(der) THEN {}
             ELSE {[value |-> Number(SubSeq(der, first, last)), next |-> last + 1]}

(* derRS(_:): a short-form length, two integers, and nothing after them. *)
DerRS(der) ==
    IF der[2] >= HighBit \/ der[2] # Len(der) - 2 THEN {}
    ELSE UNION {{[r |-> r.value, s |-> s.value] :
                    s \in {i \in IntegerAt(der, r.next) : i.next = Len(der) + 1}} :
                r \in IntegerAt(der, 3)}

(* The length decides the form; DER is tried only for what is not raw. *)
Split(bytes) ==
    IF Len(bytes) \in {2 * Width, 2 * Width + 1}
      THEN {[r |-> Number(SubSeq(bytes, 1, Width)),
             s |-> Number(SubSeq(bytes, Width + 1, 2 * Width))]}
    ELSE IF Len(bytes) > 8 /\ bytes[1] = SequenceTag THEN DerRS(bytes)
    ELSE {}

InRange(n) == n \in 1..(Order - 1)

(* Mutant: s is left as the service chose it. *)
AnyS(s) == s

LowS(s) == IF s > Order \div 2 THEN Order - s ELSE s

(* rs(from:) *)
RsFrom(bytes) == {[r |-> p.r, s |-> LowS(p.s)] : p \in {q \in Split(bytes) : InRange(q.r) /\ InRange(q.s)}}

(* SECP256K1.recoverPublicKey (external). *)
Recovered(r, s, recId) ==
    IF \E m \in made : /\ ~m.rehashed /\ m.r = r
                       /\ \/ m.s = s /\ m.v = recId
                          \/ m.s = Order - s /\ m.v = 1 - recId
      THEN (CHOOSE m \in made : TRUE).key
      ELSE NoKey

(* Mutant: a signature of any key is taken. *)
RecoveryIdOfAny(r, s, publicKey) == {v \in {0, 1} : Recovered(r, s, v) # NoKey}

(* recoveryId(digest:r:s:publicKey:): {} for nil. *)
RecoveryId(r, s, publicKey) ==
    {v \in {0, 1} : Recovered(r, s, v) # NoKey /\ Recovered(r, s, v) = publicKey}

(* What sign65, and sign of ExternalJWSSigner, make of the answer. *)
Returned(bytes, publicKey) ==
    IF RsFrom(bytes) = {} THEN {[error |-> "invalidSignature", bytes |-> <<>>, v |-> 0]}
    ELSE UNION {IF RecoveryId(p.r, p.s, publicKey) = {}
                  THEN {[error |-> "signatureMismatch", bytes |-> <<>>, v |-> 0]}
                  ELSE {[error |-> "none", bytes |-> Pad(p.r) \o Pad(p.s), v |-> v] :
                           v \in RecoveryId(p.r, p.s, publicKey)} :
                p \in RsFrom(bytes)}

Thrown(why) == {[error |-> why, bytes |-> <<>>, v |-> 0]}

-----------------------------------------------------------------------------

Init ==
    /\ held \in Keys /\ kept = NoKey
    /\ pc = "idle" /\ how = "sign65" /\ shown = NoKey
    /\ made = {} /\ raw = {} /\ out = {}
    /\ intact = "damaged" /\ changed = FALSE

(* The public key of the signer is read when the wallet is made. *)
MakeWallet ==
    /\ kept = NoKey
    /\ kept' = held
    /\ UNCHANGED <<held, pc, how, shown, made, raw, out, intact, changed>>

(* The operator of the service puts another key behind the signer. *)
ChangeKey ==
    /\ pc # "done"
    /\ held' \in Keys \ {held}
    /\ changed' = (kept # NoKey)
    /\ UNCHANGED <<kept, pc, how, shown, made, raw, out, intact>>

(* sign65 reads the public key first, or fails on a malformed one; ... *)
BeginSign65 ==
    /\ kept # NoKey /\ pc = "idle"
    /\ how' = "sign65"
    /\ \/ pc' = "asked" /\ shown' = held /\ UNCHANGED out
       \/ pc' = "done" /\ out' = Thrown("invalidPublicKey") /\ UNCHANGED shown
    /\ UNCHANGED <<held, kept, made, raw, intact, changed>>

(* ... ExternalJWSSigner only after it has the signature, and it knows one *)
(* algorithm.                                                              *)
BeginJws ==
    /\ kept # NoKey /\ pc = "idle"
    /\ how' = "jws"
    /\ \/ pc' = "asked" /\ UNCHANGED out
       \/ pc' = "done" /\ out' = Thrown("notSupportedAlgorithm")
    /\ UNCHANGED <<held, kept, shown, made, raw, intact, changed>>

(* signDigest: the service signs with the key behind the signer or, wrongly *)
(* set up, with another or what it has hashed once more.  The answer comes *)
(* in any form, whole or damaged.                                          *)
ServiceAnswers ==
    /\ pc = "asked"
    /\ pc' = "answered"
    /\ \E k \in Keys, again \in BOOLEAN, r \in Scalars, s \in Scalars, v \in {0, 1} :
        /\ again => k = held
        /\ made' = {[key |-> k, rehashed |-> again, r |-> r, s |-> s, v |-> v]}
        /\ \E f \in Forms, w \in {0, 1} :
            LET whole == Encoded([r |-> r, s |-> s], f, w) IN
            \/ raw' = {whole} /\ intact' = f
            \/ /\ k = held /\ ~again
               /\ \E d \in Damaged(whole) : raw' = {d}
               /\ intact' = "damaged"
    /\ UNCHANGED <<held, kept, how, shown, out, changed>>

(* Mutant: an error of the service is swallowed. *)
ServiceThrowsUnreported ==
    /\ pc = "asked"
    /\ pc' = "done"
    /\ UNCHANGED <<held, kept, how, shown, made, raw, out, intact, changed>>

ServiceThrows ==
    /\ pc = "asked"
    /\ pc' = "done" /\ out' = Thrown("signerError")
    /\ UNCHANGED <<held, kept, how, shown, made, raw, intact, changed>>

(* The answer is taken apart and checked against the public key, which     *)
(* ExternalJWSSigner reads only now and may find malformed.                *)
Finish ==
    /\ pc = "answered"
    /\ pc' = "done"
    /\ shown' = IF how = "jws" THEN held ELSE shown
    /\ \E b \in raw :
        \/ out' = Returned(b, shown')
        \/ how = "jws" /\ RsFrom(b) # {} /\ out' = Thrown("invalidPublicKey")
    /\ UNCHANGED <<held, kept, how, made, raw, intact, changed>>

Next ==
    \/ MakeWallet \/ ChangeKey \/ BeginSign65 \/ BeginJws
    \/ ServiceAnswers \/ ServiceThrows \/ Finish

Spec == Init /\ [][Next]_vars

-----------------------------------------------------------------------------
(* Properties. *)

Errors == {"none", "invalidSignature", "invalidPublicKey", "notSupportedAlgorithm",
           "signatureMismatch", "signerError"}

(* Every variable keeps its type; a signing returns once. *)
TypeOK ==
    /\ held \in Keys /\ kept \in Keys \cup {NoKey} /\ shown \in Keys \cup {NoKey}
    /\ pc \in {"idle", "asked", "answered", "done"} /\ how \in {"sign65", "jws"}
    /\ pc = "done" <=> \E o \in out : o.error \in Errors
    /\ \A o, p \in out : o = p

Accepted == {o \in out : o.error = "none"}

(* Whatever form the service sent, and however it was damaged on the way,  *)
(* what leaves the SDK is the signature the service made in one form: r    *)
(* and s padded to their width, s the lower of the two, v its parity.      *)
CanonicalSignature ==
    \A o \in Accepted, m \in made :
        LET r == Number(SubSeq(o.bytes, 1, Width))
            s == Number(SubSeq(o.bytes, Width + 1, 2 * Width))
        IN  /\ Len(o.bytes) = 2 * Width
            /\ r = m.r /\ 2 * s <= Order
            /\ \/ s = m.s /\ o.v = m.v
               \/ s = Order - m.s /\ o.v = 1 - m.v

(* What has to hold of the conversions for that: a number that is signed   *)
(* fills its width with bytes and is read back from them, and so is one    *)
(* of DER.                                                                 *)
Signed == Scalars \cup {Order - s : s \in Scalars}

PaddingIsExact ==
    \A n \in Signed : Pad(n) \in [1..Width -> 0..(Base - 1)] /\ Number(Pad(n)) = n

DerIsExact ==
    \A n \in Scalars :
        /\ SignedBytes(n) \in Seq(Nat) /\ Len(SignedBytes(n)) \in 1..(Width + 1)
        /\ Number(SignedBytes(n)) = n

(* Every form MetaKeySigner.swift names is understood: when the service    *)
(* signs the digest itself with the key it shows, and the answer is whole, *)
(* signing succeeds, unless the service then shows a malformed key.  The   *)
(* exceptions are DER answers as long as r||s or r||s||v, which are taken  *)
(* for those, and those of 8 bytes.                                        *)
Mistaken(b) == intact = "der" /\ Len(b) \in {8, 2 * Width, 2 * Width + 1}

FormsAreUnderstood ==
    \A o \in out, m \in made, b \in raw :
        pc = "done" /\ intact # "damaged" /\ m.key = shown /\ ~m.rehashed /\ ~Mistaken(b) =>
            o.error \in {"none", "invalidPublicKey"}

(* A signature is made with the public key the wallet has kept, that its   *)
(* address and the kid of its tokens are made of, unless the key behind    *)
(* the signer has been changed since: only a change may lead to requests   *)
(* and tokens signed with a key they do not name.                          *)
SignatureIsOfKeptKey ==
    \A o \in Accepted, m \in made : ~m.rehashed /\ (m.key = kept \/ changed)

=============================================================================
