------------------------ MODULE ExternalSignatureProofs ------------------------
(***************************************************************************)
(* Proofs about ExternalSignature, for any keys, any curve order and any   *)
(* bytes a service may answer with.                                        *)
(***************************************************************************)
EXTENDS ExternalSignature, SequenceTheorems, TLAPS

(* What the service makes. *)
Made == [key : Keys, rehashed : BOOLEAN, r : Scalars, s : Scalars, v : {0, 1}]

(* A signing makes one signature, when it is asked for it. *)
MadeInv ==
    /\ made \subseteq Made
    /\ \A m, n \in made : m = n
    /\ pc \in {"idle", "asked"} => made = {}
    /\ pc \in {"answered"} => raw # {}
    /\ \A b, c \in raw : b = c
    /\ pc # "done" => out = {}

(* Where the public keys that are compared come from. *)
KeptInv ==
    /\ kept = NoKey => pc = "idle"
    /\ kept # NoKey => held = kept \/ changed
    /\ how = "sign65" /\ pc \in {"asked", "answered"} => shown = kept \/ changed
    /\ SignatureIsOfKeptKey

(* The signature that is returned, as numbers: the one that was made, with *)
(* the lower of its two s.                                                 *)
IsLowerOf(s, v, m) ==
    /\ s \in Signed /\ 2 * s <= Order
    /\ \/ s = m.s /\ v = m.v
       \/ s = Order - m.s /\ v = 1 - m.v

LowerInv ==
    \A o \in Accepted, m \in made :
        \E s : o.bytes = Pad(m.r) \o Pad(s) /\ IsLowerOf(s, o.v, m)

SigInv == TypeOK /\ MadeInv /\ KeptInv /\ LowerInv

(* The lower of s and Order - s is a number the curve has, and taking it   *)
(* twice changes nothing; s in range is what keeps the subtraction of the  *)
(* unsigned numbers from trapping.                                         *)
THEOREM LowerS ==
  ASSUME NEW s \in Nat, InRange(s)
  PROVE  /\ LowS(s) \in 1..(Order \div 2)
         /\ LowS(s) \in {s, Order - s}
         /\ LowS(LowS(s)) = LowS(s)
<1>1. s \in 1..(Order - 1) /\ Order \in Nat /\ Order \div 2 \in Nat /\ 2 * (Order \div 2) = Order - 1
  BY SignatureAssumption DEF InRange
<1>2. CASE s > Order \div 2
  BY <1>1, <1>2 DEF LowS
<1>3. CASE ~(s > Order \div 2)
  BY <1>1, <1>3 DEF LowS
<1> QED
  BY <1>2, <1>3

(* An answer is split in at most one way. *)
LEMMA SplitsOnce == ASSUME NEW b, NEW x \in RsFrom(b), NEW y \in RsFrom(b) PROVE x = y
<1>1. \A p, q \in Split(b) : p = q
  <2>1. \A at : \A p, q \in IntegerAt(b, at) : p = q
    BY DEF IntegerAt
  <2>2. \A p, q \in DerRS(b) : p = q
    BY <2>1 DEF DerRS
  <2> QED
    BY <2>2 DEF Split
<1> QED
  BY <1>1 DEF RsFrom

(* A signature recovers to a key of the service with one recovery id only, *)
(* as the order of the curve is odd, and to the key that made it.          *)
LEMMA RecoversToMaker ==
  ASSUME MadeInv, NEW r, NEW s, NEW k, NEW v \in RecoveryId(r, s, k)
  PROVE  /\ \A w \in RecoveryId(r, s, k) : w = v
         /\ \A m \in made : ~m.rehashed /\ m.key = k
<1>1. /\ v \in {0, 1} /\ Recovered(r, s, v) # NoKey /\ Recovered(r, s, v) = k
  BY DEF RecoveryId
<1>2. PICK m \in made : ~m.rehashed /\ ((m.s = s /\ m.v = v) \/ (m.s = Order - s /\ m.v = 1 - v))
  BY <1>1 DEF Recovered
<1>3. Recovered(r, s, v) = (CHOOSE n \in made : TRUE).key
  BY <1>1 DEF Recovered
<1>4. \A n \in made : n = m /\ n = CHOOSE q \in made : TRUE
  BY DEF MadeInv
<1>5. m.s \in 1..(Order - 1) /\ m.v \in {0, 1} /\ Order \in Nat /\ Order % 2 = 1
  BY SignatureAssumption DEF MadeInv, Made
<1>6. ASSUME NEW w \in RecoveryId(r, s, k) PROVE w = v
  <2>1. w \in {0, 1} /\ ((m.s = s /\ m.v = w) \/ (m.s = Order - s /\ m.v = 1 - w))
    BY <1>4 DEF RecoveryId, Recovered
  <2>2. ~(m.s = s /\ m.s = Order - s)
    BY <1>5
  <2> QED
    BY <1>1, <1>2, <1>5, <2>1, <2>2
<1> QED
  BY <1>1, <1>2, <1>3, <1>4, <1>6

(* What is checked against the key has an s in the lower half.             *)
LEMMA ChecksLowerS ==
  ASSUME NEW b, NEW p \in RsFrom(b)
  PROVE  p.s \in Nat /\ 2 * p.s <= Order
<1>1. PICK q \in Split(b) : InRange(q.s) /\ p.s = LowS(q.s)
  BY DEF RsFrom
<1>2. q.s \in Nat
  BY <1>1, SignatureAssumption DEF InRange
<1>3. p.s \in 1..(Order \div 2)
  BY <1>1, <1>2, LowerS
<1> QED
  BY <1>3, SignatureAssumption

(* What recovers to a key is the signature that was made, with either s.   *)
LEMMA RecoversLower ==
  ASSUME MadeInv, NEW p, p.s \in Nat, 2 * p.s <= Order, NEW k, NEW v \in RecoveryId(p.r, p.s, k),
         NEW m \in made
  PROVE  p.r = m.r /\ IsLowerOf(p.s, v, m)
<1>1. PICK n \in made : /\ n.r = p.r
                        /\ (n.s = p.s /\ n.v = v) \/ (n.s = Order - p.s /\ n.v = 1 - v)
  BY DEF RecoveryId, Recovered
<1>2. n = m
  BY DEF MadeInv
<1>3. m.s \in Scalars /\ m.s \in Nat /\ m.v \in {0, 1} /\ v \in {0, 1} /\ Order \in Nat
  <2>1. m.s \in Scalars /\ m.v \in {0, 1}
    BY DEF MadeInv, Made
  <2>2. v \in {0, 1}
    BY DEF RecoveryId
  <2>3. m.s \in 1..(Order - 1) /\ Order \in Nat
    BY <2>1, SignatureAssumption
  <2> QED
    BY <2>1, <2>2, <2>3
<1>4. p.s = m.s \/ p.s = Order - m.s
  BY <1>1, <1>2, <1>3
<1>5. p.s \in Signed
  BY <1>3, <1>4 DEF Signed
<1> QED
  BY <1>1, <1>2, <1>3, <1>5 DEF IsLowerOf

(* A finished signing returns once, and an accepted signature was made     *)
(* with the key it was checked against, and is the one made in one form.   *)
LEMMA ReturnsOnce ==
  ASSUME MadeInv, NEW b, NEW k
  PROVE  /\ \A o, p \in Returned(b, k) : o = p
         /\ \E o \in Returned(b, k) : o.error \in Errors
         /\ \A o \in Returned(b, k) : o.error = "none" =>
                \A m \in made : ~m.rehashed /\ m.key = k
         /\ \A o \in Returned(b, k) : o.error = "none" =>
                \A m \in made : \E s : o.bytes = Pad(m.r) \o Pad(s) /\ IsLowerOf(s, o.v, m)
<1> DEFINE mismatch == [error |-> "signatureMismatch", bytes |-> <<>>, v |-> 0]
           good(p, v) == [error |-> "none", bytes |-> Pad(p.r) \o Pad(p.s), v |-> v]
<1>1. CASE RsFrom(b) = {}
  BY <1>1 DEF Returned, Errors
<1>2. CASE RsFrom(b) # {}
  <2>1. PICK p \in RsFrom(b) : TRUE
    BY <1>2
  <2>2. RsFrom(b) = {p}
    BY <2>1, SplitsOnce
  <2>3. Returned(b, k) = IF RecoveryId(p.r, p.s, k) = {} THEN {mismatch}
                         ELSE {good(p, v) : v \in RecoveryId(p.r, p.s, k)}
    BY <2>2 DEF Returned
  <2>4. CASE RecoveryId(p.r, p.s, k) = {}
    BY <2>3, <2>4 DEF Errors
  <2>5. CASE RecoveryId(p.r, p.s, k) # {}
    <3>1. PICK v \in RecoveryId(p.r, p.s, k) : TRUE
      BY <2>5
    <3>2. Returned(b, k) = {good(p, v)}
      BY <2>3, <2>5, <3>1, RecoversToMaker
    <3>3. \A m \in made : ~m.rehashed /\ m.key = k
      BY <3>1, RecoversToMaker
    <3>4. \A m \in made : p.r = m.r /\ IsLowerOf(p.s, v, m)
      BY <2>1, <3>1, ChecksLowerS, RecoversLower
    <3>5. /\ good(p, v).error = "none" /\ good(p, v).v = v
          /\ good(p, v).bytes = Pad(p.r) \o Pad(p.s)
      OBVIOUS
    <3>6. \A m \in made :
             good(p, v).bytes = Pad(m.r) \o Pad(p.s) /\ IsLowerOf(p.s, good(p, v).v, m)
      BY <3>4, <3>5
    <3> HIDE DEF good
    <3> QED
      BY <3>2, <3>3, <3>5, <3>6 DEF Errors
  <2> QED
    BY <2>4, <2>5
<1> QED
  BY <1>1, <1>2

-----------------------------------------------------------------------------

(* Nothing is shown, made or returned at the start. *)
LEMMA SigInit == Init => SigInv
  BY DEF Init, SigInv, TypeOK, MadeInv, KeptInv, SignatureIsOfKeptKey, LowerInv, Accepted

(* An error is no accepted signature. *)
LEMMA ThrownOnly ==
  ASSUME NEW why \in Errors \ {"none"}
  PROVE  /\ \A o \in Thrown(why) : o.error = why
         /\ \A o, p \in Thrown(why) : o = p
         /\ Thrown(why) # {}
  BY DEF Thrown

(* Every step keeps the invariant. *)
LEMMA SigStep == ASSUME SigInv, [Next]_vars PROVE SigInv'
<1> USE DEF SigInv
<1>1. CASE MakeWallet
  BY <1>1 DEF MakeWallet, TypeOK, MadeInv, KeptInv, SignatureIsOfKeptKey, LowerInv, Accepted
<1>2. CASE ChangeKey
  BY <1>2 DEF ChangeKey, TypeOK, MadeInv, KeptInv, SignatureIsOfKeptKey, LowerInv, Accepted
<1>3. ASSUME NEW why \in Errors \ {"none"}, pc # "done", kept # NoKey, pc' = "done", out' = Thrown(why),
             how' \in {"sign65", "jws"}, shown' \in Keys \cup {NoKey},
             UNCHANGED <<held, kept, made, raw, changed>>
      PROVE  SigInv'
  <2>1. \E o \in out' : o.error \in Errors
    BY <1>3, ThrownOnly
  <2>2. /\ \A o \in out' : o.error # "none"
        /\ \A o, p \in out' : o = p
    BY <1>3, ThrownOnly
  <2>3. TypeOK'
    BY <1>3, <2>1, <2>2 DEF TypeOK
  <2>4. MadeInv'
    BY <1>3 DEF MadeInv
  <2>5. KeptInv'
    BY <1>3, <2>2 DEF KeptInv, SignatureIsOfKeptKey, Accepted
  <2>6. LowerInv'
    BY <2>2 DEF LowerInv, Accepted
  <2> QED
    BY <2>3, <2>4, <2>5, <2>6
<1>4. CASE BeginSign65
  <2>1. CASE pc' = "asked" /\ shown' = held /\ UNCHANGED out
    BY <1>4, <2>1 DEF BeginSign65, TypeOK, MadeInv, KeptInv, SignatureIsOfKeptKey, LowerInv, Accepted
  <2>2. CASE pc' = "done" /\ out' = Thrown("invalidPublicKey") /\ UNCHANGED shown
    BY <1>3, <1>4, <2>2 DEF BeginSign65, Errors, TypeOK
  <2> QED
    BY <1>4, <2>1, <2>2 DEF BeginSign65
<1>5. CASE BeginJws
  <2>1. CASE pc' = "asked" /\ UNCHANGED out
    BY <1>5, <2>1 DEF BeginJws, TypeOK, MadeInv, KeptInv, SignatureIsOfKeptKey, LowerInv, Accepted
  <2>2. CASE pc' = "done" /\ out' = Thrown("notSupportedAlgorithm")
    BY <1>3, <1>5, <2>2 DEF BeginJws, Errors, TypeOK
  <2> QED
    BY <1>5, <2>1, <2>2 DEF BeginJws
<1>6. CASE ServiceAnswers
  <2>1. PICK k \in Keys, again \in BOOLEAN, r \in Scalars, s \in Scalars, v \in {0, 1} :
           made' = {[key |-> k, rehashed |-> again, r |-> r, s |-> s, v |-> v]}
    BY <1>6, Zenon DEF ServiceAnswers
  <2>0. \E b : raw' = {b}
    BY <1>6, Zenon DEF ServiceAnswers
  <2>2. made' \subseteq Made /\ (\A m, n \in made' : m = n)
    BY <2>1 DEF Made
  <2>3. pc = "asked" /\ pc' = "answered" /\ out = {} /\ UNCHANGED <<held, kept, how, shown, out, changed>>
    BY <1>6 DEF ServiceAnswers, MadeInv
  <2>4. MadeInv'
    BY <2>0, <2>2, <2>3 DEF MadeInv
  <2>5. TypeOK'
    BY <2>3 DEF TypeOK
  <2>6. KeptInv'
    BY <2>3 DEF KeptInv, SignatureIsOfKeptKey, Accepted
  <2>7. LowerInv'
    BY <2>3 DEF LowerInv, Accepted
  <2> QED
    BY <2>4, <2>5, <2>6, <2>7
<1>7. CASE ServiceThrows
  BY <1>3, <1>7 DEF ServiceThrows, Errors, TypeOK, KeptInv
<1>8. CASE Finish
  <2>1. /\ pc = "answered" /\ pc' = "done" /\ kept # NoKey
        /\ shown' = IF how = "jws" THEN held ELSE shown
        /\ UNCHANGED <<held, kept, how, made, raw, intact, changed>>
    BY <1>8 DEF Finish, KeptInv
  <2>2. shown' \in Keys \cup {NoKey} /\ (shown' = kept \/ changed)
    BY <2>1 DEF TypeOK, KeptInv
  <2>3. PICK b \in raw : out' = Returned(b, shown') \/ out' = Thrown("invalidPublicKey")
    BY <1>8 DEF Finish
  <2>4. CASE out' = Thrown("invalidPublicKey")
    BY <1>3, <2>1, <2>2, <2>4 DEF Errors, TypeOK
  <2>5. CASE out' = Returned(b, shown')
    <3>1. /\ \A o, p \in out' : o = p
          /\ \E o \in out' : o.error \in Errors
          /\ \A o \in out' : o.error = "none" => \A m \in made : ~m.rehashed /\ m.key = shown'
          /\ \A o \in out' : o.error = "none" =>
                \A m \in made : \E s : o.bytes = Pad(m.r) \o Pad(s) /\ IsLowerOf(s, o.v, m)
      BY <2>5, ReturnsOnce
    <3>2. TypeOK'
      BY <2>1, <2>2, <3>1 DEF TypeOK
    <3>3. MadeInv'
      BY <2>1 DEF MadeInv
    <3>4. KeptInv'
      BY <2>1, <2>2, <3>1 DEF KeptInv, SignatureIsOfKeptKey, Accepted
    <3>5. LowerInv'
      BY <2>1, <3>1 DEF LowerInv, Accepted
    <3> QED
      BY <3>2, <3>3, <3>4, <3>5
  <2> QED
    BY <2>3, <2>4, <2>5
<1>9. CASE UNCHANGED vars
  BY <1>9 DEF vars, TypeOK, MadeInv, KeptInv, SignatureIsOfKeptKey, LowerInv, Accepted
<1> QED
  BY <1>1, <1>2, <1>4, <1>5, <1>6, <1>7, <1>8, <1>9 DEF Next

(* The invariant holds of every signing. *)
THEOREM SigInductive == Spec => []SigInv
  BY SigInit, SigStep, PTL DEF Spec

(* Every variable keeps its type, and a signing returns once. *)
THEOREM ReturnsOneResult == Spec => []TypeOK
  BY SigInductive, PTL DEF SigInv

(* What the SDK accepts was made of the digest itself, with the key the    *)
(* wallet has kept, unless the key behind the signer has been changed.     *)
THEOREM SignedWithKeptKey == Spec => []SignatureIsOfKeptKey
  BY SigInductive, PTL DEF SigInv, KeptInv

(* The two halves of the bytes of a signature.                             *)
Halves(h, f, g) ==
    /\ Len(h) = 2 * Width
    /\ SubSeq(h, 1, Width) = f
    /\ SubSeq(h, Width + 1, 2 * Width) = g

(* Two sequences that were joined are found again at their places.         *)
LEMMA JoinedParts ==
  ASSUME NEW S, NEW f \in [1..Width -> S], NEW g \in [1..Width -> S]
  PROVE  Halves(f \o g, f, g)
<1>1. Width \in Nat
  BY SignatureAssumption
<1>2. f \in Seq(S) /\ g \in Seq(S) /\ Len(f) = Width /\ Len(g) = Width
  BY <1>1, SeqDef
<1>3. /\ Len(f \o g) = 2 * Width
      /\ \A i \in 1..(2 * Width) : (f \o g)[i] = IF i <= Width THEN f[i] ELSE g[i - Width]
  <2>1. /\ Len(f \o g) = Len(f) + Len(g)
        /\ \A i \in 1..(Len(f) + Len(g)) :
              (f \o g)[i] = IF i <= Len(f) THEN f[i] ELSE g[i - Len(f)]
    BY <1>2, ConcatProperties
  <2>2. Len(f) + Len(g) = 2 * Width
    BY <1>1, <1>2
  <2> QED
    BY <1>2, <2>1, <2>2
<1> DEFINE h == f \o g
<1> HIDE DEF h
<1>4. \A i \in 1..(2 * Width) : h[i] \in S
  BY <1>1, <1>3 DEF h
<1>5. /\ SubSeq(h, 1, Width) \in Seq(S) /\ Len(SubSeq(h, 1, Width)) = Width
      /\ \A i \in 1..Width : SubSeq(h, 1, Width)[i] = h[i]
  BY <1>1, <1>4, SubSeqProperties
<1>6. /\ SubSeq(h, Width + 1, 2 * Width) \in Seq(S) /\ Len(SubSeq(h, Width + 1, 2 * Width)) = Width
      /\ \A i \in 1..Width : SubSeq(h, Width + 1, 2 * Width)[i] = h[Width + i]
  BY <1>1, <1>4, SubSeqProperties
<1>7. SubSeq(h, 1, Width) = f
  BY <1>1, <1>2, <1>3, <1>5, SeqEqual DEF h
<1>8. SubSeq(h, Width + 1, 2 * Width) = g
  BY <1>1, <1>2, <1>3, <1>6, SeqEqual DEF h
<1> QED
  BY <1>3, <1>7, <1>8 DEF h, Halves

(* Whatever the service answers, damaged or not, what leaves the SDK is    *)
(* the signature that was made, padded, with the lower s and its parity,   *)
(* provided that padding is exact: that is about the digits of a number,   *)
(* for which induction would be needed, and TLC evaluates it.              *)
THEOREM LeavesCanonical ==
  ASSUME PaddingIsExact
  PROVE  Spec => []CanonicalSignature
<1>1. SigInv => CanonicalSignature
  <2> SUFFICES ASSUME SigInv, NEW o \in Accepted, NEW m \in made
               PROVE  LET r == Number(SubSeq(o.bytes, 1, Width))
                          s == Number(SubSeq(o.bytes, Width + 1, 2 * Width))
                      IN  /\ Len(o.bytes) = 2 * Width
                          /\ r = m.r /\ 2 * s <= Order
                          /\ \/ s = m.s /\ o.v = m.v
                             \/ s = Order - m.s /\ o.v = 1 - m.v
    BY DEF CanonicalSignature
  <2>1. PICK s : o.bytes = Pad(m.r) \o Pad(s) /\ IsLowerOf(s, o.v, m)
    BY DEF SigInv, LowerInv
  <2>2. m.r \in Signed /\ s \in Signed
    BY <2>1 DEF SigInv, MadeInv, Made, Signed, IsLowerOf
  <2>3. \A n \in Signed : Pad(n) \in [1..Width -> 0..(Base - 1)] /\ Number(Pad(n)) = n
    BY DEF PaddingIsExact
  <2>4. /\ Len(o.bytes) = 2 * Width
        /\ SubSeq(o.bytes, 1, Width) = Pad(m.r)
        /\ SubSeq(o.bytes, Width + 1, 2 * Width) = Pad(s)
    <3>1. Pad(m.r) \in [1..Width -> 0..(Base - 1)] /\ Pad(s) \in [1..Width -> 0..(Base - 1)]
      BY <2>2, <2>3
    <3>2. Halves(Pad(m.r) \o Pad(s), Pad(m.r), Pad(s))
      BY <3>1, JoinedParts
    <3> QED
      BY <2>1, <3>2 DEF Halves
  <2> QED
    BY <2>1, <2>2, <2>3, <2>4 DEF IsLowerOf
<1> QED
  BY <1>1, SigInductive, PTL

-----------------------------------------------------------------------------
(* Whole answers. *)

(* What is read at a byte is a number, and what comes next.                *)
Reads(der, at, body) ==
    IntegerAt(der, at) = {[value |-> Number(body), next |-> at + 2 + Len(body)]}

(* An INTEGER is read from where it stands.                                *)
LEMMA IntegerRead ==
  ASSUME NEW der, NEW at \in Nat \ {0}, NEW body \in Seq(Nat), Len(body) \in 1..(Width + 1),
         Len(der) \in Nat, at + 1 + Len(body) <= Len(der),
         der[at] = IntegerTag, der[at + 1] = Len(body),
         \A i \in 1..Len(body) : der[at + 1 + i] = body[i]
  PROVE  Reads(der, at, body)
<1> DEFINE l == Len(body)
<1>1. l \in Nat /\ l > 0 /\ l <= Width + 1 /\ Width \in Nat
  BY SignatureAssumption
<1> DEFINE t == SubSeq(der, at + 2, at + 1 + l)
<1>2. \A i \in (at + 2)..(at + 1 + l) : der[i] = body[i - at - 1] /\ der[i] \in Nat
  <2>1. ASSUME NEW i \in (at + 2)..(at + 1 + l)  PROVE der[i] = body[i - at - 1] /\ der[i] \in Nat
    <3>1. i - at - 1 \in 1..l /\ at + 1 + (i - at - 1) = i
      BY <1>1
    <3>2. body[i - at - 1] \in Nat
      BY <3>1, ElementOfSeq
    <3> QED
      BY <3>1, <3>2
  <2> QED
    BY <2>1
<1>3. t = body
  <2>1. /\ t \in Seq(Nat) /\ Len(t) = IF at + 2 <= at + 1 + l THEN (at + 1 + l) - (at + 2) + 1 ELSE 0
        /\ \A i \in 1..((at + 1 + l) - (at + 2) + 1) : t[i] = der[(at + 2) + i - 1]
    <3>1. at + 2 \in Int /\ at + 1 + l \in Int /\ \A i \in (at + 2)..(at + 1 + l) : der[i] \in Nat
      BY <1>1, <1>2
    <3> QED
      BY <3>1, SubSeqProperties
  <2>2. Len(t) = l /\ \A i \in 1..l : t[i] = body[i]
    <3>1. Len(t) = l
      BY <1>1, <2>1
    <3>2. ASSUME NEW i \in 1..l  PROVE t[i] = body[i]
      <4>1. i \in 1..((at + 1 + l) - (at + 2) + 1) /\ (at + 2) + i - 1 = at + 1 + i
        BY <1>1
      <4>2. t[i] = der[at + 1 + i]
        BY <2>1, <4>1
      <4> QED
        BY <4>2
    <3> QED
      BY <3>1, <3>2
  <2> HIDE DEF t
  <2> QED
    BY <2>1, <2>2, SeqEqual
<1> HIDE DEF t
<1>4. IntegerAt(der, at) = {[value |-> Number(t), next |-> at + 1 + l + 1]}
  <2>1. ~(at + 1 > Len(der) \/ der[at] # IntegerTag)
    BY <1>1
  <2>2. ~(der[at + 1] = 0 \/ der[at + 1] > Width + 1 \/ at + 1 + der[at + 1] > Len(der))
    BY <1>1
  <2> HIDE DEF l
  <2> QED
    BY <2>1, <2>2 DEF IntegerAt, t, l
<1>5. at + 1 + l + 1 = at + 2 + l
  BY <1>1
<1> QED
  BY <1>3, <1>4, <1>5 DEF Reads

(* Where the parts of a joined sequence are.                               *)
LEMMA JoinedAt ==
  ASSUME NEW x \in Seq(Nat), NEW y \in Seq(Nat)
  PROVE  /\ x \o y \in Seq(Nat) /\ Len(x \o y) = Len(x) + Len(y)
         /\ \A i \in 1..Len(x) : (x \o y)[i] = x[i]
         /\ \A i \in 1..Len(y) : (x \o y)[Len(x) + i] = y[i]
<1>1. Len(x) \in Nat /\ Len(y) \in Nat
  OBVIOUS
<1>2. /\ x \o y \in Seq(Nat) /\ Len(x \o y) = Len(x) + Len(y)
      /\ \A i \in 1..(Len(x) + Len(y)) : (x \o y)[i] = IF i <= Len(x) THEN x[i] ELSE y[i - Len(x)]
  BY ConcatProperties
<1> DEFINE z == x \o y
<1> HIDE DEF z
<1>3. ASSUME NEW i \in 1..Len(y)  PROVE z[Len(x) + i] = y[i]
  <2>1. Len(x) + i \in 1..(Len(x) + Len(y)) /\ ~(Len(x) + i <= Len(x)) /\ Len(x) + i - Len(x) = i
    BY <1>1
  <2> QED
    BY <1>2, <2>1 DEF z
<1>4. \A i \in 1..Len(x) : z[i] = x[i]
  BY <1>1, <1>2 DEF z
<1> QED
  BY <1>2, <1>3, <1>4 DEF z

(* Where the parts of a DER signature are.                                 *)
LaidOut(der, x, y, t, u, n) ==
    /\ Len(der) = 6 + Len(x) + Len(y)
    /\ der[1] = t /\ der[2] = n
    /\ der[3] = u /\ der[4] = Len(x) /\ \A i \in 1..Len(x) : der[4 + i] = x[i]
    /\ der[5 + Len(x)] = u /\ der[6 + Len(x)] = Len(y)
    /\ \A i \in 1..Len(y) : der[6 + Len(x) + i] = y[i]

(* They are there.                                                         *)
LEMMA DerLayout ==
  ASSUME NEW x \in Seq(Nat), NEW y \in Seq(Nat), NEW t \in Nat, NEW u \in Nat, NEW n \in Nat,
         NEW der, der = <<t, n>> \o ((<<u, Len(x)>> \o x) \o (<<u, Len(y)>> \o y))
  PROVE  /\ LaidOut(der, x, y, t, u, n)
         /\ Len((<<u, Len(x)>> \o x) \o (<<u, Len(y)>> \o y)) = 4 + Len(x) + Len(y)
<1> DEFINE X == <<u, Len(x)>> \o x
           Y == <<u, Len(y)>> \o y
           C == X \o Y
<1>1. Len(x) \in Nat /\ Len(y) \in Nat
  OBVIOUS
<1>2. /\ X \in Seq(Nat) /\ Len(X) = 2 + Len(x) /\ X[1] = u /\ X[2] = Len(x)
      /\ \A i \in 1..Len(x) : X[2 + i] = x[i]
  BY <1>1
<1>3. /\ Y \in Seq(Nat) /\ Len(Y) = 2 + Len(y) /\ Y[1] = u /\ Y[2] = Len(y)
      /\ \A i \in 1..Len(y) : Y[2 + i] = y[i]
  BY <1>1
<1> HIDE DEF X, Y
<1>4. /\ C \in Seq(Nat) /\ Len(C) = Len(X) + Len(Y)
      /\ \A i \in 1..Len(X) : C[i] = X[i]
      /\ \A i \in 1..Len(Y) : C[Len(X) + i] = Y[i]
  BY <1>2, <1>3, JoinedAt
<1> HIDE DEF C
<1>5. /\ Len(der) = 2 + Len(C) /\ der[1] = t /\ der[2] = n
      /\ \A i \in 1..Len(C) : der[2 + i] = C[i]
  <2> DEFINE h == <<t, n>>
  <2>1. h \in Seq(Nat) /\ Len(h) = 2 /\ h[1] = t /\ h[2] = n /\ der = h \o C
    BY DEF C, X, Y
  <2> HIDE DEF h
  <2>2. /\ Len(h \o C) = Len(h) + Len(C)
        /\ \A i \in 1..Len(h) : (h \o C)[i] = h[i]
        /\ \A i \in 1..Len(C) : (h \o C)[Len(h) + i] = C[i]
    BY <1>4, <2>1, JoinedAt
  <2>3. Len(der) = 2 + Len(C) /\ \A i \in 1..Len(C) : der[2 + i] = C[i]
    BY <2>1, <2>2
  <2>4. 1 \in 1..Len(h) /\ 2 \in 1..Len(h)
    BY <2>1
  <2>5. der[1] = h[1] /\ der[2] = h[2]
    BY <2>1, <2>2, <2>4
  <2> QED
    BY <2>1, <2>3, <2>5
<1>6. ASSUME NEW i \in 1..(2 + Len(x))  PROVE der[2 + i] = X[i]
  <2>1. i \in 1..Len(X) /\ i \in 1..Len(C)
    BY <1>1, <1>2, <1>3, <1>4
  <2> QED
    BY <1>4, <1>5, <2>1
<1>7. der[3] = u /\ der[4] = Len(x)
  <2>1. 1 \in 1..(2 + Len(x)) /\ 2 \in 1..(2 + Len(x))
    BY <1>1
  <2>2. der[2 + 1] = X[1] /\ der[2 + 2] = X[2]
    BY <1>6, <2>1
  <2> QED
    BY <1>2, <2>2
<1>8. ASSUME NEW i \in 1..Len(x)  PROVE der[4 + i] = x[i]
  <2>1. 2 + i \in 1..(2 + Len(x)) /\ 2 + (2 + i) = 4 + i
    BY <1>1
  <2> QED
    BY <1>2, <1>6, <2>1
<1>9. ASSUME NEW i \in 1..(2 + Len(y))  PROVE der[4 + Len(x) + i] = Y[i]
  <2>1. /\ i \in 1..Len(Y) /\ Len(X) + i \in 1..Len(C)
        /\ 2 + (Len(X) + i) = 4 + Len(x) + i
    BY <1>1, <1>2, <1>3, <1>4
  <2>2. der[2 + (Len(X) + i)] = C[Len(X) + i] /\ C[Len(X) + i] = Y[i]
    BY <1>4, <1>5, <2>1
  <2> QED
    BY <2>1, <2>2
<1>10. der[5 + Len(x)] = u /\ der[6 + Len(x)] = Len(y)
  <2>1. /\ 1 \in 1..(2 + Len(y)) /\ 2 \in 1..(2 + Len(y))
        /\ 4 + Len(x) + 1 = 5 + Len(x) /\ 4 + Len(x) + 2 = 6 + Len(x)
    BY <1>1
  <2>2. der[4 + Len(x) + 1] = Y[1] /\ der[4 + Len(x) + 2] = Y[2]
    BY <1>9, <2>1
  <2> QED
    BY <1>3, <2>1, <2>2
<1>11. ASSUME NEW i \in 1..Len(y)  PROVE der[6 + Len(x) + i] = y[i]
  <2>1. 2 + i \in 1..(2 + Len(y)) /\ 4 + Len(x) + (2 + i) = 6 + Len(x) + i
    BY <1>1
  <2>2. der[4 + Len(x) + (2 + i)] = Y[2 + i]
    BY <1>9, <2>1
  <2> QED
    BY <1>3, <2>1, <2>2
<1>12. Len(C) = 4 + Len(x) + Len(y) /\ Len(der) = 6 + Len(x) + Len(y)
  BY <1>1, <1>2, <1>3, <1>4, <1>5
<1> QED
  BY <1>5, <1>7, <1>8, <1>10, <1>11, <1>12 DEF C, X, Y, LaidOut

(* A DER answer that cannot be taken for another form is taken apart.      *)
LEMMA DerIsSplit ==
  ASSUME DerIsExact, NEW r \in Scalars, NEW s \in Scalars, NEW b, b = DerOf(r, s),
         Len(b) \notin {8, 2 * Width, 2 * Width + 1}
  PROVE  Split(b) = {[r |-> r, s |-> s]}
<1> DEFINE x == SignedBytes(r)
           y == SignedBytes(s)
           c == (<<IntegerTag, Len(x)>> \o x) \o (<<IntegerTag, Len(y)>> \o y)
           n == Len(c)
<1>1. /\ x \in Seq(Nat) /\ Len(x) \in 1..(Width + 1) /\ Number(x) = r
      /\ y \in Seq(Nat) /\ Len(y) \in 1..(Width + 1) /\ Number(y) = s
  BY DEF DerIsExact
<1>2. b = <<SequenceTag, n>> \o c
  BY DEF DerOf, DerInteger
<1> HIDE DEF x, y
<1>3. /\ SequenceTag \in Nat /\ IntegerTag \in Nat /\ Width \in Nat /\ HighBit \in Nat
      /\ 2 * (Width + 3) < HighBit
  BY SignatureAssumption
<1>4. n \in Nat
  <2>1. /\ <<IntegerTag, Len(x)>> \in Seq(Nat) /\ <<IntegerTag, Len(y)>> \in Seq(Nat)
    BY <1>1, <1>3
  <2>2. <<IntegerTag, Len(x)>> \o x \in Seq(Nat) /\ <<IntegerTag, Len(y)>> \o y \in Seq(Nat)
    BY <1>1, <2>1, JoinedAt
  <2>3. c \in Seq(Nat)
    BY <2>2, JoinedAt
  <2> HIDE DEF c
  <2> QED
    BY <2>3
<1>5. LaidOut(b, x, y, SequenceTag, IntegerTag, n) /\ n = 4 + Len(x) + Len(y)
  <2>1. \A k \in Nat : \A d : d = <<SequenceTag, k>> \o c => LaidOut(d, x, y, SequenceTag, IntegerTag, k)
    BY <1>1, <1>3, DerLayout
  <2>2. n = 4 + Len(x) + Len(y)
    BY <1>1, <1>3, DerLayout
  <2> HIDE DEF n, c
  <2> QED
    BY <1>2, <1>4, <2>1, <2>2
<1> HIDE DEF c, n
<1> DEFINE lx == Len(x)
           ly == Len(y)
<1>6. /\ Len(b) = 6 + lx + ly /\ b[1] = SequenceTag /\ b[2] = 4 + lx + ly
      /\ lx \in 1..(Width + 1) /\ ly \in 1..(Width + 1)
  BY <1>1, <1>5 DEF LaidOut
<1>7. /\ b[3] = IntegerTag /\ b[4] = lx /\ \A i \in 1..lx : b[4 + i] = x[i]
      /\ b[5 + lx] = IntegerTag /\ b[6 + lx] = ly
      /\ \A i \in 1..ly : b[6 + lx + i] = y[i]
  BY <1>5 DEF LaidOut
<1> HIDE DEF lx, ly
<1>8. /\ Len(b) \in Nat /\ Len(b) > 8 /\ Len(b) \notin {2 * Width, 2 * Width + 1}
      /\ b[2] = Len(b) - 2 /\ ~(b[2] >= HighBit)
  <2>1. Len(b) \in Nat /\ Len(b) > 8 /\ b[2] = Len(b) - 2
    BY <1>3, <1>6
  <2>2. ~(4 + lx + ly >= HighBit)
    BY <1>3, <1>6
  <2> QED
    BY <1>6, <2>1, <2>2
<1>9. Split(b) = DerRS(b)
  BY <1>6, <1>8 DEF Split
<1>10. IntegerAt(b, 3) = {[value |-> r, next |-> 5 + lx]}
  <2>1. /\ 3 \in Nat \ {0} /\ 3 + 1 + lx <= Len(b) /\ b[3 + 1] = lx
        /\ \A i \in 1..lx : b[3 + 1 + i] = x[i]
    BY <1>3, <1>6, <1>7
  <2>2. x \in Seq(Nat) /\ b[3] = IntegerTag /\ Len(b) \in Nat
    BY <1>1, <1>7, <1>8
  <2>3. Reads(b, 3, x)
    BY <1>6, <2>1, <2>2, IntegerRead DEF lx
  <2>4. IntegerAt(b, 3) = {[value |-> r, next |-> 3 + 2 + lx]}
    BY <1>1, <2>3 DEF Reads, lx
  <2> QED
    BY <1>6, <2>4
<1>11. IntegerAt(b, 5 + lx) = {[value |-> s, next |-> Len(b) + 1]}
  <2> DEFINE at == 5 + lx
  <2>1. /\ at \in Nat \ {0} /\ at + 1 = 6 + lx /\ at + 1 + ly <= Len(b)
        /\ at + 2 + ly = Len(b) + 1
    BY <1>3, <1>6
  <2>2. b[at] = IntegerTag
    BY <1>7
  <2> HIDE DEF at
  <2>3. b[at + 1] = ly /\ \A i \in 1..ly : b[at + 1 + i] = y[i]
    BY <1>7, <2>1
  <2>4. y \in Seq(Nat) /\ Len(b) \in Nat
    BY <1>1, <1>8
  <2>5. Reads(b, at, y)
    BY <1>6, <2>1, <2>2, <2>3, <2>4, IntegerRead DEF ly
  <2>6. IntegerAt(b, at) = {[value |-> s, next |-> at + 2 + ly]}
    BY <1>1, <2>5 DEF Reads, ly
  <2> QED
    BY <2>1, <2>6 DEF at
<1>12. DerRS(b) = {[r |-> r, s |-> s]}
  <2> DEFINE p == [value |-> r, next |-> 5 + lx]
             q == [value |-> s, next |-> Len(b) + 1]
             last(t) == {i \in IntegerAt(b, t.next) : i.next = Len(b) + 1}
  <2>1. ~(b[2] >= HighBit \/ b[2] # Len(b) - 2)
    BY <1>8
  <2>2. DerRS(b) = UNION {{[r |-> t.value, s |-> i.value] : i \in last(t)} : t \in {p}}
    BY <1>10, <2>1 DEF DerRS
  <2>3. last(p) = {q}
    BY <1>11
  <2>4. p.value = r /\ q.value = s
    OBVIOUS
  <2> HIDE DEF p, q, last
  <2>5. DerRS(b) = {[r |-> p.value, s |-> i.value] : i \in last(p)}
    BY <2>2
  <2>6. DerRS(b) = {[r |-> p.value, s |-> q.value]}
    BY <2>3, <2>5
  <2> QED
    BY <2>4, <2>6
<1> QED
  BY <1>9, <1>12

(* So is r||s, with or without a byte after it.                            *)
LEMMA RawIsSplit ==
  ASSUME PaddingIsExact, NEW r \in Scalars, NEW s \in Scalars, NEW b, NEW w \in {0, 1},
         b \in {Pad(r) \o Pad(s), Pad(r) \o Pad(s) \o <<w>>}
  PROVE  Split(b) = {[r |-> r, s |-> s]}
<1> DEFINE f == Pad(r)
           g == Pad(s)
           h == f \o g
<1>1. Width \in Nat /\ Base \in Nat
  BY SignatureAssumption
<1>2. /\ f \in [1..Width -> 0..(Base - 1)] /\ Number(f) = r
      /\ g \in [1..Width -> 0..(Base - 1)] /\ Number(g) = s
  BY DEF PaddingIsExact, Signed
<1> HIDE DEF f, g
<1>3. /\ Len(h) = 2 * Width /\ SubSeq(h, 1, Width) = f
      /\ SubSeq(h, Width + 1, 2 * Width) = g
  <2>1. f \in [1..Width -> 0..(Base - 1)] /\ g \in [1..Width -> 0..(Base - 1)]
    BY <1>2
  <2>2. Halves(f \o g, f, g)
    BY <2>1, JoinedParts
  <2> QED
    BY <2>2 DEF Halves
<1>4. f \in Seq(Nat) /\ g \in Seq(Nat) /\ Len(f) = Width /\ Len(g) = Width
  <2>1. 0..(Base - 1) \subseteq Nat
    BY <1>1
  <2>2. f \in [1..Width -> Nat] /\ g \in [1..Width -> Nat]
    BY <1>2, <2>1
  <2> QED
    BY <1>1, <2>2, SeqDef
<1>5. h \in Seq(Nat)
  BY <1>4, JoinedAt
<1> HIDE DEF h
<1>6. CASE b = h
  BY <1>2, <1>3, <1>6 DEF Split
<1>7. CASE b = h \o <<w>>
  <2>1. <<w>> \in Seq(Nat) /\ Len(<<w>>) = 1
    OBVIOUS
  <2>2. Len(b) = 2 * Width + 1 /\ \A i \in 1..(2 * Width) : b[i] = h[i]
    BY <1>3, <1>5, <1>7, <2>1, JoinedAt
  <2>3. \A i \in 1..(2 * Width) : h[i] \in Nat
    BY <1>3, <1>5, ElementOfSeq
  <2>4. \A i \in 1..(2 * Width) : b[i] \in Nat
    BY <2>2, <2>3
  <2>5. ASSUME NEW k \in 1..(2 * Width + 1), NEW l \in 1..(2 * Width)
        PROVE  SubSeq(b, k, l) = SubSeq(h, k, l)
    <3>1. k \in Int /\ l \in Int /\ \A i \in k..l : i \in 1..(2 * Width)
      BY <1>1
    <3>2. /\ SubSeq(b, k, l) \in Seq(Nat) /\ Len(SubSeq(b, k, l)) = IF k <= l THEN l - k + 1 ELSE 0
          /\ \A i \in 1..(l - k + 1) : SubSeq(b, k, l)[i] = b[k + i - 1]
      BY <2>4, <3>1, SubSeqProperties
    <3>3. /\ SubSeq(h, k, l) \in Seq(Nat) /\ Len(SubSeq(h, k, l)) = IF k <= l THEN l - k + 1 ELSE 0
          /\ \A i \in 1..(l - k + 1) : SubSeq(h, k, l)[i] = h[k + i - 1]
      BY <2>3, <3>1, SubSeqProperties
    <3>4. ASSUME NEW i \in 1..Len(SubSeq(b, k, l))
          PROVE  SubSeq(b, k, l)[i] = SubSeq(h, k, l)[i]
      <4>1. i \in 1..(l - k + 1) /\ k + i - 1 \in 1..(2 * Width)
        BY <1>1, <3>2
      <4> QED
        BY <2>2, <3>2, <3>3, <4>1
    <3> QED
      BY <3>2, <3>3, <3>4, SeqEqual
  <2>6. CASE Width = 0
    BY <2>6, SignatureAssumption
  <2>7. CASE Width # 0
    <3>1. 1 \in 1..(2 * Width + 1) /\ Width \in 1..(2 * Width)
          /\ Width + 1 \in 1..(2 * Width + 1) /\ 2 * Width \in 1..(2 * Width)
      BY <1>1, <2>7
    <3>2. SubSeq(b, 1, Width) = f /\ SubSeq(b, Width + 1, 2 * Width) = g
      BY <1>3, <2>5, <3>1
    <3> QED
      BY <1>2, <2>2, <3>2 DEF Split
  <2> QED
    BY <2>6, <2>7
<1> QED
  BY <1>6, <1>7 DEF h, f, g

(* A signature of the digest with the key that is shown recovers to it.    *)
LEMMA WholeIsAccepted ==
  ASSUME MadeInv, NEW m \in made, ~m.rehashed, NEW b, Split(b) = {[r |-> m.r, s |-> m.s]}
  PROVE  \A o \in Returned(b, m.key) : o.error = "none"
<1>1. /\ m.r \in 1..(Order - 1) /\ m.s \in 1..(Order - 1) /\ m.v \in {0, 1}
      /\ m.key \in Keys
  <2>1. m.r \in Scalars /\ m.s \in Scalars /\ m.v \in {0, 1} /\ m.key \in Keys
    BY DEF MadeInv, Made
  <2> QED
    BY <2>1, SignatureAssumption
<1> DEFINE l == LowS(m.s)
           p == [r |-> m.r, s |-> l]
           v == IF l = m.s THEN m.v ELSE 1 - m.v
<1>2. RsFrom(b) = {p}
  <2> DEFINE z == [r |-> m.r, s |-> m.s]
  <2>1. z.r = m.r /\ z.s = m.s
    OBVIOUS
  <2> HIDE DEF z
  <2>2. {q \in {z} : InRange(q.r) /\ InRange(q.s)} = {z}
    BY <1>1, <2>1 DEF InRange
  <2>3. RsFrom(b) = {[r |-> q.r, s |-> LowS(q.s)] : q \in {z}}
    BY <2>2 DEF RsFrom, z
  <2>4. RsFrom(b) = {[r |-> z.r, s |-> LowS(z.s)]}
    BY <2>3
  <2> QED
    BY <2>1, <2>4
<1>3. Order \in Nat /\ m.s \in Nat
  BY <1>1, SignatureAssumption
<1>4. l = m.s \/ m.s = Order - l
  BY <1>3 DEF LowS
<1>5. v \in {0, 1} /\ ((m.s = l /\ m.v = v) \/ (m.s = Order - l /\ m.v = 1 - v))
  BY <1>1, <1>4
<1>6. Recovered(m.r, l, v) = m.key
  <2>1. m = CHOOSE n \in made : TRUE
    BY DEF MadeInv
  <2> HIDE DEF l, v
  <2> QED
    BY <1>5, <2>1 DEF Recovered
<1>7. m.key # NoKey
  BY <1>1, SignatureAssumption
<1> HIDE DEF l, v
<1>8. v \in RecoveryId(p.r, p.s, m.key)
  BY <1>5, <1>6, <1>7 DEF RecoveryId
<1>9. Returned(b, m.key) = {[error |-> "none", bytes |-> Pad(p.r) \o Pad(p.s), v |-> i] :
                              i \in RecoveryId(p.r, p.s, m.key)}
  <2> HIDE DEF p
  <2> QED
    BY <1>2, <1>8 DEF Returned
<1> QED
  BY <1>9

-----------------------------------------------------------------------------

(* An answer that is whole is the signature that was made in its form.     *)
WholeInv ==
    pc = "answered" /\ intact # "damaged" =>
        \A b \in raw, m \in made :
            intact \in Forms /\ \E w \in {0, 1} : b = Encoded([r |-> m.r, s |-> m.s], intact, w)

FormInv == WholeInv /\ FormsAreUnderstood

(* Whichever form it has, it is taken apart.                               *)
LEMMA WholeIsSplit ==
  ASSUME PaddingIsExact, DerIsExact, NEW r \in Scalars, NEW s \in Scalars, NEW f \in Forms,
         NEW w \in {0, 1}, NEW b, b = Encoded([r |-> r, s |-> s], f, w),
         ~(f = "der" /\ Len(b) \in {8, 2 * Width, 2 * Width + 1})
  PROVE  Split(b) = {[r |-> r, s |-> s]}
<1>1. CASE f = "der"
  <2>1. b = DerOf(r, s)
    BY <1>1 DEF Encoded
  <2> QED
    BY <1>1, <2>1, DerIsSplit
<1>2. CASE f \in {"raw", "rawV"}
  <2>1. b \in {Pad(r) \o Pad(s), Pad(r) \o Pad(s) \o <<w>>}
    BY <1>2 DEF Encoded
  <2> QED
    BY <2>1, RawIsSplit
<1> QED
  BY <1>1, <1>2 DEF Forms

(* Every step keeps it.                                                    *)
LEMMA FormStep ==
  ASSUME PaddingIsExact, DerIsExact, SigInv, FormInv, [Next]_vars
  PROVE  FormInv'
<1>0. MadeInv
  BY DEF SigInv
<1>1. CASE \/ MakeWallet \/ ChangeKey \/ BeginSign65 \/ BeginJws \/ ServiceThrows
  <2>1. WholeInv'
    BY <1>1 DEF MakeWallet, ChangeKey, BeginSign65, BeginJws, ServiceThrows, FormInv, WholeInv
  <2>2. CASE pc' # "done" \/ made' = {}
    BY <2>1, <2>2 DEF FormInv, FormsAreUnderstood
  <2>3. CASE pc' = "done" /\ made' # {}
    <3>1. UNCHANGED <<pc, shown, made, raw, out, intact>>
      BY <1>0, <1>1, <2>3 DEF MakeWallet, ChangeKey, BeginSign65, BeginJws, ServiceThrows, MadeInv
    <3> QED
      BY <2>1, <3>1 DEF FormInv, FormsAreUnderstood, Mistaken
  <2> QED
    BY <2>2, <2>3
<1>2. CASE ServiceAnswers
  <2>1. pc' = "answered"
    BY <1>2 DEF ServiceAnswers
  <2>2. PICK k \in Keys, again \in BOOLEAN, r \in Scalars, s \in Scalars, v \in {0, 1} :
           /\ again => k = held
           /\ made' = {[key |-> k, rehashed |-> again, r |-> r, s |-> s, v |-> v]}
           /\ \E f \in Forms, w \in {0, 1} :
                 LET whole == Encoded([r |-> r, s |-> s], f, w) IN
                 \/ raw' = {whole} /\ intact' = f
                 \/ /\ k = held /\ ~again
                    /\ \E d \in Damaged(whole) : raw' = {d}
                    /\ intact' = "damaged"
    BY <1>2, Zenon DEF ServiceAnswers
  <2>3. PICK f \in Forms, w \in {0, 1} :
           \/ raw' = {Encoded([r |-> r, s |-> s], f, w)} /\ intact' = f
           \/ intact' = "damaged"
    BY <2>2
  <2>4. \A m \in made' : m.r = r /\ m.s = s
    BY <2>2
  <2>5. WholeInv'
    BY <2>3, <2>4 DEF WholeInv
  <2> QED
    BY <2>1, <2>5 DEF FormInv, FormsAreUnderstood
<1>3. CASE Finish
  <2>1. /\ pc = "answered" /\ pc' = "done" /\ UNCHANGED <<made, raw, intact>>
    BY <1>3 DEF Finish
  <2>2. PICK b \in raw : \/ out' = Returned(b, shown')
                         \/ out' = Thrown("invalidPublicKey")
    BY <1>3 DEF Finish
  <2>3. SUFFICES ASSUME NEW o \in out', NEW m \in made', NEW c \in raw',
                        intact' # "damaged", m.key = shown', ~m.rehashed, ~Mistaken(c)'
                 PROVE  o.error \in {"none", "invalidPublicKey"}
    BY <2>1 DEF FormInv, WholeInv, FormsAreUnderstood
  <2>4. CASE out' = Thrown("invalidPublicKey")
    BY <2>4 DEF Thrown
  <2>5. CASE out' = Returned(b, shown')
    <3>1. m \in made /\ c = b /\ intact # "damaged"
      BY <1>0, <2>1, <2>3 DEF MadeInv
    <3>2. PICK w \in {0, 1} : intact \in Forms /\ b = Encoded([r |-> m.r, s |-> m.s], intact, w)
      BY <2>1, <3>1 DEF FormInv, WholeInv
    <3>3. ~(intact = "der" /\ Len(b) \in {8, 2 * Width, 2 * Width + 1})
      BY <2>1, <2>3, <3>1 DEF Mistaken
    <3>4. m.r \in Scalars /\ m.s \in Scalars
      BY <1>0, <3>1 DEF MadeInv, Made
    <3>5. Split(b) = {[r |-> m.r, s |-> m.s]}
      BY <3>2, <3>3, <3>4, WholeIsSplit
    <3>6. \A q \in Returned(b, m.key) : q.error = "none"
      BY <1>0, <2>3, <3>1, <3>5, WholeIsAccepted
    <3> QED
      BY <2>3, <2>5, <3>6
  <2> QED
    BY <2>2, <2>4, <2>5
<1>4. CASE UNCHANGED vars
  BY <1>4 DEF vars, FormInv, WholeInv, FormsAreUnderstood, Mistaken
<1> QED
  BY <1>1, <1>2, <1>3, <1>4 DEF Next

(* Every form a service may answer in is understood, of any width and any  *)
(* order, provided the digits of the numbers are exact, which TLC          *)
(* evaluates.                                                              *)
THEOREM WholeFormsUnderstood ==
  ASSUME PaddingIsExact, DerIsExact
  PROVE  Spec => []FormsAreUnderstood
<1>1. Init => FormInv
  BY DEF Init, FormInv, WholeInv, FormsAreUnderstood
<1>2. SigInv /\ FormInv /\ [Next]_vars => FormInv'
  BY FormStep
<1>3. FormInv => FormsAreUnderstood
  BY DEF FormInv
<1> QED
  BY <1>1, <1>2, <1>3, SigInductive, PTL DEF Spec

===============================================================================
