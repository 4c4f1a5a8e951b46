--------------------------- MODULE CredentialProofs ---------------------------
(***************************************************************************)
(* Proofs about Credential: what a token holds of the document it was made *)
(* of, and that reading it back gives that document, for all documents an  *)
(* application can come by and any claims it gives along.                  *)
(***************************************************************************)
EXTENDS Credential, TLAPS

(* A function, for values whose type is not known. *)
IsFn(f) == f = [x \in DOMAIN f |-> f[x]]

DateFields == {"issuanceDate", "expirationDate"}

FieldsOf(k) ==
    {"@context", "type", "id"} \cup
        IF k = "vc" THEN {"issuer", "issuanceDate", "expirationDate", "credentialSubject",
                          "credentailStatus"}
                    ELSE {"holder", "verifiableCredential"}

(* A subject stays a dictionary when its id is taken away. *)
SubjectOK(s) == s = NotADictionary \/ (IsFn(s) /\ Without(s, {"id"}) # NotADictionary)

(* The documents an application can come by. *)
DocOK(k, d) ==
    /\ IsFn(d)
    /\ DOMAIN d \subseteq FieldsOf(k)
    /\ \A f \in DateFields \cap DOMAIN d : d[f] \in Nat \cup {OtherFormat}
    /\ "credentialSubject" \in DOMAIN d => SubjectOK(d.credentialSubject)

(* The claims of a token: one document of the kind it says, and no author  *)
(* in it that would have been a claim.                                     *)
ClaimsOK(k, J) ==
    /\ DOMAIN J \cap Kinds = {k}
    /\ DocOK(k, J[k])
    /\ \A c \in DateClaims \cap DOMAIN J : J[c] \in Nat
    /\ "iss" \in DOMAIN J => J["iss"] # NotAUrl
    /\ AuthorField(k) \in DOMAIN J[k] => J[k][AuthorField(k)] = OtherFormat

DateNames == {"nbf", "iat"}

TokenOK(t) ==
    /\ t.kind \in Kinds
    /\ \E c \in DateNames : t.names = ClaimNames(t.kind, c)
    /\ DocOK(t.kind, t.doc) /\ JwtOK(t.meant)
    /\ \E nonce \in Nonces \cup {{}} :
          t.claims = ToJWT(t.kind, t.names, t.doc, nonce, t.meant)

CredentialInv == kind \in Kinds /\ DocOK(kind, doc) /\ \A t \in token : TokenOK(t)

-----------------------------------------------------------------------------
(* Functions. *)

(* A merge has the entries of both, and its left side's where both have one. *)
LEMMA Merge ==
    ASSUME NEW f, NEW g
    PROVE  /\ DOMAIN (f @@ g) = DOMAIN f \cup DOMAIN g
           /\ \A x \in DOMAIN f : (f @@ g)[x] = f[x]
           /\ \A x \in DOMAIN g \ DOMAIN f : (f @@ g)[x] = g[x]
           /\ IsFn(f @@ g)
BY DEF @@, IsFn

(* Of several, the first that has a name gives its value, however they are *)
(* grouped.                                                                *)
LEMMA MergeAssociates == \A f, g, h : (f @@ g) @@ h = f @@ (g @@ h)
BY DEF @@

(* An entry is a function of one name. *)
LEMMA Entry ==
    ASSUME NEW x, NEW y
    PROVE  /\ DOMAIN (x :> y) = {x}
           /\ (x :> y)[x] = y
           /\ IsFn(x :> y)
BY DEF :>, IsFn

(* Taking names away leaves the other entries. *)
LEMMA Remaining ==
    ASSUME NEW f, NEW S
    PROVE  /\ DOMAIN Without(f, S) = DOMAIN f \ S
           /\ \A x \in DOMAIN f \ S : Without(f, S)[x] = f[x]
           /\ IsFn(Without(f, S))
BY DEF Without, Restrict, IsFn

(* Functions with the same domain and values are equal. *)
LEMMA SameFunction ==
    ASSUME NEW f, NEW g, IsFn(f), IsFn(g), DOMAIN f = DOMAIN g,
           \A x \in DOMAIN f : f[x] = g[x]
    PROVE  f = g
BY DEF IsFn

(* A subject with another id, or whose id is taken away, is a subject. *)
LEMMA SubjectOfId ==
    ASSUME NEW s, NEW v, SubjectOK(s), IsDictionary(s)
    PROVE  /\ SubjectOK(("id" :> v) @@ s)
           /\ SubjectOK(Without(s, {"id"}))
           /\ Without(s, {"id"}) # NotADictionary
<1> DEFINE w == Without(s, {"id"})
           p == ("id" :> v) @@ s
<1>1. IsFn(s) /\ w # NotADictionary  BY DEF SubjectOK, IsDictionary
<1>2. Without(w, {"id"}) = w  BY DEF Without, Restrict
<1>3. Without(p, {"id"}) = w  BY DEF Without, Restrict, @@, :>
<1>4. IsFn(p) /\ IsFn(w)  BY Merge, Remaining
<1> HIDE DEF w, p
<1>5. SubjectOK(p) /\ SubjectOK(w)  BY <1>1, <1>2, <1>3, <1>4 DEF SubjectOK
<1> QED  BY <1>1, <1>5 DEF w, p

(* What the names of the claims are, and that no two fields share one. *)
LEMMA Names ==
    ASSUME NEW k \in Kinds, NEW c \in DateNames
    PROVE  LET n == ClaimNames(k, c) IN
           /\ DOMAIN n = IF k = "vc" THEN {"id", "issuer", "issuanceDate", "expirationDate"}
                                     ELSE {"id", "holder"}
           /\ n["id"] = "jti" /\ n[AuthorField(k)] = "iss"
           /\ k = "vc" => n["issuanceDate"] = c /\ n["expirationDate"] = "exp"
           /\ AuthorField(k) = IF k = "vc" THEN "issuer" ELSE "holder"
BY DEF ClaimNames, AuthorField, Kinds

(* The claims of fields are distinct, and none of the others of a token. *)
LEMMA DistinctClaims ==
    ASSUME NEW k \in Kinds, NEW c \in DateNames
    PROVE  LET n == ClaimNames(k, c) IN
           /\ \A f, g \in DOMAIN n : n[f] = n[g] => f = g
           /\ \A f \in DOMAIN n : n[f] \in {"jti", "iss", "nbf", "iat", "exp"}
           /\ \A f \in DOMAIN n : n[f] = "iss" => f = AuthorField(k)
           /\ \A f \in DOMAIN n : n[f] \in DateClaims => f \in DateFields
           /\ \A f \in DOMAIN n \cap DateFields : n[f] \in DateClaims
           /\ DOMAIN n \subseteq FieldsOf(k) \ {"credentialSubject"}
<1> DEFINE n == ClaimNames(k, c)
<1>1. CASE k = "vc"
  <2>1. /\ DOMAIN n = {"id", "issuer", "issuanceDate", "expirationDate"}
        /\ n["id"] = "jti" /\ n["issuer"] = "iss" /\ n["issuanceDate"] = c /\ n["expirationDate"] = "exp"
        /\ AuthorField(k) = "issuer"
    BY <1>1, Names
  <2> HIDE DEF n
  <2> QED  BY <1>1, <2>1 DEF DateNames, DateClaims, DateFields, FieldsOf, n
<1>2. CASE k = "vp"
  <2>1. /\ DOMAIN n = {"id", "holder"} /\ n["id"] = "jti" /\ n["holder"] = "iss"
        /\ AuthorField(k) = "holder"
    BY <1>2, Names
  <2> HIDE DEF n
  <2> QED  BY <1>2, <2>1 DEF DateNames, DateClaims, DateFields, FieldsOf, n
<1> QED  BY <1>1, <1>2 DEF Kinds

-----------------------------------------------------------------------------
(* What toJWT puts in a token, part by part. *)

Own(names, d) ==
    [c \in {names[f] : f \in Moved(names, d)} |->
        d[CHOOSE f \in Moved(names, d) : names[f] = c]]

SubjectClaim(d) ==
    [c \in {"sub" : i \in SubjectIds(d)} |-> CHOOSE i \in SubjectIds(d) : TRUE]

NonceClaim(nonce) == [c \in {"nonce" : n \in nonce} |-> CHOOSE n \in nonce : TRUE]

Inner(names, d) ==
    IF SubjectIds(d) = {} THEN Without(d, Moved(names, d))
      ELSE [Without(d, Moved(names, d)) EXCEPT !.credentialSubject = Without(@, {"id"})]

NilClaims(names, d) ==
    {c \in {"iss"} \cap DOMAIN Own(names, d) : Own(names, d)[c] = NotAUrl}

(* toJWT merges its parts and takes the nil claims away. *)
LEMMA Parts ==
    ASSUME NEW k, NEW names, NEW d, NEW nonce, NEW b
    PROVE  ToJWT(k, names, d, nonce, b) =
               Without(Own(names, d) @@ SubjectClaim(d) @@ NonceClaim(nonce)
                          @@ (k :> Inner(names, d)) @@ b, NilClaims(names, d))
BY DEF ToJWT, Own, SubjectClaim, NonceClaim, Inner, NilClaims

(* A document has at most one subject id, where its subject has one. *)
HasSubjectId(d) ==
    /\ "credentialSubject" \in DOMAIN d
    /\ d.credentialSubject # NotADictionary
    /\ "id" \in DOMAIN d.credentialSubject

(* That id is the one toJWT makes the claim of. *)
LEMMA OneSubjectId ==
    ASSUME NEW d
    PROVE  SubjectIds(d) = IF HasSubjectId(d) THEN {d.credentialSubject["id"]} ELSE {}
BY DEF SubjectIds, HasSubjectId, IsDictionary

(* The claims of the fields that move, each with the value of its field. *)
OwnAsMoved(k, n, d) ==
    /\ Moved(n, d) = {f \in DOMAIN n \cap DOMAIN d : d[f] # OtherFormat}
    /\ DOMAIN Own(n, d) = {n[f] : f \in Moved(n, d)}
    /\ \A f \in Moved(n, d) : n[f] \in DOMAIN Own(n, d) /\ Own(n, d)[n[f]] = d[f]
    /\ \A f \in DOMAIN n : n[f] \in DOMAIN Own(n, d) => f \in Moved(n, d)
    /\ NilClaims(n, d) = {x \in {"iss"} : AuthorField(k) \in Moved(n, d)
                                           /\ d[AuthorField(k)] = NotAUrl}

(* So they are, for either kind and either name of the issuance date. *)
LEMMA OwnClaims ==
    ASSUME NEW k \in Kinds, NEW c \in DateNames, NEW d, NEW n, n = ClaimNames(k, c)
    PROVE  OwnAsMoved(k, n, d)
<1>1. \A f, g \in DOMAIN n : n[f] = n[g] => f = g  BY DistinctClaims
<1>2. Moved(n, d) = {f \in DOMAIN n \cap DOMAIN d : d[f] # OtherFormat}  BY DEF Moved
<1>3. DOMAIN Own(n, d) = {n[f] : f \in Moved(n, d)}  BY DEF Own
<1>4. ASSUME NEW f \in Moved(n, d)
      PROVE  n[f] \in DOMAIN Own(n, d) /\ Own(n, d)[n[f]] = d[f]
  <2> DEFINE g == CHOOSE h \in Moved(n, d) : n[h] = n[f]
  <2>1. g \in Moved(n, d) /\ n[g] = n[f]  OBVIOUS
  <2>2. g = f  BY <1>1, <1>2, <2>1
  <2>3. Own(n, d)[n[f]] = d[g]  BY DEF Own
  <2> QED  BY <1>3, <2>2, <2>3
<1>5. ASSUME NEW f \in DOMAIN n, n[f] \in DOMAIN Own(n, d)  PROVE f \in Moved(n, d)
  <2>1. PICK g \in Moved(n, d) : n[g] = n[f]  BY <1>3, <1>5
  <2> QED  BY <1>1, <1>2, <2>1
<1>6. NilClaims(n, d) = {x \in {"iss"} : AuthorField(k) \in Moved(n, d)
                                          /\ d[AuthorField(k)] = NotAUrl}
  <2>1. n[AuthorField(k)] = "iss" /\ AuthorField(k) \in DOMAIN n
    BY Names DEF Kinds
  <2>2. "iss" \in DOMAIN Own(n, d) <=> AuthorField(k) \in Moved(n, d)
    BY <1>4, <1>5, <2>1
  <2>3. AuthorField(k) \in Moved(n, d) => Own(n, d)["iss"] = d[AuthorField(k)]
    BY <1>4, <2>1
  <2> QED  BY <2>2, <2>3 DEF NilClaims
<1> QED  BY <1>2, <1>3, <1>4, <1>5, <1>6 DEF OwnAsMoved

(* The document in the token: the fields that do not move, and the subject *)
(* without its id.                                                         *)
InnerAsKept(n, d) ==
    /\ IsFn(Inner(n, d))
    /\ DOMAIN Inner(n, d) = DOMAIN d \ Moved(n, d)
    /\ \A f \in DOMAIN d \ (Moved(n, d) \cup {"credentialSubject"}) : Inner(n, d)[f] = d[f]
    /\ "credentialSubject" \in DOMAIN d =>
          /\ "credentialSubject" \notin Moved(n, d)
          /\ Inner(n, d).credentialSubject =
                IF HasSubjectId(d) THEN Without(d.credentialSubject, {"id"})
                                   ELSE d.credentialSubject

(* So it is, for either kind and either name of the issuance date. *)
LEMMA InnerDocument ==
    ASSUME NEW k \in Kinds, NEW c \in DateNames, NEW d, NEW n, n = ClaimNames(k, c), DocOK(k, d)
    PROVE  InnerAsKept(n, d)
<1> DEFINE w == Without(d, Moved(n, d))
<1>1. DOMAIN w = DOMAIN d \ Moved(n, d) /\ IsFn(w)
      /\ \A f \in DOMAIN d \ Moved(n, d) : w[f] = d[f]
  BY Remaining
<1>2. "credentialSubject" \notin Moved(n, d)
  <2>1. "credentialSubject" \notin DOMAIN n  BY DistinctClaims
  <2> QED  BY <2>1 DEF Moved
<1>3. Inner(n, d) = IF HasSubjectId(d)
                      THEN [w EXCEPT !.credentialSubject = Without(@, {"id"})] ELSE w
  BY OneSubjectId DEF Inner
<1>4. HasSubjectId(d) => "credentialSubject" \in DOMAIN w
  BY <1>1, <1>2 DEF HasSubjectId
<1> HIDE DEF w
<1>5. CASE ~HasSubjectId(d)  BY <1>1, <1>2, <1>3, <1>5 DEF InnerAsKept
<1>6. CASE HasSubjectId(d)
  <2>1. Inner(n, d) = [w EXCEPT !.credentialSubject = Without(w.credentialSubject, {"id"})]
    BY <1>3, <1>6
  <2>2. DOMAIN Inner(n, d) = DOMAIN w /\ IsFn(Inner(n, d))  BY <2>1 DEF IsFn
  <2>3. Inner(n, d).credentialSubject = Without(w.credentialSubject, {"id"})
    BY <1>4, <1>6, <2>1
  <2>4. \A f \in DOMAIN w \ {"credentialSubject"} : Inner(n, d)[f] = w[f]  BY <2>1
  <2> QED  BY <1>1, <1>2, <1>4, <1>6, <2>2, <2>3, <2>4 DEF InnerAsKept
<1> QED  BY <1>5, <1>6

(* What a token of a document says: a claim for each field that moved, the *)
(* caller's claims where there is none, the id of the subject, and the     *)
(* document without them.                                                  *)
Says(k, n, d, b, J) ==
    /\ \A f \in Moved(n, d) :
          /\ n[f] \in DOMAIN J <=> ~(n[f] = "iss" /\ d[f] = NotAUrl)
          /\ n[f] \in DOMAIN J => J[n[f]] = d[f]
    /\ \A f \in DOMAIN n \ Moved(n, d) :
          /\ n[f] \in DOMAIN J <=> n[f] \in DOMAIN b
          /\ n[f] \in DOMAIN J => J[n[f]] = b[n[f]]
    /\ "sub" \in DOMAIN J <=> HasSubjectId(d) \/ "sub" \in DOMAIN b
    /\ "sub" \in DOMAIN J => J["sub"] = IF HasSubjectId(d) THEN d.credentialSubject["id"] ELSE b["sub"]
    /\ k \in DOMAIN J /\ J[k] = Inner(n, d)
    /\ DOMAIN J \subseteq {"jti", "iss", "nbf", "iat", "exp", "sub", "nonce", k} \cup DOMAIN b
    /\ \A x \in DateClaims \cap DOMAIN J :
          (\E f \in Moved(n, d) \cap DateFields : J[x] = d[f]) \/ J[x] \in Nat
    /\ "iss" \in DOMAIN J => J["iss"] # NotAUrl

(* So it does, with any nonce. *)
LEMMA WhatATokenSays ==
    ASSUME NEW k \in Kinds, NEW c \in DateNames, NEW d, NEW n, n = ClaimNames(k, c), DocOK(k, d),
           NEW nonce, NEW b, JwtOK(b),
           NEW J, J = ToJWT(k, n, d, nonce, b)
    PROVE  Says(k, n, d, b, J)
<1> DEFINE o == Own(n, d)
           s == SubjectClaim(d)
           u == NonceClaim(nonce)
           i == k :> Inner(n, d)
           r == {"jti", "iss", "nbf", "iat", "exp"}
           a == AuthorField(k)
           all == o @@ s @@ u @@ i @@ b
<1>1. J = Without(all, NilClaims(n, d))  BY Parts
<1>2. /\ \A f \in DOMAIN n : n[f] \in r
      /\ \A f \in DOMAIN n : n[f] = "iss" => f = a
      /\ \A f \in DOMAIN n : n[f] \in DateClaims => f \in DateFields
      /\ n[a] = "iss" /\ a \in DOMAIN n
  BY DistinctClaims, Names DEF Kinds
<1>3. /\ Moved(n, d) = {f \in DOMAIN n \cap DOMAIN d : d[f] # OtherFormat}
      /\ DOMAIN o = {n[f] : f \in Moved(n, d)}
      /\ \A f \in Moved(n, d) : n[f] \in DOMAIN o /\ o[n[f]] = d[f]
      /\ \A f \in DOMAIN n : n[f] \in DOMAIN o => f \in Moved(n, d)
      /\ NilClaims(n, d) = {x \in {"iss"} : a \in Moved(n, d) /\ d[a] = NotAUrl}
  <2> OwnAsMoved(k, n, d)  BY OwnClaims
  <2> QED  BY DEF OwnAsMoved
<1>4. DOMAIN o \subseteq r  BY <1>2, <1>3
<1>5. /\ DOMAIN s = IF HasSubjectId(d) THEN {"sub"} ELSE {}
      /\ HasSubjectId(d) => s["sub"] = d.credentialSubject["id"]
  BY OneSubjectId DEF SubjectClaim
<1>6. DOMAIN u \subseteq {"nonce"}  BY DEF NonceClaim
<1>7. DOMAIN i = {k} /\ i[k] = Inner(n, d)  BY Entry
<1>8. /\ k \notin DOMAIN b
      /\ "iss" \in DOMAIN b => b["iss"] # NotAUrl
      /\ \A x \in DateClaims \cap DOMAIN b : b[x] \in Nat
  BY DEF JwtOK
<1>9. /\ DOMAIN all = DOMAIN o \cup DOMAIN s \cup DOMAIN u \cup DOMAIN i \cup DOMAIN b
      /\ \A x \in DOMAIN o : all[x] = o[x]
      /\ \A x \in DOMAIN s \ DOMAIN o : all[x] = s[x]
      /\ \A x \in DOMAIN i \ (DOMAIN o \cup DOMAIN s \cup DOMAIN u) : all[x] = i[x]
      /\ \A x \in DOMAIN b \ (DOMAIN o \cup DOMAIN s \cup DOMAIN u \cup DOMAIN i) : all[x] = b[x]
  <2> HIDE DEF o, s, u, i
  <2> QED  BY DEF @@
<1> HIDE DEF o, s, u, i, all
<1>10. DOMAIN J = DOMAIN all \ NilClaims(n, d) /\ \A x \in DOMAIN J : J[x] = all[x]
  BY <1>1 DEF Without, Restrict
<1>11. k \notin r \cup {"sub", "nonce"}  BY DEF Kinds
<1>12. NilClaims(n, d) \subseteq {"iss"} /\ DateClaims \subseteq r \ {"iss"}  BY <1>3 DEF DateClaims
<1>13. ASSUME NEW f \in Moved(n, d)
       PROVE  /\ n[f] \in DOMAIN J <=> ~(n[f] = "iss" /\ d[f] = NotAUrl)
              /\ n[f] \in DOMAIN J => J[n[f]] = d[f]
  <2>1. n[f] \in DOMAIN all /\ all[n[f]] = d[f]  BY <1>3, <1>9
  <2>2. n[f] \in NilClaims(n, d) <=> n[f] = "iss" /\ d[f] = NotAUrl  BY <1>2, <1>3
  <2> QED  BY <1>10, <2>1, <2>2
<1>14. ASSUME NEW f \in DOMAIN n \ Moved(n, d)
       PROVE  /\ n[f] \in DOMAIN J <=> n[f] \in DOMAIN b
              /\ n[f] \in DOMAIN J => J[n[f]] = b[n[f]]
  <2>1. n[f] \notin DOMAIN o /\ n[f] \in r  BY <1>2, <1>3
  <2>2. n[f] \notin DOMAIN s \cup DOMAIN u \cup DOMAIN i  BY <2>1, <1>5, <1>6, <1>7, <1>11
  <2>3. n[f] \notin NilClaims(n, d)  BY <1>2, <1>3
  <2>4. n[f] \in DOMAIN all <=> n[f] \in DOMAIN b  BY <1>9, <2>1, <2>2
  <2>5. n[f] \in DOMAIN b => all[n[f]] = b[n[f]]  BY <1>9, <2>1, <2>2
  <2> QED  BY <1>10, <2>3, <2>4, <2>5
<1>15. /\ "sub" \in DOMAIN J <=> HasSubjectId(d) \/ "sub" \in DOMAIN b
       /\ "sub" \in DOMAIN J => J["sub"] = IF HasSubjectId(d) THEN d.credentialSubject["id"] ELSE b["sub"]
  <2>1. "sub" \notin DOMAIN o \cup DOMAIN u \cup DOMAIN i \cup NilClaims(n, d)
    BY <1>4, <1>6, <1>7, <1>12 DEF Kinds
  <2> QED  BY <1>5, <1>9, <1>10, <2>1
<1>16. k \in DOMAIN J /\ J[k] = Inner(n, d)
  <2>1. k \notin DOMAIN o \cup DOMAIN s \cup DOMAIN u \cup NilClaims(n, d)
    BY <1>4, <1>5, <1>6, <1>11, <1>12
  <2> QED  BY <1>7, <1>9, <1>10, <2>1
<1>17. DOMAIN J \subseteq {"jti", "iss", "nbf", "iat", "exp", "sub", "nonce", k} \cup DOMAIN b
  BY <1>4, <1>5, <1>6, <1>7, <1>9, <1>10
<1>18. ASSUME NEW x \in DateClaims \cap DOMAIN J
       PROVE  (\E f \in Moved(n, d) \cap DateFields : J[x] = d[f]) \/ J[x] \in Nat
  <2>1. CASE x \in DOMAIN o
    <3>1. PICK f \in Moved(n, d) : n[f] = x  BY <1>3, <2>1
    <3>2. f \in DateFields  BY <1>2, <1>3, <3>1
    <3> QED  BY <1>13, <3>1, <3>2
  <2>2. CASE x \notin DOMAIN o
    <3>1. x \notin DOMAIN s \cup DOMAIN u \cup DOMAIN i
      BY <1>5, <1>6, <1>7, <1>11, <1>12
    <3> QED  BY <1>8, <1>9, <1>10, <2>2, <3>1
  <2> QED  BY <2>1, <2>2
<1>19. "iss" \in DOMAIN J => J["iss"] # NotAUrl
  <2>1. CASE a \in Moved(n, d)  BY <1>2, <1>13, <2>1
  <2>2. CASE a \notin Moved(n, d)  BY <1>2, <1>8, <1>14, <2>2
  <2> QED  BY <2>1, <2>2
<1> QED  BY <1>13, <1>14, <1>15, <1>16, <1>17, <1>18, <1>19 DEF Says

(* The claims of a token are well formed. *)
LEMMA TokenClaims ==
    ASSUME NEW k \in Kinds, NEW c \in DateNames, NEW d, NEW n, n = ClaimNames(k, c), DocOK(k, d),
           NEW nonce, NEW b, JwtOK(b)
    PROVE  ClaimsOK(k, ToJWT(k, n, d, nonce, b))
<1> DEFINE J == ToJWT(k, n, d, nonce, b)
           in == Inner(n, d)
           a == AuthorField(k)
<1>1. /\ k \in DOMAIN J /\ J[k] = in
      /\ DOMAIN J \subseteq {"jti", "iss", "nbf", "iat", "exp", "sub", "nonce", k} \cup DOMAIN b
      /\ \A x \in DateClaims \cap DOMAIN J :
            (\E f \in Moved(n, d) \cap DateFields : J[x] = d[f]) \/ J[x] \in Nat
      /\ "iss" \in DOMAIN J => J["iss"] # NotAUrl
  <2> Says(k, n, d, b, J)  BY WhatATokenSays
  <2> QED  BY DEF Says
<1>2. /\ IsFn(in) /\ DOMAIN in = DOMAIN d \ Moved(n, d)
      /\ \A f \in DOMAIN d \ (Moved(n, d) \cup {"credentialSubject"}) : in[f] = d[f]
      /\ "credentialSubject" \in DOMAIN d =>
            /\ "credentialSubject" \notin Moved(n, d)
            /\ in.credentialSubject = IF HasSubjectId(d) THEN Without(d.credentialSubject, {"id"})
                                                         ELSE d.credentialSubject
  <2> InnerAsKept(n, d)  BY InnerDocument
  <2> QED  BY DEF InnerAsKept
<1>3. Moved(n, d) = {f \in DOMAIN n \cap DOMAIN d : d[f] # OtherFormat}  BY DEF Moved
<1>4. \A x \in DateClaims \cap DOMAIN J : J[x] \in Nat  BY <1>1, <1>3 DEF DocOK
<1>5. a \in DOMAIN n /\ a \in {"issuer", "holder"}  BY Names DEF Kinds
<1> HIDE DEF J, in
<1>6. DocOK(k, in)
  <2>1. \A f \in DateFields \cap DOMAIN in : in[f] \in Nat \cup {OtherFormat}
    BY <1>2 DEF DocOK, DateFields
  <2>2. "credentialSubject" \in DOMAIN in => SubjectOK(in.credentialSubject)
    BY <1>2, SubjectOfId DEF DocOK, HasSubjectId, IsDictionary
  <2> QED  BY <1>2, <2>1, <2>2 DEF DocOK
<1>7. a \in DOMAIN in => in[a] = OtherFormat  BY <1>2, <1>3, <1>5
<1>8. DOMAIN J \cap Kinds = {k}  BY <1>1 DEF JwtOK, Kinds
<1> QED  BY <1>1, <1>4, <1>6, <1>7, <1>8 DEF ClaimsOK, J

-----------------------------------------------------------------------------
(* Reading. *)

(* The document with the claims over it, before the subject gets its id. *)
ClaimsOver(n, J, d) == [f \in {g \in DOMAIN n : n[g] \in DOMAIN J} |-> J[n[f]]] @@ d

(* What reading does after it has set the claims over the document. *)
LEMMA ReadInSteps ==
    ASSUME NEW k, NEW n, NEW J, NEW o, o = ClaimsOver(n, J, J[k])
    PROVE  Read(k, n, J) =
              IF /\ k = "vc" /\ "sub" \in DOMAIN J /\ "credentialSubject" \in DOMAIN o
                 /\ IsDictionary(o.credentialSubject)
                THEN [o EXCEPT !.credentialSubject = ("id" :> J.sub) @@ o.credentialSubject]
                ELSE o
BY DEF Read, ClaimsOver

(* Whatever well-formed token is read, of this or another issuer, with     *)
(* whichever name for the issuance date, the result is a document, whose   *)
(* author is a URL or was never a claim.                                   *)
LEMMA ReadIsDocument ==
    ASSUME NEW k \in Kinds, NEW c \in DateNames, NEW n, n = ClaimNames(k, c),
           NEW J, ClaimsOK(k, J), NEW r, r = Read(k, n, J)
    PROVE  /\ DocOK(k, r)
           /\ AuthorField(k) \in DOMAIN r =>
                 r[AuthorField(k)] # NotAUrl \/ r[AuthorField(k)] = OtherFormat
<1> DEFINE d == J[k]
           o == ClaimsOver(n, J, d)
           a == AuthorField(k)
           s == "credentialSubject"
           again == /\ k = "vc" /\ "sub" \in DOMAIN J /\ s \in DOMAIN o
                    /\ IsDictionary(o.credentialSubject)
           put == ("id" :> J.sub) @@ o.credentialSubject
<1>1. /\ DOMAIN n \subseteq FieldsOf(k) \ {s}
      /\ \A f \in DOMAIN n \cap DateFields : n[f] \in DateClaims
      /\ n[a] = "iss" /\ a \in DOMAIN n
  BY DistinctClaims, Names DEF Kinds
<1>2. /\ DOMAIN o = {f \in DOMAIN n : n[f] \in DOMAIN J} \cup DOMAIN d
      /\ \A f \in DOMAIN o : o[f] = IF f \in DOMAIN n /\ n[f] \in DOMAIN J THEN J[n[f]] ELSE d[f]
      /\ IsFn(o)
  BY DEF ClaimsOver, @@, IsFn
<1>3. r = IF again THEN [o EXCEPT !.credentialSubject = put] ELSE o
  BY ReadInSteps DEF Read, ClaimsOver
<1>4. /\ DocOK(k, d)
      /\ \A x \in DateClaims \cap DOMAIN J : J[x] \in Nat
      /\ "iss" \in DOMAIN J => J["iss"] # NotAUrl
      /\ a \in DOMAIN d => d[a] = OtherFormat
  BY DEF ClaimsOK
<1> HIDE DEF d, o
<1>5. DOMAIN o \subseteq FieldsOf(k)  BY <1>1, <1>2, <1>4 DEF DocOK
<1>6. \A f \in DateFields \cap DOMAIN o : o[f] \in Nat \cup {OtherFormat}
  BY <1>1, <1>2, <1>4 DEF DocOK
<1>7. s \in DOMAIN o => SubjectOK(o.credentialSubject)
  BY <1>1, <1>2, <1>4 DEF DocOK
<1>8. a \in DOMAIN o => o[a] # NotAUrl \/ o[a] = OtherFormat
  BY <1>1, <1>2, <1>4
<1>9. again => SubjectOK(put)  BY <1>7, SubjectOfId
<1>10. s \notin DateFields /\ s # a  BY <1>1 DEF DateFields
<1>11. CASE again
  <2> HIDE DEF put
  <2>1. r = [o EXCEPT !.credentialSubject = put]  BY <1>3, <1>11
  <2>2. IsFn(r) /\ DOMAIN r = DOMAIN o /\ r.credentialSubject = put
        /\ \A f \in DOMAIN o \ {s} : r[f] = o[f]
    BY <1>11, <2>1 DEF IsFn
  <2> QED  BY <1>5, <1>6, <1>8, <1>9, <1>10, <1>11, <2>2 DEF DocOK
<1>12. CASE ~again
  <2>1. r = o  BY <1>3, <1>12
  <2> QED  BY <1>2, <1>5, <1>6, <1>7, <1>8, <2>1 DEF DocOK
<1> QED  BY <1>11, <1>12

(* The document as presented, before the subject gets its id. *)
PresentedFields(n, d, b) ==
    LET says == Moved(n, d)
        lent == {f \in DOMAIN n \ says : n[f] \in DOMAIN b}
        lost == {f \in says : n[f] = "iss" /\ d[f] = NotAUrl}
    IN  [f \in (DOMAIN d \ lost) \cup lent |-> IF f \in lent THEN b[n[f]] ELSE d[f]]

(* Presenting a document presents its fields, then its subject's id. *)
LEMMA PresentedInSteps ==
    ASSUME NEW k, NEW n, NEW d, NEW b, NEW p, p = PresentedFields(n, d, b)
    PROVE  Presented(k, n, d, b) =
              IF /\ k = "vc" /\ "sub" \in DOMAIN b /\ "credentialSubject" \in DOMAIN d
                 /\ IsDictionary(d.credentialSubject) /\ SubjectIds(d) = {}
                THEN [p EXCEPT !.credentialSubject = ("id" :> b.sub) @@ p.credentialSubject]
                ELSE p
BY DEF Presented, PresentedFields

(* Reading a token of a document gives what the document presents. *)
LEMMA ReadsBack ==
    ASSUME NEW k \in Kinds, NEW c \in DateNames, NEW d, NEW n, n = ClaimNames(k, c), DocOK(k, d),
           NEW nonce, NEW b, JwtOK(b)
    PROVE  Read(k, n, ToJWT(k, n, d, nonce, b)) = Presented(k, n, d, b)
<1> DEFINE J == ToJWT(k, n, d, nonce, b)
           in == Inner(n, d)
           s == "credentialSubject"
           o == ClaimsOver(n, J, in)
           lent == {f \in DOMAIN n \ Moved(n, d) : n[f] \in DOMAIN b}
           lost == {f \in Moved(n, d) : n[f] = "iss" /\ d[f] = NotAUrl}
           p == PresentedFields(n, d, b)
           q == Presented(k, n, d, b)
           r == Read(k, n, J)
<1>1. /\ \A f \in Moved(n, d) :
            /\ n[f] \in DOMAIN J <=> ~(n[f] = "iss" /\ d[f] = NotAUrl)
            /\ n[f] \in DOMAIN J => J[n[f]] = d[f]
      /\ \A f \in DOMAIN n \ Moved(n, d) :
            /\ n[f] \in DOMAIN J <=> n[f] \in DOMAIN b
            /\ n[f] \in DOMAIN J => J[n[f]] = b[n[f]]
      /\ "sub" \in DOMAIN J <=> HasSubjectId(d) \/ "sub" \in DOMAIN b
      /\ "sub" \in DOMAIN J => J["sub"] = IF HasSubjectId(d) THEN d.credentialSubject["id"] ELSE b["sub"]
      /\ J[k] = in
  <2> Says(k, n, d, b, J)  BY WhatATokenSays
  <2> QED  BY DEF Says
<1>2. /\ IsFn(in) /\ DOMAIN in = DOMAIN d \ Moved(n, d)
      /\ \A f \in DOMAIN d \ (Moved(n, d) \cup {s}) : in[f] = d[f]
      /\ s \in DOMAIN d =>
            /\ s \notin Moved(n, d)
            /\ in.credentialSubject = IF HasSubjectId(d) THEN Without(d.credentialSubject, {"id"})
                                                         ELSE d.credentialSubject
  <2> InnerAsKept(n, d)  BY InnerDocument
  <2> QED  BY DEF InnerAsKept
<1>3. Moved(n, d) \subseteq DOMAIN n \cap DOMAIN d  BY DEF Moved
<1>4. s \notin DOMAIN n  BY DistinctClaims
<1>5. /\ DOMAIN o = {f \in DOMAIN n : n[f] \in DOMAIN J} \cup DOMAIN in
      /\ \A f \in DOMAIN o : o[f] = IF f \in DOMAIN n /\ n[f] \in DOMAIN J THEN J[n[f]] ELSE in[f]
      /\ IsFn(o)
  BY DEF ClaimsOver, @@, IsFn
<1>6. /\ IsFn(p) /\ DOMAIN p = (DOMAIN d \ lost) \cup lent
      /\ \A f \in DOMAIN p : p[f] = IF f \in lent THEN b[n[f]] ELSE d[f]
  BY DEF PresentedFields, IsFn
<1>13. q = IF /\ k = "vc" /\ "sub" \in DOMAIN b /\ s \in DOMAIN d /\ IsDictionary(d.credentialSubject)
              /\ ~HasSubjectId(d)
             THEN [p EXCEPT !.credentialSubject = ("id" :> b.sub) @@ p.credentialSubject]
             ELSE p
  BY OneSubjectId, PresentedInSteps
<1>7. r = IF /\ k = "vc" /\ "sub" \in DOMAIN J /\ s \in DOMAIN o
             /\ IsDictionary(o.credentialSubject)
            THEN [o EXCEPT !.credentialSubject = ("id" :> J.sub) @@ o.credentialSubject]
            ELSE o
  BY <1>1, ReadInSteps
<1> HIDE DEF J, in, o, p, q, r
<1>8. DOMAIN o = DOMAIN p  BY <1>1, <1>2, <1>3, <1>5, <1>6
<1>9. ASSUME NEW f \in DOMAIN o, f # s  PROVE o[f] = p[f]
  <2>1. CASE f \in Moved(n, d)  BY <1>1, <1>2, <1>3, <1>5, <1>6, <1>8, <2>1
  <2>2. CASE f \in DOMAIN n \ Moved(n, d)  BY <1>1, <1>2, <1>5, <1>6, <1>8, <1>9, <2>2
  <2>3. CASE f \notin DOMAIN n  BY <1>2, <1>3, <1>5, <1>6, <1>8, <1>9, <2>3
  <2> QED  BY <2>1, <2>2, <2>3
<1>10. s \in DOMAIN o => s \in DOMAIN d /\ p[s] = d.credentialSubject
                         /\ o[s] = in.credentialSubject
  BY <1>2, <1>4, <1>5, <1>6, <1>8
<1>11. CASE HasSubjectId(d)
  <2> DEFINE sub == d.credentialSubject
             w == Without(sub, {"id"})
  <2>1. k = "vc"  BY <1>11 DEF HasSubjectId, DocOK, FieldsOf, Kinds
  <2>2. s \in DOMAIN d /\ sub # NotADictionary /\ "id" \in DOMAIN sub  BY <1>11 DEF HasSubjectId
  <2>3. IsFn(sub) /\ w # NotADictionary  BY <2>2 DEF DocOK, SubjectOK
  <2>4. s \in DOMAIN o /\ o[s] = w  BY <1>2, <1>5, <1>10, <1>11, <2>2
  <2>5. r = [o EXCEPT !.credentialSubject = ("id" :> sub["id"]) @@ w]
    BY <1>1, <1>7, <1>11, <2>1, <2>3, <2>4 DEF IsDictionary
  <2>6. ("id" :> sub["id"]) @@ w = sub
    BY <2>2, <2>3 DEF @@, :>, Without, Restrict, IsFn
  <2> HIDE DEF sub, w
  <2>7. DOMAIN r = DOMAIN o /\ IsFn(r) /\ r[s] = sub /\ \A f \in DOMAIN o \ {s} : r[f] = o[f]
    BY <2>4, <2>5, <2>6 DEF IsFn
  <2>8. \A f \in DOMAIN r : r[f] = p[f]  BY <1>9, <1>10, <2>4, <2>7 DEF sub
  <2>9. r = p  BY <1>6, <1>8, <2>7, <2>8, SameFunction
  <2>10. q = p  BY <1>11, <1>13
  <2> QED  BY <2>9, <2>10 DEF r, J, q
<1>12. CASE ~HasSubjectId(d)
  <2>1. \A f \in DOMAIN o : o[f] = p[f]  BY <1>2, <1>9, <1>10, <1>12
  <2>2. o = p  BY <1>5, <1>6, <1>8, <2>1, SameFunction
  <2>3. s \in DOMAIN o <=> s \in DOMAIN d
    BY <1>2, <1>4, <1>5
  <2>4. r = IF /\ k = "vc" /\ "sub" \in DOMAIN b /\ s \in DOMAIN d /\ IsDictionary(d.credentialSubject)
              THEN [p EXCEPT !.credentialSubject = ("id" :> b.sub) @@ p.credentialSubject]
              ELSE p
    BY <1>1, <1>7, <1>10, <1>12, <2>2, <2>3
  <2>5. r = q  BY <1>12, <1>13, <2>4
  <2> QED  BY <2>5 DEF r, J, q
<1> QED  BY <1>11, <1>12

(* A document whose author is a URL, or never was a claim, is presented    *)
(* whole when nothing is given along.                                      *)
LEMMA PresentedWhole ==
    ASSUME NEW k \in Kinds, NEW c \in DateNames, NEW d, NEW n, n = ClaimNames(k, c), DocOK(k, d),
           AuthorField(k) \in DOMAIN d =>
              d[AuthorField(k)] # NotAUrl \/ d[AuthorField(k)] = OtherFormat
    PROVE  Presented(k, n, d, Empty) = d
<1>1. \A f \in Moved(n, d) : ~(n[f] = "iss" /\ d[f] = NotAUrl)
  <2>1. \A f \in DOMAIN n : n[f] = "iss" => f = AuthorField(k)  BY DistinctClaims
  <2> QED  BY <2>1 DEF Moved
<1>2. DOMAIN Empty = {}  BY DEF Empty
<1> QED  BY <1>1, <1>2 DEF Presented, DocOK, IsFn

-----------------------------------------------------------------------------
(* Documents of the application. *)

(* A new object has no field but its contexts and types. *)
LEMMA NewIsDocument ==
    ASSUME NEW k \in Kinds
    PROVE  DocOK(k, NewDoc(k)) /\ DOMAIN NewDoc(k) = {"@context", "type"}
<1>1. DOMAIN NewDoc(k) = {"@context", "type"} /\ IsFn(NewDoc(k))
  BY DEF NewDoc, @@, :>, IsFn
<1> QED  BY <1>1 DEF DocOK, DateFields, FieldsOf

(* A value a field may have. *)
FieldOK(k, f, v) ==
    /\ f \in FieldsOf(k)
    /\ f \in DateFields => v \in Nat \cup {OtherFormat}
    /\ f = "credentialSubject" => SubjectOK(v)

(* A document with a field set is a document. *)
LEMMA FieldSet ==
    ASSUME NEW k, NEW d, DocOK(k, d), NEW f, NEW v, FieldOK(k, f, v)
    PROVE  DocOK(k, (f :> v) @@ d)
<1> DEFINE e == (f :> v) @@ d
<1>1. /\ DOMAIN e = {f} \cup DOMAIN d /\ e[f] = v /\ IsFn(e)
      /\ \A g \in DOMAIN d \ {f} : e[g] = d[g]
  BY DEF @@, :>, IsFn
<1> HIDE DEF e
<1>2. DocOK(k, e)
  <2>1. \A g \in DateFields \cap DOMAIN e : e[g] \in Nat \cup {OtherFormat}
    BY <1>1 DEF DocOK, FieldOK
  <2>2. "credentialSubject" \in DOMAIN e => SubjectOK(e.credentialSubject)
    BY <1>1 DEF DocOK, FieldOK
  <2> QED  BY <1>1, <2>1, <2>2 DEF DocOK, FieldOK
<1> QED  BY <1>2 DEF e

(* So is one with fields removed. *)
LEMMA FieldCleared ==
    ASSUME NEW k, NEW d, DocOK(k, d), NEW S
    PROVE  DocOK(k, Without(d, S))
<1> DEFINE e == Without(d, S)
<1>1. DOMAIN e = DOMAIN d \ S /\ IsFn(e) /\ \A g \in DOMAIN d \ S : e[g] = d[g]
  BY DEF Without, Restrict, IsFn
<1> HIDE DEF e
<1>2. DocOK(k, e)  BY <1>1 DEF DocOK
<1> QED  BY <1>2 DEF e

(* Seconds since 1970 are numbers, of no other format. *)
LEMMA SecondsAreNumbers ==
    ASSUME NEW t \in Times
    PROVE  Seconds(t) \in Nat
<1>1. t \in Nat  BY CredentialAssumption
<1> QED  BY <1>1 DEF Seconds

(* A field that is given optionally is set or left out. *)
LEMMA OptionalField ==
    ASSUME NEW k, NEW d, DocOK(k, d), NEW f, NEW value,
           \A v \in value : FieldOK(k, f, v), NEW e, e = Given(f, value) @@ d
    PROVE  DocOK(k, e)
<1>1. /\ DOMAIN e = DOMAIN d \cup {x \in {f} : value # {}} /\ IsFn(e)
      /\ \A g \in DOMAIN d \ {f} : e[g] = d[g]
      /\ f \in DOMAIN e => (value # {} /\ e[f] \in value) \/ (f \in DOMAIN d /\ e[f] = d[f])
  BY DEF Given, @@, IsFn
<1>2. \A g \in DateFields \cap DOMAIN e : e[g] \in Nat \cup {OtherFormat}
  BY <1>1 DEF DocOK, FieldOK
<1>3. "credentialSubject" \in DOMAIN e => SubjectOK(e.credentialSubject)
  BY <1>1 DEF DocOK, FieldOK
<1> QED  BY <1>1, <1>2, <1>3 DEF DocOK, FieldOK

(* The claims that go along are those of a JWT, also the dates of          *)
(* issuePresentation.                                                      *)
LEMMA LentClaims ==
    /\ JwtOK(Empty)
    /\ \A claim \in NewJwts : JwtOK(claim)
    /\ \A issued, expires \in SUBSET Times : JwtOK(IssuedClaims(issued, expires))
<1>1. JwtOK(Empty)  BY DEF JwtOK, Empty
<1>2. \A claim \in NewJwts : JwtOK(claim)  BY <1>1, CredentialAssumption DEF NewJwts
<1>3. ASSUME NEW issued \in SUBSET Times, NEW expires \in SUBSET Times
      PROVE  JwtOK(IssuedClaims(issued, expires))
  <2> DEFINE I == {Seconds(t) : t \in issued}
             E == {Seconds(t) : t \in expires}
             b == Given("nbf", I) @@ Given("iat", I) @@ Given("exp", E)
  <2>1. I \subseteq Nat /\ E \subseteq Nat  BY SecondsAreNumbers
  <2> HIDE DEF I, E
  <2>2. \A x : DOMAIN Given(x, I) \subseteq {x} /\ \A c \in DOMAIN Given(x, I) : Given(x, I)[c] \in Nat
    BY <2>1 DEF Given
  <2>3. \A x : DOMAIN Given(x, E) \subseteq {x} /\ \A c \in DOMAIN Given(x, E) : Given(x, E)[c] \in Nat
    BY <2>1 DEF Given
  <2>4. /\ DOMAIN b \subseteq {"nbf", "iat", "exp"} /\ IsFn(b)
        /\ \A c \in DOMAIN b : b[c] \in Nat
    BY <2>2, <2>3 DEF @@, IsFn
  <2>5. JwtOK(b)  BY <2>4 DEF JwtOK, IsFn, Kinds
  <2> QED  BY <2>5 DEF IssuedClaims, I, E
<1> QED  BY <1>1, <1>2, <1>3

(* A token made of a document is one TokenOK knows. *)
LEMMA TokenMade ==
    ASSUME NEW k \in Kinds, NEW c \in DateNames, NEW d, DocOK(k, d),
           NEW nonce \in Nonces \cup {{}}, NEW b, JwtOK(b), NEW a
    PROVE  TokenOK(Token(k, ClaimNames(k, c), d, nonce, b, a))
BY DEF TokenOK, Token

-----------------------------------------------------------------------------
(* The invariant. *)

(* An application starts with a new credential. *)
LEMMA CredentialInit == Init => CredentialInv
BY NewIsDocument DEF Init, CredentialInv, Kinds

(* Whatever object the application turns to next is a document. *)
LEMMA BecomeStep ==
    ASSUME NEW k \in Kinds, NEW d, DocOK(k, d), Become(k, d)
    PROVE  CredentialInv'
BY DEF Become, CredentialInv

(* So is the one it has with a field set or cleared. *)
LEMMA SetStep ==
    ASSUME CredentialInv, NEW f, NEW v, FieldOK(kind, f, v), SetField(f, v)
    PROVE  CredentialInv'
<1>1. DocOK(kind, (f :> v) @@ doc)  BY FieldSet DEF CredentialInv
<1> QED  BY <1>1 DEF SetField, CredentialInv

(* The setters and what they may put in a document. *)
LEMMA EditStep ==
    ASSUME CredentialInv, Edit
    PROVE  CredentialInv'
<1> kind \in Kinds /\ DocOK(kind, doc)  BY DEF CredentialInv
<1>1. CASE \E i \in Ids : SetField("id", i)
  <2>1. \A i : FieldOK(kind, "id", i)  BY DEF FieldOK, FieldsOf, DateFields
  <2> QED  BY <1>1, <2>1, SetStep
<1>2. CASE \E a \in Authors : SetField(AuthorField(kind), a)
  <2>1. \A a : FieldOK(kind, AuthorField(kind), a)
    BY DEF FieldOK, FieldsOf, DateFields, AuthorField, Kinds
  <2> QED  BY <1>2, <2>1, SetStep
<1>3. CASE \E f \in {"id", AuthorField(kind)} : ClearField(f)
  <2>1. PICK f : ClearField(f)  BY <1>3
  <2>2. DocOK(kind, Without(doc, {f}))  BY FieldCleared
  <2> QED  BY <2>1, <2>2 DEF ClearField, CredentialInv
<1>4. CASE kind = "vc" /\ \E t \in Times, f \in DateFields : SetField(f, Seconds(t))
  <2>1. PICK t \in Times, f \in DateFields : SetField(f, Seconds(t))  BY <1>4
  <2>2. FieldOK(kind, f, Seconds(t))
    BY <1>4, SecondsAreNumbers DEF FieldOK, FieldsOf, DateFields
  <2> QED  BY <2>1, <2>2, SetStep
<1>5. CASE kind = "vc" /\ \E s \in Subjects : SetField("credentialSubject", s)
  <2>1. PICK s \in Subjects : SetField("credentialSubject", s)  BY <1>5
  <2>2. SubjectOK(s)  BY CredentialAssumption DEF SubjectOK, IsFn
  <2>3. FieldOK(kind, "credentialSubject", s)
    BY <1>5, <2>2 DEF FieldOK, FieldsOf, DateFields
  <2> QED  BY <2>1, <2>3, SetStep
<1> QED  BY <1>1, <1>2, <1>3, <1>4, <1>5 DEF Edit, DateFields

(* Objects of another issuer, lists, the status, the contexts. *)
LEMMA OtherEditsStep ==
    ASSUME CredentialInv,
           FromJson \/ AddTypes \/ AddVerifiableCredential \/ AddContext("added")
              \/ \E s \in Statuses : SetStatus(s)
    PROVE  CredentialInv'
<1> kind \in Kinds /\ DocOK(kind, doc)  BY DEF CredentialInv
<1>1. CASE FromJson
  <2>1. "vc" \in Kinds /\ DocOK("vc", NewDoc("vc"))  BY NewIsDocument DEF Kinds
  <2>2. \A f \in DateFields : FieldOK("vc", f, OtherFormat)
    BY DEF FieldOK, FieldsOf, DateFields
  <2>3. FieldOK("vc", "credentialSubject", NotADictionary)
    BY DEF FieldOK, FieldsOf, DateFields, SubjectOK
  <2>4. \A f \in DateFields : DocOK("vc", (f :> OtherFormat) @@ NewDoc("vc"))
    BY <2>1, <2>2, FieldSet
  <2>5. DocOK("vc", ("credentialSubject" :> NotADictionary) @@ NewDoc("vc"))
    BY <2>1, <2>3, FieldSet
  <2> QED  BY <1>1, <2>1, <2>4, <2>5, BecomeStep DEF FromJson, DateFields
<1>2. CASE AddTypes
  <2>1. PICK v : SetField("type", v)  BY <1>2 DEF AddTypes, AppendTo
  <2>2. FieldOK(kind, "type", v)  BY DEF FieldOK, FieldsOf, DateFields
  <2> QED  BY <2>1, <2>2, SetStep
<1>3. CASE AddVerifiableCredential
  <2>1. PICK v : SetField("verifiableCredential", v)
    BY <1>3 DEF AddVerifiableCredential, AppendTo
  <2>2. FieldOK(kind, "verifiableCredential", v)
    BY <1>3 DEF AddVerifiableCredential, FieldOK, FieldsOf, DateFields
  <2> QED  BY <2>1, <2>2, SetStep
<1>4. CASE AddContext("added")  BY <1>4 DEF AddContext, CredentialInv
<1>5. CASE \E s \in Statuses : SetStatus(s)
  <2>1. PICK s : SetStatus(s)  BY <1>5
  <2>2. FieldOK(kind, "credentailStatus", s)
    BY <2>1 DEF SetStatus, FieldOK, FieldsOf, DateFields
  <2>3. DocOK(kind, ("credentailStatus" :> s) @@ doc)  BY <2>2, FieldSet
  <2> QED  BY <2>1, <2>3 DEF SetStatus, CredentialInv
<1> QED  BY <1>1, <1>2, <1>3, <1>4, <1>5

(* A document read from a token, whichever class reads it. *)
LEMMA FromTokenStep ==
    ASSUME CredentialInv, NEW k \in Kinds, FromToken(k)
    PROVE  CredentialInv'
<1>1. PICK t \in token : k \in DOMAIN t.claims /\ Become(k, Read(k, ClaimNames(k, "nbf"), t.claims))
  BY DEF FromToken
<1>2. ClaimsOK(t.kind, t.claims)
  <2>1. TokenOK(t)  BY DEF CredentialInv
  <2>2. PICK c \in DateNames : t.names = ClaimNames(t.kind, c)  BY <2>1 DEF TokenOK
  <2>3. PICK nonce : t.claims = ToJWT(t.kind, t.names, t.doc, nonce, t.meant)
    BY <2>1 DEF TokenOK
  <2> QED  BY <2>1, <2>2, <2>3, TokenClaims DEF TokenOK
<1>3. k = t.kind  BY <1>1, <1>2 DEF ClaimsOK
<1>4. "nbf" \in DateNames  BY DEF DateNames
<1>5. DocOK(k, Read(k, ClaimNames(k, "nbf"), t.claims))
  BY <1>2, <1>3, <1>4, ReadIsDocument
<1> QED  BY <1>1, <1>5, BecomeStep

(* Signing the document the application has. *)
LEMMA SignStep ==
    ASSUME CredentialInv, NEW nonce \in Nonces,
           SignDeprecated(nonce) \/ \E claim \in NewJwts : Sign(nonce, claim) \/ SignWithJwt(nonce, claim)
    PROVE  CredentialInv'
<1> kind \in Kinds /\ DocOK(kind, doc)  BY DEF CredentialInv
<1>0. "nbf" \in DateNames /\ "iat" \in DateNames  BY DEF DateNames
<1>1. CASE \E claim \in NewJwts : Sign(nonce, claim)
  <2>1. PICK claim \in NewJwts : Sign(nonce, claim)  BY <1>1
  <2>2. TokenOK(Token(kind, ClaimNames(kind, "nbf"), doc, nonce, claim, Empty))
    BY <1>0, TokenMade, LentClaims
  <2> QED  BY <2>1, <2>2 DEF Sign, CredentialInv
<1>2. CASE SignDeprecated(nonce)
  <2>1. TokenOK(Token(kind, ClaimNames(kind, "iat"), doc, nonce, Empty, Empty))
    BY <1>0, TokenMade, LentClaims
  <2> QED  BY <1>2, <2>1 DEF SignDeprecated, CredentialInv
<1>3. CASE \E claim \in NewJwts : SignWithJwt(nonce, claim)
  <2>1. PICK claim \in NewJwts : SignWithJwt(nonce, claim)  BY <1>3
  <2> DEFINE d == (AuthorField(kind) :> Did) @@ doc
  <2>2. FieldOK(kind, AuthorField(kind), Did)
    BY DEF FieldOK, FieldsOf, DateFields, AuthorField, Kinds
  <2>3. DocOK(kind, d)  BY <2>2, FieldSet
  <2>4. doc' = d /\ kind' = kind
        /\ token' = {Token(kind, ClaimNames(kind, "nbf"), d, nonce, claim, Empty)}
    BY <2>1 DEF SignWithJwt
  <2> HIDE DEF d
  <2>5. TokenOK(Token(kind, ClaimNames(kind, "nbf"), d, nonce, claim, Empty))
    BY <1>0, <2>3, TokenMade, LentClaims
  <2> QED  BY <2>3, <2>4, <2>5 DEF CredentialInv
<1> QED  BY <1>1, <1>2, <1>3

(* The wallet issues a credential or a presentation. *)
LEMMA IssueStep ==
    ASSUME CredentialInv, Issue
    PROVE  CredentialInv'
<1> kind \in Kinds /\ DocOK(kind, doc)  BY DEF CredentialInv
<1>0. "nbf" \in DateNames /\ "vc" \in Kinds /\ "vp" \in Kinds  BY DEF DateNames, Kinds
<1>1. PICK id \in Optional(Ids), issued \in Optional(Times), expires \in Optional(Times),
           nonce \in Nonces :
         \/ \E s \in Subjects : IssueCredential(id, issued, expires, nonce, s)
         \/ IssuePresentation(id, issued, expires, nonce)
  BY DEF Issue
<1>2. issued \in SUBSET Times /\ expires \in SUBSET Times  BY DEF Optional
<1>3. CASE \E s \in Subjects : IssueCredential(id, issued, expires, nonce, s)
  <2>1. PICK s \in Subjects : IssueCredential(id, issued, expires, nonce, s)  BY <1>3
  <2> DEFINE p == ("id" :> Owner) @@ s
             I == {Seconds(t) : t \in issued}
             E == {Seconds(t) : t \in expires}
             h == ("credentialSubject" :> p) @@ ("issuer" :> Did)
             d == h @@ Given("id", id) @@ Given("issuanceDate", I) @@ Given("expirationDate", E)
                    @@ NewDoc("vc")
  <2>2. SubjectOK(p)
    <3>1. SubjectOK(s) /\ IsDictionary(s)
      BY CredentialAssumption DEF SubjectOK, IsFn, IsDictionary
    <3> QED  BY <3>1, SubjectOfId
  <2>3. I \subseteq Nat /\ E \subseteq Nat  BY <1>2, SecondsAreNumbers
  <2>4. d = ("credentialSubject" :> p) @@ (("issuer" :> Did) @@ (Given("id", id)
               @@ (Given("issuanceDate", I) @@ (Given("expirationDate", E) @@ NewDoc("vc")))))
    <3> DEFINE g1 == Given("id", id)
               g2 == Given("issuanceDate", I)
               g3 == Given("expirationDate", E)
               g4 == NewDoc("vc")
               c1 == "credentialSubject" :> p
               c2 == "issuer" :> Did
    <3> HIDE DEF g1, g2, g3, g4, c1, c2
    <3>1. c1 @@ c2 @@ g1 @@ g2 @@ g3 @@ g4 = c1 @@ c2 @@ g1 @@ g2 @@ (g3 @@ g4)  BY MergeAssociates
    <3>2. @ = c1 @@ c2 @@ g1 @@ (g2 @@ (g3 @@ g4))  BY MergeAssociates
    <3>3. @ = c1 @@ c2 @@ (g1 @@ (g2 @@ (g3 @@ g4)))  BY MergeAssociates
    <3>4. @ = c1 @@ (c2 @@ (g1 @@ (g2 @@ (g3 @@ g4))))  BY MergeAssociates
    <3> QED  BY <3>1, <3>2, <3>3, <3>4 DEF g1, g2, g3, g4, c1, c2
  <2>5. DocOK("vc", d)
    <3> HIDE DEF p, I, E
    <3> DEFINE d1 == Given("expirationDate", E) @@ NewDoc("vc")
               d2 == Given("issuanceDate", I) @@ d1
               d3 == Given("id", id) @@ d2
               d4 == ("issuer" :> Did) @@ d3
    <3>1. DocOK("vc", NewDoc("vc"))  BY <1>0, NewIsDocument
    <3>2. \A v \in E : FieldOK("vc", "expirationDate", v)
      BY <2>3 DEF FieldOK, FieldsOf, DateFields
    <3>3. DocOK("vc", d1)  BY <3>1, <3>2, OptionalField
    <3>4. \A v \in I : FieldOK("vc", "issuanceDate", v)
      BY <2>3 DEF FieldOK, FieldsOf, DateFields
    <3> HIDE DEF d1
    <3>5. DocOK("vc", d2)  BY <3>3, <3>4, OptionalField
    <3> HIDE DEF d2
    <3>6. \A v \in id : FieldOK("vc", "id", v)  BY DEF FieldOK, FieldsOf, DateFields
    <3>7. DocOK("vc", d3)  BY <3>5, <3>6, OptionalField
    <3> HIDE DEF d3
    <3>8. FieldOK("vc", "issuer", Did)  BY DEF FieldOK, FieldsOf, DateFields
    <3>9. DocOK("vc", d4)  BY <3>7, <3>8, FieldSet
    <3> HIDE DEF d4
    <3>10. FieldOK("vc", "credentialSubject", p)
      BY <2>2 DEF FieldOK, FieldsOf, DateFields
    <3>11. DocOK("vc", ("credentialSubject" :> p) @@ d4)  BY <3>9, <3>10, FieldSet
    <3> QED  BY <2>4, <3>11 DEF d1, d2, d3, d4
  <2>6. token' = {Token("vc", ClaimNames("vc", "nbf"), d, nonce, Empty, s)}
        /\ UNCHANGED <<kind, doc>>
    BY <2>1 DEF IssueCredential
  <2> HIDE DEF d
  <2>7. TokenOK(Token("vc", ClaimNames("vc", "nbf"), d, nonce, Empty, s))
    BY <1>0, <2>5, TokenMade, LentClaims
  <2> QED  BY <2>6, <2>7 DEF CredentialInv
<1>4. CASE IssuePresentation(id, issued, expires, nonce)
  <2> DEFINE d == IssuedPresentation(id)
             b == IssuedClaims(issued, expires)
  <2>1. DocOK("vp", d)
    <3> DEFINE d1 == Given("id", id) @@ NewDoc("vp")
    <3>1. DocOK("vp", NewDoc("vp"))  BY <1>0, NewIsDocument
    <3>2. \A v \in id : FieldOK("vp", "id", v)  BY DEF FieldOK, FieldsOf, DateFields
    <3>3. DocOK("vp", d1)  BY <3>1, <3>2, OptionalField
    <3>4. FieldOK("vp", "holder", Did)  BY DEF FieldOK, FieldsOf, DateFields
    <3> HIDE DEF d1
    <3>5. DocOK("vp", ("holder" :> Did) @@ d1)  BY <3>3, <3>4, FieldSet
    <3>6. d = ("holder" :> Did) @@ (Given("id", id) @@ NewDoc("vp"))
      BY DEF IssuedPresentation, @@
    <3> QED  BY <3>5, <3>6 DEF d1
  <2>2. JwtOK(b)  BY <1>2, LentClaims
  <2>3. token' = {Token("vp", ClaimNames("vp", "nbf"), d, nonce, b, Empty)}
        /\ UNCHANGED <<kind, doc>>
    BY <1>4 DEF IssuePresentation
  <2> HIDE DEF d, b
  <2>4. TokenOK(Token("vp", ClaimNames("vp", "nbf"), d, nonce, b, Empty))
    BY <1>0, <2>1, <2>2, TokenMade
  <2> QED  BY <2>3, <2>4 DEF CredentialInv
<1> QED  BY <1>1, <1>3, <1>4

(* Every step keeps the invariant. *)
LEMMA CredentialStep == CredentialInv /\ [Next]_vars => CredentialInv'
<1> SUFFICES ASSUME CredentialInv, [Next]_vars  PROVE CredentialInv'
  OBVIOUS
<1>1. CASE \E k \in Kinds : New(k)
  BY <1>1, NewIsDocument, BecomeStep DEF New
<1>2. CASE \E k \in Kinds : FromToken(k)  BY <1>2, FromTokenStep
<1>3. CASE Edit  BY <1>3, EditStep
<1>4. CASE FromJson \/ AddTypes \/ AddVerifiableCredential \/ AddContext("added")
              \/ \E s \in Statuses : SetStatus(s)
  BY <1>4, OtherEditsStep
<1>5. CASE \E nonce \in Nonces :
              \/ SignDeprecated(nonce)
              \/ \E claim \in NewJwts : Sign(nonce, claim) \/ SignWithJwt(nonce, claim)
  BY <1>5, SignStep
<1>6. CASE Issue  BY <1>6, IssueStep
<1>7. CASE UNCHANGED vars  BY <1>7 DEF vars, CredentialInv
<1> QED  BY <1>1, <1>2, <1>3, <1>4, <1>5, <1>6, <1>7 DEF Next

(* Whatever the application does, it has documents and tokens of them. *)
THEOREM CredentialInductive == Spec => []CredentialInv
BY CredentialInit, CredentialStep, PTL DEF Spec

-----------------------------------------------------------------------------
(* What follows. *)

(* The claims of a token of the application are well formed. *)
LEMMA TokenHasClaims ==
    ASSUME NEW t, TokenOK(t)
    PROVE  ClaimsOK(t.kind, t.claims)
<1>1. PICK c \in DateNames : t.names = ClaimNames(t.kind, c)  BY DEF TokenOK
<1>2. PICK nonce : t.claims = ToJWT(t.kind, t.names, t.doc, nonce, t.meant)
  BY DEF TokenOK
<1> QED  BY <1>1, <1>2, TokenClaims DEF TokenOK

(* No claim of a token is unknown, unless it was given along. *)
LEMMA TokenNames ==
    ASSUME NEW t, TokenOK(t)
    PROVE  DOMAIN t.claims \subseteq ClaimSet \cup DOMAIN t.meant
<1>1. PICK c \in DateNames : t.names = ClaimNames(t.kind, c)  BY DEF TokenOK
<1>2. PICK nonce : t.claims = ToJWT(t.kind, t.names, t.doc, nonce, t.meant)
  BY DEF TokenOK
<1>3. Says(t.kind, t.names, t.doc, t.meant, t.claims)
  BY <1>1, <1>2, WhatATokenSays DEF TokenOK
<1> QED  BY <1>3 DEF Says, ClaimSet, TokenOK, Kinds

(* Documents have known fields, tokens known claims beside those that were *)
(* given along, and every date in a registered claim is a number: a date that toJWT cannot parse stays in   *)
(* the document.                                                           *)
THEOREM ClaimsAreTyped == Spec => []TypeOK
<1>1. CredentialInv => TypeOK
  <2> SUFFICES ASSUME CredentialInv  PROVE TypeOK
    OBVIOUS
  <2>1. \A k \in Kinds : FieldsOf(k) \subseteq Fields  BY DEF FieldsOf, Fields
  <2>2. kind \in Kinds /\ DOMAIN doc \subseteq Fields  BY <2>1 DEF CredentialInv, DocOK
  <2>3. ASSUME NEW t \in token
        PROVE  /\ DOMAIN t.claims \subseteq ClaimSet \cup DOMAIN t.meant
               /\ DOMAIN t.claims[t.kind] \subseteq Fields
               /\ \A c \in DOMAIN t.claims \cap DateClaims : t.claims[c] \in Nat
    <3>1. t.kind \in Kinds /\ ClaimsOK(t.kind, t.claims)
      BY TokenHasClaims DEF CredentialInv, TokenOK
    <3> QED  BY <2>1, <3>1, TokenNames DEF ClaimsOK, DocOK, CredentialInv
  <2> QED  BY <2>2, <2>3 DEF TypeOK
<1> QED  BY <1>1, CredentialInductive, PTL

(* Reading a token back gives the document that was signed (sign, toJWT    *)
(* and the initializers that take a JWS), whatever it holds and whatever   *)
(* issuer, subject, id, times and other claims the application's JWT has:  *)
(* they add what the document does not say, and only an author that is no  *)
(* URL is lost.                                                            *)
THEOREM TokensReadBack == Spec => []RoundTrip
<1>1. CredentialInv => RoundTrip
  <2> SUFFICES ASSUME CredentialInv, NEW t \in token
               PROVE  Read(t.kind, t.names, t.claims) = Presented(t.kind, t.names, t.doc, t.meant)
    BY DEF RoundTrip
  <2>1. TokenOK(t)  BY DEF CredentialInv
  <2>2. PICK c \in DateNames : t.names = ClaimNames(t.kind, c)  BY <2>1 DEF TokenOK
  <2>3. PICK nonce : t.claims = ToJWT(t.kind, t.names, t.doc, nonce, t.meant)
    BY <2>1 DEF TokenOK
  <2> QED  BY <2>1, <2>2, <2>3, ReadsBack DEF TokenOK
<1> QED  BY <1>1, CredentialInductive, PTL

(* A document that was read, signed again and read again is the same, even *)
(* when the deprecated class signed the token that was read first.         *)
THEOREM PassingOnLosesNothing == Spec => []ReadingIsStable
<1>1. CredentialInv => ReadingIsStable
  <2> SUFFICES ASSUME CredentialInv, NEW t \in token
               PROVE  LET names == ClaimNames(t.kind, "nbf")
                          read == Read(t.kind, names, t.claims)
                      IN  Read(t.kind, names, ToJWT(t.kind, names, read, {}, Empty)) = read
    BY DEF ReadingIsStable
  <2> DEFINE k == t.kind
             n == ClaimNames(k, "nbf")
             r == Read(k, n, t.claims)
  <2>1. k \in Kinds /\ ClaimsOK(k, t.claims)
    BY TokenHasClaims DEF CredentialInv, TokenOK
  <2>2. "nbf" \in DateNames  BY DEF DateNames
  <2> HIDE DEF k
  <2>3. /\ DocOK(k, r)
        /\ AuthorField(k) \in DOMAIN r =>
              r[AuthorField(k)] # NotAUrl \/ r[AuthorField(k)] = OtherFormat
    BY <2>1, <2>2, ReadIsDocument
  <2> HIDE DEF r
  <2>4. Read(k, n, ToJWT(k, n, r, {}, Empty)) = Presented(k, n, r, Empty)
    BY <2>1, <2>2, <2>3, ReadsBack, LentClaims
  <2>5. Presented(k, n, r, Empty) = r  BY <2>1, <2>2, <2>3, PresentedWhole
  <2>6. Read(k, n, ToJWT(k, n, r, {}, Empty)) = r  BY <2>4, <2>5
  <2> QED  BY <2>6 DEF r, k
<1> QED  BY <1>1, CredentialInductive, PTL

===============================================================================
