------------------------------ MODULE Credential ------------------------------
(***************************************************************************)
(* Verifiable credentials and presentations (VerifiableSwift/) as an       *)
(* application builds, signs and reads them.  A document is its            *)
(* jsonObject, a function from the names it has; a JWT is its claims.      *)
(* Signing moves some fields of the document into registered claims and    *)
(* reading moves them back.  Signatures themselves are in Attestation.     *)
(***************************************************************************)
EXTENDS Integers, Sequences, Functions

CONSTANTS
    Ids,             \* ids of documents
    Authors,         \* what the application puts as issuer or holder
    NotAUrl,         \* a string URL(string:) has no value for
    Did,             \* DID of the wallet that signs
    Owner,           \* DID of the holder a credential is issued for
    Times,           \* dates, in half seconds since 1970
    OtherFormat,     \* a date text that is not yyyy-MM-dd'T'HH:mm:ss'Z'
    Subjects,        \* dictionaries of claims about a subject
    NotADictionary,  \* a credentialSubject of another shape
    Nonces,          \* {} for no nonce, {n} for nonce n
    Jwts,            \* the claims of JWT objects the application builds
    Statuses,        \* credentialStatus values
    MaxList          \* bound on the lists of a document

(* One entry, and a function with another's entries where it has none.  As *)
(* in the module TLC, whose operators have no definition to reason with.   *)
x :> y == [z \in {x} |-> y]

f @@ g == [x \in DOMAIN f \cup DOMAIN g |-> IF x \in DOMAIN f THEN f[x] ELSE g[x]]

Empty == [x \in {} |-> x]

Without(f, S) == Restrict(f, DOMAIN f \ S)

Kinds == {"vc", "vp"}

IsDictionary(s) == s # NotADictionary

DateClaims == {"nbf", "iat", "exp"}

(* An application sets issuer, subject, audience, expirationTime,          *)
(* notBeforeTime, issuedAt and jwtID of a JWT, and other entries of its    *)
(* claims: the setters give times as numbers and the issuer as a URL, and  *)
(* the names of documents are left to toJWT.                               *)
JwtOK(b) ==
    /\ b = [c \in DOMAIN b |-> b[c]] /\ DOMAIN b \cap Kinds = {}
    /\ \A c \in DOMAIN b \cap DateClaims : b[c] \in Nat
    /\ "iss" \in DOMAIN b => b.iss # NotAUrl

ASSUME CredentialAssumption ==
    /\ Times \subseteq Nat
    /\ OtherFormat \notin Nat
    /\ NotADictionary \notin Subjects
    /\ \A s \in Subjects :
          s = [x \in DOMAIN s |-> s[x]] /\ Without(s, {"id"}) # NotADictionary
    /\ Did # NotAUrl
    /\ \A b \in Jwts : JwtOK(b)
    /\ MaxList \in Nat

VARIABLES
    kind,    \* the class of the object the application works on
    doc,     \* its jsonObject
    given,   \* what was given to credentialStatus and addContexts (history)
    token    \* {the token the last step signed, with what it was made of}

vars == <<kind, doc, given, token>>

-----------------------------------------------------------------------------
(* Fields and claims. *)

(* rfc3339String() and UInt64(timeIntervalSince1970) drop the fraction.    *)
Seconds(t) == t \div 2

(* init(): the base context and the type of the class. *)
NewDoc(k) == ("@context" :> <<"base">>) @@ ("type" :> <<k>>)

(* The claim a field moves to.  The deprecated VerifiableSignVerifier has  *)
(* the issuance date in iat, VerifiableCredential in nbf.                  *)
ClaimNames(k, dateClaim) ==
    IF k = "vc" THEN [id |-> "jti", issuer |-> "iss", issuanceDate |-> dateClaim,
                      expirationDate |-> "exp"]
                ELSE [id |-> "jti", holder |-> "iss"]

AuthorField(k) == IF k = "vc" THEN "issuer" ELSE "holder"

(* Mutant: a date moves whether or not it parses. *)
MovedUnparsed(names, d) == DOMAIN names \cap DOMAIN d

(* A field moves when its getter finds a value: dates only if they parse.  *)
Moved(names, d) == {f \in DOMAIN names \cap DOMAIN d : d[f] # OtherFormat}

SubjectIds(d) ==
    IF "credentialSubject" \in DOMAIN d /\ IsDictionary(d.credentialSubject)
      THEN {d.credentialSubject[x] : x \in DOMAIN d.credentialSubject \cap {"id"}}
      ELSE {}

(* toJWT(nonce:claims:): the claims of the base JWT after the fields of    *)
(* the document were set in it.  A URL that is nil takes iss away.         *)
ToJWT(k, names, d, nonce, base) ==
    LET moved == Moved(names, d)
        own == [c \in {names[f] : f \in moved} |-> d[CHOOSE f \in moved : names[f] = c]]
        sub == [c \in {"sub" : i \in SubjectIds(d)} |-> CHOOSE i \in SubjectIds(d) : TRUE]
        rest == Without(d, moved)
        inner == IF SubjectIds(d) = {} THEN rest
                   ELSE [rest EXCEPT !.credentialSubject = Without(@, {"id"})]
        nil == {c \in {"iss"} \cap DOMAIN own : own[c] = NotAUrl}
    IN  Without(own @@ sub @@ [c \in {"nonce" : n \in nonce} |-> CHOOSE n \in nonce : TRUE]
                    @@ (k :> inner) @@ base, nil)

(* Mutant: the id of the subject is not put back. *)
ReadWithoutOwner(k, names, claims) ==
    [f \in {g \in DOMAIN names : names[g] \in DOMAIN claims} |-> claims[names[f]]] @@ claims[k]

(* Mutant: the types of the token are added to those init() has set. *)
ReadOverInit(k, names, claims) ==
    ("type" :> (<<k>> \o claims[k].type)) @@ ReadWithoutOwner(k, names, claims)

(* init(jws:): the document inside the token, with the claims set over it. *)
Read(k, names, claims) ==
    LET d == [f \in {g \in DOMAIN names : names[g] \in DOMAIN claims} |-> claims[names[f]]]
                 @@ claims[k]
    IN  IF /\ k = "vc" /\ "sub" \in DOMAIN claims /\ "credentialSubject" \in DOMAIN d
           /\ IsDictionary(d.credentialSubject)
          THEN [d EXCEPT !.credentialSubject = ("id" :> claims.sub) @@ @]
          ELSE d

-----------------------------------------------------------------------------

Init ==
    /\ kind = "vc"
    /\ doc = NewDoc("vc")
    /\ given = [status |-> {}, contexts |-> <<"base">>]
    /\ token = {}

(* Another object, made by init(), init(json:) or init(jws:). *)
Become(k, d) ==
    /\ kind' = k
    /\ doc' = d
    /\ given' = [status |-> {}, contexts |-> d["@context"]]
    /\ token' = {}

New(k) == Become(k, NewDoc(k))

(* A document of another issuer may have its dates in another format, and  *)
(* a subject that is no dictionary.                                        *)
FromJson ==
    \/ \E f \in {"issuanceDate", "expirationDate"} :
          Become("vc", (f :> OtherFormat) @@ NewDoc("vc"))
    \/ Become("vc", ("credentialSubject" :> NotADictionary) @@ NewDoc("vc"))

(* VerifiableCredential(jws:), VerifiablePresentation(jws:); a token of    *)
(* the other kind is refused.                                              *)
FromToken(k) ==
    \E t \in token : k \in DOMAIN t.claims /\ Become(k, Read(k, ClaimNames(k, "nbf"), t.claims))

SetField(f, v) ==
    /\ doc' = (f :> v) @@ doc
    /\ token' = {}
    /\ UNCHANGED <<kind, given>>

(* A nil removes the field. *)
ClearField(f) ==
    /\ doc' = Without(doc, {f})
    /\ token' = {}
    /\ UNCHANGED <<kind, given>>

(* The properties id, issuer or holder, issuanceDate, expirationDate and   *)
(* credentialSubject.  The setters of dates ignore nil.                    *)
Edit ==
    \/ \E i \in Ids : SetField("id", i)
    \/ \E a \in Authors : SetField(AuthorField(kind), a)
    \/ \E f \in {"id", AuthorField(kind)} : ClearField(f)
    \/ kind = "vc" /\ \E t \in Times, f \in {"issuanceDate", "expirationDate"} :
          SetField(f, Seconds(t))
    \/ kind = "vc" /\ \E s \in Subjects : SetField("credentialSubject", s)

(* addTypes(types:) and addVerifiableCredential(verifiableCredential:). *)
AppendTo(f, x) ==
    LET list == IF f \in DOMAIN doc THEN doc[f] ELSE <<>> IN
    /\ Len(list) < MaxList
    /\ SetField(f, Append(list, x))

AddTypes == AppendTo("type", "added")

AddVerifiableCredential == kind = "vp" /\ AppendTo("verifiableCredential", "serialized")

(* credentialStatus(id:type:) stores under a misspelled name. *)
SetStatus(s) ==
    /\ kind = "vc"
    /\ doc' = ("credentailStatus" :> s) @@ doc
    /\ given' = [given EXCEPT !.status = {s}]
    /\ token' = {}
    /\ UNCHANGED kind

(* addContexts(contexts:) appends to a copy of the list. *)
AddContext(x) ==
    /\ Len(given.contexts) < MaxList
    /\ given' = [given EXCEPT !.contexts = Append(@, x)]
    /\ token' = {}
    /\ UNCHANGED <<kind, doc>>

-----------------------------------------------------------------------------
(* Tokens. *)

(* A token with the document, the claims its caller meant to go with it,   *)
(* and the claims about the subject the caller asked for.                  *)
Token(k, names, d, nonce, meant, asked) ==
    [kind |-> k, names |-> names, doc |-> d, meant |-> meant, asked |-> asked,
     claims |-> ToJWT(k, names, d, nonce, meant)]

(* The JWT that claims go with is new, or nil: toJWT leaves its claims in  *)
(* it, and one that was signed with before would bring those of the        *)
(* earlier document along.                                                 *)
NewJwts == {Empty} \cup Jwts

(* Verifiable.sign(kid:nonce:signer:baseClaims:) and the one without. *)
Sign(nonce, claim) ==
    /\ token' = {Token(kind, ClaimNames(kind, "nbf"), doc, nonce, claim, Empty)}
    /\ UNCHANGED <<kind, doc, given>>

(* MetaWallet.sign(verifiable:nonce:claim:): the wallet is the issuer or   *)
(* holder.                                                                 *)
SignWithJwt(nonce, claim) ==
    LET d == (AuthorField(kind) :> Did) @@ doc IN
    /\ doc' = d
    /\ token' = {Token(kind, ClaimNames(kind, "nbf"), d, nonce, claim, Empty)}
    /\ UNCHANGED <<kind, given>>

(* The deprecated VerifiableSignVerifier.sign. *)
SignDeprecated(nonce) ==
    /\ token' = {Token(kind, ClaimNames(kind, "iat"), doc, nonce, Empty, Empty)}
    /\ UNCHANGED <<kind, doc, given>>

(* The optional arguments of the functions that issue: {} for nil. *)
Optional(S) == {{}} \cup {{x} : x \in S}

Given(f, value) == [x \in {f : v \in value} |-> CHOOSE v \in value : TRUE]

(* MetaWallet.issueCredential: the owner's DID is the subject's id.        *)
IssueCredential(id, issued, expires, nonce, subjects) ==
    LET d == ("credentialSubject" :> (("id" :> Owner) @@ subjects)) @@ ("issuer" :> Did)
                @@ Given("id", id) @@ Given("issuanceDate", {Seconds(t) : t \in issued})
                @@ Given("expirationDate", {Seconds(t) : t \in expires}) @@ NewDoc("vc")
    IN
    /\ token' = {Token("vc", ClaimNames("vc", "nbf"), d, nonce, Empty, subjects)}
    /\ UNCHANGED <<kind, doc, given>>

IssuedClaims(issued, expires) ==
    Given("nbf", {Seconds(t) : t \in issued}) @@ Given("iat", {Seconds(t) : t \in issued})
        @@ Given("exp", {Seconds(t) : t \in expires})

IssuedPresentation(id) == ("holder" :> Did) @@ Given("id", id) @@ NewDoc("vp")

(* MetaWallet.issuePresentation: the dates go into a new JWT. *)
IssuePresentation(id, issued, expires, nonce) ==
    /\ token' = {Token("vp", ClaimNames("vp", "nbf"), IssuedPresentation(id), nonce,
                       IssuedClaims(issued, expires), Empty)}
    /\ UNCHANGED <<kind, doc, given>>

(* Neither touches the application's objects; it is enough to explore them *)
(* while the application has at hand a new document or one with a status.  *)
Issue ==
    Without(doc, {"credentailStatus"}) = NewDoc(kind) /\ \E id \in Optional(Ids), issued, expires \in Optional(Times), nonce \in Nonces :
        \/ \E s \in Subjects : IssueCredential(id, issued, expires, nonce, s)
        \/ IssuePresentation(id, issued, expires, nonce)

Next ==
    \/ \E k \in Kinds : New(k) \/ FromToken(k)
    \/ FromJson \/ Edit \/ AddTypes \/ AddVerifiableCredential
    \/ (\E s \in Statuses : SetStatus(s)) \/ AddContext("added")
    \/ \E nonce \in Nonces :
          \/ SignDeprecated(nonce)
          \/ \E claim \in NewJwts : Sign(nonce, claim) \/ SignWithJwt(nonce, claim)
    \/ Issue

Spec == Init /\ [][Next]_vars

-----------------------------------------------------------------------------
(* Properties. *)

Fields == {"@context", "type", "id", "issuer", "holder", "issuanceDate", "expirationDate",
           "credentialSubject", "credentailStatus", "verifiableCredential"}

ClaimSet == {"jti", "iss", "nbf", "iat", "exp", "sub", "nonce", "vc", "vp"}

(* Documents have known fields only, claims known names or those that were *)
(* given along, and a date in a registered claim is always a number.       *)
TypeOK ==
    /\ kind \in Kinds /\ DOMAIN doc \subseteq Fields
    /\ \A t \in token :
        /\ DOMAIN t.claims \subseteq ClaimSet \cup DOMAIN t.meant /\ DOMAIN t.claims[t.kind] \subseteq Fields
        /\ \A c \in DOMAIN t.claims \cap DateClaims : t.claims[c] \in Nat

(* What a reader is to find in a token: the fields of the document, and    *)
(* the caller's claims where the document says nothing, its subject among  *)
(* them when the credential describes one without an id.                   *)
Presented(k, names, d, b) ==
    LET says == Moved(names, d)
        lent == {f \in DOMAIN names \ says : names[f] \in DOMAIN b}
        lost == {f \in says : names[f] = "iss" /\ d[f] = NotAUrl}
        describes == "credentialSubject" \in DOMAIN d /\ IsDictionary(d.credentialSubject)
        p == [f \in (DOMAIN d \ lost) \cup lent |-> IF f \in lent THEN b[names[f]] ELSE d[f]]
    IN  IF k = "vc" /\ "sub" \in DOMAIN b /\ describes /\ SubjectIds(d) = {}
          THEN [p EXCEPT !.credentialSubject = ("id" :> b.sub) @@ @]
          ELSE p

(* A token that is read back gives the document that was signed, with its  *)
(* dates and its subject's id, whatever claims the application gave along: *)
(* they add what the document does not say and change nothing it says.     *)
(* Only an author that is no URL is lost.                                  *)
RoundTrip ==
    \A t \in token :
        Read(t.kind, t.names, t.claims) = Presented(t.kind, t.names, t.doc, t.meant)

(* Whatever token a document was read from, signing it again and reading   *)
(* that token gives the same document: passing credentials on loses        *)
(* nothing more.                                                           *)
ReadingIsStable ==
    \A t \in token :
        LET names == ClaimNames(t.kind, "nbf")
            read == Read(t.kind, names, t.claims)
        IN  Read(t.kind, names, ToJWT(t.kind, names, read, {}, Empty)) = read

(* What an application gives is there to be read: getCredentialStatusId()  *)
(* and getCredentialStatusType() read the status credentialStatus(id:type:)*)
(* was given, getContexts() the contexts addContexts was given, and a      *)
(* credential that is issued has every claim given to issueCredential.     *)
(* The weakest form of the three, when all were given: one of them is      *)
(* kept, so that a state that refutes it has lost all three.               *)
StatusOf(d) == {d[f] : f \in DOMAIN d \cap {"credentialStatus"}}

StatusIsRead == StatusOf(doc) = given.status

ContextsAreKept == doc["@context"] = given.contexts

ClaimsAreIssued ==
    \A t \in token : \A x \in DOMAIN t.asked :
        Read(t.kind, t.names, t.claims).credentialSubject[x] = t.asked[x]

SomethingGivenIsKept ==
    given.status # {} /\ Len(given.contexts) > 1 /\ (\E t \in token : t.asked # Empty) =>
        StatusIsRead \/ ContextsAreKept \/ ClaimsAreIssued

=============================================================================
