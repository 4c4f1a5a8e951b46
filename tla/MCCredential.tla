----------------------------- MODULE MCCredential -----------------------------
(* Values of the constants of Credential for TLC. *)
EXTENDS Credential

\* a subject whose own claims include an id, and one without
MCSubjects == {"name" :> "n", ("name" :> "n") @@ ("id" :> "personal")}

\* JWTs with times, with what else a document may say, and with all of it;
\* of the values documents have, or reading would make more documents
MCTimes == {Empty, "exp" :> 1, ("nbf" :> 1) @@ ("iat" :> 2) @@ ("exp" :> 2)}

MCNames == {Empty, "sub" :> "owner", ("jti" :> "u1") @@ ("iss" :> "other"),
            ("sub" :> "owner") @@ ("jti" :> "u1") @@ ("iss" :> "other") @@ ("aud" :> "reader")}

MCJwts == {t @@ n : t \in MCTimes, n \in MCNames}

MCNonces == {{}, {"n1"}}

=============================================================================
