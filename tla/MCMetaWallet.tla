----------------------------- MODULE MCMetaWallet -----------------------------
(* Values of the constants of MetaWallet for TLC. *)
EXTENDS MetaWallet, TLC

CONSTANTS k1, s1, s2, n1, n2, n3, c1, c2, c3, w1

\* k1 and the signer's key s1 have an identity, s2 and the keys to be generated have none
MCInitialEin == [k \in Keys |-> CASE k = k1 -> 1 [] k = s1 -> 2 [] OTHER -> NoEin]

\* each call would generate a key of its own
MCNewKey == [c \in Calls |-> CASE c = c1 -> n1 [] c = c2 -> n2 [] OTHER -> n3]

MCOneWallet == [c \in Calls |-> w1]

\* an empty wallet, a sound one, and wallets whose DID is another key's or no DID
MCStored == {[key |-> NoKey, did |-> NoDid], [key |-> k1, did |-> 1],
             [key |-> k1, did |-> 2], [key |-> k1, did |-> ForeignDid]}

\* an empty wallet and a sound one
MCSound == {[key |-> NoKey, did |-> NoDid], [key |-> k1, did |-> 1]}

\* a sound wallet only
MCOneSound == {[key |-> k1, did |-> 1]}

\* calls made on the same wallet are alike, each with the key it would generate
CallSymmetry ==
    {[x \in Calls \cup {NewKey[c] : c \in Calls} |->
        IF x \in Calls THEN p[x] ELSE NewKey[p[CHOOSE c \in Calls : NewKey[c] = x]]] :
     p \in Permutations(Calls)}

=============================================================================
