----------------------------- MODULE MCWalletStore -----------------------------
(* Values of the constants of WalletStore for TLC. *)
EXTENDS WalletStore, TLC

CONSTANTS k1, s2, n1, n2, c1, c2, w1

\* k1 has an identity, the signer's and the keys to be generated have none
MCInitialEin == [k \in Keys |-> IF k = k1 THEN 1 ELSE NoEin]

MCNewKey == [c \in Calls |-> IF c = c1 THEN n1 ELSE n2]

MCOneWallet == [c \in Calls |-> w1]

\* an empty wallet and a sound one
MCSound == {[key |-> NoKey, did |-> NoDid], [key |-> k1, did |-> 1]}

\* calls made on the same wallet are alike, each with the key it would generate
CallSymmetry ==
    {[x \in Calls \cup {NewKey[c] : c \in Calls} |->
        IF x \in Calls THEN p[x] ELSE NewKey[p[CHOOSE c \in Calls : NewKey[c] = x]]] :
     p \in Permutations(Calls)}

=============================================================================
