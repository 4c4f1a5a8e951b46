---------------------------- MODULE MCAttestation ----------------------------
(* Values of the constants of Attestation for TLC. *)
EXTENDS Attestation

CONSTANTS k1, s2, n1, n2, c1, c2, w1, i1, v1

MCInitialEin == [k \in Keys |-> IF k = k1 THEN 1 ELSE NoEin]

MCNewKey == [c \in Calls |-> IF c = c1 THEN n1 ELSE n2]

MCOneWallet == [c \in Calls |-> w1]

MCOneIssuer == [i \in Issues |-> w1]

\* a sound wallet, and one that has a DID and no key
MCStored == {[key |-> k1, did |-> 1], [key |-> NoKey, did |-> 1]}

=============================================================================
