------------------------------- MODULE MCWaiting -------------------------------
(* Values of the constants of Waiting for TLC. *)
EXTENDS Waiting

CONSTANTS j1, j2, j3, j4

MCKind == [j \in Jobs |-> CASE j = j1 -> "create" [] j = j2 -> "removeAddress"
                             [] j = j3 -> "verify" [] OTHER -> "open"]

=============================================================================
