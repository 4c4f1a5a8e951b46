-------------------------- MODULE MCExternalSignature --------------------------
(* Values of the constants of ExternalSignature for TLC. *)
EXTENDS ExternalSignature

CONSTANTS a, b

\* both ends of the range and of its lower half, the largest number of one and of
\* three bytes without and the least with a leading zero in DER, a byte less than full
MCScalars == {1, 31, 32, 131071, 131072, Order \div 2, (Order \div 2) + 1, Order - 1}

ASSUME ConversionAssumption == PaddingIsExact /\ DerIsExact

=============================================================================
