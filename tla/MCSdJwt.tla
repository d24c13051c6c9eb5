------------------------------ MODULE MCSdJwt ------------------------------
(***************************************************************************)
(* Two clients and one document, so that enrolments and presentations      *)
(* interleave; as in the templates no claim's name occurs in another.  The *)
(* first buffer is too small for a presentation with both claims.          *)
(***************************************************************************)
EXTENDS SdJwt

CONSTANTS c1, c2, d1, k1, k2, a1, a2

MCClient == {c1, c2}
MCDoc == {d1}
MCKey == {k1, k2}
MCClaim == {a1, a2}
MCNamesIn == [c \in MCClaim |-> {c}]

=============================================================================
