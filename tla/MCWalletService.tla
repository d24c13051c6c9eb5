--------------------------- MODULE MCWalletService ---------------------------
(***************************************************************************)
(* A client that is started, killed and started again, and two servers, so *)
(* that one it left behind still works on its last request and may take    *)
(* the path, or the life, of the next one.                                 *)
(***************************************************************************)
EXTENDS WalletService

CONSTANTS c1, s1, s2, id1, p1, p2, ch

MCClient == {c1}
MCServer == {s1, s2}
MCIdentity == {id1}
MCRsaKey == {p1}
MCChallenge == {ch}

=============================================================================
