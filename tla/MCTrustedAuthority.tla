------------------------- MODULE MCTrustedAuthority -------------------------
(***************************************************************************)
(* Three instances, two owners, two keys and one challenge.                *)
(***************************************************************************)
EXTENDS TrustedAuthority, TLC

CONSTANTS k1, k2, k3, p1, p2, ch

MCClient == {k1, k2, k3}
MCIdentity == {"Dupont", "Martin"}
MCRsaKey == {p1, p2}
MCChallenge == {ch}

\* Neither the clients nor the keys are told apart by any definition.
MCSymmetry == Permutations(MCClient) \union Permutations(MCRsaKey)

=============================================================================
