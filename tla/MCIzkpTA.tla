------------------------------ MODULE MCIzkpTA ------------------------------
(***************************************************************************)
(* Two clients, three nonces and two challenges: one nonce can be          *)
(* answered, one replaced and one lost in a failed response, and a second  *)
(* challenge is there for every nonce.                                     *)
(***************************************************************************)
EXTENDS IzkpTA, TLC

CONSTANTS k1, k2, r1, r2, r3, c1, c2

MCClient == {k1, k2}
MCNonce == {r1, r2, r3}
MCChallenge == {c1, c2}

MCSymmetry ==
    Permutations(MCClient) \union Permutations(MCNonce)
                           \union Permutations(MCChallenge)

=============================================================================
