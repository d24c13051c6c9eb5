------------------------------- MODULE MCIzkp -------------------------------
(***************************************************************************)
(* Two agents, one of them started twice: its second run can meet the      *)
(* table entry an aborted first run left, while the other agent waits in   *)
(* the backlog or holds the only session.  There is one nonce and one      *)
(* challenge for every run, and one of the nonces is short.                *)
(***************************************************************************)
EXTENDS Izkp, TLC

CONSTANTS a1, a2, r1, r2, r3, c1, c2, c3

MCClient == {a1, a2}
MCMaxRuns == a1 :> 2 @@ a2 :> 1
MCNonce == {r1, r2, r3}
MCShort == {r3}
MCChallenge == {c1, c2, c3}

\* Sound for the safety run: full-length nonces and challenges are only compared.
MCSymmetry == Permutations(MCNonce \ MCShort) \union Permutations(MCChallenge)

\* The liveness run: each agent once, and no symmetry.
MCMaxRunsLive == [a \in MCClient |-> 1]
MCNonceLive == {r1, r2}
MCShortLive == {r2}
MCChallengeLive == {c1, c2}

=============================================================================
