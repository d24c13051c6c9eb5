---------------------------- MODULE SigmaLedger ----------------------------
(***************************************************************************)
(* What a prover of an interactive Schnorr identification promises its     *)
(* clients, whatever its sessions, buffers and failures look like: a nonce *)
(* r is issued once (as the commitment u = r.G), it may be given up, and   *)
(* it is answered for at most one challenge.  Two answers for one nonce    *)
(* would let anybody solve z1 - z2 = (c1 - c2).x for the secret key x.     *)
(*                                                                         *)
(* IzkpTA implements this specification (see IzkpTAProofs).                *)
(***************************************************************************)

CONSTANTS
    Nonce,      \* scalars r the key generator can return
    Challenge   \* challenges c a verifier can send

VARIABLES
    issued,     \* nonces whose commitment was handed out
    pending,    \* nonces that may still be answered
    answered    \* pairs (r, c) for which a response z was handed out

ledgerVars == <<issued, pending, answered>>

Answer == [r : Nonce, c : Challenge]

Init ==
    /\ issued = {}
    /\ pending = {}
    /\ answered = {}

(***************************************************************************)
(* A commitment to a nonce never used before; nonces it replaces are given *)
(* up.                                                                     *)
(***************************************************************************)
Issue(r, dropped) ==
    /\ r \in Nonce \ issued
    /\ dropped \subseteq pending
    /\ issued' = issued \union {r}
    /\ pending' = (pending \ dropped) \union {r}
    /\ UNCHANGED answered

\* One answer for a pending nonce, which is then spent.
Respond(r, c) ==
    /\ r \in pending
    /\ c \in Challenge
    /\ pending' = pending \ {r}
    /\ answered' = answered \union {[r |-> r, c |-> c]}
    /\ UNCHANGED issued

\* A session ends or fails: its nonce can no longer be answered.
GiveUp(r) ==
    /\ r \in pending
    /\ pending' = pending \ {r}
    /\ UNCHANGED <<issued, answered>>

Next ==
    \/ \E r \in Nonce, dropped \in SUBSET pending : Issue(r, dropped)
    \/ \E r \in Nonce, c \in Challenge : Respond(r, c)
    \/ \E r \in Nonce : GiveUp(r)

Spec == Init /\ [][Next]_ledgerVars

=============================================================================
