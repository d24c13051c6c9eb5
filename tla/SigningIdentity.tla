-------------------------- MODULE SigningIdentity --------------------------
(***************************************************************************)
(* What the trusted authority promises to whoever verifies its signatures: *)
(* one RSA key, created once, kept for ever, behind every signature.       *)
(***************************************************************************)

CONSTANTS
    RsaKey,     \* key pairs
    Challenge,  \* challenges to sign
    NoKey       \* no key was created yet

VARIABLES
    key,        \* the key of the wallet
    signed      \* signatures handed out

Init ==
    /\ key = NoKey
    /\ signed = {}

Create(p) ==
    /\ key = NoKey
    /\ key' = p
    /\ UNCHANGED signed

Sign(c) ==
    /\ key # NoKey
    /\ signed' = signed \union {[c |-> c, key |-> key]}
    /\ UNCHANGED key

Next ==
    \/ \E p \in RsaKey : Create(p)
    \/ \E c \in Challenge : Sign(c)

Spec == Init /\ [][Next]_<<key, signed>>

=============================================================================
