CONSTANTS
    a1 = a1
    a2 = a2
    r1 = r1
    r2 = r2
    r3 = r3
    c1 = c1
    c2 = c2
    c3 = c3
    Zero = Zero
    Nobody = Nobody
    Short <- MCShort
    Client <- MCClient
    MaxRuns <- MCMaxRuns
    Nonce <- MCNonce
    Challenge <- MCChallenge

SYMMETRY MCSymmetry

SPECIFICATION Spec

INVARIANTS
    TypeOK
    HonestNeverRejected
    DoneWasAccepted
