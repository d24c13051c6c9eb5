CONSTANTS
    k1 = k1
    k2 = k2
    r1 = r1
    r2 = r2
    r3 = r3
    c1 = c1
    c2 = c2
    Zero = Zero
    Client <- MCClient
    Nonce <- MCNonce
    Challenge <- MCChallenge

SPECIFICATION Spec

INVARIANTS
    TypeOK
    NonceAnsweredOnce
    NeverZeroNonce

PROPERTY ImplementsLedger
