CONSTANTS
    k1 = k1
    k2 = k2
    k3 = k3
    p1 = p1
    p2 = p2
    ch = ch
    NoKey = NoKey
    Absent = Absent
    Blank = Blank
    Nobody = Nobody
    PowerLoss = TRUE
    Client <- MCClient
    Identity <- MCIdentity
    RsaKey <- MCRsaKey
    Challenge <- MCChallenge

SYMMETRY MCSymmetry

SPECIFICATION Spec

INVARIANTS
    TypeOK
    InitLeavesWallet
    NoObjectLeftOpen

PROPERTY ImplementsIdentity
