CONSTANTS
    k1 = k1
    k2 = k2
    k3 = k3
    p1 = p1
    p2 = p2
    ch = ch
    NoKey = NoKey
    Absent = Absent
    Blank = Blank
    Nobody = Nobody
    PowerLoss = FALSE
    Client <- MCClient
    Identity <- MCIdentity
    RsaKey <- MCRsaKey
    Challenge <- MCChallenge

SYMMETRY MCSymmetry

SPECIFICATION Spec

INVARIANT BadlyWrittenIsDeleted
