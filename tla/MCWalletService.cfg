CONSTANTS
    c1 = c1
    s1 = s1
    s2 = s2
    id1 = id1
    p1 = p1
    p2 = p2
    ch = ch
    NoKey = NoKey
    Absent = Absent
    Blank = Blank
    Nobody = Nobody
    Gone = Gone
    Backlog = 2
    PowerLoss = TRUE
    Client <- MCClient
    Server <- MCServer
    Identity <- MCIdentity
    RsaKey <- MCRsaKey
    Challenge <- MCChallenge

SPECIFICATION Spec

INVARIANTS
    TypeOK
    MarkerMeansWallet
    AloneIsServed

PROPERTY RequestsEnd
