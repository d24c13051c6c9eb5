CONSTANTS
    c1 = c1
    c2 = c2
    d1 = d1
    k1 = k1
    k2 = k2
    a1 = a1
    a2 = a2
    Absent = Absent
    Empty = Empty
    Broken = Broken
    Nobody = Nobody
    InitialBuffer = 1
    Client <- MCClient
    Doc <- MCDoc
    Key <- MCKey
    Claim <- MCClaim
    NamesIn <- MCNamesIn

SPECIFICATION Spec

INVARIANTS
    TypeOK
    SettledIsBound
    RetryFits

PROPERTY RunsEnd
