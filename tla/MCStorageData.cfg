CONSTANTS
    k1 = k1
    k2 = k2
    Absent = Absent
    Nobody = Nobody
    Client <- MCClient
    Name <- MCName
    Doc <- MCDoc
    Key <- MCKey
    Value <- MCValue
    Attr <- MCAttr

SPECIFICATION Spec

INVARIANTS
    TypeOK
    IdleHoldsNothing

PROPERTY ImplementsStore
