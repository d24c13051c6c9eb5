CONSTANTS
    demo = demo
    user = user
    Absent = Absent
    Nobody = Nobody
    Script = demo
    User <- MCUser
    MaxUserCalls = 2

SPECIFICATION FairSpec

INVARIANTS
    TypeOK
    TokenOfItsProfile

PROPERTY DemoEnds
