CONSTANTS
    demo = demo
    user = user
    Absent = Absent
    Nobody = Nobody
    Script = demo
    User <- MCUser
    MaxUserCalls = 0

SPECIFICATION Spec

INVARIANT DocumentsDestroyed
