CONSTANTS
    Requests = {r1, r2, r3}
    Max = 2
    Window = 3
    FaultBound = 2
SPECIFICATION FairSpec
INVARIANTS
    OnlyMaxInWindow
    ExpiryIsOnItsWay
PROPERTY
    KeysEnd
    ImplementsFixedWindow
