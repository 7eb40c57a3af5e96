SPECIFICATION Spec
CONSTANTS
    Windows = {w1, w2}
    Urls = {u1, u2}
    Home = Home
    Nothing = Nothing
SYMMETRY Symmetry
INVARIANTS
    ShownIsOpen
    MemoryIsTabs
    MenuIsForItsTab
PROPERTY ReloadKeepsTabs
