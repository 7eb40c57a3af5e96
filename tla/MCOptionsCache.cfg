SPECIFICATION FairSpec
CONSTANTS
    Options = 2
    Values = {a, b}
    NoRow = NoRow
    Nothing = Nothing
    Savers = {s1, s2}
    Readers = {}
    Mailers = {m1, m2}
INVARIANTS
    CopiesFollowTable
PROPERTY MailsEnd
CHECK_DEADLOCK FALSE
