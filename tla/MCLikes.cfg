CONSTANTS
    u1 = u1
    u2 = u2
    p1 = p1
    c1 = c1
    r1 = r1
    r2 = r2
    r3 = r3
    Users = {u1, u2}
    Posts = {p1}
    Comments = {c1}
    PostOf <- MCPostOf
    Requests = {r1, r2, r3}
    Faults = 2
SPECIFICATION FairSpec
INVARIANTS CountIsLikers ColumnFollowsCount
PROPERTY LikesSettle
CHECK_DEADLOCK FALSE
