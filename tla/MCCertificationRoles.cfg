SPECIFICATION Spec
CONSTANTS
    Users = {u1}
    Roles = {1, 2}
    Ids = {i1}
    Requests = {r1, r2, r3}
INVARIANT RolesWereApplied
CHECK_DEADLOCK FALSE
