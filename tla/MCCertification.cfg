SPECIFICATION Spec
CONSTANTS
    Users = {u1, u2}
    Roles = {1, 2}
    Ids = {i1, i2, i3}
    Requests = {r1, r2, r3, r4, r5}
SYMMETRY Symmetry
INVARIANTS
    PassCarriesRoles
    RolesAreGranted
    WaitsForOne
PROPERTIES
    StaysCertified
    ImplementsRoleGrants
CHECK_DEADLOCK FALSE
