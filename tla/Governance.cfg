SPECIFICATION Spec
CONSTANTS
    admin = admin
    other = other
    Nobody = Nobody
    Workers = {w1, w2}
    Principals <- MCPrincipals
    Admins <- MCAdmins
    Versions = {1}
    TwoPerson = TRUE
    InitialRoles <- MCRoles
    MaxRequests = 5
INVARIANTS TypeOK FourEyes CriteriaIndependent RevisionsNumbered
PROPERTIES LastOwnerStays
SYMMETRY MCSymmetry
CHECK_DEADLOCK FALSE
