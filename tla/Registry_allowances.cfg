\* Every operation; two requests at a time where nobody modifies or
\* disables an identity, one at a time otherwise.
SPECIFICATION Spec
CONSTANTS
    admin = admin
    user = user
    Ids <- MCIds
    Admin = admin
    Scope <- MCScope
    Requests = {r1, r2}
    Serials = {s1, s2, s3}
    Reasons = {unspecified}
    Cessation = cessation
    CaMax = 1
    ReqMax <- MCReqMax
    ReqAttrs = {"revoker"}
    MaxRows = 2
    UniqueId = TRUE
    Faults = FALSE
    Ops <- EveryOp
    Together = {"enroll", "register", "revokeSerial", "delete"}
    None = none
SYMMETRY Symmetry
\* The CA may end with nobody left who can authenticate.
CHECK_DEADLOCK FALSE
INVARIANT EnrollmentAllowance
