\* Two handlers at a time, every request of a client; a handler may stop halfway.
SPECIFICATION Spec
CONSTANTS
    admin = admin
    user = user
    Ids <- MCIds
    Admin = admin
    Scope <- MCScope
    Requests = {r1, r2}
    Serials = {s1, s2}
    Reasons = {unspecified}
    Cessation = cessation
    CaMax = 1
    ReqMax = {0}
    ReqAttrs = {}
    MaxRows = 2
    UniqueId = FALSE
    Faults = TRUE
    Ops <- HandlerOps
    Together <- HandlerOps
    None = none
SYMMETRY Symmetry
\* The CA may end with nobody left who can authenticate.
CHECK_DEADLOCK FALSE
INVARIANT CounterWithinCALimit
INVARIANT AckedEnrollmentsAreCounted
PROPERTY ExcludedStaysOut
PROPERTY LedgerSpec
