\* Two requests at a time of three identities, three requests in all.
SPECIFICATION EnrollSpec
CONSTANTS
    r1 = r1
    r2 = r2
    Texts <- MCTexts
    Reserved <- MCReserved
    Patterns <- MCPatterns
    Prefixed <- MCPrefixed
    IDs = {"admin", "registrar", "new"}
    Types <- MCTypes
    Affiliations <- MCAffiliations
    Root = ""
    Below <- MCBelow
    Configured <- MCConfigured
    Bodies <- MCBodies
    Requests = {r1, r2}
    Unset = "unset"
    MaxCalls = 3
    Enrollments = {"e"}
    Asks <- MCAsks
SYMMETRY MCSymmetry
\* All requests may be over
CHECK_DEADLOCK FALSE
INVARIANT NoNewPower
INVARIANT AttributesAgree
INVARIANT WritesWithinReach
INVARIANT DelegatesWithinRoles
INVARIANT CAIsAuthorized
