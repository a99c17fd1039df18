\* One handler at a time, and a server that may stop anywhere.
SPECIFICATION FairSpec
CONSTANTS
    mgr = mgr
    user = user
    Segments <- MCSegments
    Names <- MCNames
    Like <- MCExact
    Ids <- MCIds
    Managers = {mgr}
    Roles <- MCRoles
    Configured <- MCConfigured
    ConfiguredHome <- MCHome
    Requests = {r1}
    Ops = {"add", "delete", "rename", "register", "modify", "restart"}
    Added <- MCNames
    Renames <- MCRenames
    AffRemove = TRUE
    IdRemove = TRUE
    Gone = gone
INVARIANT ParentsExist
INVARIANT NoDanglingIdentity
INVARIANT ConnectionReturned
PROPERTY EveryRequestEnds
