\* Renamings, one at a time, also to a parent that does not exist.
SPECIFICATION Spec
CONSTANTS
    mgr = mgr
    user = user
    Segments <- MCSegments
    Names <- MCNames
    Like <- MCExact
    Ids <- MCIds
    Managers = {mgr}
    Roles <- MCRoles
    Configured <- MCConfigured
    ConfiguredHome <- MCHome
    Requests = {r1}
    Ops = {"add", "rename"}
    Added <- MCNames
    Renames <- MCAllRenames
    AffRemove = TRUE
    IdRemove = TRUE
    Gone = gone
INVARIANT ConnectionReturned
