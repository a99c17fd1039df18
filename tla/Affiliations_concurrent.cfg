\* Two managers of different authority change the hierarchy while identities are
\* registered and moved.
SPECIFICATION Spec
CONSTANTS
    mgr = mgr
    user = user
    Segments <- MCSegments
    Names <- MCFewNames
    Like <- MCExact
    Ids <- MCIds
    Managers = {mgr, user}
    Roles <- MCManagersRoles
    Configured <- MCConfigured
    ConfiguredHome <- MCManagersHome
    Requests = {r1, r2}
    Ops = {"add", "delete", "rename", "register", "modify", "restart"}
    Added <- MCFewAdded
    Renames <- MCFewRenames
    AffRemove = TRUE
    IdRemove = TRUE
    Gone = gone
SYMMETRY Symmetry
INVARIANT AttributeInSync
INVARIANT CertificatesHaveOwners
PROPERTY AuthorityRespected
PROPERTY TreeSpec
