\* Start, failures, crashes and requests that retry.
SPECIFICATION FairSpec
CONSTANTS
    admin = admin
    user = user
    r1 = r1
    r2 = r2
    Ids = {admin, user}
    Configured <- MCConfigured
    Registrars = {admin, user}
    Duplicated = {user}
    Requests = {r1, r2}
    Boot = boot
    Nobody = nobody
    DbTypes = {"sqlite3", "postgres", "mysql"}
    InitialLevels = {0}
    MaxFaults = 2
INVARIANT InitialisedOnce
INVARIANT ServedWhenMigrated
INVARIANT ChosenAttributesKept
PROPERTY EventuallyReady
