\* A database newer than the server.
SPECIFICATION Spec
CONSTANTS
    admin = admin
    user = user
    r1 = r1
    r2 = r2
    Ids = {admin, user}
    Configured <- MCConfigured
    Registrars = {admin, user}
    Duplicated = {}
    Requests = {r1}
    Boot = boot
    Nobody = nobody
    DbTypes = {"sqlite3"}
    InitialLevels = {0,2}
    MaxFaults = 0
PROPERTY LevelsNeverLowered
