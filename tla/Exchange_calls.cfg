\* Two clients call at the same time; rows, queries, clients and the server fail.
SPECIFICATION FairSpec
CONSTANTS
    c1 = c1
    c2 = c2
    Clients = {c1, c2}
    Elements = {"alice", "bob"}
    Listed <- MCListed
    Registered <- MCRegistered
    Named = {"bob"}
    Buffer = 3
    Chunks = {"number", "zero", "text"}
    AffCounts = {0, 1}
    Faults = {"query", "scan", "cursor", "break", "crash"}
    Free = free
    Lost = lost
    MaxCalls = 2
    MaxCrashes = 1
\* A lost connection stops every handler
CHECK_DEADLOCK FALSE
INVARIANT ListingComplete
INVARIANT SuccessAgrees
INVARIANT ErrorHasCause
INVARIANT AddedIsCreated
INVARIANT StreamsTheListing
PROPERTY EveryCallReturns
