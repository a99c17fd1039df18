\* Three authorities below each other, a client with two commands, two troubles.
SPECIFICATION FairSpec
CONSTANTS
    Authorities = {"root", "int", "sub"}
    Root = "root"
    Clients = {"home"}
    Commands = {"p", "q"}
    Home <- MCHome
    Parent <- MCParent
    ParentFirst = {"sub"}
    Allowance <- MCAllowance
    MaxCerts <- MCMaxCerts
    MaxTrouble = 2
    NoFile = NoFile
    Torn = Torn
INVARIANT TypeOK
INVARIANT KeyAtHand
INVARIANT ServesItsChain
INVARIANT HonoursItsOwn
INVARIANT VerifiedIsOwn
INVARIANT HomeVerifies
PROPERTY EventuallyRuns
