SPECIFICATION FairSpec
CONSTANTS
    Requests = {r1, r2}
    Others = {i1}
    Names = {a}
    NoName = NoName
    Networks = {n}
    NetLists <- Lists
    Hosts = 2
    MaxMade = 2
INVARIANTS
    TypeOK
    CreatedIsOwn
PROPERTIES
    RunningIsKept
    ImplementsSandbox
    ProbingEnds
    ShutdownEnds
