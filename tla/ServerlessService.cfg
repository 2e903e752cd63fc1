SPECIFICATION FairSpec
CONSTANTS
    Requests = {r1, r2, r3}
    Ids = {f1}
    NoId = NoId
    Routes = {"create", "list", "get", "invoke", "logs", "delete"}
    MaxLogs = 1
INVARIANTS
    TypeOK
    WriterIsAlone
PROPERTIES
    ImplementsRegistry
    EveryRequestAnswered
