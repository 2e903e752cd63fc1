SPECIFICATION Spec
CONSTANTS
    Requests = {r1, r2, r3, r4}
    Ids = {f1, f2}
    NoId = NoId
    Routes = {"create", "list", "get", "invoke", "logs", "delete"}
    MaxLogs = 2
SYMMETRY Symmetry
INVARIANTS
    TypeOK
    LogMatchesCount
    NoLostInvocation
    LogIsHistory
    OldestDroppedFirst
    DeleteIsFinal
    ReadsAreCurrent
