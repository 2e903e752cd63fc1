SPECIFICATION Spec
CONSTANTS
    Requests = {r1, r2, r3, r4, r5}
    Ids = {f1, f2}
    NoId = NoId
    NoEntry = NoEntry
    Ctxs = {c1, c2}
    MaxLogs = 2
SYMMETRY Symmetry
INVARIANTS
    TypeOK
    EncodedIsSnapshot
    StorageIsBounded
