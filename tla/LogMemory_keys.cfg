SPECIFICATION Spec
CONSTANTS
    Requests = {r1, r2, r3}
    Ids = {f1, f2}
    NoId = NoId
    NoEntry = NoEntry
    Ctxs = {c1, c2}
    MaxLogs = 2
PROPERTY LogsAreTheFunctions
