SPECIFICATION FairSpec
CONSTANTS
    Requests = {r1, r2}
    Ids = {t, v}
    Template = t
    NoOne = NoOne
    Routes = {"list", "get", "metrics", "create", "start", "stop", "reboot", "delete"}
INVARIANTS
    TypeOK
    CreatedIsWhole
    DeletedIsGone
PROPERTY
    RequestsEnd
