SPECIFICATION Spec
CONSTANTS
    Requests = {r1}
    Ids = {t}
    Template = t
    NoOne = NoOne
    Routes = {"start"}
INVARIANT
    ProxmoxFailureIsContained
