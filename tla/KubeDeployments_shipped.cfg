SPECIFICATION Spec
CONSTANTS
    Requests = {r1, r2, r3}
    Names = {default, web}
    Namespaces = {default, web}
    Default = default
    Configured = default
    Absent = Absent
    Replicas <- Counts
    MaxVersion = 3
SYMMETRY Symmetry
INVARIANTS
    TypeOK
    ScaleIsReported
    NoLostScale
    CreatedIsListed
