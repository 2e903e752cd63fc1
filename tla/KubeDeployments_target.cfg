SPECIFICATION Spec
CONSTANTS
    Requests = {r1, r2}
    Names = {default, web}
    Namespaces = {default, web}
    Default = default
    Configured = default
    Absent = Absent
    Replicas <- Counts
    MaxVersion = 3
PROPERTY
    WritesWhatIsNamed
