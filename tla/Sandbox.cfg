SPECIFICATION FairSpec
CONSTANTS
    Invocations = {i1, i2}
INVARIANTS
    TypeOK
    NothingLeftRunning
    ExitCodeIsReal
PROPERTIES
    InvocationEnds
    ShutdownEnds
