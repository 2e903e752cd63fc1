SPECIFICATION Spec
CONSTANTS
    Invocations = {i1}
INVARIANT
    GracefulShutdownCleansUp
