SPECIFICATION Spec
CONSTANTS
    MaxLine = 12
    MaxLines = 2
INVARIANT OutputIsReturned
