SPECIFICATION Spec
CONSTANTS
    Params = {a, b}
    MaxTime = 3
    Period = 2
    Unit = 2
    MaxMessages = 3
    Inputs <- MCInputs
INVARIANT ReadOnce
INVARIANT RowsExported
 
PROPERTY ExtractionEnds
\* execute returns once.
CHECK_DEADLOCK FALSE
