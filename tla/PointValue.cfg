SPECIFICATION Spec
CONSTANTS
    MaxSide = 3
    Sub = 3
    Slack = 2
    Widths = {0, 1, 8, 9, 12, 16, 17, 24, 25, 30, 31}
INVARIANT TypeOK
INVARIANT IndexInGrid
INVARIANT ValueBits
INVARIANT InsideSection
\* extract_value has returned.
CHECK_DEADLOCK FALSE
