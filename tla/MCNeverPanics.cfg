SPECIFICATION Spec
CONSTANTS
    Lines <- TableLines
    MaxLines = 3
    Values <- MCValues
INVARIANTS
    NeverPanics
CHECK_DEADLOCK FALSE
