SPECIFICATION Spec
CONSTANTS
    Lines <- AllLines
    MaxLines = 4
    Values <- MCValues
INVARIANTS
    TypeOK
    FirstFatalDecides
    LastTableWins
    LastResultWins
    ColumnsFromHeaders
    StreamWhole
    WellFormedReads
    IndInv
CHECK_DEADLOCK FALSE
