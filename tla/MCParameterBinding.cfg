SPECIFICATION Spec
CONSTANTS
    Char <- MCChar
    Queries <- MCQueries
    Values <- MCValues
    Numeral <- MCNumeral
INVARIANTS
    ArgumentsArrive
    RoundTrip
    
CHECK_DEADLOCK FALSE
