SPECIFICATION Spec
CONSTANTS
    Word = 32
    Second = 3
    Requests <- MCRequests
    Configured <- MCConfigured
    Empty = Empty
INVARIANTS TypeOK NewestWins TickerPositive
PROPERTIES OverwritesAtomically TakesEffect
CHECK_DEADLOCK FALSE
