CONSTANTS
    Radix   <- MCRadix
    Text    <- MCText
    Written <- MCWritten
    Foreign <- MCForeign
SPECIFICATION Spec
INVARIANT StopsAtTheEnd
