SPECIFICATION FairSpec
CONSTANTS
    U64Max = 7
    A = A
    B = B
    Value = {A, B}
    Missing = Missing
    Unset = Unset
    Bases = {0, 1, 3}
    SourcesOf <- MCSourcesOf
    Requests <- MCRequests
    Excess = 2
INVARIANTS
    BytesInPlace
    OverflowsAtTheTop
    ExactIsComplete
    PrefixRead
PROPERTY
    Terminates
