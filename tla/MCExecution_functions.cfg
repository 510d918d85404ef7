SPECIFICATION Spec
CONSTANTS
    a = a
    b = b
    c = c
    Names <- MCNames
    Values <- MCValues
    MaxStatements = 2
    NoValue = NoValue
SYMMETRY Symmetry
CHECK_DEADLOCK FALSE
INVARIANTS
    TypeOK
    SymbolsOrdered
    ConstantsKeepValue
    ArgumentsDelivered
    ReadsAreInitialized
    NeverUnreachable
