SPECIFICATION Spec
CONSTANTS
    Nullopt = Nullopt
    MaxHeight = 17
    Rooms <- MCRooms
CHECK_DEADLOCK FALSE
INVARIANTS
    TypeOK
    NodesHavePosition
    ErrorFlagAgrees
    AccessorsFind
    AstMeansText
    DrawsTheTree
PROPERTIES
    ImplementsGrammar
    StepsShrink
