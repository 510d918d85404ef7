SPECIFICATION Spec
CONSTANTS
    MaxInt = 3
    MaxHeight = 6
    Handles = {1, 2, 3}
    Addresses <- MCAddresses
    Elsewhere <- MCElsewhere
    NoValue = NoValue
    Trap = Trap
    MaxPasses = 3
    Functions <- MCFunctions
    LaterFunctions <- MCLater
CHECK_DEADLOCK FALSE
INVARIANTS
    TypeOK
    PreservesMeaning
    KilledOnlyByDeadlyCode
    RemembersOnlyFreed
    NothingLeft
PROPERTIES
    EveryPassEnds
