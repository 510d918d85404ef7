SPECIFICATION Spec
CONSTANTS
    MaxInt = 3
    MaxHeight = 6
    Handles = {1, 2, 3}
    Addresses <- MCAddresses
    Elsewhere <- MCElsewhere
    NoValue = NoValue
    Trap = Trap
    MaxPasses = 1
    Functions <- MCFunctions
    LaterFunctions <- MCLater
CHECK_DEADLOCK FALSE
INVARIANTS
    SameMeaning
