CONSTANTS
    NumSlots = 4
    NoType = NoType
    NoDebug = NoDebug
    NoFunction = NoFunction
    NoSlot = NoSlot
    Null = Null
    Modules <- MCModules
SPECIFICATION Spec
INVARIANT SlotsAgree
