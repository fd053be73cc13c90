CONSTANTS
    NumSlots = 4
    NoType = NoType
    NoDebug = NoDebug
    NoFunction = NoFunction
    NoSlot = NoSlot
    Null = Null
    Modules <- MCModules
SPECIFICATION Spec
INVARIANTS TypeOK SupertypesExact HidesOnlySame DispatchesToNearest
PROPERTY RevisitIdle
