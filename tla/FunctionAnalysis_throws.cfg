SPECIFICATION Spec
CONSTANTS
    State <- OneFact
    Functions <- ThrowingFunctions
    Bottom = Bottom
    Null = Null
INVARIANT
    FunctionExits
