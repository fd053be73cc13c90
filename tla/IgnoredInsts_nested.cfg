CONSTANTS
    Bodies <- MCBodies
SPECIFICATION Spec
INVARIANTS CallsOwnSlot
CHECK_DEADLOCK FALSE
