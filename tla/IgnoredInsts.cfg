CONSTANTS
    Bodies <- MCBodies
SPECIFICATION Spec
INVARIANTS SkippedClosed EffectsMarked
CHECK_DEADLOCK FALSE
