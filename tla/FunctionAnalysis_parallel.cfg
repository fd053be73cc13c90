SPECIFICATION Spec
CONSTANTS
    State <- OneFact
    Functions <- ParallelFunctions
    Bottom = Bottom
    Null = Null
INVARIANT
    NothingMergedMeansBottom
