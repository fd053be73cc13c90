CONSTANTS
    StructType <- MCStructType
    Scalar <- MCScalar
    NameOf <- MCNameOf
    Elements <- MCElements
    NoType = NoType
    Packages <- MCPackages
    SkippedName = {"PolySIM"}
    Renamed118 <- MCRenamed118
    ABIInfo <- MCABIInfo
    Height <- MCHeight
SPECIFICATION Spec
INVARIANTS
    TypeOK
    WholeClasses
    MostDerivedChosen
    FindsNearest
    RightSubobject
    DispatchesAsWhole
    PathIndependent
    AlwaysFound
