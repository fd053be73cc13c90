SPECIFICATION FairSpec
CONSTANTS
    f1 = f1
    f2 = f2
    f3 = f3
    Func <- Functions3
    Fact <- Facts2
    Effects <- MCEffects
    Programs <- MCPrograms
    Null = Null
INVARIANTS
    TypeOK
    StackDistinct
    SoundCalls
    ExactCalls
PROPERTIES
    FreshMappings
    Termination
