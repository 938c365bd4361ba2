SPECIFICATION FairSpec
CONSTANT N = 3
INVARIANTS
    NoUseAfterDestroy
PROPERTIES
    StopEndsProgram
    ImplementsGroup
