SPECIFICATION FairSpec
CONSTANTS
    MaxLost = 2
    Depth = 2
INVARIANTS
    DriftNeedsLosses
    FunctionsBound
PROPERTIES
    OffPhaseStays
    ExcursionEnds
