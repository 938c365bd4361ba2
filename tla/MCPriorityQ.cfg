SPECIFICATION Spec
CONSTANTS
    Elem = {e1, e2}
    Input <- MCInput
    IntHalf <- MCIntHalf
    Garbage <- MCGarbage
    MaxTime = 8
INVARIANTS
    ValueSchedule
    NoOutOfRange
    BoundedBypass
PROPERTIES
    NoInvocationLost
    DueOrder
    ImplementsSchedule
