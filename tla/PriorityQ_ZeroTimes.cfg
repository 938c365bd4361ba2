SPECIFICATION Spec
CONSTANTS
    Elem = {e1, e2}
    Input <- MCInput
    IntHalf <- MCIntHalf
    Garbage <- MCGarbage
    MaxTime = 5
INVARIANTS
    ZeroTimesIsEndless
