SPECIFICATION FairSpec
CONSTANTS
    Key <- MCKey
    Motor <- MCMotor
    Document <- MCDocument
INVARIANTS
    QueueMatchesFile
    EnginesCoverAll
    OneFunctionPerEngine
    ThrowsOnlyOnBadFile
PROPERTIES
    ActionsReachMotors
