SPECIFICATION FairSpec
CONSTANTS
    Key <- MCKey
    Motor <- MCMotor
    Document <- YamlDocument
INVARIANT ActionAppliesToItsMotors
