SPECIFICATION FairSpec
CONSTANT N = 1
PROPERTY StartIsSafe
