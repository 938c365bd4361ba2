SPECIFICATION FairSpec
CONSTANTS
    Writer <- MCWriter
    CompOf <- MCCompOf
    NComp = 2
    NId = 2
    MaxWrites = 1
    MaxReads = 2
    Reader = "python"
    Free = "free"
CHECK_DEADLOCK FALSE
INVARIANT ExportIsCurrent
