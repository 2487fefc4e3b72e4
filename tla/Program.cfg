SPECIFICATION FairProgramSpec
CONSTANTS
    MaxBlocks = 10
    Fields <- MCFields
    MaxRequests = 2
    MaxReady = 1
    MaxWindow = 2
    Names = {a, b}
    Values = {v, w}
    None = None
    Junk = Junk
    MaxBatch = 2
    MaxSets = 2
    MaxStarts = 3
INVARIANTS BlocksWhole AtMostOneLost InputWhole LatestFirst
PROPERTIES WriteReturns LoopServes
CHECK_DEADLOCK FALSE
