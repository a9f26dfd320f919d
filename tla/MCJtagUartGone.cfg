CONSTANTS
    TickMod = 4
    Period = 2
    Start = 1
    BufLen = 3
    WriteDepth = 2
    ReadDepth = 1
    Threshold = 1
    Timeout = 1
    MaxInactive = 1
    Chars = 6
    MaxCount = 2
    Programs <- MCPrograms
SPECIFICATION FairSpec
PROPERTY ReturnsWithoutHost
