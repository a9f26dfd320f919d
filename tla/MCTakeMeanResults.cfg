CONSTANTS
    WordMod = 4
    SizeMod = 4
    NumMod = 4
    Num = 2
    Size = 2
    RightBuf = 1
    LeftBuf = 20
    OutBuf = 6
    Recorded <- MCRecorded
    BusNoise = {0}
SPECIFICATION MeanFairSpec
PROPERTY
    ResultsInTheEnd
