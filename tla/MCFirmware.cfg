CONSTANTS
    WordMod = 4
    SizeMod = 4
    NumMod = 4
    Num = 2
    Size = 2
    RightBuf = 1
    LeftBuf = 20
    OutBuf = 6
    Recorded <- MCRecorded
    BusNoise = {0}
    Depth = 4
    BUF_THRESHOLD = 3
    BUF_SIZE = 14
    N = 2
    MaxLate = 1
    Patient = TRUE
    Packets <- MCPackets
    MaxFifo = 2
SPECIFICATION FirmwareSpec
INVARIANTS
    MeanTypeOK
    RequestsInBounds
    AllChunksRequested
    TypeOK
    RequestsArmed
    BarsInStep
    ShownUnlessRaced
PROPERTIES
    RunEnds
    StormOnlyByMain
    RecordingCompletes
    PlaybackCompletes
    Aligned
    EnabledInTheEnd
