CONSTANTS
    zero = zero
    Taps = 3
    BUF_SIZE = 4
    Recordings = 2
    Sample <- MCSample
    Zero = zero
SPECIFICATION DenoiseSpec
INVARIANTS
    SoftwareInPlace
    HardwareTwoBehind
    TypeOK
    OutputTwoBehind
    SumsInTurn
PROPERTY
    ImplementsParallel
CHECK_DEADLOCK FALSE
