CONSTANTS
    a = a
    b = b
    Mixed = mixed
    Zero = zero
    Taps = 2
    TickGen = 3
    Look = 2
    RxByte = 34
    Sample <- MCSample
    BitTime = 45
    RxTickGen = 11
    Run = 4
SPECIFICATION Lab1Spec
INVARIANTS
    FilterSeesSamples
    NothingLost
    TypeOK
    OutputIsConvolution
    PartialSums
    OutValidInTime
    ExpectedData
    OneReadyPerByte
    ReadyAtTenthLook
PROPERTIES
    ResultsAreSent
    ResultSentInTheEnd
    ImplementsFir
    EverySampleAnswered
    WrongIsRare
