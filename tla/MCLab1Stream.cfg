CONSTANTS
    a = a
    b = b
    Mixed = mixed
    Zero = zero
    Taps = 2
    TickGen = 3
    Look = 2
    RxByte = 30
    Sample <- MCSample
SPECIFICATION TopSpec
INVARIANT NothingLost
