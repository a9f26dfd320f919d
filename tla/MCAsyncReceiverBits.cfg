CONSTANTS
    BitTime = 109
    RxTickGen = 27
    Run = 11
SPECIFICATION RxSpec
INVARIANT DataReceived
