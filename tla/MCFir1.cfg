CONSTANTS
    a = a
    b = b
    zero = zero
    Taps = 4
    Sample = {a, b}
    Zero = zero
SPECIFICATION Spec
INVARIANTS
    OutputIsConvolution
