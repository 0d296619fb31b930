SPECIFICATION Spec
CONSTANTS
    P = 101
    Coeff <- ModField
    Zero = 0
    One = 1
    Plus <- ModPlus
    Minus <- ModMinus
    Times <- ModTimes
    Recip <- ModRecip
    FromInt <- ModFromInt
    None = None
    Fail = Fail
    NegativePowerOfZero = NegativePowerOfZero
    MaxExp = 15
    PowFits <- MCPowFits
    Inputs <- MCInputs
    Envs <- MCEnvs
INVARIANTS
    TypeOK
    SameValue
    OrderBlind
    FixpointsCanonical
PROPERTIES
    Shrinks
