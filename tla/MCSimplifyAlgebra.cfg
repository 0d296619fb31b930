SPECIFICATION FairSpec
CONSTANTS
    P = 101
    Coeff <- ModField
    Zero = 0
    One = 1
    Plus <- ModPlus
    Minus <- ModMinus
    Times <- ModTimes
    Recip <- ModRecip
    FromInt <- ModFromInt
    None = None
    Fail = Fail
    NegativePowerOfZero = NegativePowerOfZero
    InvalidExponent = InvalidExponent
    MaxExp = 63
    PowFits <- MCPowFits
    Make <- FoldMake
    Merge <- FoldMerge
    Modify <- FoldModify
    Baselines <- MCBaselines
    Modes = {"Safe", "Aggressive"}
    Bans = {{}, {1}, {3, 9}}
    IterLimit = 3
    Points <- MCPoints
    Opaque <- MCOpaque
    ExponentOf <- MCExponentOf
    Undefined <- MCUndefined
    Names = {1, 2, 3}
    Lowered <- LowerNormal
INVARIANTS
    ClassesSound
    ConstantsExact
    ExponentsStayIntegers
    ValueKept
    NothingLeftToFold
PROPERTIES
    Returns
