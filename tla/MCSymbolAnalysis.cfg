SPECIFICATION AwareSpec
CONSTANTS
    P = 101
    Coeff <- ModField
    Zero = 0
    One = 1
    Plus <- ModPlus
    Minus <- ModMinus
    Times <- ModTimes
    Recip <- ModRecip
    FromInt <- ModFromInt
    None = None
    Fail = Fail
    NegativePowerOfZero = NegativePowerOfZero
    InvalidExponent = InvalidExponent
    NotImplemented = NotImplemented
    Outcomes = {}
    Digest <- MCDigest
    Fuel = 1
    WeightLimit = None
    BasisFails <- MCBasisFails
    ExprHash <- MCExprHash
    MaxExp = 63
    PowFits <- MCPowFits
    MakeRepr <- NormalRepr
    ReprFingerprint <- FingerprintOfRepr
    ReprSize <- Size
    ReprBefore <- TextBefore
    Make <- SymMake
    Merge <- SymMerge
    Modify <- SymModify
    Baselines <- MCBaselines
    Modes = {"Safe", "Aggressive"}
    Bans = {{}}
    IterLimit = 2
    Points <- MCPoints
    Opaque <- MCOpaque
    ExponentOf <- MCExponentOf
    Undefined <- MCUndefined
    Names = {1, 2, 3}
    Lowered <- LowerNormal
INVARIANTS
    ReprStandsForClass
    KnownFromRepr
    ValueKept
PROPERTIES
    ReprImproves
    FingerprintDegrades
