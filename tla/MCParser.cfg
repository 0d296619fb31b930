SPECIFICATION Spec
CONSTANTS
    P = 101
    Coeff <- ModField
    Zero = 0
    One = 1
    Plus <- ModPlus
    Minus <- ModMinus
    Times <- ModTimes
    Recip <- ModRecip
    FromInt <- ModFromInt
    None = None
    Fail = Fail
    NegativePowerOfZero = NegativePowerOfZero
    MaxExp = 11
    PowFits <- MCPowFits
    IntegerOf <- MCIntegerOf
    Texts <- MCTexts
INVARIANTS
    GrammarExact
    RoundTrip
