SPECIFICATION Spec
CONSTANTS
    P = 101
    Coeff <- ModField
    Zero = 0
    One = 1
    Plus <- ModPlus
    Minus <- ModMinus
    Times <- ModTimes
    Recip <- ModRecip
    None = None
    Fail = Fail
    NegativePowerOfZero = NegativePowerOfZero
    Samples <- SampleValues
    DlogAt <- MCDlog
    VarsOf <- MCVarsOf
    Jobs <- MCJobs
    Symbols <- MCSymbols
    Elsewhere <- MCElsewhere
INVARIANTS
    TypeOK
    EchelonForm
    EnoughSamples
    NullSpaceExact
    VectorsIntegrable
    CoordinatesCanonical
    CheckMatchesBasis
    ChecksAgree
PROPERTIES
    Progress
