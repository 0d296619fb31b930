SPECIFICATION Spec
CONSTANTS
    Threads = {t1, t2}
    MaxCalls = 1
    Ok = Ok
    NoLimit = NoLimit
    Requests <- CollidingRequests
    SymbolOf <- MCSymbolOf
    HasConstant <- MCHasConstant
    Build <- MCBuild
    Reduce <- MCReduce
INVARIANTS
    BasisOfAlphabet
