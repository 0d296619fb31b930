SPECIFICATION Spec
CONSTANTS
    Threads = {t1, t2}
    MaxCalls = 2
    Ok = Ok
    NoLimit = NoLimit
    Requests <- MCRequests
    SymbolOf <- MCSymbolOf
    HasConstant <- MCHasConstant
    Build <- MCBuild
    Reduce <- MCReduce
SYMMETRY ThreadSymmetry
INVARIANTS
    TypeOK
    InternedOnce
PROPERTIES
    ImplementsService
    EntriesStable
