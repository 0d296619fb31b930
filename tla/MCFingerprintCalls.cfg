SPECIFICATION FairSpec
CONSTANTS
    Threads = {t1, t2}
    MaxCalls = 1
    Ok = Ok
    NoLimit = NoLimit
    Requests <- MCRequests
    SymbolOf <- MCSymbolOf
    HasConstant <- MCHasConstant
    Build <- MCBuild
    Reduce <- MCReduce
PROPERTIES
    CallsReturn
