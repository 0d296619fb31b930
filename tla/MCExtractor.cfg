SPECIFICATION FairSpec
CONSTANTS
    EGraphs <- MCEGraphs
    UnknownPenalty = 10
    NonIntegrablePenalty = 100
    ConflictPenalty = 1000
    Ties <- MCTies
    TieHash <- MCTieHash
INVARIANTS
    BestDescends
    PenaltyExact
    NumbersStay
PROPERTIES
    Extracts
