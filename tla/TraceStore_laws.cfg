SPECIFICATION MCSpec
CONSTANTS
    Owners <- MCOwners
    PathOrder <- MCPathOrder
    AppendCalls <- MCAppends
    PublishCalls <- MCPublishes
    Requests <- MCRequests
    Scenarios = {"batches", "cuts", "closures"}
INVARIANTS
    TypeOK
    PathsContiguous
    CommitNumbersGapFree
    CausalGraphIsSound
    WitnessedToRoot
    ReceiptsAreDurable
    EventsTellCommits
    FrontiersHold
    CutsReadTheSame
    ClosuresAreExact
    AnswersAreWhole
PROPERTIES
    AppendOnly
    ImplementsTraceLog
