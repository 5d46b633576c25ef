SPECIFICATION MCFairSpec
CONSTANTS
    Owners <- MCOwners
    PathOrder <- MCPathOrder
    AppendCalls <- MCAppends
    PublishCalls <- MCPublishes
    Requests <- MCRequests
    Scenarios = {"refusals", "prefixes", "endings"}
INVARIANTS
    PrefixesAreSnapshots
PROPERTIES
    EveryCallEnds
