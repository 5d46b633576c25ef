SPECIFICATION MCSpec
CONSTANTS
    Owners <- MCOwners
    PathOrder <- MCPathOrder
    AppendCalls <- MCAppends
    PublishCalls <- MCPublishes
    Requests <- MCRequests
    Scenarios = {"cuts"}
INVARIANT
    EveryAppendedRecordIsPublished
