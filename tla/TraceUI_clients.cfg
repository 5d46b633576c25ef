SPECIFICATION MCFairSpec
CONSTANTS
    c1 = c1
    c2 = c2
    x = x
    y = y
    z = z
    w = w
    Owners <- MCOwners
    Ids <- MCIds
    Mode <- MCMode
    CausedBy <- MCCausedBy
    BufferSize = 2
    maxThrough = 9
    Clients <- MCClients
    ServiceOf <- MCServiceOf
    Streamers <- MCClients
    MaxAsks <- MCMaxAsks
    Batches <- MCBatches
    Requests <- MCRequests
    Scenarios = {"streams", "progress", "records"}
INVARIANTS
    BackfilledClientMissesNothing
    StreamsKeepTheirChannels
    ResponsesAreTrue
PROPERTIES
    BackfilledClientsCatchUp
CHECK_DEADLOCK FALSE
