SPECIFICATION MCSpec
CONSTANTS
    p1 = p1
    p2 = p2
    s1 = s1
    s2 = s2
    c1 = c1
    c2 = c2
    c3 = c3
    Publishers <- MCPublishers
    SubscriberIds = {s1, s2}
    Channels = {c1, c2, c3}
    BufferSize = 2
    MaxEvents = 4
    f1 = f1
    f2 = f2
    f3 = f3
    f4 = f4
    Ids <- MCIds
    Blank = Blank
    Extra = f4
    Batches <- GrownBatches
    Scenarios = {"memory"}
INVARIANT
    EventsKeepTheirParents
CHECK_DEADLOCK FALSE
