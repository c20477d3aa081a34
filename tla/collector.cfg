\* One client that posts twice, an answer of Kafka lost once per message, two stops.
SPECIFICATION FairSpec
CONSTANTS
    Clients = {c1}
    k1 = k1
    NoId = NoId
    Ids <- SomeIds
    Bodies <- SomeBodies
    MaxBatch = 2
    RetryMax = 1
    MaxPosts = 2
    MaxStops = 2
INVARIANTS TypeOK Recognisable
PROPERTIES ImplementsIngest EveryPostEnds
CHECK_DEADLOCK FALSE
