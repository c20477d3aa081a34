\* Events of one hour written with different zones.
SPECIFICATION Spec
CONSTANTS
    Jobs = {1}
    Singles <- MCSingles
    Batches <- ZonedBatches
    MaxInt = 3
    MaxRuns = 2
CHECK_DEADLOCK FALSE
INVARIANTS OneRowPerHour
