\* Aggregates and rows after a failed commit.
SPECIFICATION Spec
CONSTANTS
    Partitions = {1}
    Workers = {w1, w2}
    Nobody = nobody
    Ids = {"e1", "e2"}
    IPs = {"a"}
    Blank = "-"
    Log <- HotLog
    Threshold = 1
    Faults = {"redis", "postgres", "kafka"}
    MaxGen = 2
    MaxExpiry = 0
    MaxWindows = 0
INVARIANTS StatsMatchRows
