\* Consumption under fair scheduling, and verdicts with a cause while Redis answers.
SPECIFICATION FairSpec
CONSTANTS
    Partitions = {1}
    Workers = {w1, w2}
    Nobody = nobody
    Ids = {"e1", "e2"}
    IPs = {"a"}
    Blank = "-"
    Log <- ShortLog
    Threshold = 1
    Faults = {"postgres", "kafka"}
    MaxGen = 2
    MaxExpiry = 1
    MaxWindows = 1
INVARIANTS VerdictsJustified
PROPERTIES EventuallyConsumed
