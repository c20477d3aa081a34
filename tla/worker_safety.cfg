\* One event produced twice: a zombie or a restart, lost answers, an expiring key.
SPECIFICATION Spec
CONSTANTS
    Partitions = {1}
    Workers = {w1, w2}
    Nobody = nobody
    Ids = {"e1", "e2"}
    IPs = {"a"}
    Blank = "-"
    Log <- TwiceLog
    Threshold = 1
    Faults = {"redis", "postgres", "kafka"}
    MaxGen = 2
    MaxExpiry = 1
    MaxWindows = 1
SYMMETRY Symmetry
INVARIANTS TypeOK NoMessageSkipped OneRowPerKey FraudCap
PROPERTIES OffsetsForward ImplementsLedger
