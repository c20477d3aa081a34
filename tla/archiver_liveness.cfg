\* Nothing lost and eventual storage while another goroutine calls the exported Flush.
SPECIFICATION FairSpec
CONSTANTS
    Records = {r1, r2}
    Statuses = {"raw", "accepted"}
    Callers = {c1}
    FlushCallers = {f1}
    BatchSize = 2
INVARIANTS NothingLost HeldOnce NoStrandedBatch
PROPERTIES CloseReturns EventuallyStored
