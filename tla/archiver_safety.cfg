\* Two prefixes, two callers, batches of two, the production set of flushers.
SPECIFICATION Spec
CONSTANTS
    Records = {r1, r2, r3, r4}
    Statuses = {"raw", "accepted"}
    Callers = {c1, c2}
    FlushCallers = {}
    BatchSize = 2
SYMMETRY Symmetry
INVARIANTS TypeOK RestoredOnlyAfterError
PROPERTIES QuietAfterClose ImplementsContract
