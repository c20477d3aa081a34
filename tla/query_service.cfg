\* A single event and a batch meet in the same rows while a client asks twice and the
\* server stops at any time.
SPECIFICATION QFairSpec
CONSTANTS
    Jobs = {1, 2}
    Singles <- MCSingles
    Batches <- MCBatches
    MaxInt = 3
    MaxRuns = 1
    Clients = {c1}
    All = all
    MaxAsks = 2
CHECK_DEADLOCK FALSE
INVARIANTS TypeOK StatsAccounted AnswersCurrent ListComplete FoundStaysFound
PROPERTIES RunEnds EveryAskEnds
