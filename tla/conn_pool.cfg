\* Three claims and five connections, one of them the migrator's: the most claims that
\* cannot block each other.
SPECIFICATION FairSpec
CONSTANTS
    Claims = {c1, c2, c3}
    MaxOpen = 5
INVARIANTS TypeOK NothingLeaks NoPoolDeadlock
PROPERTIES CallReturns
