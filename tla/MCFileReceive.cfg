SPECIFICATION Spec
CONSTANTS
    N = 3
    Size <- MCSize
    MaxStarts = 3
INVARIANTS
    TypeOK
    CommittedIntact
    ResolvedCommitted
    DurableOnDisk
    CompletedMeansAllCommitted
PROPERTY DurableNeverRegresses
CHECK_DEADLOCK FALSE
