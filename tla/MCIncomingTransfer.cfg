SPECIFICATION LiveSpec
CONSTANTS
    N = 2
    MaxGen = 2
    QueueLimit = 2
    MaxPosts = 4
INVARIANTS
    TypeOK
    OneWriter
    EndedByItsOwnWorker
    CancelledLeavesNothing
    AskedIsAnswerable
PROPERTIES
    OwnerIsReleased
    CancelEnds
CHECK_DEADLOCK FALSE
