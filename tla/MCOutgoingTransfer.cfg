SPECIFICATION LiveSpec
CONSTANTS
    N = 2
    Size <- MCSize
    Pages = 1
    MaxLosses = 2
INVARIANTS
    TypeOK
    CompletedMeansAcknowledged
    RecoverableWhileRunning
    CompletedLeavesNoRecord
PROPERTIES
    PausedIsQuiet
    SenderNeverStalls
    EndingEnds
CHECK_DEADLOCK FALSE
