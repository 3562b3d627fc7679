SPECIFICATION Spec
CONSTANTS
    TotalBytes = 3
    TotalFiles = 2
INVARIANTS
    TypeOK
    CompletedIsFull
PROPERTIES
    TerminalIsFinal
