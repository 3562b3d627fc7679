SPECIFICATION Spec
CONSTANTS
    Peers = {p1}
    Addresses = {a1, a2}
    MaxCandidatesPerRound = 2
    MaxRememberedAddresses = 1
INVARIANTS
    ExactlyOneContinuation
    AnswerOfThisRound
    TablesAgree
PROPERTIES
    ConnectedMeansReady
CHECK_DEADLOCK FALSE
