SPECIFICATION Spec
CONSTANTS
    Hosts = {a, b}
    Validity = 1
    MaxSessions = 1
    MaxTime = 2
    MaxSkew = 1
INVARIANTS
    TrustNeedsBothUsers
    InitiatorCommitsFirst
    PrimaryIsMemory
    NoHiddenSession
PROPERTIES
    RevocationHolds
    SessionsEnd
CHECK_DEADLOCK FALSE
