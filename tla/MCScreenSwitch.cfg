SPECIFICATION Spec
CONSTANTS
    p1 = p1
    p2 = p2
    p3 = p3
    left = left
    right = right
    Proxies = {p1, p2, p3}
    Names = {left, right}
    Name <- MCName
    Primary = Primary
    Nowhere = Nowhere
    e = e
    w = w
    Directions = {e, w}
    WaitDelay = TRUE
    TwoTap = TRUE
INVARIANTS
    TypeOK
    OneScreenEntered
    SaverScreenConnected
SYMMETRY
    MCSymmetry
CHECK_DEADLOCK FALSE
