SPECIFICATION Spec
CONSTANTS
    c1 = c1
    c2 = c2
    x = x
    y = y
    Clients = {c1, c2}
    Primary = Primary
    big = big
    Data = {x, y, big}
    Big = {big}
    Empty = Empty
    Copied = {0, 1}
    MaxCopies = 2
    MaxMoves = 2
INVARIANT
    OwnerIsExpected
SYMMETRY
    MCSymmetry
CHECK_DEADLOCK FALSE
