CONSTANTS
    A = A
    B = B
    Hosts = {A, B}
    Transfers = {1, 2, 3, 4}
    From <- CrossedFrom
    To <- CrossedTo
    Threads = 2
    Frames = 1
SPECIFICATION Spec
PROPERTY AcceptedIsCompleted
CHECK_DEADLOCK FALSE
