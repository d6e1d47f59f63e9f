CONSTANTS
    b1 = b1
    b2 = b2
    h1 = h1
    h2 = h2
    Bots = {b1, b2}
    AutoStart = {b2}
    Requests <- MCRequests
    Handlers = {h1, h2}
    MaxTasks = 2
    MaxRestarts = 1
SPECIFICATION FairSpec
INVARIANT RegisteredIsReachable
PROPERTY ReservationEnds
