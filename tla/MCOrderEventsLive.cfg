CONSTANTS
    o1 = o1
    Orders = {o1}
    Phantoms = {}
    Tagged = {o1}
    Side <- MCSide
    Size <- MCSize
    Positions <- MCPositions
    NoPosition = NoPosition
    Faults <- MCNoFaults
    MaxLate = 0
    MaxSpurious = 0
    MaxFilledDup = 0
    MaxForeign = 0
    MaxWire = 1
    Sweeps = TRUE
SPECIFICATION FairSpec
PROPERTIES DoneIsReported OpenRowsConverge KeepsLedger
CHECK_DEADLOCK FALSE
