CONSTANTS
    o1 = o1
    Orders = {o1}
    Phantoms = {}
    Tagged = {o1}
    Side <- MCSide
    Size <- MCSize
    Positions <- MCPositions
    NoPosition = NoPosition
    Faults <- MCFaults
    MaxLate = 1
    MaxSpurious = 1
    MaxFilledDup = 1
    MaxForeign = 1
    MaxWire = 1
    Sweeps = FALSE
SPECIFICATION Spec
INVARIANTS TerminalIsTrue NoFalseEnd LiveOrEvicted
PROPERTIES KeepsOutcome SilentOnceEvicted TerminalIsSound LostFillIsRecovered
