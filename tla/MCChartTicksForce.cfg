CONSTANTS
    Prices = {1, 2, 3, 4}
    Trail = 1
    Tol = 0
    Linger = 2
    Interval = 3
    Hold = 2
    Setups <- MC_ForceSetups
SPECIFICATION Spec
CHECK_DEADLOCK FALSE
PROPERTY ExitReduces
