CONSTANTS
    Window = 2
    Offset = 1
    MaxClock = 3
    Setups <- MCSetups
SPECIFICATION Spec
CHECK_DEADLOCK FALSE
PROPERTIES LifoBalances OneSweepIsEnough
