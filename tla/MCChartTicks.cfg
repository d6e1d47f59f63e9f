CONSTANTS
    Prices = {1, 2, 3, 4}
    Trail = 1
    Tol = 0
    Linger = 2
    Interval = 3
    Hold = 2
    Setups <- MC_Setups
SPECIFICATION FairSpec
CHECK_DEADLOCK FALSE
PROPERTIES StopIsEarned CounterIsEarned LossIsCut
