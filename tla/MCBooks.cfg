CONSTANTS
    Orders = {"o1"}
    Legs = {"o1"}
    Commands = {"c1"}
    MaxStartups = 2
    MaxFaults = 2
SPECIFICATION FairSpec
CHECK_DEADLOCK FALSE
INVARIANT RunningIsRun
PROPERTY LiveIsTold
