SPECIFICATION Spec
CONSTANTS
    Tol = 0
    TouchTol = 0
    MinTouches = 3
    BreakStale = 3
    MaxApex = 12
    MinOverlap = 1
    Trail = 1
    FarMult = 2
    RecentBars = 5
    MinRecent = 2
    DominanceRatio = 1
    MarginalCap = 1
    SpacingRatio = 2
    TriangleBars = 5
    Overshoot = 0
    SlopeRatio = 1
    MaxLineAge = 5
    Setups <- MC_Setups
INVARIANTS DecisionIsTheKiller
PROPERTIES  EntryIsNotAnExit
CHECK_DEADLOCK FALSE
