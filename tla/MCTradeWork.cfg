CONSTANTS
    Entry = 2
    MaxSize = 3
    Closes = {"c1"}
    Orders = {"pt", "sl", "c1", "x1", "s"}
    Strategies = {"limit", "mid", "market", "smart"}
    BySymbol = TRUE
    MaxPreroutes = 0
    MaxCommands = 1
SPECIFICATION Spec
CHECK_DEADLOCK FALSE
INVARIANTS ClosedIsFlat CloseIsExact ProtectionIsKept
