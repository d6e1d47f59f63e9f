CONSTANTS
    Orders = {"first", "cross", "pt", "trail", "sl"}
    MaxSize = 3
    MaxPreroutes = 1
    Qty = 3
    Strategies = {"limit", "mid", "bidask", "market", "smart"}
SPECIFICATION Spec
CHECK_DEADLOCK FALSE
INVARIANTS RecordedIsExecuted CancelledIsOver FinalIsExact LegsAreCovered
