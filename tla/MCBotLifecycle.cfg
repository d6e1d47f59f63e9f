CONSTANTS
    h1 = h1
    h2 = h2
    Size = 3
    MaxExitRetries = 1
    Handlers = {h1, h2}
    MaxStarts = 1
    BuyLeg = "entry"
    Setups <- MCSetups
SPECIFICATION FairSpec
CHECK_DEADLOCK FALSE
INVARIANTS NoOversell Agreement NothingUnattended OneWorkingOrder
PROPERTIES StoppedSendsNothing EntryEnds ExitEnds
