CONSTANTS
    s1 = s1
    s2 = s2
    b1 = b1
    b2 = b2
    b3 = b3
    r1 = r1
    r2 = r2
    None = None
    Symbols = {s1, s2}
    Watchlist = {s1}
    Seed = {s2}
    Bots = {b1, b2, b3}
    SymbolOf <- MCSymbolOf
    Replays = {r1, r2}
    Setups <- MCSetups
SYMMETRY Symmetry
SPECIFICATION Spec
CHECK_DEADLOCK FALSE
INVARIANTS DownIsAttended NoStaleBanner WatchedIsFed BotsAreFed
