SPECIFICATION MCSpec
CONSTANTS
    CachedRegister <- MCCached
    DirectRegister = {"P3"}
    Bit <- MCBit
    Command <- MCCommand
    MaxFaults = 2
    MaxCalls = 3
    Target = {c1, c2, d}
    Kinds <- MCKinds
    Polled <- MCPolled
    MaxPolls = 2
    MaxListed = 2
    MaxChecks = 3
    MaxLost = 1
    c1 = c1
    c2 = c2
    d = d
    None = None
CHECK_DEADLOCK FALSE
INVARIANTS CommandSeesWrites SettingsKnown InfiniteKnown CallsTold
PROPERTIES Writethrough SearchReturns
