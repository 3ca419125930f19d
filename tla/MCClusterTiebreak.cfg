SPECIFICATION Spec
CONSTANTS
    N = 3
    Self = 2
    Connect = {}
    Invalid = {}
    FullUrl = TRUE
    StaleAfter = 1
    SweepInterval = 1
    MaxBackoff = 2
INVARIANT OneSessionPerPair
