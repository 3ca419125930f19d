SPECIFICATION Spec
CONSTANTS
    N = 2
    Self = 1
    Connect = {2}
    Invalid = {}
    FullUrl = FALSE
    StaleAfter = 1
    SweepInterval = 1
    MaxBackoff = 4
PROPERTY StableResets
