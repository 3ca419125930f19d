SPECIFICATION FairSpec
CONSTANTS
    N = 4
    Self = 2
    Connect = {3}
    Invalid = {1}
    FullUrl = FALSE
    StaleAfter = 1
    SweepInterval = 2
    MaxBackoff = 2
INVARIANTS OneDialEach SourcesTrue
PROPERTIES NeverSweptEarly StaticRetriesForever
