SPECIFICATION FairSpec
CONSTANTS
    Procs = {p1, p2}
    Values = {v1, v2}
    NoGoal = NoGoal
INVARIANTS CountsExact NoLostWakeup AutoClose
PROPERTIES CloseIsFinal CloseEndsEveryWait ImplementsChannel
