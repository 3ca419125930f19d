SPECIFICATION Spec
CONSTANTS
    Writers = {w1}
    Readers = {r1}
    Watchers = {d1}
    MaxSequence = 1
    MaxAge = 0
    MaxTime = 0
    MaxGroups = 1
    None = None
INVARIANT WritersGoneCloses
CHECK_DEADLOCK FALSE
