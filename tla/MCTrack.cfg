SPECIFICATION FairSpec
CONSTANTS
    Writers = {w1, w2}
    Readers = {r1}
    Watchers = {d1}
    MaxSequence = 2
    MaxAge = 0
    MaxTime = 1
    MaxGroups = 3
    None = None
INVARIANTS TypeOK FilterExact LatestKept OnceInOrder EverHigher NothingMissed
PROPERTIES SweepIsComplete ReadersEnd
CHECK_DEADLOCK FALSE
