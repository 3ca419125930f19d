SPECIFICATION FairSpec
CONSTANTS
    MaxFrames = 3
    MaxFrameSize = 2
    Readers = {s, w}
    Streams = {s}
    MaxGroupCache = 3
    MaxGroupFrames = 2
INVARIANTS CacheExact NoSleeperLeftBehind
PROPERTIES EveryReaderEnds ImplementsLog
CHECK_DEADLOCK FALSE
