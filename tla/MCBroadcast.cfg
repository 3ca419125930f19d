SPECIFICATION FairSpec
CONSTANTS
    Names = {a}
    Subs = {s}
    MaxTracks = 2
INVARIANTS DynamicExact NoOrphan
PROPERTIES LookupKeepsServed NotFoundOnlyUnserved EveryRequestAnswered
CHECK_DEADLOCK FALSE
