SPECIFICATION FairSpec
CONSTANTS
    Paths = {a, b}
    Requesters = {r1, r2}
    Handlers = {h1, h2}
    Channels = {c1, c2, c3}
    None = None
INVARIANTS InSync AnswersReachAskers
PROPERTIES NoRequestLost RefusedOnlyUnserved EveryoneAnswered
