SPECIFICATION Spec
CONSTANTS
    b1 = b1
    b2 = b2
    b3 = b3
    b4 = b4
    c1 = c1
    c2 = c2
    Dirs <- MCDirs
    Broadcasts = {b1, b2, b3, b4}
    Consumers = {c1, c2}
    Nodes = {n1, n2}
    Root = Root
    None = None
    Hops <- MCHops
    Hash <- MCHash
    Looped <- MCLooped
    Layouts <- MCTwice
INVARIANT NoPanic
CHECK_DEADLOCK FALSE
