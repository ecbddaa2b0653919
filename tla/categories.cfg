SPECIFICATION FairSpec
CONSTANTS
    w1 = w1
    w2 = w2
    c1 = c1
    c2 = c2
    c3 = c3
    Workers = {w1, w2}
    Cats = {c1, c2, c3}
    Root = Root
    Limit = 2
    MaxVersion = 1
    Trees <- Chain
    MaxEvents = 2
INVARIANTS
    TreeKept
PROPERTIES
    EventuallyNamed
