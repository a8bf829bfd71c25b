SPECIFICATION WindowSpec
CONSTANTS
    top = top
    a = a
    b = b
    c = c
    k = k
    l = l
    m = m
    o = o
    NodeIds = {top, a, b, c}
    LinkIds = {k, l, m, o}
    Names <- MCNames
    Reserved = {"world"}
    Root = top
    RootName = "world"
    Nil = Nil
    Ipc = "ipc"
    Scanning = {}
    Uses <- MCUses
    Plans <- MCPlans
    StressTests <- MCTests
    Orders <- MCOrders
    Kinds = {"none", "responder"}
    MaxTicks = 2
    MaxTreeDepth = 1
INVARIANT
    PictureIsTrue
PROPERTY
    StandsUntilAsked
    SelectionIsShown
CHECK_DEADLOCK FALSE
