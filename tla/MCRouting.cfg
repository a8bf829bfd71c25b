SPECIFICATION FairSpec
CONSTANTS
    root = root
    a = a
    b = b
    c = c
    d = d
    e = e
    f = f
    l1 = l1
    l2 = l2
    l3 = l3
    nil = nil
    NodeIds <- MCNodeIds
    LinkIds <- MCLinkIds
    Names <- MCNames
    Reserved <- MCReserved
    Root <- root
    RootName = "."
    Nil <- nil
    MaxDepth = 3
    Parent = "^"
    Everyone = "*"
    AnyLink = "?"
    Scenes <- MCScenes
    DefaultTtl = 4
    MaxTicks = 1
INVARIANTS
    PongsFindTheirAsker
    RoutesBoundTravel
    RepeatsAreReported
PROPERTIES
    AnswersReachTheirAskers
CHECK_DEADLOCK FALSE
