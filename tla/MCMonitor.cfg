SPECIFICATION Spec
CONSTANTS
    root = root
    a = a
    b = b
    c = c
    l1 = l1
    l2 = l2
    l3 = l3
    nil = nil
    k1 = k1
    k2 = k2
    k3 = k3
    NodeIds <- MCNodeIds
    LinkIds <- MCLinkIds
    Names <- MCNames
    Reserved <- MCReserved
    Root <- root
    RootName = "."
    Nil <- nil
    Scenes <- MCScenes
    Keys <- MCKeys
    ReplayMemory = 2
    Capacity = 2
    LatestFor = 1
    ReportOver = 2
INVARIANTS
    CyclesFound
    CycleKnown
    ReplaysCounted
    FewAlerts
    NothingGoesUnseen
PROPERTIES
    RootCauseKept
CHECK_DEADLOCK FALSE
