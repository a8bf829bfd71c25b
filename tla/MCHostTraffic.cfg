SPECIFICATION TrafficSpec
CONSTANTS
    root = root
    n1 = n1
    n2 = n2
    l1 = l1
    dot = dot
    x = x
    y = y
    z = z
    nil = nil
    top = top
    a = a
    b = b
    bus = bus
    NodeIds = {root, n1, n2}
    LinkIds = {l1}
    Names <- MCNames
    Reserved <- MCReserved
    Root <- root
    RootName <- MCRootName
    Nil <- nil
    Models = {top, a, b}
    Wires = {bus}
    RootModel <- top
    IdOf <- MCIdOf
    Scenes <- MCScenes
    InFlightTicks = 2
    MaxPending = 2
    MaxPackets = 2
    MaxTicks = 4
SYMMETRY Symmetry
INVARIANTS
    HeardOnlyByMembers
    PayloadsKept
PROPERTY
    LastPacketsGoOut
