SPECIFICATION Spec
CONSTANTS
    root = root
    n1 = n1
    n2 = n2
    n3 = n3
    l1 = l1
    l2 = l2
    dot = dot
    x = x
    y = y
    z = z
    w = w
    nil = nil
    top = top
    a = a
    b = b
    c = c
    ipc = ipc
    bus = bus
    NodeIds = {root, n1, n2, n3}
    LinkIds = {l1, l2}
    Names <- MCNames
    Reserved <- MCReserved
    Root <- root
    RootName <- MCRootName
    Nil <- nil
    Models = {top, a, b, c}
    Wires = {ipc, bus}
    RootModel <- top
    IdOf <- MCIdOf
    Scenes <- MCScenes
SYMMETRY Symmetry
INVARIANTS
    HostsKnown
    EngineWithinViews
    CarefulCallersSeeTruth
