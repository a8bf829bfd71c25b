SPECIFICATION Spec
CONSTANTS
    top = top
    a = a
    b = b
    c = c
    d = d
    e = e
    l1 = l1
    l2 = l2
    l3 = l3
    nil = nil
    NodeIds <- MCNodeIds
    LinkIds <- MCLinkIds
    Names <- MCNames
    Reserved <- MCReserved
    Root <- top
    RootName = "."
    Nil <- nil
    Ipc = "ipc"
    Scanning <- MCScanning
    Scenes <- MCScenes
    DefaultTtl = 3
    InboxLimit = 2
INVARIANTS
    RelaysRunOut
    NpcsKeepGoing
PROPERTIES
    FailureChangesNothing
    BuiltWhole
CHECK_DEADLOCK FALSE
