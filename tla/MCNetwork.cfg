SPECIFICATION NetworkSpec
CONSTANTS
    root = root
    a = a
    b = b
    bus = bus
    wifi = wifi
    dot = dot
    star = star
    x = x
    y = y
    nil = nil
    NodeIds <- MCNodeIds
    LinkIds <- MCLinkIds
    Names <- MCNames
    Reserved <- MCReserved
    Root <- root
    RootName <- dot
    Nil <- nil
SYMMETRY Symmetry
INVARIANTS
    TypeOK
    NothingDangles
    EndsAgree
    WalksEnd
    AddressesUnique
    LinkNamesUnique
PROPERTIES
    RejectionChangesNothing
    ImplementsTopology
