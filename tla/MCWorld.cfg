SPECIFICATION Spec
CONSTANTS
    root = root
    hub = hub
    a = a
    b = b
    bus = bus
    dot = dot
    x = x
    y = y
    z = z
    w = w
    nil = nil
    news = news
    chat = chat
    NodeIds <- MCNodeIds
    LinkIds <- MCLinkIds
    Names <- MCNames
    Reserved <- MCReserved
    Root <- root
    RootName <- dot
    Nil <- nil
    InitialNetwork <- MCInitialNetwork
    InitialLogics = {b}
    InitialHosts = {}
    Managed = {a}
    Talkers = {hub}
    Events = {chat}
    Once = news
    DefaultTtl = 2
    Ttls = {0}
    LimitChoices <- MCLimits
    MaxInbox = 1
    MaxCalls = 1
    MaxRefusals = 1
    PanicsIn = {"on_start", "on_tick", "on_received"}
INVARIANTS
    DeliveriesFused
    TickBounded
    HopBudget
PROPERTIES
    ImplementsQueue
