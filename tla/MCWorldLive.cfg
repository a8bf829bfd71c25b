SPECIFICATION FairSpec
CONSTANTS
    root = root
    hub = hub
    a = a
    b = b
    bus = bus
    dot = dot
    x = x
    y = y
    z = z
    w = w
    nil = nil
    news = news
    chat = chat
    NodeIds <- MCNodeIds
    LinkIds <- MCLinkIds
    Names <- MCNames
    Reserved <- MCReserved
    Root <- root
    RootName <- dot
    Nil <- nil
    InitialNetwork <- MCInitialNetwork
    InitialLogics = {a, b}
    InitialHosts = {}
    Managed = {b}
    Talkers = {a}
    Events = {news, chat}
    Once = news
    DefaultTtl = 2
    Ttls = {}
    LimitChoices <- MCNarrowLimits
    MaxInbox = 1
    MaxCalls = 1
    MaxRefusals = 2
    PanicsIn = {"on_received", "wants"}
PROPERTIES
    EventsSettle
    RefusalsReportedOnce
