CONSTANTS
    p1 = p1  p2 = p2  h1 = h1  h2 = h2
    MsgSenders = {p1, p2}
    MsgHandlers = {h1, h2}
    MsgKeys = {k}
    MsgPrints = {f}
    InboundIds = {i}
    Channel = "WHATSAPP"
    MaxOutbound = 2
    MaxCallbacks = 1
    MaxAdmin = 1
    MaxMsgFaults = 1
    Callers = {p1, p2}
    Inbounds = {i}
    CallKeys = {k}
    CallPrints = {f}
    Boots = {b}
    Dialogs = {d}
    MaxCallRows = 1
    MaxNews = 2
    MaxTelAdmin = 1
    MaxTelFaults = 2
    CustCalls = {p1, p2, h1, h2}
    Identities = {i, j}
    Threads = {th}
    MaxVersions = 3
SPECIFICATION Spec
SYMMETRY Interchangeable
INVARIANTS
    MessagesAreSingle
    CallersConverge

    
CHECK_DEADLOCK FALSE
