SPECIFICATION RoutingSpec
CONSTANTS
    chat = chat
    planner = planner
    Registered <- Fallback
    supported_capabilities <- Able
    candidates <- ModelsOf
    Chats = {chat}
    Structured = {planner}
    required_capabilities <- AllChat
    preferences <- Preferred
    Chunks = 2
    Opening = 1
    MaxCalls = 1
INVARIANTS
    ParsedIsWhole
PROPERTIES
    KeepsFailoverPromise
CHECK_DEADLOCK FALSE
