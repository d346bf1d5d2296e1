SPECIFICATION FairAgents
CONSTANTS
    planner = planner
    Registered <- OneProvider
    supported_capabilities <- Able
    candidates <- ModelsOf
    Chats = {}
    Structured = {planner}
    required_capabilities <- AllChat
    preferences <- Preferred
    Chunks = 1
    Opening = 1
    MaxCalls = 4
    Actions <- Selectable
    tool <- ToolOf
    max_iterations = 3
    max_retries = 1
INVARIANTS
    AnswersRestOnEvidence
PROPERTIES
    GoalsEnd
CHECK_DEADLOCK FALSE
