SPECIFICATION FairSpec
CONSTANTS
    MissionType = "CLIENT_ACQUISITION"
    VerificationMode = "PRODUCTION_BUSINESS_SUCCESS"
    Required = 1
    PlanSize = 1
    LeadMilestones = {1}
    MAX_PLAN_LOOPS = 5
    MAX_EXECUTION_RETRIES = 2
    MAX_REPEATED_STRATEGIES = 2
    MAX_OUTREACH_BATCHES = 3
    MAX_ZERO_PROGRESS_PLANS = 3
    Artifacts = {a1}
    Evidence <- LiveOrMock
    Clients = {c1}
    OutcomeSources <- Sourced
    MaxInterventions = 0
    MaxFaults = 0
PROPERTIES
    MissionSettles
CHECK_DEADLOCK FALSE
