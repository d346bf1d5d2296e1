SPECIFICATION LegacySpec
CONSTANTS
    MissionType = "ARTIFACT_PRODUCTION"
    VerificationMode = "QUALIFIED_LEAD_CANARY"
    Required = 1
    PlanSize = 1
    LeadMilestones = {1}
    MAX_PLAN_LOOPS = 5
    MAX_EXECUTION_RETRIES = 1
    MAX_REPEATED_STRATEGIES = 1
    MAX_OUTREACH_BATCHES = 3
    MAX_ZERO_PROGRESS_PLANS = 3
    Artifacts = {a1}
    Evidence <- LeadOrNot
    Clients = {}
    OutcomeSources <- Sourced
    MaxInterventions = 1
    MaxFaults = 0
INVARIANTS
    FinishedPlanCounts
PROPERTIES
    QuarantineHappens
CHECK_DEADLOCK FALSE
