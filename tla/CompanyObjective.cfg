SPECIFICATION ObjectiveSpec
CONSTANTS
    Missions = {m1, m2}
    Evidence = {e1, e2}
    required = 2
    max_missions = 2
    max_strategy_changes = 1
    max_zero_progress_cycles = 2
    MAX_EXECUTIVE_CYCLES = 3
    Definitions = 1
    MissionStates = {"ACTIVE", "COMPLETED", "WAITING_DIRECTOR", "CANCELLED"}
    PlannedVersions = {3}
    MaxEvents = 1
SYMMETRY Alike
INVARIANTS
    CreditIsDecided
    ProposalsAreValid
PROPERTIES
    KeepsEvaluationPromise
CHECK_DEADLOCK FALSE
