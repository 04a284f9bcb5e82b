SPECIFICATION FairSpec
CONSTANTS
    Tab = {t1}
    Workspaces = 2
    MaxChanges = 8
    MaxSockets = 2
    MaxActors = 2
    Budgets <- Scenarios
INVARIANTS TypeOK AckedPersisted
PROPERTIES SavedWritesArrive
CHECK_DEADLOCK FALSE
