SPECIFICATION Spec
CONSTANTS
    Tab = {t1}
    Workspaces = 2
    MaxChanges = 8
    MaxSockets = 3
    MaxActors = 2
    Budgets <- OneReload
INVARIANTS FramesAccepted
CHECK_DEADLOCK FALSE
