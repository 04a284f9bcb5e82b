SPECIFICATION Spec
CONSTANTS
    c1 = c1
    c2 = c2
    Server = server
    Client <- TwoClients
    MaxChanges = 3
    MaxDials = 2
    Budgets <- Faults
    Capacity = 1
INVARIANTS TypeOK CausallyClosed AckedDurable FramesFit
CHECK_DEADLOCK FALSE
