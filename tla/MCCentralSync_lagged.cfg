SPECIFICATION FairSpec
CONSTANTS
    c1 = c1
    c2 = c2
    Server = server
    Client <- TwoClients
    MaxChanges = 1
    MaxDials = 1
    Budgets <- RelayDropped
    Capacity = 1
PROPERTIES EventuallyConverged
CHECK_DEADLOCK FALSE
