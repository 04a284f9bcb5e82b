SPECIFICATION Spec
CONSTANTS
    c1 = c1
    c2 = c2
    Server = server
    Client <- TwoClients
    MaxChanges = 1
    MaxDials = 1
    Budgets <- RelayUnflushed
    Capacity = 4
INVARIANTS ServerDurableBeforeObserved
CHECK_DEADLOCK FALSE
