SPECIFICATION FairSpec
CONSTANTS
    c1 = c1
    c2 = c2
    Server = server
    Client <- TwoClients
    MaxChanges = 3
    MaxDials = 2
    Budgets <- Converging
    Capacity = 4
INVARIANTS IInv NoSeqFork ServerDurableBeforeObserved
PROPERTIES EventuallyConverged ImplementsCausalDocs
CHECK_DEADLOCK FALSE
