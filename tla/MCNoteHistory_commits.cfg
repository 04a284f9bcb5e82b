SPECIFICATION Spec
CONSTANTS
    laptop = laptop
    phone = phone
    syncd = syncd
    native_save = native_save
    server_save = server_save
    server_delete = server_delete
    browser_save = browser_save
    Native <- MCNative
    Browser <- MCBrowser
    Server = syncd
    Rank <- MCRank
    Editor <- MCEditor
    Home <- MCHome
    Deleting <- MCDeleting
    MaxChanges = 7
    MaxTick = 9
    Budgets <- Commits
INVARIANTS TypeOK Loadable Retained ConflictsExplicit
PROPERTY BrowserSaveWins
CHECK_DEADLOCK FALSE
