SPECIFICATION ComponentsSpec
CONSTANTS
    Ids = {1, 2}
    Paths = {"p", "q"}
    Renderings = {"t", "u"}
    Mine = "mine"
    Deleted = "deleted"
    NoFile = "none"
    ProjectionBudget <- MCProjectionBudget
    Clients = {"a", "b"}
    Label <- MCLabel
    Attempts <- MCAttempts
    Room = 2
    PresenceBudget <- MCPresenceBudget
    Requests = {"q1", "q2"}
    Tokens = {"t1", "t2"}
    SignedWith <- MCSignedWith
    Granted <- MCGranted
    Subject <- MCSubject
    Read = "r"
    SigningKeys = {"k1", "k2"}
    Published0 = {"k1"}
    MaxKeys = 1
    AccessBudget <- MCAccessBudget
    Sockets = {"c1", "c2"}
    Items = {"i", "n"}
    Existing = {"i"}
    Nobody = "nobody"
    ServerBudget <- MCServerBudget
    Hosts = {"h"}
    Addresses = {"a", "b", "x"}
    Public = {"a", "b"}
    MaxRedirects = 2
    MaxBody = 3
    Chunks = {1, 2}
    Programs = {"p", "r"}
    Servers = {"A", "B"}
    UsesServer <- MCUsesServer
    SignInBudget <- MCSignInBudget
    NoteIds = {1, 2}
    Tags = {"t"}
    Configurations <- MCConfigurations
    EventRoom = 2
    TuiBudget <- MCTuiBudget
    Editors = {1, 2}
    EffectPlugins = {"p"}
    SteelPlugins = {"q"}
    Drafts <- MCDrafts
    Lag <- MCLag
    ConfigBudget <- MCConfigBudget
    UiNotes = {1, 2}
    Views = {"v", "w"}
    UiBudget <- MCUiBudget
    NoteNumbers = {1, 2, 3}
    Directories <- MCDirectories
    TitleOf <- MCTitleOf
    FilesBudget <- MCFilesBudget
    PluginHosts = {"a", "x"}
    PublicHosts = {"a"}
    GrantSets <- MCGrantSets
    MaxCalls = 2
    Tabs = {"1", "2"}
    BrowserBudget <- MCBrowserBudget
    PersonTexts <- MCPersonTexts
    LocalActions <- MCLocalActions
    Numerals = {"1", "2", "3", "500"}
    QueryLimits = {"1", "2", "500"}
    DefaultLimit = "500"
INVARIANT TypesOK
INVARIANT RosterCounts
INVARIANT KeysDurable
INVARIANT ValidTokenAccepted
INVARIANT NothingRunsAfter
INVARIANT OnlyPublicContacted
INVARIANT StaysSignedIn
INVARIANT ListIsCurrent
INVARIANT LoadsSettle
INVARIANT PlainClientsFollow
INVARIANT RowsAnswerView
INVARIANT ImportWhole
INVARIANT ExportComplete
INVARIANT PluginWithinGrants
INVARIANT BrowserTokenLive
INVARIANT WrittenTextKeeps
PROPERTY EditsRespected
PROPERTY EventuallyProjected
PROPERTY PeersConverge
PROPERTY ShutdownStops
PROPERTY StopsWhenAsked
 
PROPERTY PageSettles
\* a component stops when its budget is used up, and programs end
CHECK_DEADLOCK FALSE
