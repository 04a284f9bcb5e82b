SPECIFICATION ConfigSpec
CONSTANTS
    Editors = {1, 2}
    EffectPlugins = {"p"}
    SteelPlugins = {"q"}
    Drafts <- MCDrafts
    Lag <- MCLag
    ConfigBudget <- MCConfigBudget
INVARIANT PluginsStayLocal
\* the budget runs out
CHECK_DEADLOCK FALSE
