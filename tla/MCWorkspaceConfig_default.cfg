SPECIFICATION ConfigSpec
CONSTANTS
    Editors = {1, 2}
    EffectPlugins = {"p"}
    SteelPlugins = {"q"}
    Drafts <- MCDrafts
    Lag <- MCLag
    ConfigBudget <- MCConfigBudget
INVARIANT DefaultsOnlyUntilPublished
\* the budget runs out
CHECK_DEADLOCK FALSE
