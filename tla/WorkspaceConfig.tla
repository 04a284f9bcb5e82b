--------------------------- MODULE WorkspaceConfig ---------------------------
(* The workspace configuration xo.scm: replicated revisions, the local plugins merged    *)
(* into it, and what the terminal application makes of them.                             *)
(*                                                                                       *)
(* xo/src/session.rs (behavior, save_workspace_config), xo/src/plugin.rs and xo-core     *)
(* (steel_runtime.rs, behavior.rs, records.rs).  Of a configuration only its actions,    *)
(* whether it has views and whether it names something twice are kept; no program writes *)
(* the module files it may be split in.                                                  *)
(* Replication itself is CentralSync's: here a client sends or receives all at once.     *)
EXTENDS Integers, FiniteSets

CONSTANTS
    Editors,        \* the native clients, positive numbers: the order of their authors
    EffectPlugins,  \* plugins that only describe effects, each named as its action
    SteelPlugins,   \* plugins that run code, each named as its action
    Drafts,         \* configurations a person writes
    Lag,            \* how far each client's wall clock is behind
    ConfigBudget    \* bounds: edits, plugin commands, starts (a set of scenarios)

CaptureAction == "capture-url"
Plugins == EffectPlugins \cup SteelPlugins

VARIABLES
    held,       \* configuration revisions each client and the server hold
    installed,  \* the plugin files of each client
    tool,       \* each client's application: stage, plugins read at start, what it shows
    wall,       \* the wall clock: it advances with every revision
    unsettled,  \* revisions each client had when a load of it last wrote one, or {}
    rewrites,   \* a load wrote a revision although nothing came since it wrote one before
    cfgLeft     \* remaining budget

configVars == <<held, installed, tool, wall, unsettled, rewrites, cfgLeft>>

Server == 0
Closed == [at |-> "closed", plugins |-> {}, shown |-> {}]
ConfigContents == [views : BOOLEAN, actions : SUBSET (Plugins \cup {CaptureAction}), twice : BOOLEAN]

ASSUME ConfigAssumption ==
    /\ Editors \subseteq Nat \ {0}
    /\ Lag \in [Editors -> Nat]
    /\ CaptureAction \notin Plugins
    /\ Drafts \subseteq ConfigContents

-----------------------------------------------------------------------------
(* Revisions *)

\* The clock of a session starts at the wall clock and never observes another's stamps.
\* Time is counted from the start of the behaviour: a clock that lags may be before it.
Stamp(c) == wall - Lag[c]

Revision(c, content, auto) == [stamp |-> Stamp(c), by |-> c, content |-> content, auto |-> auto]

Later(p, q) == p.stamp > q.stamp \/ (p.stamp = q.stamp /\ p.by > q.by)

\* list_configs: the configuration with the greatest stamp and identity.
Winner(revisions) == CHOOSE p \in revisions : \A q \in revisions \ {p} : Later(p, q)

\* put_config: predecessors are recorded and never used to choose.
PutConfig(c, content, auto) ==
    /\ held' = [held EXCEPT ![c] = @ \cup {Revision(c, content, auto)}]
    /\ wall' = wall + 1

-----------------------------------------------------------------------------
(* behavior *)

\* validate: names are unique; load_with_plugins: also those of the plugins.
Valid(content) == ~content.twice

Loads(revisions, plugins) ==
    revisions # {} => LET content == Winner(revisions).content
                      IN  Valid(content) /\ content.actions \cap plugins = {}

\* The behaviour shown: built-in views when there are none, and the capture of URLs when
\* there is no configuration.
Behavior(revisions, plugins) ==
    [views |-> TRUE, twice |-> FALSE,
     actions |-> plugins \cup IF revisions = {} THEN {CaptureAction}
                              ELSE Winner(revisions).content.actions]

\* What has to be written is what had to be added.
MustPersist(revisions) == revisions = {} \/ ~Winner(revisions).content.views

\* Only the actions are written.
Persisted_Bare(behavior, plugins) ==
    [behavior EXCEPT !.views = FALSE, !.actions = @ \ (plugins \cap SteelPlugins)]

\* persisted_behavior: actions that run a plugin are left out.
Persisted(behavior, plugins) == [behavior EXCEPT !.actions = @ \ (plugins \cap SteelPlugins)]

\* behavior of client c: it loads, or fails; what was added is written.
Behave(c) ==
    LET plugins == tool[c].plugins
        shown == Behavior(held[c], plugins)
    IN  /\ Loads(held[c], plugins)
        /\ tool' = [tool EXCEPT ![c].at = "open", ![c].shown = {shown}]
        /\ IF MustPersist(held[c])
           THEN /\ PutConfig(c, Persisted(shown, plugins), TRUE)
                /\ unsettled' = [unsettled EXCEPT ![c] = held'[c]]
                /\ rewrites' = (rewrites \/ (held[c] # {} /\ unsettled[c] = held[c]))
           ELSE /\ unsettled' = [unsettled EXCEPT ![c] = {}]
                /\ UNCHANGED <<held, wall, rewrites>>

-----------------------------------------------------------------------------
(* The application *)

\* open_central_with_plugins: the plugin files are read once, and nothing is received yet.
StartTool(c) ==
    /\ tool[c].at = "closed" /\ cfgLeft.starts > 0
    /\ tool' = [tool EXCEPT ![c] = [Closed EXCEPT !.at = "starting", !.plugins = installed[c]]]
    /\ cfgLeft' = [cfgLeft EXCEPT !.starts = @ - 1]
    /\ UNCHANGED <<held, installed, wall, unsettled, rewrites>>

\* run_tui: a behaviour that cannot be loaded ends the program.
FirstLoad(c) ==
    /\ tool[c].at = "starting"
    /\ \/ Behave(c)
       \/ /\ ~Loads(held[c], tool[c].plugins)
          /\ tool' = [tool EXCEPT ![c] = Closed]
          /\ UNCHANGED <<held, wall, unsettled, rewrites>>
    /\ UNCHANGED <<installed, cfgLeft>>

\* A change of the replica refreshes the application; a refresh that fails leaves a message
\* and the behaviour shown before.
RefreshTool(c) ==
    /\ tool[c].at = "stale"
    /\ \/ Behave(c)
       \/ /\ ~Loads(held[c], tool[c].plugins)
          /\ tool' = [tool EXCEPT ![c].at = "open"]
          /\ UNCHANGED <<held, wall, unsettled, rewrites>>
    /\ UNCHANGED <<installed, cfgLeft>>

\* The write of a load is itself a change of the replica.
NoticeWrite(c) ==
    /\ tool[c].at = "open" /\ unsettled[c] # {}
    /\ tool' = [tool EXCEPT ![c].at = "stale"]
    /\ UNCHANGED <<held, installed, wall, unsettled, rewrites, cfgLeft>>

\* Whatever was written in the editor is saved.
SaveConfig_Unchecked(c, content) ==
    /\ PutConfig(c, content, FALSE)
    /\ tool' = [tool EXCEPT ![c].at = "starting"]

\* save_workspace_config: the text is checked without plugins and saved; one that is not
\* valid ends the program.
SaveConfig(c, content) ==
    \/ /\ Valid(content)
       /\ PutConfig(c, content, FALSE)
       /\ tool' = [tool EXCEPT ![c].at = "starting"]
    \/ /\ ~Valid(content)
       /\ tool' = [tool EXCEPT ![c] = Closed]
       /\ UNCHANGED <<held, wall>>

\* edit_workspace_config: the refresh after the save ends the program when it fails, as the
\* first load does.
EditConfig(c) ==
    /\ tool[c].at = "open" /\ held[c] # {} /\ cfgLeft.edits > 0
    /\ \E content \in Drafts : SaveConfig(c, content)
    /\ unsettled' = [unsettled EXCEPT ![c] = {}]
    /\ cfgLeft' = [cfgLeft EXCEPT !.edits = @ - 1]
    /\ UNCHANGED <<installed, rewrites>>

QuitTool(c) ==
    /\ tool[c].at \in {"open", "stale"}
    /\ tool' = [tool EXCEPT ![c] = Closed]
    /\ UNCHANGED <<held, installed, wall, unsettled, rewrites, cfgLeft>>

\* xo plugin install, remove: the file appears or goes at once.  A running application
\* goes on with the plugins it read.
PluginCommand(c, plugin) ==
    /\ cfgLeft.commands > 0
    /\ installed' = [installed EXCEPT ![c] = (@ \ {plugin}) \cup ({plugin} \ @)]
    /\ cfgLeft' = [cfgLeft EXCEPT !.commands = @ - 1]
    /\ UNCHANGED <<held, tool, wall, unsettled, rewrites>>

-----------------------------------------------------------------------------
(* Replication *)

SendConfigs(c) ==
    /\ tool[c].at # "closed" /\ ~(held[c] \subseteq held[Server])
    /\ held' = [held EXCEPT ![Server] = @ \cup held[c]]
    /\ UNCHANGED <<installed, tool, wall, unsettled, rewrites, cfgLeft>>

ReceiveConfigs(c) ==
    /\ tool[c].at # "closed" /\ ~(held[Server] \subseteq held[c])
    /\ held' = [held EXCEPT ![c] = @ \cup held[Server]]
    /\ tool' = [tool EXCEPT ![c].at = IF @ = "open" THEN "stale" ELSE @]
    /\ UNCHANGED <<installed, wall, unsettled, rewrites, cfgLeft>>

ConfigInit ==
    /\ held = [k \in Editors \cup {Server} |-> {}]
    /\ installed = [c \in Editors |-> {}]
    /\ tool = [c \in Editors |-> Closed]
    /\ wall = 1
    /\ unsettled = [c \in Editors |-> {}] /\ rewrites = FALSE
    /\ cfgLeft \in ConfigBudget

ConfigNext ==
    \E c \in Editors :
        \/ StartTool(c) \/ FirstLoad(c) \/ RefreshTool(c) \/ NoticeWrite(c) \/ EditConfig(c)
        \/ QuitTool(c) \/ SendConfigs(c) \/ ReceiveConfigs(c)
        \/ \E plugin \in Plugins : PluginCommand(c, plugin)

ConfigSpec == ConfigInit /\ [][ConfigNext]_configVars

-----------------------------------------------------------------------------
(* Properties *)

ConfigRevisions == [stamp : Int, by : Editors, content : ConfigContents, auto : BOOLEAN]

ConfigTypeOK ==
    /\ DOMAIN held = Editors \cup {Server}
    /\ \A k \in DOMAIN held : held[k] \subseteq ConfigRevisions
    /\ installed \in [Editors -> SUBSET Plugins]
    /\ \A c \in Editors : /\ tool[c].at \in {"closed", "starting", "open", "stale"}
                          /\ tool[c].plugins \subseteq Plugins
                          /\ tool[c].shown \subseteq ConfigContents /\ Cardinality(tool[c].shown) <= 1
                          /\ unsettled[c] \subseteq ConfigRevisions
    /\ wall \in Nat /\ rewrites \in BOOLEAN

\* A load that completes a configuration writes one the next load takes as it is.  Since the
\* write is itself a change that refreshes the application, it would otherwise load and
\* write for ever (session.rs:258-311, main.rs:428-440).
LoadsSettle == ~rewrites

\* The application of a client without plugins shows its newest configuration once it has
\* refreshed: no configuration a person saved, or a load completed, stops it from loading
\* (session.rs:325-343, behavior.rs:280-307).
PlainClientsFollow ==
    \A c \in Editors :
        tool[c].at = "open" /\ tool[c].plugins = {}
            => tool[c].shown = {Behavior(held[c], {})}

\* A program's built-in configuration is never chosen over one that a person saved: built-in
\* views are used "until a workspace publishes its own" (behavior.rs:75).
DefaultsOnlyUntilPublished ==
    \A c \in Editors :
        (\E p \in held[c] : ~p.auto /\ p.content.views) => ~Winner(held[c]).auto

\* What a program writes into the replicated configuration names no plugin of its client:
\* plugins are local and "never replicated workspace state" (session.rs:231).
PluginsStayLocal ==
    \A p \in held[Server] : p.auto => p.content.actions \cap Plugins = {}
=============================================================================
