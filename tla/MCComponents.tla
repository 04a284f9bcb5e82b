----------------------------- MODULE MCComponents -----------------------------
(* The components around the replicated records, each on a small instance.  They share   *)
(* no state with one another, so one of them (focus) runs in a behaviour, and the others *)
(* rest in an initial state.                                                             *)
EXTENDS ComponentTypes, ConfigText

VARIABLE focus

componentsVars == <<focus, projectionVars, presenceVars, accessVars, serverVars, captureVars,
                    signInVars, tuiVars, configVars, uiVars, filesVars, pluginVars,
                    browserSignInVars, textVars>>

-----------------------------------------------------------------------------
(* Bounds.  The scenarios split them: not every bound is reached in one behaviour. *)

RestProjection == [changes |-> 0, edits |-> 0, faults |-> 0, disturbed |-> FALSE]
MCProjectionBudget ==
    {RestProjection, [RestProjection EXCEPT !.changes = 2, !.edits = 1],
     [RestProjection EXCEPT !.changes = 2, !.faults = 1],
     [RestProjection EXCEPT !.changes = 1, !.edits = 1, !.faults = 1]}

RestPresence == [docs |-> 0, losses |-> 0, blocks |-> 0, stops |-> 0, missed |-> {}]
MCPresenceBudget ==
    {RestPresence, [RestPresence EXCEPT !.losses = 1, !.stops = 1],
     [RestPresence EXCEPT !.docs = 1, !.stops = 1],
     [RestPresence EXCEPT !.blocks = 1, !.stops = 1]}
MCLabel == [c \in Clients |-> c]
MCAttempts == [c \in Clients |-> IF c = "a" THEN 2 ELSE 1]

RestAccess == [requests |-> 0, rotations |-> 0, faults |-> 0, restarts |-> 0, made |-> 0]
MCAccessBudget ==
    {RestAccess, [RestAccess EXCEPT !.requests = 2, !.restarts = 1, !.faults = 1],
     [RestAccess EXCEPT !.requests = 2, !.rotations = 1]}
MCSignedWith == [t \in Tokens |-> IF t = "t1" THEN "k1" ELSE "k2"]
MCGranted == [t \in Tokens |-> IF t = "t1" THEN {"r", "w"} ELSE {"r"}]
MCSubject == [t \in Tokens |-> t]

RestServer == [requests |-> 0, gone |-> 0, failures |-> 0, accept |-> FALSE]
MCServerBudget ==
    {RestServer, [RestServer EXCEPT !.requests = 2, !.gone = 1],
     [RestServer EXCEPT !.requests = 1, !.failures = 1, !.accept = TRUE]}

RestSignIn == [tokens |-> 0, expiries |-> 0, failures |-> 0, stops |-> 0, starts |-> 0,
               issued |-> 0]
MCSignInBudget ==
    {RestSignIn, [tokens |-> 6, expiries |-> 2, failures |-> 1, stops |-> 0, starts |-> 3, issued |-> 0],
     [tokens |-> 4, expiries |-> 2, failures |-> 0, stops |-> 1, starts |-> 3, issued |-> 0]}
MCUsesServer == [p \in Programs |-> IF p = "r" THEN "B" ELSE "A"]

RestTui == [keys |-> 0, merges |-> 0, configs |-> 0, noise |-> 0, faults |-> 0, made |-> 1]
MCTuiBudget ==
    {RestTui, [RestTui EXCEPT !.keys = 2, !.merges = 1],
     [RestTui EXCEPT !.keys = 3, !.configs = 1],
     [RestTui EXCEPT !.keys = 2, !.faults = 1],
     [RestTui EXCEPT !.keys = 1, !.merges = 1, !.noise = 1, !.faults = 1]}
Asking(tags, falls, subviews) == [asks |-> tags, falls |-> falls, subviews |-> subviews]
MCConfigurations ==
    {[all |-> Everything]} \cup
    {[all |-> Everything, v |-> view] : view \in {Asking(Tags, FALSE, {}), Asking({}, TRUE, Tags)}}

RestConfig == [edits |-> 0, commands |-> 0, starts |-> 0]
MCConfigBudget ==
    {RestConfig, [RestConfig EXCEPT !.edits = 1, !.starts = 2],
     [RestConfig EXCEPT !.edits = 1, !.commands = 1, !.starts = 1]}
MCLag == [c \in Editors |-> 0]
MCDrafts ==
    {[views |-> FALSE, actions |-> {"p"}, twice |-> FALSE],
     [views |-> TRUE, actions |-> {"q"}, twice |-> FALSE],
     [views |-> TRUE, actions |-> {}, twice |-> TRUE]}

RestUi == [acts |-> 0, ticks |-> 0, merges |-> 0, faults |-> 0]
MCUiBudget ==
    {RestUi, [RestUi EXCEPT !.acts = 3], [RestUi EXCEPT !.acts = 2, !.faults = 1],
     [RestUi EXCEPT !.acts = 1, !.ticks = 1, !.merges = 1]}

RestFiles == [imports |-> 0, exports |-> 0, merges |-> 0, faults |-> 0]
MCFilesBudget ==
    {RestFiles, [RestFiles EXCEPT !.imports = 1, !.exports = 1, !.faults = 1],
     [RestFiles EXCEPT !.imports = 1, !.merges = 1],
     [RestFiles EXCEPT !.exports = 2, !.faults = 1]}
Readable(i) == [id |-> i, readable |-> TRUE]
MCDirectories ==
    {<<Readable(1), Readable(0)>>, <<Readable(1), Readable(1)>>, <<Readable(2), Readable(1)>>,
     <<[id |-> 0, readable |-> FALSE]>>}
MCGrantSets ==
    {{}, {"read-secret"}, {"network", "create-note"}, {"network", "mutate-note", "create-note"}}
RestBrowser == [tokens |-> 0, made |-> 0, loads |-> 0, expiries |-> 0, failures |-> 0,
                closes |-> 0, rotates |-> TRUE]
MCBrowserBudget ==
    {RestBrowser,
     [RestBrowser EXCEPT !.tokens = 4, !.loads = 4, !.expiries = 1, !.closes = 1],
     [RestBrowser EXCEPT !.tokens = 4, !.loads = 3, !.expiries = 1, !.failures = 1],
     [RestBrowser EXCEPT !.tokens = 3, !.loads = 3, !.expiries = 1, !.rotates = FALSE]}

\* Texts without views, whose actions, grants and templates are given, left out or wrong.
Given1(name, word) == Call(name, <<Quoted(word)>>)
PersonAction(id, fields) == Call("action", <<Given1("id", id)>> \o fields)
PersonPredicate ==
    Call("predicate", <<Call("all", <<Given1("has-tag", "t"), Call("not", <<Call("always", <<>>)>>),
                                      Call("field-equals", <<Quoted("f"), Quoted("v")>>)>>)>>)
PersonValue ==
    Call("mapping", <<
        Call("entry", <<Quoted("k"), Call("sequence", <<Call("null", <<>>), Given1("string", "s"),
                                                        Call("float", <<Identifier("1")>>)>>)>>),
        Call("entry", <<Quoted("j"), Call("bool", <<Identifier("#t")>>)>>)>>)
PersonEffects ==
    Call("effects", <<Given1("add-tag", "t"), Call("set-field", <<Quoted("f"), PersonValue>>),
                      Call("set-field", <<Quoted("f"), Call("now", <<>>)>>),
                      Given1("append-body", "b")>>)
PersonPlugin(term) == Call("plugin", <<term>>)
PersonSteel == Call("steel", <<Quoted("p"), Quoted("e"), Quoted(""), Identifier("network")>>)
PersonGrant(id) == Call("grant", <<Given1("action", id), Call("capabilities",
                       <<Identifier("network"), Identifier("create-note"), Identifier("network")>>)>>)
PersonConfig(fields) == Call("workspace-config", <<Call("schema", <<Identifier("1")>>)>> \o fields)
MCPersonTexts ==
    {PersonConfig(<<Call("actions", <<PersonAction("a", one \o two), PersonAction(id, <<>>)>>),
                    Call("capability_grants", given)>> \o more) :
        one \in {<<>>, <<PersonPredicate>>},
        two \in {<<PersonEffects>>, <<PersonPlugin(Call("tag-picker", <<>>))>>,
                 <<PersonPlugin(PersonSteel)>>},
        id \in {"a", "c"}, given \in {<<>>, <<PersonGrant("a"), PersonGrant("c")>>},
        more \in {<<>>, <<Given1("default_view", "all"), Call("query_limit", <<Identifier("2")>>)>>}}
LocalAction(id, effects, plugin) ==
    [action |-> [id |-> id, description |-> "", predicate |-> Term("always", <<>>, <<>>),
                 effects |-> effects, plugin |-> plugin],
     capabilities |-> <<Term("network", <<>>, <<>>)>>]
MCLocalActions ==
    {LocalAction("e", <<Term("add-tag", <<"t">>, <<>>)>>, <<>>),
     LocalAction("s", <<>>, <<Term("steel", <<"p", "e", "">>, <<Term("network", <<>>, <<>>)>>)>>)}
MCTitleOf == <<<<"a">>, <<"a">>, <<"a", 1>>>>

-----------------------------------------------------------------------------

ComponentsInit ==
    /\ focus \in {"projection", "presence", "access", "server", "capture", "sign-in",
                  "terminal", "config", "ui", "files", "plugin", "browser",
                  "text"}
    /\ ProjectionInit /\ (allowed = RestProjection <=> focus # "projection")
    /\ PresenceInit /\ (luck = RestPresence <=> focus # "presence")
    /\ AccessInit /\ (rest = RestAccess <=> focus # "access")
    /\ ServerInit /\ (chance = RestServer <=> focus # "server")
    /\ CaptureInit
    /\ SignInInit /\ (left = RestSignIn <=> focus # "sign-in")
    /\ TuiInit /\ (tui = RestTui <=> focus # "terminal")
    /\ (focus = "terminal" /\ tui.configs = 0) \/ \A i \in NoteIds : stored[i] # Never
    /\ views = [all |-> Everything, v |-> IF tui.configs > 0 THEN Asking({}, TRUE, Tags)
                                         ELSE Asking(Tags, FALSE, {})]
    /\ ConfigInit /\ (cfgLeft = RestConfig <=> focus # "config")
    /\ UiInit /\ (uiLeft = RestUi <=> focus # "ui")
    /\ focus = "ui" \/ (ui.view = "v" /\ ui.selected = {1})
    /\ FilesInit /\ (filesLeft = RestFiles <=> focus # "files")
    /\ focus = "files" \/ NotesThere = {}
    /\ PluginInit /\ (focus = "plugin" \/ grants = {})
    /\ ConfigTextInit /\ (focus = "text" \/ xoText = {})
    /\ BrowserSignInInit /\ (luckLeft = RestBrowser <=> focus # "browser")

ComponentsNext ==
    /\ UNCHANGED focus
    /\ IF focus = "projection" THEN ProjectionNext ELSE UNCHANGED projectionVars
    /\ IF focus = "presence" THEN PresenceNext ELSE UNCHANGED presenceVars
    /\ IF focus = "access" THEN AccessNext ELSE UNCHANGED accessVars
    /\ IF focus = "server" THEN ServerNext ELSE UNCHANGED serverVars
    /\ IF focus = "capture" THEN CaptureNext ELSE UNCHANGED captureVars
    /\ IF focus = "sign-in" THEN SignInNext ELSE UNCHANGED signInVars
    /\ IF focus = "terminal" THEN TuiNext ELSE UNCHANGED tuiVars
    /\ IF focus = "config" THEN ConfigNext ELSE UNCHANGED configVars
    /\ IF focus = "ui" THEN UiNext ELSE UNCHANGED uiVars
    /\ IF focus = "files" THEN FilesNext ELSE UNCHANGED filesVars
    /\ IF focus = "plugin" THEN PluginNext ELSE UNCHANGED pluginVars
    /\ IF focus = "browser" THEN BrowserSignInNext ELSE UNCHANGED browserSignInVars
    /\ IF focus = "text" THEN ConfigTextNext ELSE UNCHANGED textVars

\* The fairness of each component (ProjectionFairness, PresenceFairness, ServerFairness and
\* UiFairness), of the one in focus.
ComponentsFairness ==
    /\ WF_projectionVars(focus = "projection" /\ PassStep)
    /\ \A k \in Links : WF_presenceVars(focus = "presence" /\ TaskStep(k))
    /\ \A c \in Clients : WF_presenceVars(focus = "presence" /\ SessionStep(c))
    /\ WF_serverVars(focus = "server" /\ MainStep)
    /\ \A k \in Sockets : WF_serverVars(focus = "server" /\ EndStep(k))
    /\ WF_uiVars(focus = "ui" /\ WorkerStep)
    /\ WF_uiVars(focus = "ui" /\ AnswerArrives)
    /\ WF_uiVars(focus = "ui" /\ ~working /\ \E call \in calls : CallTimesOut(call))

ComponentsSpec == ComponentsInit /\ [][ComponentsNext]_componentsVars /\ ComponentsFairness
=============================================================================
