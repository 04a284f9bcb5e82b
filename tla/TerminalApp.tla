----------------------------- MODULE TerminalApp -----------------------------
(* The terminal application (xo/src/app.rs, main.rs): the list it shows, the keys that   *)
(* act on it, and the refreshes that replace it when the replica changes.               *)
(*                                                                                      *)
(* The event loop handles one key or one event at a time.  While an editor, a capture or *)
(* a plugin runs it handles nothing, but the connection goes on changing the replica.    *)
(* A note is its version and its tags; a word that is searched for counts as a tag.      *)
(* A view asks for tags, and a subview of it for the one it is named by.  Panes are left *)
(* out: the columns only choose what a key acts on.                                      *)
EXTENDS Naturals, Sequences, SequencesExt, FiniteSets

CONSTANTS
    NoteIds,     \* positive numbers: the order of the list
    Tags,        \* tags, also the subviews that ask for one
    Configurations, \* the views a configuration may have, and what each asks for
    EventRoom,   \* capacity of the replica's event channel (256 in the code)
    TuiBudget    \* bounds: keys, changes by others, faults (a set of scenarios)

ASSUME TuiAssumption ==
    /\ NoteIds \subseteq Nat \ {0} /\ IsFiniteSet(NoteIds)
    /\ EventRoom \in Nat \ {0}

\* What a view lists, whether its order falls, and its subviews; all lists everything.
View == [asks : SUBSET Tags, falls : BOOLEAN, subviews : SUBSET Tags]
Everything == [asks |-> {}, falls |-> FALSE, subviews |-> {}]

ASSUME TuiViews ==
    \A config \in Configurations : /\ config \in [DOMAIN config -> View]
                                  /\ "all" \in DOMAIN config /\ config["all"] = Everything

ASSUME TuiBounds ==
    TuiBudget \subseteq [keys : Nat, merges : Nat, configs : Nat, noise : Nat, faults : Nat,
                        made : Nat]

VARIABLES
    stored,   \* the replica: each note's newest content and whether it is deleted
    views,    \* the views of the replicated configuration, the default one (all) included
    events,   \* replica events the application has not taken
    app,      \* App: notes, bin, behavior (views), view, subview, search, tags, order, cursor, marks,
              \* mode, picked tags
    run,      \* what the event loop is in
    pickedFor,\* the notes the open tag picker was opened for; {} when a refresh lost them
    missed,   \* a change was announced and not shown: the channel overflowed or a refresh failed
    tui       \* remaining budget, and the number of versions made

tuiVars == <<stored, views, events, app, run, pickedFor, missed, tui>>

Never == [v |-> 0, tags |-> {}, live |-> FALSE]
AtKeys == run = "keys"

-----------------------------------------------------------------------------
(* App *)

\* query: the notes of the active view and subview that the search finds and that have the
\* tags.
Query(a, tags) ==
    {i \in NoteIds : /\ a.notes[i].live
                     /\ a.search \cup tags \subseteq a.notes[i].tags
                     /\ a.views[a.view].asks \cup a.subview \subseteq a.notes[i].tags}

\* visible_notes: those with all selected tags, in the chosen order.
VisibleNotes(a) ==
    LET ids == Query(a, a.narrow)
        n == Cardinality(ids)
    IN  CHOOSE list \in [1 .. n -> ids] :
            \A j, k \in 1 .. n :
                j < k => IF a.reversed # a.views[a.view].falls THEN list[j] > list[k]
                         ELSE list[j] < list[k]

Least(m, n) == IF m < n THEN m ELSE n
IndexOf(i, list) == (CHOOSE k \in 1 .. Len(list) : list[k] = i) - 1

\* selected_note: the cursor, or the last note when it is beyond; 0 when there is none.
SelectedNote(a) ==
    LET list == VisibleNotes(a)
    IN  IF list = <<>> THEN 0 ELSE list[Least(a.cursor, Len(list) - 1) + 1]

\* selected_note_ids: the marked notes, or the one under the cursor.
SelectedNoteIds(a) == IF a.marked # {} THEN a.marked ELSE {SelectedNote(a)} \ {0}

\* set_view, which takes the first subview, and set_subview.
FirstSubview(S) == IF S = {} THEN {} ELSE {CHOOSE t \in S : TRUE}
SetView(a, view) ==
    [a EXCEPT !.view = view, !.subview = FirstSubview(a.views[view].subviews), !.cursor = 0]
SetSubview(a, S) == [a EXCEPT !.subview = S, !.cursor = 0]

\* add_note: the cursor goes to the new note, if it is in the list.
AddNote(a, i, note) ==
    LET b == [a EXCEPT !.notes[i] = note]
        list == VisibleNotes(b)
    IN  [b EXCEPT !.cursor = IF Contains(list, i) THEN IndexOf(i, list) ELSE 0]

\* Filters and view are reset before a created, captured or chosen note is added.
ShowNew(a, i, note) ==
    AddNote(SetView([a EXCEPT !.search = {}, !.narrow = {}], "all"), i, note)

\* The cursor stays on its line.
Hydrate_Line(a, snapshot, bin) ==
    LET b == [a EXCEPT !.notes = snapshot, !.bin = bin]
        list == VisibleNotes(b)
    IN  [b EXCEPT !.cursor = IF list = <<>> THEN 0 ELSE Least(@, Len(list) - 1)]

\* hydrate: the snapshot replaces the notes; the cursor stays on its note, or else on its line.
Hydrate(a, snapshot, bin) ==
    LET b == [a EXCEPT !.notes = snapshot, !.bin = bin]
        list == VisibleNotes(b)
        i == SelectedNote(a)
    IN  [b EXCEPT !.cursor = IF i # 0 /\ Contains(list, i) THEN IndexOf(i, list)
                             ELSE IF list = <<>> THEN 0 ELSE Least(@, Len(list) - 1)]

-----------------------------------------------------------------------------
(* The replica and its events *)

Snapshot == [i \in NoteIds |-> IF stored[i].live THEN stored[i] ELSE Never]
DeletedNotes == {i \in NoteIds : stored[i].v > 0 /\ ~stored[i].live}

\* events.send: a full receiver loses its oldest event.
Announce(what, old) == IF Len(old) < EventRoom THEN Append(old, what) ELSE Append(Tail(old), what)
Overflows(old) == Len(old) = EventRoom /\ Head(old) = "content"

\* The replica changes: a save or delete of this program, or a merge.
Store(new) ==
    /\ stored' = new
    /\ events' = Announce("content", events)
    /\ missed' = (missed \/ Overflows(events))

Fresh(tags) == [v |-> tui.made + 1, tags |-> tags, live |-> TRUE]
Press == tui' = [tui EXCEPT !.keys = @ - 1]
PressMaking == tui' = [tui EXCEPT !.keys = @ - 1, !.made = @ + 1]

\* Another client changes, deletes or creates a note.
MergeArrives(i, tags, live) ==
    /\ tui.merges > 0 /\ (stored[i].live \/ live)
    /\ Store([stored EXCEPT ![i] = IF live THEN Fresh(tags) ELSE [@ EXCEPT !.live = FALSE]])
    /\ tui' = [tui EXCEPT !.merges = @ - 1, !.made = @ + 1]
    /\ UNCHANGED <<views, app, run, pickedFor>>

\* Another client edits the configuration.
ConfigArrives(config) ==
    /\ tui.configs > 0 /\ config # views
    /\ views' = config
    /\ Store(stored)
    /\ tui' = [tui EXCEPT !.configs = @ - 1]
    /\ UNCHANGED <<app, run, pickedFor>>

\* set_connected_clients.
PresenceArrives ==
    /\ tui.noise > 0
    /\ events' = Announce("status", events)
    /\ missed' = (missed \/ Overflows(events))
    /\ tui' = [tui EXCEPT !.noise = @ - 1]
    /\ UNCHANGED <<stored, views, app, run, pickedFor>>

-----------------------------------------------------------------------------
(* Refreshing *)

\* refresh_workspace: the new behaviour is taken first; a view that is gone gives way to the
\* default one, and a subview that is gone to none, and either puts the cursor on line one.
Refreshed(a) ==
    LET b == [a EXCEPT !.views = views]
    IN  IF a.view \notin DOMAIN views THEN SetView(b, "all")
        ELSE IF a.subview \subseteq views[a.view].subviews THEN b
        ELSE SetSubview(b, {})

\* Then the notes are taken from the replica.
Refreshing(a) ==
    /\ run' = "refresh"
    /\ app' = [Refreshed(a) EXCEPT !.snapshot = Snapshot]

\* The list of a no longer is that of b: what the cursor is on is another note now.
Listing(a) == <<a.view, a.subview, a.views[a.view]>>
LosesPick(a, b) == a.marked = {} /\ Listing(a) # Listing(b)

\* A refresh that fails leaves a message, before or after it has taken the behaviour.
TakeEvent ==
    /\ AtKeys /\ events # <<>>
    /\ events' = Tail(events)
    /\ \/ /\ Head(events) = "status"
          /\ UNCHANGED <<app, run, pickedFor, missed, tui>>
       \/ /\ Head(events) = "content"
          /\ Refreshing(app)
          /\ pickedFor' = IF LosesPick(app, Refreshed(app)) THEN {} ELSE pickedFor
          /\ UNCHANGED <<missed, tui>>
       \/ /\ Head(events) = "content" /\ tui.faults > 0
          /\ \/ UNCHANGED <<app, pickedFor>>
             \/ /\ app' = Refreshed(app)
                /\ pickedFor' = IF LosesPick(app, Refreshed(app)) THEN {} ELSE pickedFor
          /\ missed' = TRUE
          /\ tui' = [tui EXCEPT !.faults = @ - 1]
          /\ UNCHANGED run
    /\ UNCHANGED <<stored, views>>

\* The notes that were picked are not in the list any more.
NonePicked(a) == a.marked = {} /\ pickedFor \cap ToSet(VisibleNotes(a)) = {}

\* Events that came during the refresh are taken as answered by it.
EndRefresh_Drained ==
    /\ run = "refresh"
    /\ app' = [Hydrate(app, app.snapshot, DeletedNotes) EXCEPT !.snapshot = <<>>]
    /\ run' = "keys"
    /\ events' = <<>>
    /\ pickedFor' = IF NonePicked(app') THEN {} ELSE pickedFor
    /\ UNCHANGED <<stored, views, missed, tui>>

\* The deleted notes are read after the snapshot was.
EndRefresh ==
    /\ run = "refresh"
    /\ app' = [Hydrate(app, app.snapshot, DeletedNotes) EXCEPT !.snapshot = <<>>]
    /\ run' = "keys"
    /\ pickedFor' = IF NonePicked(app') THEN {} ELSE pickedFor
    /\ UNCHANGED <<stored, views, events, missed, tui>>

\* hydrate fails when the notes are already replaced: the cursor stays on its line.  A refresh
\* that a key asked for ends the program.
RefreshFails ==
    /\ run = "refresh" /\ tui.faults > 0
    /\ app' = [app EXCEPT !.notes = app.snapshot, !.snapshot = <<>>]
    /\ run' \in {"keys", "failed"}
    /\ missed' = TRUE
    /\ pickedFor' = IF app.marked = {} THEN {} ELSE pickedFor
    /\ tui' = [tui EXCEPT !.faults = @ - 1]
    /\ UNCHANGED <<stored, views, events>>

-----------------------------------------------------------------------------
(* Keys that move *)

\* A bound key, or an action picker: the picker closes before its action is dispatched.
AtCommand == AtKeys /\ tui.keys > 0 /\ app.mode \in {"normal", "panel", "clients", "actions"}
Dispatching == IF app.mode = "actions" THEN [app EXCEPT !.mode = "normal"] ELSE app

\* refresh_sync.
RefreshKey ==
    /\ AtCommand
    /\ Refreshing(Dispatching)
    /\ Press
    /\ UNCHANGED <<stored, views, events, pickedFor, missed>>

\* select_previous, select_next, toggle_sort.
CursorMoves(a) ==
    LET last == Len(VisibleNotes(a))
    IN  {[a EXCEPT !.cursor = IF @ = 0 THEN 0 ELSE @ - 1], [a EXCEPT !.reversed = ~@]}
        \cup {[a EXCEPT !.cursor = Least(@ + 1, last - 1)] : x \in {y \in {0} : last > 0}}

\* toggle_selected_note: the note is marked or unmarked and the cursor goes on.
Mark(a) ==
    LET i == SelectedNote(a)
        last == Len(VisibleNotes(a))
    IN  [a EXCEPT !.marked = (@ \ {i}) \cup ({i} \ @), !.cursor = Least(@ + 1, last - 1)]

\* available_tags: of the notes the view and the search leave, and the selected ones.
AvailableTags(a) == a.narrow \cup UNION {a.notes[i].tags : i \in Query(a, {})}

\* toggle_tag.
NarrowMoves(a) ==
    {[a EXCEPT !.narrow = (@ \ {t}) \cup ({t} \ @), !.cursor = 0] : t \in AvailableTags(a)}

\* goto_view_path and the choices of a screen: a view the configuration has, or one of its
\* subviews or none of them.
GotoMoves(a) ==
    UNION {{SetView(a, view)}
             \cup {SetSubview(SetView(a, view), S) :
                      S \in {{}} \cup {{t} : t \in a.views[view].subviews}} : view \in DOMAIN a.views}

\* cycle_subview.
SubviewMoves(a) == {SetSubview(a, {t}) : t \in a.views[a.view].subviews}

MoveKey ==
    /\ AtCommand
    /\ \/ Dispatching.mode # "clients" /\ app' \in CursorMoves(Dispatching)
       \/ app' \in NarrowMoves(Dispatching) \cup GotoMoves(Dispatching)
                       \cup SubviewMoves(Dispatching)
       \/ SelectedNote(app) # 0 /\ app' = Mark(Dispatching)
    /\ Press
    /\ UNCHANGED <<stored, views, events, run, pickedFor, missed>>

\* In the clients screen the same cursor counts clients; there are two.
ClientKey ==
    /\ AtCommand /\ app.mode = "clients"
    /\ app' \in {[app EXCEPT !.cursor = IF @ = 0 THEN 0 ELSE @ - 1],
                 [app EXCEPT !.cursor = Least(@ + 1, 1)]}
    /\ Press
    /\ UNCHANGED <<stored, views, events, run, pickedFor, missed>>

\* A mode is opened; the clients screen starts at its first line.
OpenKey ==
    /\ AtCommand
    /\ \/ \E m \in {"panel", "search", "goto", "actions", "create", "capture", "plugin"} :
             app' = [app EXCEPT !.mode = m]
       \/ app' = [app EXCEPT !.mode = "clients", !.cursor = 0]
    /\ Press
    /\ UNCHANGED <<stored, views, events, run, pickedFor, missed>>

\* Escape.  In the list, a panel and the search it is bound to clear_search; elsewhere it
\* leaves the mode and what was typed.
CancelKey ==
    /\ AtKeys /\ tui.keys > 0
    /\ app' = IF app.mode \in {"normal", "panel", "search"}
              THEN [app EXCEPT !.mode = "normal", !.search = {}, !.cursor = 0]
              ELSE [app EXCEPT !.mode = "normal"]
    /\ Press
    /\ UNCHANGED <<stored, views, events, run, pickedFor, missed>>

\* Each character of a search narrows the list at once; Enter keeps it.
SearchKey ==
    /\ AtKeys /\ app.mode = "search" /\ tui.keys > 0
    /\ \/ \E word \in {{}} \cup {{t} : t \in Tags} :
             app' = [app EXCEPT !.search = word, !.cursor = 0]
       \/ app' = [app EXCEPT !.mode = "normal"]
    /\ Press
    /\ UNCHANGED <<stored, views, events, run, pickedFor, missed>>

\* choose_goto and choose_main_view: one of the choices the screen has now, which a refresh
\* may have replaced while it was open.
GotoKey ==
    /\ AtKeys /\ app.mode = "goto" /\ tui.keys > 0
    /\ app' \in GotoMoves([app EXCEPT !.mode = "normal"])
    /\ Press
    /\ UNCHANGED <<stored, views, events, run, pickedFor, missed>>

-----------------------------------------------------------------------------
(* Keys that change notes *)

Ends(how) == /\ run' = how
             /\ UNCHANGED <<stored, events, app, missed>>

\* What the list shows was changed before it was saved: a save that fails ends the program.
SavesNote(new) ==
    \/ Store(new) /\ run' = "keys"
    \/ tui.faults > 0 /\ run' = "failed" /\ UNCHANGED <<stored, events, missed>>

\* delete_item, also from the clients screen: the replica first, then the list.  A deletion
\* that fails ends the program.
DeleteKey ==
    /\ AtCommand
    /\ LET i == SelectedNote(app)
       IN  /\ i # 0
           /\ \/ /\ Store([stored EXCEPT ![i] = [Fresh(app.notes[i].tags) EXCEPT !.live = FALSE]])
                 /\ app' = [Dispatching EXCEPT !.notes[i] = Never, !.bin = @ \cup {i},
                                               !.cursor = IF @ = 0 THEN 0 ELSE @ - 1]
                 /\ run' = run
              \/ tui.faults > 0 /\ Ends("failed")
    /\ PressMaking
    /\ UNCHANGED <<views, pickedFor>>

\* restore_item: the deleted note with the greatest identity comes back in the list, then it
\* is saved.
RestoreKey ==
    /\ AtCommand /\ app.bin # {}
    /\ LET i == CHOOSE i \in app.bin : \A j \in app.bin : j <= i
           note == Fresh(stored[i].tags)
       IN  /\ app' = [Dispatching EXCEPT !.notes[i] = note, !.bin = @ \ {i}]
           /\ SavesNote([stored EXCEPT ![i] = note])
    /\ PressMaking
    /\ UNCHANGED <<views, pickedFor>>

\* An effect adds or removes a tag, or changes something else of the note.
Effects(tags) == {tags} \cup UNION {{tags \cup {t}, tags \ {t}} : t \in Tags}

\* run_action: the effects of an action change the note under the cursor in the list, then
\* it is saved.  An action that the note does not allow leaves a message.
ItemActionKey ==
    /\ AtCommand
    /\ LET i == SelectedNote(app)
       IN  /\ i # 0
           /\ \E tags \in Effects(app.notes[i].tags) :
                 /\ app' = [Dispatching EXCEPT !.notes[i] = Fresh(tags)]
                 /\ SavesNote([stored EXCEPT ![i] = Fresh(tags)])
    /\ PressMaking
    /\ UNCHANGED <<views, pickedFor>>

\* edit_item without a note ends the program; with one the editor has the terminal.
EditKey ==
    /\ AtCommand
    /\ run' = IF SelectedNote(app) = 0 THEN "failed" ELSE "editor"
    /\ app' = Dispatching
    /\ Press
    /\ UNCHANGED <<stored, views, events, pickedFor, missed>>

\* edit_note: the note is replaced in the list and saved, over whatever was merged while
\* the editor ran.  An editor that fails, a document that cannot be parsed and a save that
\* fails end the program.
EditorCloses ==
    /\ run = "editor"
    /\ \/ \E tags \in SUBSET Tags :
             LET i == SelectedNote(app)
                 note == Fresh(tags)
             IN  /\ Store([stored EXCEPT ![i] = note])
                 /\ app' = [app EXCEPT !.notes[i] = note]
                 /\ run' = "keys"
                 /\ tui' = [tui EXCEPT !.made = @ + 1]
       \/ /\ Ends("failed")
          /\ UNCHANGED tui
    /\ UNCHANGED <<views, pickedFor>>

-----------------------------------------------------------------------------
(* Notes that are created, captured or made by a plugin *)

\* Enter in a prompt with something in it: the editor, the capture or the plugin starts.
EnterKey ==
    /\ AtKeys /\ app.mode \in {"create", "capture", "plugin"} /\ tui.keys > 0
    /\ run' = app.mode
    /\ app' = [app EXCEPT !.mode = "normal"]
    /\ Press
    /\ UNCHANGED <<stored, views, events, pickedFor, missed>>

\* A new note is saved and shown in the list.
Comes(i, note) ==
    /\ stored[i].v = 0
    /\ Store([stored EXCEPT ![i] = note])
    /\ app' = [ShowNew(app, i, note) EXCEPT !.mode = "normal"]
    /\ run' = "keys"
    /\ tui' = [tui EXCEPT !.made = @ + 1]

\* create_note and create_encrypted_note: a failure ends the program.
CreateEnds ==
    /\ run = "create"
    /\ \/ \E i \in NoteIds, tags \in SUBSET Tags : Comes(i, Fresh(tags))
       \/ Ends("failed") /\ UNCHANGED tui
    /\ UNCHANGED <<views, pickedFor>>

\* capture_url: a failure leaves a message.
CapturePromptEnds ==
    /\ run = "capture"
    /\ \/ \E i \in NoteIds, tags \in SUBSET Tags : Comes(i, Fresh(tags))
       \/ Ends("keys") /\ UNCHANGED tui
    /\ UNCHANGED <<views, pickedFor>>

\* A plugin that fails leaves a message.  What a plugin that succeeds asked for is saved one
\* after the other (apply_plugin_operations): updates of notes of the list, and a new note,
\* which is added without resetting the filters; an operation that fails ends the program.
\* Then its choices are offered, if it has any.
PluginEnds(done, tags) ==
    /\ run = "plugin"
    /\ \A i \in done : app.notes[i].live \/ stored[i].v = 0
    /\ LET new == {i \in done : stored[i].v = 0}
           Put(notes) == [i \in NoteIds |-> IF i \in done THEN Fresh(tags) ELSE notes[i]]
           updated == [app EXCEPT !.notes = Put(@)]
       IN  /\ Cardinality(new) <= 1
           /\ IF done = {} THEN UNCHANGED <<stored, events, missed>> ELSE Store(Put(stored))
           /\ \E m \in {"normal", "results"} :
                 app' = [(IF new = {} THEN updated
                          ELSE AddNote(updated, CHOOSE i \in new : TRUE, Fresh(tags)))
                            EXCEPT !.mode = m]
    /\ run' \in {"keys", "failed"}
    /\ tui' = [tui EXCEPT !.made = @ + 1]
    /\ UNCHANGED <<views, pickedFor>>

\* add_plugin_result: one of the plugin's choices becomes a note.
AddPluginResult ==
    /\ AtKeys /\ app.mode = "results" /\ tui.keys > 0
    /\ \/ /\ \E i \in NoteIds, tags \in SUBSET Tags :
                /\ stored[i].v = 0
                /\ Store([stored EXCEPT ![i] = Fresh(tags)])
                /\ app' = [ShowNew(app, i, Fresh(tags)) EXCEPT !.mode = "normal"]
          /\ run' = "keys"
       \/ tui.faults > 0 /\ Ends("failed")
    /\ PressMaking
    /\ UNCHANGED <<views, pickedFor>>

-----------------------------------------------------------------------------
(* The tag picker *)

\* The tag picker action: it starts from all tags of the selected notes.  A picker of actions
\* opens it only when there is one; a bound key always does.
OpenTagPicker ==
    /\ AtCommand
    /\ LET ids == SelectedNoteIds(app)
       IN  IF app.mode = "actions" /\ ids = {}
           THEN app' = Dispatching /\ pickedFor' = pickedFor
           ELSE /\ app' = [app EXCEPT !.mode = "tags",
                              !.picked = UNION {app.notes[i].tags : i \in ids}]
                /\ pickedFor' = ids
    /\ Press
    /\ UNCHANGED <<stored, views, events, run, missed>>

ToggleTag(t) ==
    /\ AtKeys /\ app.mode = "tags" /\ tui.keys > 0
    /\ app' = [app EXCEPT !.picked = (@ \ {t}) \cup ({t} \ @)]
    /\ Press
    /\ UNCHANGED <<stored, views, events, run, pickedFor, missed>>

\* apply_tag_picker: the notes selected now get the picked tags and are saved one after the
\* other; a save that fails ends the program.
ApplyTags ==
    /\ AtKeys /\ app.mode = "tags" /\ tui.keys > 0
    /\ LET ids == {i \in SelectedNoteIds(app) : app.notes[i].live}
           new == Fresh(app.picked)
           Tagged(notes, done) == [i \in NoteIds |-> IF i \in done THEN new ELSE notes[i]]
       IN  /\ \/ /\ Store(Tagged(stored, ids))
                 /\ run' = run
              \/ \E done \in (SUBSET ids) \ {ids} :
                    /\ tui.faults > 0
                    /\ Store(Tagged(stored, done))
                    /\ run' = "failed"
           /\ app' = [app EXCEPT !.notes = Tagged(@, ids), !.marked = {}, !.mode = "normal",
                                 !.picked = {}]
    /\ pickedFor' = {}
    /\ PressMaking
    /\ UNCHANGED views

\* quit does nothing in the clients screen.
QuitKey ==
    /\ AtCommand /\ app.mode # "clients"
    /\ Ends("quit")
    /\ Press
    /\ UNCHANGED <<views, pickedFor>>

TuiInit ==
    /\ \E young \in SUBSET {CHOOSE i \in NoteIds : \A j \in NoteIds : i <= j} :
          stored = [i \in NoteIds |-> IF i \in young THEN Never
                                     ELSE [v |-> 1, tags |-> {}, live |-> TRUE]]
    /\ views \in Configurations
    /\ events = <<>>
    /\ app = [notes |-> Snapshot, bin |-> {}, views |-> views, view |-> "all",
              subview |-> {}, search |-> {}, narrow |-> {}, reversed |-> FALSE, cursor |-> 0,
              marked |-> {}, mode |-> "normal",
              picked |-> {}, snapshot |-> <<>>]
    /\ run = "keys" /\ pickedFor = {} /\ missed = FALSE
    /\ tui \in TuiBudget

TuiNext ==
    \/ \E i \in NoteIds, tags \in SUBSET Tags, live \in BOOLEAN : MergeArrives(i, tags, live)
    \/ \E config \in Configurations : ConfigArrives(config)
    \/ PresenceArrives \/ TakeEvent \/ RefreshKey \/ EndRefresh \/ RefreshFails
    \/ MoveKey \/ OpenKey \/ CancelKey \/ SearchKey \/ GotoKey \/ ClientKey
    \/ ItemActionKey \/ DeleteKey \/ RestoreKey \/ EditKey \/ EditorCloses
    \/ EnterKey \/ CreateEnds \/ CapturePromptEnds \/ AddPluginResult
    \/ \E done \in SUBSET NoteIds, tags \in SUBSET Tags : PluginEnds(done, tags)
    \/ OpenTagPicker \/ (\E t \in Tags : ToggleTag(t)) \/ ApplyTags \/ QuitKey

TuiSpec == TuiInit /\ [][TuiNext]_tuiVars

-----------------------------------------------------------------------------
(* Properties *)

NoteContent == [v : 0 .. tui.made + 1, tags : SUBSET Tags, live : BOOLEAN]

TuiTypeOK ==
    /\ stored \in [NoteIds -> NoteContent]
    /\ views \in Configurations
    /\ events \in Seq({"content", "status"}) /\ Len(events) <= EventRoom
    /\ app.notes \in [NoteIds -> NoteContent] /\ app.bin \subseteq NoteIds
    /\ app.cursor \in Nat /\ app.marked \subseteq NoteIds /\ app.narrow \subseteq Tags
    /\ app.views \in Configurations /\ app.view \in DOMAIN app.views
    /\ app.subview \subseteq app.views[app.view].subviews /\ app.search \subseteq Tags
    /\ app.mode \in {"normal", "panel", "clients", "search", "goto", "actions", "tags", "create",
                     "capture", "plugin", "results"}
    /\ run \in {"keys", "refresh", "editor", "create", "capture", "plugin", "quit", "failed"}

\* When the loop waits for a key and no change is announced, the list is the replica's:
\* changes merged during a refresh, an editor or a plugin are not missed, and a change made
\* in the list was saved (main.rs:420-445, 343-376).
ListIsCurrent ==
    AtKeys /\ ~missed /\ ~Contains(events, "content") => app.notes = Snapshot

\* The tag picker changes the notes it was opened for, whatever was merged while it was open.
\* Marked notes it always finds.  A note under the cursor it loses to a refresh that finds its
\* view or subview gone or its view defined otherwise, that leaves it out of the list, or that
\* fails half way: then the note that has come under the cursor is changed
\* (main.rs:344-398, app.rs:187-272).
TagsReachPicked ==
    [][ \A i \in NoteIds :
          app.mode = "tags" /\ app'.mode = "normal" /\ app.notes[i] # app'.notes[i]
              => i \in pickedFor \/ (pickedFor = {} /\ app.marked = {}) ]_tuiVars
=============================================================================
