------------------------------ MODULE BrowserUi ------------------------------
(* The page of the browser client (web/src: main.tsx, workspace-ui.tsx) and the calls it *)
(* makes of its worker (runtime.ts, and the request queue of runtime.worker.ts).         *)
(*                                                                                       *)
(* A call is answered, or given up after two minutes, or rejected when the worker fails; *)
(* the answer of a call given up is dropped.  A state change and the effect it runs are  *)
(* one step.  A note is the view it belongs to; a query is for a view, the search and    *)
(* the tags included.  What the worker stores is BrowserWorker's.                        *)
EXTENDS Naturals, Sequences, SequencesExt, FiniteSets

CONSTANTS
    UiNotes,     \* the notes
    Views,     \* the views of the workspace
    UiBudget   \* bounds: what the person does, changes from the server, faults (a set)

NoView == "none"

ASSUME UiAssumption == NoView \notin Views /\ Views # {}

VARIABLES
    ui,       \* the page: view, report, rows, selection, pane, editor, saving
    calls,    \* pending: the calls not answered or given up
    lastCall, \* number of the last call
    toWorker, \* requests posted and not taken
    jobs,     \* requestQueue: requests the worker handles one after the other
    working,    \* the worker runs
    replica,  \* the worker's notes, and how often they changed
    answers,  \* answers posted and not taken
    uiLeft    \* remaining budget

uiVars == <<ui, calls, lastCall, toWorker, jobs, working, replica, answers, uiLeft>>

-----------------------------------------------------------------------------
(* Calls: runtime.ts *)

NewCall(id, method, arg) == [id |-> id, method |-> method, arg |-> arg]

\* #call, one or two of them.
Post(requests) ==
    /\ calls' = calls \cup ToSet(requests)
    /\ toWorker' = toWorker \o requests
    /\ lastCall' = lastCall + Len(requests)

\* The query effect: rows of the previous query go, and the new one replaces it.
Querying(page) == [page EXCEPT !.rows = {}, !.query = lastCall + 1, !.loading = TRUE]

\* A new state of the page: a change of what is asked, or of the entries reported, queries.
Shows(page) ==
    IF page.view # ui.view \/ page.report # ui.report
    THEN /\ ui' = Querying(page)
         /\ Post(<<NewCall(lastCall + 1, "query", page.view)>>)
    ELSE /\ ui' = page
         /\ UNCHANGED <<lastCall, toWorker, calls>>

-----------------------------------------------------------------------------
(* What the person does: workspace-ui.tsx *)

Acts == /\ uiLeft.acts > 0
        /\ uiLeft' = [uiLeft EXCEPT !.acts = @ - 1]
        /\ UNCHANGED <<jobs, working, replica, answers>>

\* chooseView, from the menu, which stays beside an open editor.
ChooseView(view) ==
    /\ Acts /\ view # ui.view
    /\ Shows([ui EXCEPT !.view = view, !.pane = "items"])

SelectNote(i) ==
    /\ Acts /\ ~ui.editing /\ \E rows \in ui.rows : i \in rows.notes
    /\ Shows([ui EXCEPT !.selected = {i}, !.pane = "detail"])

\* startCreate, also in place of the draft being written; startEdit of the note in the detail.
StartEditing ==
    /\ Acts
    /\ \/ Shows([ui EXCEPT !.editing = TRUE, !.editingId = {}])
       \/ /\ ~ui.editing /\ ui.pane = "detail"
          /\ \E rows \in ui.rows : ui.selected \subseteq rows.notes
          /\ Shows([ui EXCEPT !.editing = TRUE, !.editingId = ui.selected])

CancelEditing ==
    /\ Acts /\ ui.editing
    /\ Shows([ui EXCEPT !.editing = FALSE])

\* saveDraft: the editor closes first, whatever becomes of the save.
SaveDraft ==
    /\ Acts /\ ui.editing
    /\ ui' = [ui EXCEPT !.editing = FALSE, !.pane = "items", !.saving = @ \cup {lastCall + 1}]
    /\ Post(<<NewCall(lastCall + 1, "save", ui.editingId)>>)

RemoveNote ==
    /\ Acts /\ ~ui.editing /\ ui.pane = "detail" /\ ui.selected # {}
    /\ \E rows \in ui.rows : ui.selected \subseteq rows.notes
    /\ ui' = ui
    /\ Post(<<NewCall(lastCall + 1, "delete", ui.selected)>>)

\* Every five seconds, one refresh at a time.
RefreshTick ==
    /\ \A call \in calls : call.method # "refresh"
    /\ uiLeft.ticks > 0
    /\ uiLeft' = [uiLeft EXCEPT !.ticks = @ - 1]
    /\ ui' = ui
    /\ Post(<<NewCall(lastCall + 1, "refresh", {})>>)
    /\ UNCHANGED <<jobs, working, replica, answers>>

-----------------------------------------------------------------------------
(* The worker's queue *)

Answer(id, ok, report, notes) == Append(answers, [id |-> id, ok |-> ok, report |-> report,
                                                  notes |-> notes])

NotesIn(view) == {i \in UiNotes : replica.notes[i] = view}

\* Queries are answered at once; other requests are queued.
WorkerTakes ==
    /\ working /\ toWorker # <<>>
    /\ toWorker' = Tail(toWorker)
    /\ LET request == Head(toWorker)
       IN  IF request.method = "query"
           THEN /\ answers' = Answer(request.id, TRUE, replica.v, NotesIn(request.arg))
                /\ UNCHANGED jobs
           ELSE /\ jobs' = Append(jobs, request)
                /\ UNCHANGED answers
    /\ UNCHANGED <<ui, calls, lastCall, working, replica, uiLeft>>

\* mutateNote: the replica changes in memory, then it is persisted.
JobStarts ==
    /\ working /\ jobs # <<>> /\ Head(jobs).method \in {"save", "delete"}
    /\ \E i \in IF Head(jobs).arg = {} THEN {j \in UiNotes : replica.notes[j] = NoView}
                ELSE Head(jobs).arg :
         \E view \in IF Head(jobs).method = "save" THEN Views ELSE {NoView} :
            /\ replica' = [v |-> replica.v + 1, notes |-> [replica.notes EXCEPT ![i] = view]]
            /\ jobs' = [jobs EXCEPT ![1] = [@ EXCEPT !.method = "stored", !.arg = {i}]]
    /\ UNCHANGED <<ui, calls, lastCall, toWorker, working, answers, uiLeft>>

\* The report is made when the request ends; a persist that fails is an error.
JobEnds ==
    /\ working /\ jobs # <<>> /\ Head(jobs).method \in {"stored", "refresh"}
    /\ jobs' = Tail(jobs)
    /\ \/ /\ answers' = Answer(Head(jobs).id, TRUE, replica.v, Head(jobs).arg)
          /\ UNCHANGED uiLeft
       \/ /\ uiLeft.faults > 0 /\ Head(jobs).method = "stored"
          /\ answers' = Answer(Head(jobs).id, FALSE, 0, {})
          /\ uiLeft' = [uiLeft EXCEPT !.faults = @ - 1]
    /\ UNCHANGED <<ui, calls, lastCall, toWorker, working, replica>>

\* A draft that is no Markdown document is an error.
JobRefused ==
    /\ working /\ jobs # <<>> /\ Head(jobs).method = "save"
    /\ jobs' = Tail(jobs)
    /\ answers' = Answer(Head(jobs).id, FALSE, 0, {})
    /\ UNCHANGED <<ui, calls, lastCall, toWorker, working, replica, uiLeft>>

\* The server's changes are merged.
Merged(i, view) ==
    /\ working /\ uiLeft.merges > 0 /\ replica.notes[i] # view
    /\ replica' = [v |-> replica.v + 1, notes |-> [replica.notes EXCEPT ![i] = view]]
    /\ uiLeft' = [uiLeft EXCEPT !.merges = @ - 1]
    /\ UNCHANGED <<ui, calls, lastCall, toWorker, jobs, working, answers>>

-----------------------------------------------------------------------------
(* Answers *)

\* The selection stays when it is among the rows, or goes to the first of them.
ShowRows(page, call, answer) ==
    [page EXCEPT !.rows = {[of |-> call.arg, at |-> answer.report, notes |-> answer.notes]},
                 !.loading = FALSE,
                 !.selected = IF @ # {} /\ @ \subseteq answer.notes THEN @
                              ELSE IF answer.notes = {} THEN {} ELSE {CHOOSE i \in answer.notes : TRUE}]

\* Rows are shown although another query was made since.
QueryAnswered_Late(call, answer) ==
    IF answer.ok THEN ShowRows(ui, call, answer) ELSE [ui EXCEPT !.loading = FALSE]

\* The answer of a query that was replaced (active is false) is not shown.
QueryAnswered(call, answer) ==
    IF ui.query # call.id THEN ui
    ELSE IF answer.ok THEN ShowRows(ui, call, answer) ELSE [ui EXCEPT !.loading = FALSE]

\* A mutation that failed leaves the page saving.
MutationAnswered_Saving(call, answer) ==
    IF ~answer.ok THEN ui
    ELSE [ui EXCEPT !.saving = @ \ {call.id},
                    !.report = answer.report,
                    !.selected = IF call.method = "save" THEN answer.notes ELSE @,
                    !.pane = IF call.method = "delete" THEN "items" ELSE @]

\* runWorkspace and saveDraft: the report is shown, and the note saved selected.
MutationAnswered(call, answer) ==
    LET page == [ui EXCEPT !.saving = @ \ {call.id}]
    IN  IF ~answer.ok THEN page
        ELSE [page EXCEPT !.report = answer.report,
                          !.selected = IF call.method = "save" THEN answer.notes ELSE @,
                          !.pane = IF call.method = "delete" THEN "items" ELSE @]

Settled(call, answer) ==
    CASE call.method = "query" -> QueryAnswered(call, answer)
      [] call.method = "refresh" -> IF answer.ok THEN [ui EXCEPT !.report = answer.report] ELSE ui
      [] OTHER -> MutationAnswered(call, answer)

Unanswered(call) == Settled(call, [id |-> call.id, ok |-> FALSE, report |-> 0, notes |-> {}])

\* An answer settles its call.  Without one, the call was given up, and it is dropped.
AnswerArrives ==
    /\ answers # <<>>
    /\ answers' = Tail(answers)
    /\ LET answer == Head(answers)
           call == {c \in calls : c.id = answer.id}
           page == Settled(CHOOSE c \in call : TRUE, answer)
       IN  IF call = {} THEN UNCHANGED <<ui, calls, lastCall, toWorker>>
           ELSE IF page.report # ui.report
           THEN LET query == NewCall(lastCall + 1, "query", page.view)
                IN  /\ ui' = Querying(page)
                    /\ calls' = (calls \ call) \cup {query}
                    /\ toWorker' = Append(toWorker, query)
                    /\ lastCall' = lastCall + 1
           ELSE /\ ui' = page
                /\ calls' = calls \ call
                /\ UNCHANGED <<lastCall, toWorker>>
    /\ UNCHANGED <<jobs, working, replica, uiLeft>>

\* After two minutes, however far the worker is: it may answer later, or never.
CallTimesOut(call) ==
    /\ call \in calls
    /\ ~working \/ uiLeft.faults > 0
    /\ calls' = calls \ {call}
    /\ ui' = Unanswered(call)
    /\ uiLeft' = [uiLeft EXCEPT !.faults = IF working THEN @ - 1 ELSE @]
    /\ UNCHANGED <<lastCall, toWorker, jobs, working, replica, answers>>

\* The error event: every call is rejected.  The worker may go on, or be gone.
WorkerFails ==
    /\ working /\ uiLeft.faults > 0
    /\ working' \in BOOLEAN
    /\ ui' = [ui EXCEPT !.saving = {},
                        !.loading = @ /\ \A call \in calls : call.id # ui.query]
    /\ calls' = {}
    /\ uiLeft' = [uiLeft EXCEPT !.faults = @ - 1]
    /\ UNCHANGED <<lastCall, toWorker, jobs, replica, answers>>

-----------------------------------------------------------------------------

\* The page after its first report and query, with one note in the view shown.
UiInit ==
    /\ \E view \in Views, i \in UiNotes :
         /\ replica = [v |-> 0, notes |-> [j \in UiNotes |-> IF j = i THEN view ELSE NoView]]
         /\ ui = [view |-> view, report |-> 0, query |-> 0, loading |-> FALSE,
                  rows |-> {[of |-> view, at |-> 0, notes |-> {i}]}, selected |-> {i},
                  pane |-> "items", editing |-> FALSE, editingId |-> {}, saving |-> {}]
    /\ calls = {} /\ toWorker = <<>> /\ lastCall = 0
    /\ jobs = <<>> /\ working = TRUE /\ answers = <<>>
    /\ uiLeft \in UiBudget

WorkerStep == WorkerTakes \/ JobStarts \/ JobEnds \/ JobRefused

UiNext ==
    \/ (\E view \in Views : ChooseView(view)) \/ (\E i \in UiNotes : SelectNote(i))
    \/ StartEditing \/ CancelEditing \/ SaveDraft \/ RemoveNote \/ RefreshTick
    \/ WorkerTakes \/ JobStarts \/ JobEnds \/ JobRefused
    \/ \E i \in UiNotes, view \in Views \cup {NoView} : Merged(i, view)
    \/ AnswerArrives \/ (\E call \in calls : CallTimesOut(call)) \/ WorkerFails

UiSpec == UiInit /\ [][UiNext]_uiVars

\* Messages are delivered and requests end; the timer of a call nobody answers fires.
UiFairness ==
    /\ WF_uiVars(WorkerStep)
    /\ WF_uiVars(AnswerArrives)
    /\ WF_uiVars(~working /\ \E call \in calls : CallTimesOut(call))

-----------------------------------------------------------------------------
(* Properties *)

UiTypeOK ==
    /\ ui.view \in Views /\ ui.pane \in {"items", "detail"}
    /\ ui.selected \subseteq UiNotes /\ Cardinality(ui.selected) <= 1
    /\ ui.saving \subseteq 1 .. lastCall
    /\ \A call \in calls : call.id \in 1 .. lastCall
    /\ replica.notes \in [UiNotes -> Views \cup {NoView}]

\* Rows are shown only under the view they were asked for, and are never older than the
\* report beside them, however late the answer of an earlier query comes and whatever was
\* merged in between (workspace-ui.tsx:139-166).
RowsAnswerView ==
    \A rows \in ui.rows : rows.of = ui.view /\ rows.at >= ui.report

\* A page that is loading rows or saving a note ends doing so: the worker answers, fails, or
\* is given up (runtime.ts:25-35, 78-96).
PageSettles == (ui.loading \/ ui.saving # {}) ~> (~ui.loading /\ ui.saving = {})
=============================================================================
